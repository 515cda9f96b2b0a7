---------------------------- MODULE ConfigItems -----------------------------
(***************************************************************************)
(* Configuration items, internal/domain/configuration.go: the difference   *)
(* of two item lists that an administrator is shown (Compare), and the     *)
(* canonical content whose checksum decides whether a draft may be         *)
(* published (CanonicalJSON).                                              *)
(*                                                                         *)
(* Compare ranges over two Go maps, in an order that the language leaves   *)
(* open: each iteration is a step, and the next key is any that is left.   *)
(***************************************************************************)
EXTENDS Integers, Sequences, FiniteSets, Functions

CONSTANTS
  Key,          \* configuration keys, as numbers in their order
  Value,        \* <<type, text>> pairs that ValidateItem accepts
  Typed(_),     \* TypedValue: what json.Marshal is given for such a pair
  Description   \* descriptions

ASSUME KeyAssumption == Key \subseteq Int

\* A list without duplicates, which itemMap turns into a map with no loss.
Item == [value: Value, description: Description, sensitive: BOOLEAN]
ItemList == UNION {[keys -> Item] : keys \in SUBSET Key}

\* The text is replaced, the type is kept.
Masked(value) == <<value[1], "******">>

\* An entry of a Diff.
Entry == [key: Key, value: Value \cup {Masked(v) : v \in Value},
          description: Description, sensitive: BOOLEAN]

VARIABLES
  released,                  \* the environment has a release
  left, right,               \* itemMap of current and of candidate
  todo,                      \* keys the loop has still to visit
  phase,                     \* "right", "left", "sort" or "done"
  added, modified, deleted   \* the Diff

vars == <<released, left, right, todo, phase, added, modified, deleted>>

Diff == <<added, modified, deleted>>

TypeOK ==
  /\ released \in BOOLEAN
  /\ left \in ItemList /\ right \in ItemList
  /\ todo \subseteq Key
  /\ phase \in {"right", "left", "sort", "done"}
  /\ \A d \in {added, modified, deleted} : d \in Seq(Entry)

\* DiffDraft compares the draft with no items at all until there is a release.
Init ==
  /\ released \in BOOLEAN
  /\ left \in ItemList /\ right \in ItemList
  /\ ~released => DOMAIN left = {}
  /\ todo = DOMAIN right
  /\ phase = "right"
  /\ added = <<>> /\ modified = <<>> /\ deleted = <<>>

-----------------------------------------------------------------------------
(* CanonicalJSON: the checksum stands for the content it is computed from. *)

\* Mutation: a description is content as well.
WithDescription(list) ==
  [k \in DOMAIN list |-> <<Typed(list[k].value), list[k].description>>]

Checksum(list) == [k \in DOMAIN list |-> Typed(list[k].value)]

\* Publish refuses a draft whose checksum is the current release's, if there is one.
Publishable == released => Checksum(left) # Checksum(right)

-----------------------------------------------------------------------------
(* Compare                                                                 *)

\* The entry of item, with its text or without.
EntryOf(k, item, hidden) ==
  [key |-> k, value |-> IF hidden THEN Masked(item.value) ELSE item.value,
   description |-> item.description, sensitive |-> item.sensitive]

\* Mutation: a text is hidden when the item that is replaced was sensitive.
MaskAsBefore(k, item) ==
  EntryOf(k, item, IF k \in DOMAIN left THEN left[k].sensitive ELSE item.sensitive)

\* No caller asks to reveal sensitive values.
Mask(k, item) == EntryOf(k, item, item.sensitive)

\* Mutation: only the text is compared, not the type.
TextChanged(k) ==
  \/ left[k].value[2] # right[k].value[2]
  \/ left[k].sensitive # right[k].sensitive

Changed(k) ==
  \/ left[k].value # right[k].value
  \/ left[k].sensitive # right[k].sensitive

VisitRight(k) ==
  /\ phase = "right" /\ k \in todo
  /\ todo' = todo \ {k}
  /\ \/ /\ k \notin DOMAIN left
        /\ added' = Append(added, Mask(k, right[k]))
        /\ UNCHANGED modified
     \/ /\ k \in DOMAIN left /\ Changed(k)
        /\ modified' = Append(modified, Mask(k, right[k]))
        /\ UNCHANGED added
     \/ /\ k \in DOMAIN left /\ ~Changed(k)
        /\ UNCHANGED <<added, modified>>
  /\ UNCHANGED <<released, left, right, phase, deleted>>

RightDone ==
  /\ phase = "right" /\ todo = {}
  /\ phase' = "left" /\ todo' = DOMAIN left
  /\ UNCHANGED <<released, left, right, added, modified, deleted>>

VisitLeft(k) ==
  /\ phase = "left" /\ k \in todo
  /\ todo' = todo \ {k}
  /\ deleted' = IF k \in DOMAIN right THEN deleted ELSE Append(deleted, Mask(k, left[k]))
  /\ UNCHANGED <<released, left, right, phase, added, modified>>

LeftDone ==
  /\ phase = "left" /\ todo = {}
  /\ phase' = "sort"
  /\ UNCHANGED <<released, left, right, todo, added, modified, deleted>>

\* Mutation: a diff is returned in the order of the map.
Unsorted(entries) == {entries}

\* sort.Slice is not stable: any arrangement in the order of the keys.
SortItems(entries) ==
  LET places == DOMAIN entries
      orders == {p \in Bijection(places, places) :
                   \A i, j \in places : i < j => entries[p[i]].key <= entries[p[j]].key}
  IN  {[i \in places |-> entries[p[i]]] : p \in orders}

Sort ==
  /\ phase = "sort"
  /\ phase' = "done"
  /\ added' \in SortItems(added)
  /\ modified' \in SortItems(modified)
  /\ deleted' \in SortItems(deleted)
  /\ UNCHANGED <<released, left, right, todo>>

Next ==
  \/ \E k \in Key : VisitRight(k) \/ VisitLeft(k)
  \/ RightDone \/ LeftDone \/ Sort

Spec == Init /\ [][Next]_vars

-----------------------------------------------------------------------------
(* Safety.                                                                 *)

Done == phase = "done"

KeysOf(entries) == {entries[i].key : i \in DOMAIN entries}

Ascending(entries) ==
  \A i, j \in DOMAIN entries : i < j => entries[i].key < entries[j].key

\* The result does not depend on the order of the maps: each part is in the
\* order of its keys, and a key is in one part at most.
DiffOrdered ==
  Done => /\ Ascending(added) /\ Ascending(modified) /\ Ascending(deleted)
          /\ Cardinality(KeysOf(added) \cup KeysOf(modified) \cup KeysOf(deleted))
               = Len(added) + Len(modified) + Len(deleted)

\* What the diff tells of a key: the value and the flag it ends with.
Told(k, value, sensitive) ==
  \E i \in DOMAIN (added \o modified) :
    LET entry == (added \o modified)[i] IN
    entry.key = k /\ entry.value = value /\ entry.sensitive = sensitive

\* The diff is enough to turn the current list into the candidate, apart from
\* descriptions and from the values it must not show.
DiffRebuilds ==
  Done =>
    /\ DOMAIN right = (DOMAIN left \ KeysOf(deleted)) \cup KeysOf(added)
    /\ \A k \in DOMAIN right :
         LET shown == IF right[k].sensitive THEN Masked(right[k].value) ELSE right[k].value IN
         IF k \in KeysOf(added) \cup KeysOf(modified)
         THEN Told(k, shown, right[k].sensitive)
         ELSE left[k].value = right[k].value /\ left[k].sensitive = right[k].sensitive

\* The text of an item that is sensitive on the side it is taken from is never
\* in a diff.
SensitiveMasked ==
  \A i \in DOMAIN (added \o modified \o deleted) :
    LET entry == (added \o modified \o deleted)[i] IN
    entry.sensitive => entry.value = Masked(entry.value)

\* When the administrator is shown no difference there is nothing to publish, but
\* for an empty draft that becomes the first release.
NoDiffNothingToPublish ==
  Done /\ Diff = <<<<>>, <<>>, <<>>>> =>
    IF released THEN ~Publishable ELSE DOMAIN right = {}

\* "draft has no published changes" is what Publish answers to a draft without
\* differences: a draft with some can be published.
DiffCanBePublished == Done /\ Diff # <<<<>>, <<>>, <<>>>> => Publishable
=============================================================================
