------------------------- MODULE ConfigItemsProofs --------------------------
(***************************************************************************)
(* Proofs about ConfigItems, for lists of any length over any keys,        *)
(* values and descriptions: whatever order the maps of Compare are visited *)
(* in, the diff is the same, complete, masked, and not empty when there is *)
(* something to publish.                                                   *)
(***************************************************************************)
EXTENDS ConfigItems, SequenceTheorems, FiniteSetTheorems, WellFoundedInduction, TLAPS

-----------------------------------------------------------------------------
(* A part of the diff names each of its keys once.                         *)

Distinct(entries) ==
  \A i, j \in DOMAIN entries : entries[i].key = entries[j].key => i = j

\* entries are those of the given keys of list, each once, as Mask shows them.
Lists(entries, keys, list) ==
  /\ entries \in Seq(Entry)
  /\ KeysOf(entries) = keys
  /\ \A i \in DOMAIN entries : entries[i] = Mask(entries[i].key, list[entries[i].key])
  /\ Distinct(entries)

LEMMA MaskTyped ==
  ASSUME NEW list \in ItemList, NEW k \in DOMAIN list
  PROVE  /\ k \in Key /\ list[k] \in Item
         /\ Mask(k, list[k]) \in Entry /\ Mask(k, list[k]).key = k
         /\ Mask(k, list[k]).sensitive = list[k].sensitive
         /\ Mask(k, list[k]).value =
              IF list[k].sensitive THEN Masked(list[k].value) ELSE list[k].value
PROOF
  <1>1. k \in Key /\ list[k] \in Item
    BY DEF ItemList
  <1>2. list[k].value \in Value /\ list[k].description \in Description
        /\ list[k].sensitive \in BOOLEAN
    BY <1>1 DEF Item
  <1> DEFINE shown == IF list[k].sensitive THEN Masked(list[k].value) ELSE list[k].value
  <1>3. shown \in Value \cup {Masked(v) : v \in Value}
    BY <1>2
  <1>4. Mask(k, list[k]) = [key |-> k, value |-> shown, description |-> list[k].description,
                            sensitive |-> list[k].sensitive]
    BY DEF Mask, EntryOf
  <1> HIDE DEF shown
  <1>5. Mask(k, list[k]) \in Entry
    BY <1>1, <1>2, <1>3, <1>4 DEF Entry
  <1>6. Mask(k, list[k]).value = shown
    BY <1>4
  <1> QED BY <1>1, <1>4, <1>5, <1>6 DEF shown

LEMMA ListsEmpty ==
  ASSUME NEW list
  PROVE  Lists(<<>>, {}, list)
PROOF
  <1>1. <<>> \in Seq(Entry) /\ DOMAIN <<>> = {}
    BY EmptySeq
  <1> QED BY <1>1 DEF Lists, KeysOf, Distinct

\* An iteration of a loop adds the entry of its key.
LEMMA ListsAppend ==
  ASSUME NEW list \in ItemList, NEW k \in DOMAIN list,
         NEW keys, k \notin keys, NEW entries, Lists(entries, keys, list)
  PROVE  Lists(Append(entries, Mask(k, list[k])), keys \cup {k}, list)
PROOF
  <1> DEFINE e == Mask(k, list[k])
             longer == Append(entries, e)
             n == Len(entries)
  <1>1. entries \in Seq(Entry) /\ e \in Entry /\ e.key = k
    BY MaskTyped DEF Lists
  <1> HIDE DEF e
  <1>2. /\ longer \in Seq(Entry) /\ n \in Nat
        /\ DOMAIN entries = 1 .. n /\ DOMAIN longer = 1 .. n + 1
        /\ longer[n + 1] = e /\ \A i \in 1 .. n : longer[i] = entries[i]
    BY <1>1, AppendProperties, LenProperties
  <1> HIDE DEF longer, n
  <1>3. \A i \in 1 .. n + 1 : i = n + 1 \/ i \in 1 .. n
    BY <1>2
  <1>4. n + 1 \in 1 .. n + 1 /\ \A i \in 1 .. n : i \in 1 .. n + 1
    BY <1>2
  <1>5. KeysOf(longer) = keys \cup {k}
    <2>1. KeysOf(longer) \subseteq keys \cup {k}
      BY <1>1, <1>2, <1>3 DEF KeysOf, Lists
    <2>2. keys \cup {k} \subseteq KeysOf(longer)
      BY <1>1, <1>2, <1>4 DEF KeysOf, Lists
    <2> QED BY <2>1, <2>2
  <1>6. \A i \in DOMAIN longer : longer[i] = Mask(longer[i].key, list[longer[i].key])
    <2>1. e = Mask(e.key, list[e.key])
      BY <1>1 DEF e
    <2> QED BY <1>2, <1>3, <2>1 DEF Lists
  <1>7. Distinct(longer)
    <2>1. \A i \in 1 .. n : longer[i].key \in keys
      BY <1>2 DEF Lists, KeysOf
    <2> QED BY <1>1, <1>2, <1>3, <2>1 DEF Lists, Distinct
  <1> QED BY <1>2, <1>5, <1>6, <1>7 DEF Lists, longer, e

\* There are as many entries as keys.
LEMMA ListsCount ==
  ASSUME NEW entries, NEW keys, NEW list, Lists(entries, keys, list)
  PROVE  IsFiniteSet(keys) /\ Cardinality(keys) = Len(entries) /\ Len(entries) \in Nat
PROOF
  <1> DEFINE n == Len(entries)
             f == [i \in 1 .. n |-> entries[i].key]
  <1>1. n \in Nat /\ DOMAIN entries = 1 .. n
    BY LenProperties DEF Lists
  <1> HIDE DEF n
  <1>2. f \in Bijection(1 .. n, keys)
    <2>1. f \in [1 .. n -> keys]
      BY <1>1 DEF Lists, KeysOf
    <2>2. \A i, j \in 1 .. n : f[i] = f[j] => i = j
      BY <1>1 DEF Lists, Distinct
    <2>3. \A k \in keys : \E i \in 1 .. n : f[i] = k
      BY <1>1 DEF Lists, KeysOf
    <2> HIDE DEF f
    <2> QED BY <2>1, <2>2, <2>3 DEF Bijection, Injection, Surjection, IsInjective
  <1>3. ExistsBijection(1 .. n, keys)
    BY <1>2 DEF ExistsBijection
  <1>4. Cardinality(keys) = n
    BY <1>1, <1>3, FS_CountingElements
  <1>5. IsFiniteSet(keys)
    BY <1>1, <1>3, FS_NatBijection
  <1> QED BY <1>1, <1>4, <1>5 DEF n

LEMMA CountDisjoint ==
  ASSUME NEW S, NEW T, IsFiniteSet(S), IsFiniteSet(T), S \cap T = {}
  PROVE  IsFiniteSet(S \cup T) /\ Cardinality(S \cup T) = Cardinality(S) + Cardinality(T)
PROOF
  <1>1. Cardinality(S) \in Nat /\ Cardinality(T) \in Nat
    BY FS_CardinalityType
  <1>2. Cardinality(S \cap T) = 0
    BY FS_EmptySet
  <1>3. /\ IsFiniteSet(S \cup T)
        /\ Cardinality(S \cup T) = Cardinality(S) + Cardinality(T) - Cardinality(S \cap T)
    BY FS_Union
  <1> QED BY <1>1, <1>2, <1>3

\* Sorting keeps the entries and puts them in order.
LEMMA ListsSort ==
  ASSUME NEW entries, NEW keys, NEW list, Lists(entries, keys, list),
         keys \subseteq Key, NEW sorted \in SortItems(entries)
  PROVE  Lists(sorted, keys, list) /\ Ascending(sorted)
PROOF
  <1> DEFINE n == Len(entries)
  <1>1. n \in Nat /\ DOMAIN entries = 1 .. n /\ entries \in Seq(Entry)
    BY LenProperties DEF Lists
  <1> HIDE DEF n
  <1>2. PICK p \in Bijection(1 .. n, 1 .. n) :
          /\ \A i, j \in 1 .. n : i < j => entries[p[i]].key <= entries[p[j]].key
          /\ sorted = [i \in 1 .. n |-> entries[p[i]]]
    BY <1>1 DEF SortItems
  <1>3. /\ p \in [1 .. n -> 1 .. n]
        /\ \A i, j \in 1 .. n : p[i] = p[j] => i = j
        /\ \A m \in 1 .. n : \E i \in 1 .. n : p[i] = m
    BY <1>2 DEF Bijection, Injection, Surjection, IsInjective
  <1>4. DOMAIN sorted = 1 .. n /\ \A i \in 1 .. n : sorted[i] = entries[p[i]] /\ p[i] \in 1 .. n
    BY <1>2, <1>3
  <1>5. sorted \in Seq(Entry)
    <2>1. \A i \in 1 .. n : entries[p[i]] \in Entry
      BY <1>1, <1>4, ElementOfSeq DEF n
    <2>2. sorted \in [1 .. n -> Entry]
      BY <1>2, <2>1
    <2> QED BY <1>1, <2>2, SeqDef
  <1>6. KeysOf(sorted) = keys
    <2>1. KeysOf(sorted) \subseteq keys
      BY <1>1, <1>4 DEF KeysOf, Lists
    <2>2. ASSUME NEW k \in keys PROVE k \in KeysOf(sorted)
      <3>1. PICK m \in 1 .. n : entries[m].key = k
        BY <1>1 DEF KeysOf, Lists
      <3>2. PICK i \in 1 .. n : p[i] = m
        BY <1>3
      <3> QED BY <1>4, <3>1, <3>2 DEF KeysOf
    <2> QED BY <2>1, <2>2
  <1>7. \A i \in DOMAIN sorted : sorted[i] = Mask(sorted[i].key, list[sorted[i].key])
    BY <1>1, <1>4 DEF Lists
  <1>8. Distinct(sorted)
    <2>1. \A l, m \in 1 .. n : entries[l].key = entries[m].key => l = m
      BY <1>1 DEF Lists, Distinct
    <2>2. \A i, j \in 1 .. n : sorted[i].key = sorted[j].key => p[i] = p[j]
      BY <1>4, <2>1
    <2>3. \A i, j \in 1 .. n : sorted[i].key = sorted[j].key => i = j
      BY <1>3, <2>2
    <2> QED BY <1>4, <2>3 DEF Distinct
  <1>9. Ascending(sorted)
    <2>1. \A i \in 1 .. n : sorted[i].key \in Int
      BY <1>4, <1>6, KeyAssumption DEF KeysOf
    <2>2. \A i, j \in 1 .. n : i < j => sorted[i].key <= sorted[j].key /\ i # j
      BY <1>1, <1>2, <1>4
    <2>3. \A i, j \in 1 .. n : i # j => sorted[i].key # sorted[j].key
      BY <1>4, <1>8 DEF Distinct
    <2> QED BY <1>4, <2>1, <2>2, <2>3 DEF Ascending
  <1> QED BY <1>5, <1>6, <1>7, <1>8, <1>9 DEF Lists

-----------------------------------------------------------------------------
(* A sort always has a result, so that the model of Compare never stops    *)
(* before its end.                                                         *)

LEMMA LeastNatural ==
  ASSUME NEW T \in SUBSET Nat, T # {}
  PROVE  \E n \in T : \A m \in T : n <= m
PROOF
  <1> DEFINE R == OpToRel(<, Nat)
  <1>1. IsWellFoundedOn(R, Nat)
    BY NatLessThanWellFounded, Zenon
  <1>2. \A x, y \in Nat : <<x, y>> \in R <=> x < y
    BY DEF OpToRel
  <1> HIDE DEF R
  <1>3. PICK n \in T : \A m \in T : ~(<<m, n>> \in R)
    BY <1>1, WFMin
  <1>4. \A m \in T : ~(m < n)
    BY <1>2, <1>3
  <1> QED BY <1>3, <1>4

\* p arranges f in ascending order.
Orders(p, f, n) ==
  /\ p \in Bijection(1 .. n, 1 .. n)
  /\ \A i, j \in 1 .. n : i < j => f[p[i]] <= f[p[j]]

\* An arrangement of all but the last number has a place for the last one.
LEMMA InsertLast ==
  ASSUME NEW n \in Nat \ {0}, NEW f \in [1 .. n -> Int], NEW p, Orders(p, f, n - 1)
  PROVE  \E q : Orders(q, f, n)
PROOF
  <1> DEFINE U == {i \in 1 .. n : i = n \/ f[p[i]] > f[n]}
  <1>1. PICK m \in U : \A i \in U : m <= i
    <2>1. n \in U /\ U \in SUBSET Nat
      OBVIOUS
    <2> HIDE DEF U
    <2> QED BY <2>1, LeastNatural
  <1> DEFINE q == [i \in 1 .. n |-> IF i < m THEN p[i] ELSE IF i = m THEN n ELSE p[i - 1]]
  <1>2. /\ p \in [1 .. n - 1 -> 1 .. n - 1]
        /\ \A i, j \in 1 .. n - 1 : p[i] = p[j] => i = j
        /\ \A k \in 1 .. n - 1 : \E i \in 1 .. n - 1 : p[i] = k
    BY DEF Orders, Bijection, Injection, Surjection, IsInjective
  <1>3. \A i \in 1 .. n - 1 : p[i] \in 1 .. n - 1 /\ p[i] \in 1 .. n /\ p[i] # n
    <2>1. \A k \in 1 .. n - 1 : k \in 1 .. n /\ k # n
      OBVIOUS
    <2> QED BY <1>2, <2>1
  <1>4. m \in 1 .. n
    OBVIOUS
  <1>5. /\ \A i \in 1 .. n : i < m => i \in 1 .. n - 1 /\ q[i] = p[i]
        /\ q[m] = n
        /\ \A i \in 1 .. n : i > m => i - 1 \in 1 .. n - 1 /\ q[i] = p[i - 1]
    BY <1>4
  <1>6. q \in [1 .. n -> 1 .. n]
    <2>1. ASSUME NEW i \in 1 .. n PROVE q[i] \in 1 .. n
      <3>1. n \in 1 .. n /\ (i < m \/ i = m \/ i > m)
        BY <1>4
      <3> HIDE DEF q, U
      <3> QED BY <1>3, <1>5, <3>1
    <2> QED BY <2>1
  <1>7. \A i \in 1 .. n : i < m => f[p[i]] <= f[n]
    <2> SUFFICES ASSUME NEW i \in 1 .. n, i < m PROVE f[p[i]] <= f[n]
      OBVIOUS
    <2>1. i \notin U
      BY <1>1
    <2>2. p[i] \in 1 .. n
      BY <1>3, <1>5
    <2> QED BY <2>1, <2>2
  <1>8. m # n => f[p[m]] > f[n]
    BY <1>1
  <1> HIDE DEF q, U
  <1>9. ASSUME NEW i \in 1 .. n, NEW j \in 1 .. n, i < j PROVE q[i] # q[j]
    <2>1. CASE j < m
      <3>1. i < m /\ i # j
        BY <1>4, <1>9, <2>1
      <3> QED BY <1>2, <1>5, <2>1, <3>1
    <2>2. CASE j = m
      BY <1>5, <1>9, <1>3, <2>2
    <2>3. CASE i < m /\ j > m
      <3>1. i # j - 1
        BY <1>4, <2>3
      <3> QED BY <1>2, <1>5, <2>3, <3>1
    <2>4. CASE i = m
      <3>1. j > m
        BY <1>9, <2>4
      <3> QED BY <1>3, <1>5, <2>4, <3>1
    <2>5. CASE i > m
      <3>1. j > m /\ i - 1 # j - 1
        BY <1>4, <1>9, <2>5
      <3> QED BY <1>2, <1>5, <2>5, <3>1
    <2> QED BY <1>4, <1>9, <2>1, <2>2, <2>3, <2>4, <2>5
  <1>10. \A k \in 1 .. n : \E i \in 1 .. n : q[i] = k
    <2> SUFFICES ASSUME NEW k \in 1 .. n PROVE \E i \in 1 .. n : q[i] = k
      OBVIOUS
    <2>1. CASE k = n
      BY <1>4, <1>5, <2>1
    <2>2. CASE k # n
      <3>1. PICK i \in 1 .. n - 1 : p[i] = k
        BY <1>2, <2>2
      <3>2. CASE i < m
        BY <1>5, <3>1, <3>2
      <3>3. CASE ~(i < m)
        <4>1. i + 1 \in 1 .. n /\ i + 1 > m /\ (i + 1) - 1 = i
          BY <1>4, <3>3
        <4> QED BY <1>5, <3>1, <4>1
      <3> QED BY <3>2, <3>3
    <2> QED BY <2>1, <2>2
  <1>11. \A i, j \in 1 .. n - 1 :
           i <= j => f[p[i]] <= f[p[j]] /\ f[p[i]] \in Int /\ f[p[j]] \in Int
    <2>1. \A i \in 1 .. n - 1 : f[p[i]] \in Int
      BY <1>3
    <2>2. \A i, j \in 1 .. n - 1 : i <= j => i < j \/ i = j
      OBVIOUS
    <2> QED BY <2>1, <2>2 DEF Orders
  <1>12. ASSUME NEW i \in 1 .. n, NEW j \in 1 .. n, i < j PROVE f[q[i]] <= f[q[j]]
    <2>1. CASE j < m
      <3>1. i < m /\ i <= j
        BY <1>4, <1>12, <2>1
      <3> QED BY <1>5, <1>11, <2>1, <3>1
    <2>2. CASE j = m
      BY <1>4, <1>5, <1>7, <1>12, <2>2
    <2>3. CASE i < m /\ j > m
      <3>1. i \in 1 .. n - 1 /\ j - 1 \in 1 .. n - 1 /\ i <= j - 1
        BY <1>4, <1>12, <2>3
      <3> QED BY <1>5, <1>11, <2>3, <3>1
    <2>4. CASE i = m
      <3>1. m \in 1 .. n - 1 /\ j - 1 \in 1 .. n - 1 /\ m <= j - 1 /\ j > m /\ m # n
        BY <1>4, <1>12, <2>4
      <3>2. f[n] < f[p[m]] /\ f[p[m]] <= f[p[j - 1]] /\ f[n] \in Int
            /\ f[p[m]] \in Int /\ f[p[j - 1]] \in Int
        BY <1>8, <1>11, <3>1
      <3>3. f[n] <= f[p[j - 1]]
        BY <3>2
      <3> QED BY <1>5, <2>4, <3>1, <3>3
    <2>5. CASE i > m
      <3>1. i - 1 \in 1 .. n - 1 /\ j - 1 \in 1 .. n - 1 /\ i - 1 <= j - 1 /\ j > m
        BY <1>4, <1>12, <2>5
      <3> QED BY <1>5, <1>11, <2>5, <3>1
    <2> QED BY <1>4, <1>12, <2>1, <2>2, <2>3, <2>4, <2>5
  <1>13. Orders(q, f, n)
    <2>1. \A i, j \in 1 .. n : q[i] = q[j] => i = j
      <3>1. \A i, j \in 1 .. n : i < j \/ j < i \/ i = j
        OBVIOUS
      <3> QED BY <1>9, <3>1
    <2> QED BY <1>6, <1>10, <1>12, <2>1
            DEF Orders, Bijection, Injection, Surjection, IsInjective
  <1> QED BY <1>13

LEMMA OrderExists ==
  ASSUME NEW n \in Nat, NEW f \in [1 .. n -> Int]
  PROVE  \E p : Orders(p, f, n)
PROOF
  <1> DEFINE T == {k \in Nat : \E g \in [1 .. k -> Int] : ~ \E p : Orders(p, g, k)}
  <1>1. T = {}
    <2> SUFFICES ASSUME T # {} PROVE FALSE
      OBVIOUS
    <2>1. PICK k \in T : \A l \in T : k <= l
      BY LeastNatural
    <2>2. PICK g \in [1 .. k -> Int] : ~ \E p : Orders(p, g, k)
      OBVIOUS
    <2>3. k # 0
      <3> SUFFICES ASSUME k = 0 PROVE FALSE
        OBVIOUS
      <3> DEFINE p == [i \in 1 .. 0 |-> i]
      <3>1. Orders(p, g, 0)
        BY DEF Orders, Bijection, Injection, Surjection, IsInjective
      <3> QED BY <2>2, <3>1
    <2>4. k \in Nat \ {0} /\ k - 1 \in Nat /\ k - 1 \notin T
      <3>1. k \in Nat
        OBVIOUS
      <3> HIDE DEF T
      <3> QED BY <2>1, <2>3, <3>1
    <2> DEFINE h == [i \in 1 .. k - 1 |-> g[i]]
    <2>5. h \in [1 .. k - 1 -> Int]
      BY <2>4
    <2>6. PICK p : Orders(p, h, k - 1)
      BY <2>4, <2>5
    <2>7. Orders(p, g, k - 1)
      <3>1. p \in [1 .. k - 1 -> 1 .. k - 1]
        BY <2>6 DEF Orders, Bijection, Injection
      <3>2. \A i \in 1 .. k - 1 : h[p[i]] = g[p[i]]
        BY <3>1
      <3> HIDE DEF h
      <3> QED BY <2>6, <3>2 DEF Orders
    <2> QED BY <2>2, <2>4, <2>7, InsertLast
  <1> QED BY <1>1

\* However many items a part of a diff has, sortItems has a result.
THEOREM SortAlwaysEnds ==
  ASSUME NEW entries \in Seq(Entry)
  PROVE  SortItems(entries) # {}
PROOF
  <1> DEFINE n == Len(entries)
             f == [i \in 1 .. n |-> entries[i].key]
  <1>1. n \in Nat /\ DOMAIN entries = 1 .. n
    BY LenProperties
  <1>2. \A i \in 1 .. n : entries[i].key \in Int
    <2>1. \A i \in 1 .. n : entries[i] \in Entry
      BY ElementOfSeq
    <2> QED BY <2>1, KeyAssumption DEF Entry
  <1>3. f \in [1 .. n -> Int]
    BY <1>2
  <1> HIDE DEF n
  <1>4. PICK p : Orders(p, f, n)
    BY <1>1, <1>3, OrderExists
  <1>5. p \in Bijection(1 .. n, 1 .. n) /\ p \in [1 .. n -> 1 .. n]
    BY <1>4 DEF Orders, Bijection, Injection
  <1>6. \A i, j \in 1 .. n : i < j => entries[p[i]].key <= entries[p[j]].key
    <2>1. \A i \in 1 .. n : f[p[i]] = entries[p[i]].key
      BY <1>5
    <2> HIDE DEF f
    <2> QED BY <1>4, <2>1 DEF Orders
  <1> QED BY <1>1, <1>5, <1>6 DEF SortItems

-----------------------------------------------------------------------------
(* The invariant of the two loops.                                         *)

\* The keys that each loop has visited
RightVisited == IF phase = "right" THEN DOMAIN right \ todo ELSE DOMAIN right
LeftVisited ==
  IF phase = "right" THEN {} ELSE IF phase = "left" THEN DOMAIN left \ todo ELSE DOMAIN left

NewKeys == {k \in RightVisited : k \notin DOMAIN left}
ChangedKeys == {k \in RightVisited : k \in DOMAIN left /\ Changed(k)}
OldKeys == {k \in LeftVisited : k \notin DOMAIN right}

LoopTyped ==
  /\ released \in BOOLEAN /\ (~released => DOMAIN left = {})
  /\ left \in ItemList /\ right \in ItemList
  /\ phase \in {"right", "left", "sort", "done"}
  /\ phase = "right" => todo \subseteq DOMAIN right
  /\ phase = "left" => todo \subseteq DOMAIN left
  /\ phase \in {"sort", "done"} => todo = {}

\* Each part names the keys that belong in it, of those visited, and no other.
PartsExact ==
  /\ Lists(added, NewKeys, right)
  /\ Lists(modified, ChangedKeys, right)
  /\ Lists(deleted, OldKeys, left)

PartsSorted == Done => Ascending(added) /\ Ascending(modified) /\ Ascending(deleted)

ItemsInv == LoopTyped /\ PartsExact /\ PartsSorted

LEMMA KeysOfList == ASSUME NEW list \in ItemList PROVE DOMAIN list \subseteq Key
PROOF
  BY DEF ItemList

LEMMA ItemsInvInit == Init => ItemsInv
PROOF
  <1> SUFFICES ASSUME Init PROVE ItemsInv
    OBVIOUS
  <1>1. LoopTyped
    BY DEF Init, LoopTyped
  <1>2. NewKeys = {} /\ ChangedKeys = {} /\ OldKeys = {}
    BY DEF Init, NewKeys, ChangedKeys, OldKeys, RightVisited, LeftVisited
  <1>3. PartsExact
    BY <1>2, ListsEmpty DEF Init, PartsExact
  <1> QED BY <1>1, <1>3 DEF Init, ItemsInv, PartsSorted, Done

LEMMA VisitRightKeeps ==
  ASSUME ItemsInv, NEW k \in Key, VisitRight(k)
  PROVE  ItemsInv'
PROOF
  <1>1. /\ phase = "right" /\ k \in todo /\ todo' = todo \ {k} /\ todo \subseteq DOMAIN right
        /\ UNCHANGED <<released, left, right, phase, deleted>>
    BY DEF ItemsInv, LoopTyped, VisitRight
  <1>2. LoopTyped'
    BY <1>1 DEF ItemsInv, LoopTyped
  <1>3. RightVisited' = RightVisited \cup {k} /\ k \in DOMAIN right /\ k \notin RightVisited
    BY <1>1 DEF RightVisited
  <1>4. OldKeys' = OldKeys
    BY <1>1 DEF OldKeys, LeftVisited
  <1>5. \A c : Changed(c)' <=> Changed(c)
    BY <1>1 DEF Changed
  <1>6. k \notin NewKeys /\ k \notin ChangedKeys
    BY <1>3 DEF NewKeys, ChangedKeys
  <1>7. right \in ItemList /\ Lists(added, NewKeys, right) /\ Lists(modified, ChangedKeys, right)
    BY DEF ItemsInv, LoopTyped, PartsExact
  <1>8. Lists(added', NewKeys', right) /\ Lists(modified', ChangedKeys', right)
    <2>1. CASE k \notin DOMAIN left
      <3>1. NewKeys' = NewKeys \cup {k} /\ ChangedKeys' = ChangedKeys
        BY <1>1, <1>3, <1>5, <2>1 DEF NewKeys, ChangedKeys
      <3>2. added' = Append(added, Mask(k, right[k])) /\ modified' = modified
        BY <2>1 DEF VisitRight
      <3> QED BY <1>3, <1>6, <1>7, <3>1, <3>2, ListsAppend
    <2>2. CASE k \in DOMAIN left /\ Changed(k)
      <3>1. NewKeys' = NewKeys /\ ChangedKeys' = ChangedKeys \cup {k}
        BY <1>1, <1>3, <1>5, <2>2 DEF NewKeys, ChangedKeys
      <3>2. added' = added /\ modified' = Append(modified, Mask(k, right[k]))
        BY <2>2 DEF VisitRight
      <3> QED BY <1>3, <1>6, <1>7, <3>1, <3>2, ListsAppend
    <2>3. CASE k \in DOMAIN left /\ ~Changed(k)
      <3>1. NewKeys' = NewKeys /\ ChangedKeys' = ChangedKeys
        BY <1>1, <1>3, <1>5, <2>3 DEF NewKeys, ChangedKeys
      <3>2. added' = added /\ modified' = modified
        BY <2>3 DEF VisitRight
      <3> QED BY <1>7, <3>1, <3>2
    <2> QED BY <2>1, <2>2, <2>3
  <1>9. PartsExact'
    BY <1>1, <1>4, <1>8 DEF ItemsInv, PartsExact
  <1> QED BY <1>1, <1>2, <1>9 DEF ItemsInv, PartsSorted, Done

LEMMA VisitLeftKeeps ==
  ASSUME ItemsInv, NEW k \in Key, VisitLeft(k)
  PROVE  ItemsInv'
PROOF
  <1>1. /\ phase = "left" /\ k \in todo /\ todo' = todo \ {k} /\ todo \subseteq DOMAIN left
        /\ UNCHANGED <<released, left, right, phase, added, modified>>
    BY DEF ItemsInv, LoopTyped, VisitLeft
  <1>2. LoopTyped'
    BY <1>1 DEF ItemsInv, LoopTyped
  <1>3. LeftVisited' = LeftVisited \cup {k} /\ k \in DOMAIN left /\ k \notin LeftVisited
    BY <1>1 DEF LeftVisited
  <1>4. NewKeys' = NewKeys /\ ChangedKeys' = ChangedKeys
    BY <1>1 DEF NewKeys, ChangedKeys, RightVisited, Changed
  <1>5. left \in ItemList /\ Lists(deleted, OldKeys, left) /\ k \notin OldKeys
    BY <1>3 DEF ItemsInv, LoopTyped, PartsExact, OldKeys
  <1>6. Lists(deleted', OldKeys', left)
    <2>1. CASE k \in DOMAIN right
      <3>1. OldKeys' = OldKeys /\ deleted' = deleted
        BY <1>1, <1>3, <2>1 DEF OldKeys, VisitLeft
      <3> QED BY <1>5, <3>1
    <2>2. CASE k \notin DOMAIN right
      <3>1. OldKeys' = OldKeys \cup {k} /\ deleted' = Append(deleted, Mask(k, left[k]))
        BY <1>1, <1>3, <2>2 DEF OldKeys, VisitLeft
      <3> QED BY <1>3, <1>5, <3>1, ListsAppend
    <2> QED BY <2>1, <2>2
  <1>7. PartsExact'
    BY <1>1, <1>4, <1>6 DEF ItemsInv, PartsExact
  <1> QED BY <1>1, <1>2, <1>7 DEF ItemsInv, PartsSorted, Done

\* The end of a loop: it has visited what it had to.
LEMMA LoopEndKeeps ==
  ASSUME ItemsInv, RightDone \/ LeftDone
  PROVE  ItemsInv'
PROOF
  <1>1. UNCHANGED <<released, left, right, added, modified, deleted>>
    BY DEF RightDone, LeftDone
  <1>2. LoopTyped' /\ phase' \in {"left", "sort"}
    BY DEF ItemsInv, LoopTyped, RightDone, LeftDone
  <1>3. RightVisited' = RightVisited /\ LeftVisited' = LeftVisited
    BY DEF RightVisited, LeftVisited, RightDone, LeftDone
  <1>4. NewKeys' = NewKeys /\ ChangedKeys' = ChangedKeys /\ OldKeys' = OldKeys
    BY <1>1, <1>3 DEF NewKeys, ChangedKeys, OldKeys, Changed
  <1>5. PartsExact'
    BY <1>1, <1>4 DEF ItemsInv, PartsExact
  <1> QED BY <1>2, <1>5 DEF ItemsInv, PartsSorted, Done

LEMMA SortKeeps ==
  ASSUME ItemsInv, Sort
  PROVE  ItemsInv'
PROOF
  <1>1. /\ phase = "sort" /\ phase' = "done" /\ UNCHANGED <<released, left, right, todo>>
        /\ added' \in SortItems(added) /\ modified' \in SortItems(modified)
        /\ deleted' \in SortItems(deleted)
    BY DEF Sort
  <1>2. LoopTyped'
    BY <1>1 DEF ItemsInv, LoopTyped
  <1>3. RightVisited' = RightVisited /\ LeftVisited' = LeftVisited
    BY <1>1 DEF RightVisited, LeftVisited
  <1>4. NewKeys' = NewKeys /\ ChangedKeys' = ChangedKeys /\ OldKeys' = OldKeys
    BY <1>1, <1>3 DEF NewKeys, ChangedKeys, OldKeys, Changed
  <1>5. NewKeys \subseteq Key /\ ChangedKeys \subseteq Key /\ OldKeys \subseteq Key
    <2>1. RightVisited \subseteq Key /\ LeftVisited \subseteq Key
      BY KeysOfList DEF ItemsInv, LoopTyped, RightVisited, LeftVisited
    <2> QED BY <2>1 DEF NewKeys, ChangedKeys, OldKeys
  <1>6. /\ Lists(added', NewKeys, right) /\ Ascending(added')
        /\ Lists(modified', ChangedKeys, right) /\ Ascending(modified')
        /\ Lists(deleted', OldKeys, left) /\ Ascending(deleted')
    BY <1>1, <1>5, ListsSort DEF ItemsInv, PartsExact
  <1>7. PartsExact'
    BY <1>1, <1>4, <1>6 DEF PartsExact
  <1> QED BY <1>2, <1>6, <1>7 DEF ItemsInv, PartsSorted

LEMMA ItemsInvStep == ItemsInv /\ [Next]_vars => ItemsInv'
PROOF
  <1> SUFFICES ASSUME ItemsInv, [Next]_vars PROVE ItemsInv'
    OBVIOUS
  <1>1. ASSUME NEW k \in Key, VisitRight(k) PROVE ItemsInv'
    BY <1>1, VisitRightKeeps
  <1>2. ASSUME NEW k \in Key, VisitLeft(k) PROVE ItemsInv'
    BY <1>2, VisitLeftKeeps
  <1>3. CASE RightDone \/ LeftDone
    BY <1>3, LoopEndKeeps
  <1>4. CASE Sort
    BY <1>4, SortKeeps
  <1>5. CASE UNCHANGED vars
    <2>1. UNCHANGED <<released, left, right, todo, phase, added, modified, deleted>>
      BY <1>5 DEF vars
    <2>2. RightVisited' = RightVisited /\ LeftVisited' = LeftVisited
      BY <2>1 DEF RightVisited, LeftVisited
    <2>3. NewKeys' = NewKeys /\ ChangedKeys' = ChangedKeys /\ OldKeys' = OldKeys
      BY <2>1, <2>2 DEF NewKeys, ChangedKeys, OldKeys, Changed
    <2>4. PartsExact' /\ LoopTyped' /\ PartsSorted'
      BY <2>1, <2>3 DEF ItemsInv, PartsExact, LoopTyped, PartsSorted, Done
    <2> QED BY <2>4 DEF ItemsInv
  <1> QED BY <1>1, <1>2, <1>3, <1>4, <1>5 DEF Next

LEMMA ItemsInvariance == Spec => []ItemsInv
PROOF
  BY ItemsInvInit, ItemsInvStep, PTL DEF Spec

\* What the parts are when both loops have ended.
LEMMA PartsDone ==
  ASSUME ItemsInv, Done
  PROVE  /\ Lists(added, DOMAIN right \ DOMAIN left, right)
         /\ Lists(modified, {k \in DOMAIN right \cap DOMAIN left : Changed(k)}, right)
         /\ Lists(deleted, DOMAIN left \ DOMAIN right, left)
PROOF
  <1>1. /\ NewKeys = DOMAIN right \ DOMAIN left
        /\ ChangedKeys = {k \in DOMAIN right \cap DOMAIN left : Changed(k)}
        /\ OldKeys = DOMAIN left \ DOMAIN right
    BY DEF Done, NewKeys, ChangedKeys, OldKeys, RightVisited, LeftVisited
  <1> QED BY <1>1 DEF ItemsInv, PartsExact

-----------------------------------------------------------------------------
(* Theorems.                                                               *)

\* The lists, the keys left to visit and the entries of the diff keep their types.
THEOREM ItemsTypeCorrect == Spec => []TypeOK
PROOF
  <1>1. ItemsInv => TypeOK
    <2> SUFFICES ASSUME ItemsInv PROVE TypeOK
      OBVIOUS
    <2>1. todo \subseteq Key
      BY KeysOfList DEF ItemsInv, LoopTyped
    <2>2. added \in Seq(Entry) /\ modified \in Seq(Entry) /\ deleted \in Seq(Entry)
      BY DEF ItemsInv, PartsExact, Lists
    <2> QED BY <2>1, <2>2 DEF ItemsInv, LoopTyped, TypeOK
  <1> QED BY <1>1, ItemsInvariance, PTL

\* The diff is in the order of its keys and has every key at most once, whatever
\* order the maps were visited in and although the sort is not stable.
THEOREM DiffsAreOrdered == Spec => []DiffOrdered
PROOF
  <1>1. ItemsInv => DiffOrdered
    <2> SUFFICES ASSUME ItemsInv, Done PROVE DiffOrdered
      BY DEF DiffOrdered
    <2> DEFINE a == KeysOf(added)
               m == KeysOf(modified)
               d == KeysOf(deleted)
    <2>1. /\ a = DOMAIN right \ DOMAIN left
          /\ m = {k \in DOMAIN right \cap DOMAIN left : Changed(k)}
          /\ d = DOMAIN left \ DOMAIN right
      BY PartsDone DEF Lists
    <2>2. a \cap m = {} /\ (a \cup m) \cap d = {}
      BY <2>1
    <2>3. /\ Lists(added, a, right) /\ Lists(modified, m, right) /\ Lists(deleted, d, left)
      BY <2>1, PartsDone
    <2> HIDE DEF a, m, d
    <2>4. /\ IsFiniteSet(a) /\ Cardinality(a) = Len(added) /\ Len(added) \in Nat
          /\ IsFiniteSet(m) /\ Cardinality(m) = Len(modified) /\ Len(modified) \in Nat
          /\ IsFiniteSet(d) /\ Cardinality(d) = Len(deleted) /\ Len(deleted) \in Nat
      BY <2>3, ListsCount
    <2>5. IsFiniteSet(a \cup m) /\ Cardinality(a \cup m) = Len(added) + Len(modified)
      <3>1. IsFiniteSet(a \cup m) /\ Cardinality(a \cup m) = Cardinality(a) + Cardinality(m)
        BY <2>2, <2>4, CountDisjoint, Zenon
      <3> QED BY <2>4, <3>1
    <2>6. Cardinality((a \cup m) \cup d) = Len(added) + Len(modified) + Len(deleted)
      <3>1. Cardinality((a \cup m) \cup d) = Cardinality(a \cup m) + Cardinality(d)
        BY <2>2, <2>4, <2>5, CountDisjoint, Zenon
      <3> QED BY <2>4, <2>5, <3>1
    <2>7. Cardinality(KeysOf(added) \cup KeysOf(modified) \cup KeysOf(deleted))
            = Len(added) + Len(modified) + Len(deleted)
      BY <2>6 DEF a, m, d
    <2> QED BY <2>7 DEF ItemsInv, PartsSorted, DiffOrdered
  <1> QED BY <1>1, ItemsInvariance, PTL

\* The keys of a list have one order, so two calls of Compare with the same lists
\* return the same parts (their keys are those of PartsDone), whatever the maps did.
THEOREM OneDiffForTwoLists ==
  ASSUME NEW list, NEW keys \in SUBSET Key, NEW a, NEW b,
         Lists(a, keys, list), Ascending(a), Lists(b, keys, list), Ascending(b)
  PROVE  a = b
PROOF
  <1> DEFINE n == Cardinality(keys)
             D == {i \in 1 .. n : a[i].key # b[i].key}
  <1>1. /\ n \in Nat /\ a \in Seq(Entry) /\ b \in Seq(Entry)
        /\ Len(a) = n /\ DOMAIN a = 1 .. n /\ Len(b) = n /\ DOMAIN b = 1 .. n
    BY ListsCount, LenProperties DEF Lists
  <1> HIDE DEF n
  <1>2. \A i \in 1 .. n : a[i].key \in keys /\ b[i].key \in keys
    BY <1>1 DEF Lists, KeysOf
  <1>3. \A k \in keys : (\E i \in 1 .. n : a[i].key = k) /\ (\E i \in 1 .. n : b[i].key = k)
    BY <1>1 DEF Lists, KeysOf
  <1>4. \A i, j \in 1 .. n : i < j => a[i].key < a[j].key /\ b[i].key < b[j].key
    BY <1>1 DEF Ascending
  <1>5. D = {}
    <2> SUFFICES ASSUME D # {} PROVE FALSE
      OBVIOUS
    <2>1. D \in SUBSET Nat
      BY <1>1
    <2>2. PICK i \in D : \A j \in D : i <= j
      <3> HIDE DEF D
      <3> QED BY <2>1, LeastNatural
    <2>3. i \in 1 .. n /\ a[i].key # b[i].key
      OBVIOUS
    <2>4. \A j \in 1 .. n : j < i => a[j].key = b[j].key
      BY <2>2
    <2>5. PICK j \in 1 .. n : b[j].key = a[i].key
      BY <1>2, <1>3, <2>3
    <2>6. PICK l \in 1 .. n : a[l].key = b[i].key
      BY <1>2, <1>3, <2>3
    <2> HIDE DEF D
    <2>7. \A m \in 1 .. n : a[m].key \in Int /\ b[m].key \in Int
      BY <1>2, KeyAssumption
    <2>8. j > i
      <3>1. j # i
        BY <2>3, <2>5
      <3>2. ~(j < i)
        <4> SUFFICES ASSUME j < i PROVE FALSE
          OBVIOUS
        <4>1. a[j].key = a[i].key /\ a[j].key < a[i].key
          BY <1>4, <2>3, <2>4, <2>5
        <4> QED BY <2>3, <2>7, <4>1
      <3> QED BY <1>1, <2>3, <3>1, <3>2
    <2>9. l > i
      <3>1. l # i
        BY <2>3, <2>6
      <3>2. ~(l < i)
        <4> SUFFICES ASSUME l < i PROVE FALSE
          OBVIOUS
        <4>1. b[l].key = b[i].key /\ b[l].key < b[i].key
          BY <1>4, <2>3, <2>4, <2>6
        <4> QED BY <2>3, <2>7, <4>1
      <3> QED BY <1>1, <2>3, <3>1, <3>2
    <2>10. b[i].key < a[i].key /\ a[i].key < b[i].key
      BY <1>4, <2>3, <2>5, <2>6, <2>8, <2>9
    <2> QED BY <2>3, <2>7, <2>10
  <1>6. \A i \in 1 .. n : a[i] = b[i]
    <2>1. \A i \in 1 .. n : a[i].key = b[i].key
      BY <1>5
    <2> QED BY <1>1, <2>1 DEF Lists
  <1> QED BY <1>1, <1>6, SeqEqual

\* A diff turns the current list into the candidate, apart from descriptions and
\* hidden values: nothing that Compare should tell is missing.
THEOREM DiffsRebuild == Spec => []DiffRebuilds
PROOF
  <1>1. ItemsInv => DiffRebuilds
    <2> SUFFICES ASSUME ItemsInv, Done PROVE DiffRebuilds
      BY DEF DiffRebuilds
    <2>1. /\ KeysOf(added) = DOMAIN right \ DOMAIN left
          /\ KeysOf(modified) = {k \in DOMAIN right \cap DOMAIN left : Changed(k)}
          /\ KeysOf(deleted) = DOMAIN left \ DOMAIN right
      BY PartsDone DEF Lists
    <2>2. DOMAIN right = (DOMAIN left \ KeysOf(deleted)) \cup KeysOf(added)
      BY <2>1
    <2>3. ASSUME NEW k \in DOMAIN right, k \in KeysOf(added) \cup KeysOf(modified)
          PROVE  Told(k, IF right[k].sensitive THEN Masked(right[k].value)
                         ELSE right[k].value, right[k].sensitive)
      <3> DEFINE both == added \o modified
      <3>1. /\ added \in Seq(Entry) /\ modified \in Seq(Entry)
            /\ Len(added) \in Nat /\ Len(modified) \in Nat
            /\ DOMAIN added = 1 .. Len(added) /\ DOMAIN modified = 1 .. Len(modified)
        BY PartsDone, LenProperties DEF Lists
      <3>2. /\ both \in Seq(Entry) /\ Len(both) = Len(added) + Len(modified)
            /\ \A i \in 1 .. Len(added) + Len(modified) :
                 both[i] = IF i <= Len(added) THEN added[i] ELSE modified[i - Len(added)]
        BY <3>1, ConcatProperties
      <3>3. DOMAIN both = 1 .. Len(added) + Len(modified)
        BY <3>2, LenProperties
      <3> HIDE DEF both
      <3>4. PICK i \in DOMAIN both : both[i] = Mask(k, right[k])
        <4>1. CASE k \in KeysOf(added)
          <5>1. PICK j \in DOMAIN added : added[j].key = k
            BY <4>1 DEF KeysOf
          <5>2. added[j] = Mask(k, right[k])
            BY <5>1, PartsDone DEF Lists
          <5>3. j \in DOMAIN both /\ both[j] = added[j]
            BY <3>1, <3>2, <3>3, <5>1
          <5> QED BY <5>2, <5>3
        <4>2. CASE k \in KeysOf(modified)
          <5>1. PICK j \in DOMAIN modified : modified[j].key = k
            BY <4>2 DEF KeysOf
          <5>2. modified[j] = Mask(k, right[k])
            BY <5>1, PartsDone DEF Lists
          <5>3. Len(added) + j \in DOMAIN both /\ both[Len(added) + j] = modified[j]
            BY <3>1, <3>2, <3>3, <5>1
          <5> QED BY <5>2, <5>3
        <4> QED BY <2>3, <4>1, <4>2
      <3>5. right \in ItemList
        BY DEF ItemsInv, LoopTyped
      <3> QED BY <3>4, <3>5, MaskTyped DEF Told, both
    <2>4. ASSUME NEW k \in DOMAIN right, k \notin KeysOf(added) \cup KeysOf(modified)
          PROVE  left[k].value = right[k].value /\ left[k].sensitive = right[k].sensitive
      BY <2>1, <2>4 DEF Changed
    <2> QED BY <2>2, <2>3, <2>4 DEF DiffRebuilds
  <1> QED BY <1>1, ItemsInvariance, PTL

\* No text of an item that is sensitive on the side it is taken from is in a diff,
\* in none of its parts and at no moment.
THEOREM SensitiveTextsAreHidden == Spec => []SensitiveMasked
PROOF
  <1>1. ItemsInv => SensitiveMasked
    <2> SUFFICES ASSUME ItemsInv PROVE SensitiveMasked
      OBVIOUS
    <2> DEFINE Hidden(entry) == entry.sensitive => entry.value = Masked(entry.value)
    <2>1. ASSUME NEW entries, NEW keys, NEW list \in ItemList, keys \subseteq DOMAIN list,
                 Lists(entries, keys, list), NEW i \in DOMAIN entries
          PROVE  Hidden(entries[i])
      <3>1. entries[i].key \in DOMAIN list
        BY <2>1 DEF Lists, KeysOf
      <3>2. entries[i] = Mask(entries[i].key, list[entries[i].key])
        BY <2>1 DEF Lists
      <3>3. SUFFICES ASSUME entries[i].sensitive
                     PROVE  entries[i].value = Masked(entries[i].value)
        OBVIOUS
      <3>4. list[entries[i].key].sensitive
        BY <3>1, <3>2, <3>3, MaskTyped
      <3>5. entries[i].value = Masked(list[entries[i].key].value)
        BY <3>1, <3>2, <3>4, MaskTyped
      <3>6. \A v : Masked(Masked(v)) = Masked(v)
        BY DEF Masked
      <3> QED BY <3>5, <3>6
    <2>2. /\ NewKeys \subseteq DOMAIN right /\ ChangedKeys \subseteq DOMAIN right
          /\ OldKeys \subseteq DOMAIN left
      BY DEF NewKeys, ChangedKeys, OldKeys, RightVisited, LeftVisited
    <2>3. /\ \A i \in DOMAIN added : Hidden(added[i])
          /\ \A i \in DOMAIN modified : Hidden(modified[i])
          /\ \A i \in DOMAIN deleted : Hidden(deleted[i])
      BY <2>1, <2>2 DEF ItemsInv, LoopTyped, PartsExact
    <2> HIDE DEF Hidden
    <2>4. ASSUME NEW s \in Seq(Entry), NEW t \in Seq(Entry),
                 \A i \in DOMAIN s : Hidden(s[i]), \A i \in DOMAIN t : Hidden(t[i])
          PROVE  s \o t \in Seq(Entry) /\ \A i \in DOMAIN (s \o t) : Hidden((s \o t)[i])
      <3>1. /\ Len(s) \in Nat /\ Len(t) \in Nat
            /\ DOMAIN s = 1 .. Len(s) /\ DOMAIN t = 1 .. Len(t)
        BY LenProperties
      <3>2. /\ s \o t \in Seq(Entry) /\ Len(s \o t) = Len(s) + Len(t)
            /\ \A i \in 1 .. Len(s) + Len(t) :
                 (s \o t)[i] = IF i <= Len(s) THEN s[i] ELSE t[i - Len(s)]
        BY ConcatProperties
      <3>3. DOMAIN (s \o t) = 1 .. Len(s) + Len(t)
        BY <3>2, LenProperties
      <3>4. ASSUME NEW i \in 1 .. Len(s) + Len(t) PROVE Hidden((s \o t)[i])
        <4>1. CASE i <= Len(s)
          <5>1. i \in DOMAIN s /\ (s \o t)[i] = s[i]
            BY <3>1, <3>2, <4>1
          <5> QED BY <2>4, <5>1
        <4>2. CASE ~(i <= Len(s))
          <5>1. i - Len(s) \in DOMAIN t /\ (s \o t)[i] = t[i - Len(s)]
            BY <3>1, <3>2, <4>2
          <5> QED BY <2>4, <5>1
        <4> QED BY <4>1, <4>2
      <3> QED BY <3>2, <3>3, <3>4
    <2>5. added \in Seq(Entry) /\ modified \in Seq(Entry) /\ deleted \in Seq(Entry)
      BY DEF ItemsInv, PartsExact, Lists
    <2>6. \A i \in DOMAIN (added \o modified \o deleted) :
            Hidden((added \o modified \o deleted)[i])
      BY <2>3, <2>4, <2>5
    <2> QED BY <2>6 DEF SensitiveMasked, Hidden
  <1> QED BY <1>1, ItemsInvariance, PTL

\* Compare and the checksum are two definitions of one question; they agree when
\* the administrator is shown no difference: Publish would refuse the draft, or
\* there is no release yet, and the draft is empty.
THEOREM NoDiffIsRefused == Spec => []NoDiffNothingToPublish
PROOF
  <1>1. ItemsInv => NoDiffNothingToPublish
    <2> SUFFICES ASSUME ItemsInv, Done, Diff = <<<<>>, <<>>, <<>>>>
                 PROVE  IF released THEN ~Publishable ELSE DOMAIN right = {}
      BY DEF NoDiffNothingToPublish
    <2>1. added = <<>> /\ modified = <<>> /\ deleted = <<>>
      BY DEF Diff
    <2>2. KeysOf(added) = {} /\ KeysOf(modified) = {} /\ KeysOf(deleted) = {}
      BY <2>1 DEF KeysOf
    <2>3. DOMAIN left = DOMAIN right
      BY <2>2, PartsDone DEF Lists
    <2>4. \A k \in DOMAIN right : left[k].value = right[k].value
      BY <2>2, <2>3, PartsDone DEF Lists, Changed
    <2>5. Checksum(left) = Checksum(right)
      BY <2>3, <2>4 DEF Checksum
    <2> QED BY <2>3, <2>5 DEF Publishable, ItemsInv, LoopTyped
  <1> QED BY <1>1, ItemsInvariance, PTL
=============================================================================
