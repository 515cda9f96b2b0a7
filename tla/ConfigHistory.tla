--------------------------- MODULE ConfigHistory ---------------------------
(***************************************************************************)
(* What the configuration store promises, with no requests, no statements  *)
(* and no version checks: an environment has a draft register whose        *)
(* revision counts its changes, and a log of releases that only grows.     *)
(* Two neighbouring releases never have the same content.  Releases.tla    *)
(* (services and SQLite tables, one step per query) implements it.         *)
(***************************************************************************)
EXTENDS Naturals, Sequences

CONSTANTS
  Env,      \* environments
  Items,    \* lists of configuration items
  NoItems,  \* the empty list
  Digest    \* Digest[i] is the checksum of the canonical content of list i

VARIABLES
  log,      \* log[e][v] is the list released as version v of environment e
  draft,    \* draft[e] is the list being edited
  revision  \* revision[e] counts the changes of draft[e]

vars == <<log, draft, revision>>

Init ==
  /\ log = [e \in Env |-> <<>>]
  /\ draft = [e \in Env |-> NoItems]
  /\ revision = [e \in Env |-> 0]

\* The content of list i is not what environment e serves now.
Changes(e, i) == log[e] = <<>> \/ Digest[log[e][Len(log[e])]] # Digest[i]

SetDraft(e, i) ==
  /\ draft' = [draft EXCEPT ![e] = i]
  /\ revision' = [revision EXCEPT ![e] = @ + 1]

AppendRelease(e, i) == log' = [log EXCEPT ![e] = Append(@, i)]

Edit(e, i) == SetDraft(e, i) /\ UNCHANGED log

\* The list is not required to be the draft of this very moment: a publish
\* request may be overtaken by edits after it has read the draft.
Release(e, i) ==
  /\ Changes(e, i)
  /\ AppendRelease(e, i)
  /\ UNCHANGED <<draft, revision>>

Revert(e, v) ==
  /\ Changes(e, log[e][v])
  /\ AppendRelease(e, log[e][v])
  /\ SetDraft(e, log[e][v])

Next == \E e \in Env :
  \/ \E i \in Items : Edit(e, i) \/ Release(e, i)
  \/ \E v \in DOMAIN log[e] : Revert(e, v)

Spec == Init /\ [][Next]_vars
=============================================================================
