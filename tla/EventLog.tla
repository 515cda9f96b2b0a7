------------------------------ MODULE EventLog ------------------------------
(***************************************************************************)
(* What the event hub promises to the readers of its streams: one log of   *)
(* events numbered from 1, and readers that receive the events of their    *)
(* own key in the order of the log, each once, none left out.  A reader    *)
(* that names the last event it has is either continued right after it or  *)
(* told that it is not complete.  Hub.tla (bounded history, one bounded    *)
(* channel per reader) implements it.                                      *)
(***************************************************************************)
EXTENDS Naturals, Sequences

CONSTANTS
  Key,    \* configuration spaces: an application and an environment
  Sub,    \* readers
  NoID,   \* the reader named no last event
  BadID,  \* what it named is not a number
  Off     \* a reader that is not attached

VARIABLES
  log,    \* log[id] is the key of event id
  reader  \* reader[s]: Off, or [key, asked, complete, pos]

vars == <<log, reader>>

Init ==
  /\ log = <<>>
  /\ reader = [s \in Sub |-> Off]

Publish(k) == log' = Append(log, k) /\ UNCHANGED reader

\* A reader that is told it is complete goes on from the event it named.
Attach(s, k, asked, complete) ==
  /\ reader[s] = Off
  /\ reader' = [reader EXCEPT ![s] =
       [key |-> k, asked |-> asked, complete |-> complete,
        pos |-> IF complete /\ asked # NoID THEN asked ELSE Len(log)]]
  /\ UNCHANGED log

\* id is the next event of the key of s.
IsNext(s, id) ==
  /\ id > reader[s].pos /\ log[id] = reader[s].key
  /\ \A i \in reader[s].pos + 1 .. id - 1 : log[i] # reader[s].key

Deliver(s) ==
  /\ reader[s] # Off
  /\ \E id \in DOMAIN log :
       IsNext(s, id) /\ reader' = [reader EXCEPT ![s].pos = id]
  /\ UNCHANGED log

Detach(s) ==
  /\ reader[s] # Off
  /\ reader' = [reader EXCEPT ![s] = Off]
  /\ UNCHANGED log

Next ==
  \/ \E k \in Key : Publish(k)
  \/ \E s \in Sub :
       \/ \E k \in Key :
            \/ \E asked \in {NoID} \cup 0 .. Len(log) : Attach(s, k, asked, TRUE)
            \/ \E asked \in {NoID, BadID} \cup 0 .. Len(log) : Attach(s, k, asked, FALSE)
       \/ Deliver(s)
       \/ Detach(s)

Spec == Init /\ [][Next]_vars
=============================================================================
