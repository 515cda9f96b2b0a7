----------------------------- MODULE MCConsole ------------------------------
(* Small instances of Console for TLC: one busy environment, and quiet ones; *)
(* one application has all the environments, the others have none.          *)
EXTENDS Console

Full == CHOOSE a \in App : TRUE
AllInOne == [a \in App |-> IF a = Full THEN Code ELSE {}]
SameFirst == [a \in App |-> CHOOSE c \in Code : TRUE]

Busy == <<Full, First[Full]>>

BusyOr(busy, quiet) == [s \in Space |-> IF s = Busy THEN busy ELSE quiet]

RevisionBound == BusyOr(3, 1)
VersionBound == BusyOr(3, 2)
FewRevisions == BusyOr(2, 2)
NoReleases == BusyOr(2, 2)
=============================================================================
