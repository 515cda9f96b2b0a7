-------------------------- MODULE MCTransactions ----------------------------
(* A small instance of Transactions for TLC.                               *)
EXTENDS Transactions, TLC

CONSTANTS r1, r2, empty, first

\* Two lists that differ in content.
TwoItems == {empty, first}
TwoDigests == [i \in TwoItems |-> i]

Ask(op, expected, target, items) ==
  [op |-> op, env |-> AnyEnv, expected |-> expected, target |-> target, items |-> items]

\* One caller publishes twice and rolls back; the other edits between the two,
\* reads, and races with the first publish and for the first revision.
Workload ==
  r1 :> {Ask("publish", 0, 0, empty), Ask("publish", 1, 0, empty),
         Ask("rollback", 2, 1, empty), Ask("save", 0, 0, empty)}
  @@ r2 :> {Ask("save", 0, 0, first), Ask("save", 1, 0, empty),
            Ask("publish", 0, 0, empty), Ask("draft", 0, 0, empty)}
=============================================================================
