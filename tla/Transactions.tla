---------------------------- MODULE Transactions ----------------------------
(***************************************************************************)
(* The two transactions of internal/repository/sqlite_configs.go, one step *)
(* per statement, on the only connection of the database                   *)
(* (SetMaxOpenConns(1)).  Releases.tla takes each of them as one step;     *)
(* here a statement may fail, the request may be cancelled and the process *)
(* may die between any two of them, and whoever needs the connection waits *)
(* for it.  The services are those of Releases: the steps that read are    *)
(* its own, with the connection as a further guard.                        *)
(***************************************************************************)
EXTENDS Releases

CONSTANTS
  Free,  \* nobody holds the connection
  Asks   \* bound: Asks[p] are the calls that p serves

ASSUME FreeAssumption == Free \notin Req

VARIABLES
  conn,  \* the request whose transaction holds the connection, or Free
  stmt,  \* the next statement of that transaction
  work   \* the tables as that transaction sees them

tx == <<conn, stmt, work>>
txVars == <<vars, tx>>

Statement == {"none", "revision", "exists", "release", "version", "delete",
              "items", "count", "audit", "commit"}

\* The tables as everybody else sees them.
Committed == [currentVersion |-> currentVersion, draftRevision |-> draftRevision,
              draftItems |-> draftItems, releases |-> releases, audits |-> audits]

TxInit ==
  /\ Init
  /\ conn = Free
  /\ stmt = "none"
  /\ work = Committed

-----------------------------------------------------------------------------
(* The connection.                                                         *)

\* s.db.BeginTx: waits until the connection is free.
Begin(p) ==
  /\ pc[p] = "write" /\ conn = Free
  /\ conn' = p
  /\ stmt' = IF call[p].op = "save" THEN "revision" ELSE "release"
  /\ work' = Committed
  /\ UNCHANGED vars

\* Mutation: the statement is sent through s.db, not through tx.
ThroughDB(p) == conn = Free

\* A statement of a transaction runs on the connection the transaction holds.
ThroughTx(p) == conn = p

\* The statement at changes the tables of the transaction.
Exec(p, at, then, tables) ==
  /\ ThroughTx(p) /\ stmt = at
  /\ stmt' = then
  /\ work' = tables
  /\ UNCHANGED <<vars, conn>>

\* The tables of the transaction become everybody's.
Keep ==
  /\ currentVersion' = work.currentVersion
  /\ draftRevision' = work.draftRevision
  /\ draftItems' = work.draftItems
  /\ releases' = work.releases
  /\ audits' = work.audits

\* Mutation: what the transaction has written so far stays.
KeepOnError == Keep

\* The deferred tx.Rollback: nothing of the transaction stays.
Rollback == UNCHANGED db

\* The transaction is over and the next waiter gets the connection.
Done ==
  /\ conn' = Free
  /\ stmt' = "none"
  /\ work' = Committed'

\* The statement at makes the function return an error.
Abort(p, at, code) ==
  /\ ThroughTx(p) /\ stmt = at
  /\ Refuse(p, code)
  /\ Rollback
  /\ Done

-----------------------------------------------------------------------------
(* SaveDraft.                                                              *)

\* Mutation: the revision is raised, whatever it was.
AnyRevision(e, n) == n \in Nat

\* UPDATE environments ... WHERE id = ? AND draft_revision = ?
RevisionIs(e, n) == work.draftRevision[e] = n

UpdateRevision(p) ==
  LET e == call[p].env
      found == RevisionIs(e, call[p].expected)
  IN  Exec(p, "revision", IF found THEN "delete" ELSE "exists",
        IF found THEN [work EXCEPT !.draftRevision[e] = @ + 1] ELSE work)

\* SELECT 1: why no row was updated.  Environments are never deleted.
CheckExists(p) == Abort(p, "exists", "REVISION_CONFLICT")

-----------------------------------------------------------------------------
(* WriteRelease.                                                           *)

Version(p) == NextVersion(seen[p].version)

\* The row a release request inserts; a rollback names its source.
NewRow(p) == [items |-> seen[p].items, digest |-> seen[p].digest,
              source |-> call[p].target]

Inserted(rows, v, row) ==
  [w \in DOMAIN rows \cup {v} |-> IF w = v THEN row ELSE rows[w]]

\* UNIQUE (environment_id, version)
InsertRow(p) ==
  LET e == call[p].env
      rows == work.releases[e]
  IN
  IF Version(p) \in DOMAIN rows THEN Abort(p, "release", "CONFLICT")
  ELSE Exec(p, "release", "version",
         [work EXCEPT !.releases[e] = Inserted(rows, Version(p), NewRow(p))])

\* UPDATE environments ... WHERE id = ? AND current_version = ?
VersionIs(e, n) == work.currentVersion[e] = n

\* The else branch is never taken: the unique index has refused before
\* (Releases!LostRaceIsConflict).
UpdateVersion(p) ==
  IF VersionIs(call[p].env, call[p].expected)
  THEN Exec(p, "version", IF call[p].op = "rollback" THEN "delete" ELSE "audit",
         [work EXCEPT !.currentVersion[call[p].env] = Version(p)])
  ELSE Abort(p, "version", "VERSION_CONFLICT")

\* SyncDraft counts the change after it has replaced the rows.
CountChange(p) ==
  Exec(p, "count", "audit", [work EXCEPT !.draftRevision[call[p].env] = @ + 1])

-----------------------------------------------------------------------------
(* Statements of both.                                                     *)

\* The list a transaction writes to the draft.
Written(p) == IF call[p].op = "save" THEN call[p].items ELSE seen[p].items

DeleteItems(p) ==
  Exec(p, "delete", "items", [work EXCEPT !.draftItems[call[p].env] = NoItems])

\* insertDraftItems: the loop over the items is one step; its failures, at any
\* item, are those of Cancel.
InsertItems(p) ==
  Exec(p, "items", IF call[p].op = "save" THEN "audit" ELSE "count",
    [work EXCEPT !.draftItems[call[p].env] = Written(p)])

Action(p) == IF call[p].op = "save" THEN "draft.save" ELSE call[p].op

InsertAudit(p) ==
  LET e == call[p].env IN
  Exec(p, "audit", "commit", [work EXCEPT !.audits[e][Action(p)] = @ + 1])

Commit(p) ==
  /\ ThroughTx(p) /\ stmt = "commit"
  /\ Keep
  /\ IF call[p].op = "save"
     THEN Answered(p, "saved", call[p].expected + 1, call[p].items)
     ELSE Goto(p, "broadcast") /\ UNCHANGED seen
  /\ Done

-----------------------------------------------------------------------------
(* Everything else.                                                        *)

\* A query of a service waits for the connection too, and gives it back.
Query(p) ==
  /\ conn = Free
  /\ \/ DraftResolve(p) \/ ReadRevision(p) \/ ReadDraft(p)
     \/ SaveResolve(p)
     \/ PublishResolve(p) \/ PublishReadDraft(p)
     \/ RollbackResolve(p) \/ RollbackReadTarget(p)
     \/ ReadCurrent(p)
  /\ UNCHANGED tx

\* A statement or BeginTx fails, or the context of the request is cancelled: in
\* the middle of a transaction, or while the request waits for the connection.
Cancel(p) ==
  /\ pc[p] \notin {"idle", "broadcast"}
  /\ Refuse(p, "INTERNAL_ERROR")
  /\ IF conn = p THEN Rollback /\ Done ELSE UNCHANGED <<db, tx>>

\* The process dies: the file keeps what was committed.
CrashTx == Crash /\ Done

TxArrive(p) == Arrive(p) /\ call'[p] \in Asks[p] /\ UNCHANGED tx

Transact(p) ==
  \/ Begin(p)
  \/ UpdateRevision(p) \/ CheckExists(p)
  \/ InsertRow(p) \/ UpdateVersion(p)
  \/ DeleteItems(p) \/ InsertItems(p) \/ CountChange(p)
  \/ InsertAudit(p) \/ Commit(p)

Serve(p) == Query(p) \/ Transact(p) \/ (Broadcast(p) /\ UNCHANGED tx)

TxNext ==
  \/ CrashTx
  \/ \E p \in Req : TxArrive(p) \/ Serve(p) \/ Cancel(p)

TxSpec == TxInit /\ [][TxNext]_txVars

\* database/sql hands the connection to one of its waiters at random, so none
\* is passed over for ever.  Nothing is assumed of failures and crashes.
TxFairSpec == TxSpec /\ \A p \in Req : SF_txVars(Serve(p))

-----------------------------------------------------------------------------
(* Properties.                                                             *)

\* The statements of the transaction of p.
Statements(p) ==
  IF call[p].op = "save" THEN {"revision", "exists", "delete", "items", "audit", "commit"}
  ELSE {"release", "version", "audit", "commit"}
       \cup (IF call[p].op = "rollback" THEN {"delete", "items", "count"} ELSE {})

\* The tables as the statements before stmt have changed them.
Image(p) ==
  LET e == call[p].env
      save == call[p].op = "save"
      last == stmt \in {"audit", "commit"}
      raised == IF save THEN stmt \notin {"revision", "exists"}
                        ELSE call[p].op = "rollback" /\ last
      filled == call[p].op # "publish" /\ (last \/ stmt = "count")
      inserted == ~save /\ stmt # "release"
      moved == inserted /\ stmt # "version"
  IN
  [currentVersion |->
     IF moved THEN [currentVersion EXCEPT ![e] = Version(p)] ELSE currentVersion,
   draftRevision |->
     IF raised THEN [draftRevision EXCEPT ![e] = @ + 1] ELSE draftRevision,
   draftItems |->
     IF filled THEN [draftItems EXCEPT ![e] = Written(p)]
     ELSE IF stmt = "items" THEN [draftItems EXCEPT ![e] = NoItems] ELSE draftItems,
   releases |->
     IF inserted THEN [releases EXCEPT ![e] = Inserted(@, Version(p), NewRow(p))]
                 ELSE releases,
   audits |->
     IF stmt = "commit" THEN [audits EXCEPT ![e][Action(p)] = @ + 1] ELSE audits]

\* What the guards of the transaction of p have found is still so.
GuardsHold(p) ==
  LET e == call[p].env IN
  /\ call[p].op = "save" /\ stmt # "revision" =>
       (draftRevision[e] = call[p].expected <=> stmt # "exists")
  /\ Releasing(p) /\ stmt # "release" => Version(p) \notin DOMAIN releases[e]
  /\ Releasing(p) /\ stmt \notin {"release", "version"} =>
       currentVersion[e] = call[p].expected

\* A transaction sees the committed tables with its own statements applied, and
\* nothing its WHERE clauses compared has changed under it: only the holder of
\* the connection is inside a transaction.
Isolated ==
  /\ conn = Free <=> stmt = "none"
  /\ conn # Free =>
       /\ conn \in Req
       /\ pc[conn] = "write" /\ call[conn].op \in {"save", "publish", "rollback"}
       /\ stmt \in Statements(conn)
       /\ work = Image(conn)
       /\ GuardsHold(conn)

\* Statement by statement, with failures and crashes between any two of them,
\* the transactions do what Releases does in one step: all of it or nothing.
ImplementsReleases == Spec

\* Under TxFairSpec: every request ends, although each query waits for the one
\* connection; no transaction waits for the connection it holds itself.
RequestsEnd == \A p \in Req : pc[p] # "idle" ~> pc[p] = "idle"
=============================================================================
