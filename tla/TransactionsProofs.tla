------------------------- MODULE TransactionsProofs -------------------------
(***************************************************************************)
(* Transactions implements Releases: a transaction that is interrupted     *)
(* between its statements by failures, crashes and everything the other    *)
(* requests may do without the connection is still one step, or none.  For *)
(* any environments, requests, item lists and workload.                    *)
(***************************************************************************)
EXTENDS Transactions, ReleasesProofs

\* Only a save, a publish and a rollback come to a transaction.
Writers == \A p \in Req : pc[p] = "write" => call[p].op \in {"save", "publish", "rollback"}

TxInv == TypeOK /\ Writers /\ Isolated

-----------------------------------------------------------------------------
(* One transaction.                                                        *)

\* The tables a transaction sees, one by one.
LEMMA WorkIsImage ==
  ASSUME Isolated, conn # Free
  PROVE  LET i == Image(conn) IN
         /\ work.currentVersion = i.currentVersion
         /\ work.draftRevision = i.draftRevision
         /\ work.draftItems = i.draftItems
         /\ work.releases = i.releases
         /\ work.audits = i.audits
PROOF
  BY DEF Isolated

\* Beginning a transaction compares nothing yet and has changed nothing.
LEMMA BeginIsolated ==
  ASSUME TxInv, NEW p \in Req, Begin(p)
  PROVE  Isolated'
PROOF
  <1>1. /\ conn' = p /\ p # Free
        /\ pc' = pc /\ call' = call /\ seen' = seen
        /\ currentVersion' = currentVersion /\ draftRevision' = draftRevision
        /\ draftItems' = draftItems /\ releases' = releases /\ audits' = audits
        /\ pc[p] = "write" /\ call[p].op \in {"save", "publish", "rollback"}
    BY FreeAssumption DEF Begin, TxInv, Writers, vars, db, local
  <1>2. stmt' = IF call[p].op = "save" THEN "revision" ELSE "release"
    BY DEF Begin
  <1>3. stmt' \in Statements(p)'
    BY <1>1, <1>2 DEF Statements
  <1>4. work' = Image(p)'
    BY <1>1, <1>2 DEF Begin, Image, Committed
  <1>5. GuardsHold(p)'
    BY <1>1, <1>2 DEF GuardsHold, Releasing
  <1> QED BY <1>1, <1>2, <1>3, <1>4, <1>5 DEF Isolated

\* The request that holds the connection is inside its transaction.
LEMMA Holder ==
  ASSUME TxInv, NEW p \in Req, ThroughTx(p)
  PROVE  /\ conn = p /\ p # Free /\ stmt # "none"
         /\ pc[p] = "write" /\ call[p].op \in {"save", "publish", "rollback"}
         /\ stmt \in Statements(p) /\ work = Image(p) /\ GuardsHold(p)
         /\ call[p].env \in Env /\ call[p].expected \in Nat
         /\ seen[p].version \in Nat
PROOF
  <1>1. conn = p /\ conn # Free
    BY FreeAssumption DEF ThroughTx
  <1> QED BY <1>1, Typed DEF TxInv, Isolated

\* A statement that does not end the transaction leaves the rest as it is.
LEMMA ExecIsolated ==
  ASSUME TxInv, NEW p \in Req, NEW at, NEW then, NEW tables,
         Exec(p, at, then, tables),
         then \in Statements(p),
         tables = Image(p)', GuardsHold(p)'
  PROVE  Isolated'
PROOF
  <1>1. /\ ThroughTx(p) /\ stmt' = then /\ work' = tables /\ conn' = conn
        /\ pc' = pc /\ call' = call
    BY DEF Exec, vars, local
  <1>2. /\ conn = p /\ p # Free
        /\ pc[p] = "write" /\ call[p].op \in {"save", "publish", "rollback"}
    BY <1>1, Holder
  <1>3. then # "none"
    BY <1>2 DEF Statements
  <1>4. stmt' \in Statements(p)'
    BY <1>1 DEF Statements
  <1> QED BY <1>1, <1>2, <1>3, <1>4 DEF Isolated

\* Once a transaction is over, nobody is inside one.
LEMMA DoneIsolated == ASSUME Done PROVE Isolated'
PROOF
  BY DEF Done, Isolated

\* What the tables of a transaction become, when one of its statements sets one.
LEMMA ImageKept ==
  ASSUME NEW p \in Req, NEW at, NEW then, NEW tables, Exec(p, at, then, tables)
  PROVE  /\ pc' = pc /\ call' = call /\ seen' = seen
         /\ currentVersion' = currentVersion /\ draftRevision' = draftRevision
         /\ draftItems' = draftItems /\ releases' = releases /\ audits' = audits
         /\ stmt = at /\ stmt' = then /\ ThroughTx(p)
PROOF
  BY DEF Exec, vars, db, local

\* UPDATE environments ... draft_revision
LEMMA UpdateRevisionIsolated ==
  ASSUME TxInv, NEW p \in Req, UpdateRevision(p)
  PROVE  Isolated'
PROOF
  <1> DEFINE e == call[p].env
             found == RevisionIs(e, call[p].expected)
             then == IF found THEN "delete" ELSE "exists"
             tables == IF found THEN [work EXCEPT !.draftRevision[e] = @ + 1] ELSE work
  <1>1. Exec(p, "revision", then, tables)
    BY DEF UpdateRevision
  <1>2. /\ call[p].op = "save" /\ work = Image(p)
        /\ then \in Statements(p)
    BY <1>1, ImageKept, Holder DEF Statements
  <1>3. work = Committed
    BY <1>1, <1>2, ImageKept DEF Image, Committed
  <1>4. found <=> draftRevision[e] = call[p].expected
    BY <1>3 DEF RevisionIs, Committed
  <1>5. tables = Image(p)'
    BY <1>1, <1>2, <1>3, ImageKept DEF Image, Committed
  <1>6. GuardsHold(p)'
    BY <1>1, <1>2, <1>4, ImageKept DEF GuardsHold, Releasing
  <1> QED BY <1>1, <1>2, <1>5, <1>6, ExecIsolated

\* INSERT INTO releases
LEMMA InsertRowIsolated ==
  ASSUME TxInv, NEW p \in Req, InsertRow(p), ThroughTx(p),
         Version(p) \notin DOMAIN work.releases[call[p].env]
  PROVE  Isolated'
PROOF
  <1> DEFINE e == call[p].env
             rows == Inserted(work.releases[e], Version(p), NewRow(p))
             tables == [work EXCEPT !.releases[e] = rows]
  <1>1. Exec(p, "release", "version", tables)
    BY DEF InsertRow
  <1>2. /\ call[p].op \in {"publish", "rollback"} /\ work = Image(p)
        /\ "version" \in Statements(p)
    BY <1>1, ImageKept, Holder DEF Statements
  <1>3. work = Committed
    BY <1>1, <1>2, ImageKept DEF Image, Committed
  <1>4. Version(p)' = Version(p) /\ NewRow(p)' = NewRow(p)
    BY <1>1, ImageKept DEF Version, NextVersion, NewRow
  <1>5. tables = Image(p)'
    BY <1>1, <1>2, <1>3, <1>4, ImageKept DEF Image, Committed
  <1>6. GuardsHold(p)'
    BY <1>1, <1>2, <1>3, <1>4, ImageKept DEF GuardsHold, Releasing, Committed
  <1> QED BY <1>1, <1>2, <1>5, <1>6, ExecIsolated

\* UPDATE environments ... current_version
LEMMA UpdateVersionIsolated ==
  ASSUME TxInv, NEW p \in Req, UpdateVersion(p), ThroughTx(p),
         VersionIs(call[p].env, call[p].expected)
  PROVE  Isolated'
PROOF
  <1> DEFINE e == call[p].env
             then == IF call[p].op = "rollback" THEN "delete" ELSE "audit"
             tables == [work EXCEPT !.currentVersion[e] = Version(p)]
  <1>1. Exec(p, "version", then, tables)
    BY DEF UpdateVersion
  <1>2. /\ call[p].op \in {"publish", "rollback"} /\ work = Image(p)
        /\ then \in Statements(p) /\ GuardsHold(p)
    BY <1>1, ImageKept, Holder DEF Statements
  <1>3. Version(p)' = Version(p) /\ NewRow(p)' = NewRow(p)
    BY <1>1, ImageKept DEF Version, NextVersion, NewRow
  <1>4. work.currentVersion = currentVersion
    BY <1>1, <1>2, ImageKept DEF Image
  <1>5. tables = Image(p)'
    BY <1>1, <1>2, <1>3, ImageKept DEF Image
  <1>6. GuardsHold(p)'
    BY <1>1, <1>2, <1>3, <1>4, ImageKept DEF GuardsHold, Releasing, VersionIs
  <1> QED BY <1>1, <1>2, <1>5, <1>6, ExecIsolated

\* DELETE FROM draft_items
LEMMA DeleteItemsIsolated ==
  ASSUME TxInv, NEW p \in Req, DeleteItems(p)
  PROVE  Isolated'
PROOF
  <1> DEFINE tables == [work EXCEPT !.draftItems[call[p].env] = NoItems]
  <1>1. Exec(p, "delete", "items", tables)
    BY DEF DeleteItems
  <1>2. /\ call[p].op \in {"save", "rollback"} /\ work = Image(p)
        /\ "items" \in Statements(p) /\ GuardsHold(p)
    BY <1>1, ImageKept, Holder DEF Statements
  <1>3. Version(p)' = Version(p) /\ NewRow(p)' = NewRow(p)
    BY <1>1, ImageKept DEF Version, NextVersion, NewRow
  <1>4. tables = Image(p)'
    BY <1>1, <1>2, <1>3, ImageKept DEF Image
  <1>5. GuardsHold(p)'
    BY <1>1, <1>2, <1>3, ImageKept DEF GuardsHold, Releasing
  <1> QED BY <1>1, <1>2, <1>4, <1>5, ExecIsolated

\* INSERT INTO draft_items
LEMMA InsertItemsIsolated ==
  ASSUME TxInv, NEW p \in Req, InsertItems(p)
  PROVE  Isolated'
PROOF
  <1> DEFINE e == call[p].env
             then == IF call[p].op = "save" THEN "audit" ELSE "count"
             tables == [work EXCEPT !.draftItems[e] = Written(p)]
  <1>1. Exec(p, "items", then, tables)
    BY DEF InsertItems
  <1>2. /\ call[p].op \in {"save", "rollback"} /\ work = Image(p)
        /\ then \in Statements(p) /\ GuardsHold(p) /\ e \in Env
    BY <1>1, ImageKept, Holder DEF Statements
  <1>3. /\ Version(p)' = Version(p) /\ NewRow(p)' = NewRow(p)
        /\ Written(p)' = Written(p)
    BY <1>1, ImageKept DEF Version, NextVersion, NewRow, Written
  <1>4. [[draftItems EXCEPT ![e] = NoItems] EXCEPT ![e] = Written(p)]
          = [draftItems EXCEPT ![e] = Written(p)]
    BY <1>2 DEF TxInv, TypeOK
  <1>5. tables = Image(p)'
    BY <1>1, <1>2, <1>3, <1>4, ImageKept DEF Image
  <1>6. GuardsHold(p)'
    BY <1>1, <1>2, <1>3, ImageKept DEF GuardsHold, Releasing
  <1> QED BY <1>1, <1>2, <1>5, <1>6, ExecIsolated

\* UPDATE environments ... draft_revision, of a rollback
LEMMA CountChangeIsolated ==
  ASSUME TxInv, NEW p \in Req, CountChange(p)
  PROVE  Isolated'
PROOF
  <1> DEFINE tables == [work EXCEPT !.draftRevision[call[p].env] = @ + 1]
  <1>1. Exec(p, "count", "audit", tables)
    BY DEF CountChange
  <1>2. /\ call[p].op = "rollback" /\ work = Image(p)
        /\ "audit" \in Statements(p) /\ GuardsHold(p)
    BY <1>1, ImageKept, Holder DEF Statements
  <1>3. /\ Version(p)' = Version(p) /\ NewRow(p)' = NewRow(p)
        /\ Written(p)' = Written(p)
    BY <1>1, ImageKept DEF Version, NextVersion, NewRow, Written
  <1>4. tables = Image(p)'
    BY <1>1, <1>2, <1>3, ImageKept DEF Image
  <1>5. GuardsHold(p)'
    BY <1>1, <1>2, <1>3, ImageKept DEF GuardsHold, Releasing
  <1> QED BY <1>1, <1>2, <1>4, <1>5, ExecIsolated

\* INSERT INTO audit_logs
LEMMA InsertAuditIsolated ==
  ASSUME TxInv, NEW p \in Req, InsertAudit(p)
  PROVE  Isolated'
PROOF
  <1> DEFINE tables == [work EXCEPT !.audits[call[p].env][Action(p)] = @ + 1]
  <1>1. Exec(p, "audit", "commit", tables)
    BY DEF InsertAudit
  <1>2. /\ call[p].op \in {"save", "publish", "rollback"} /\ work = Image(p)
        /\ "commit" \in Statements(p) /\ GuardsHold(p)
    BY <1>1, ImageKept, Holder DEF Statements
  <1>3. /\ Version(p)' = Version(p) /\ NewRow(p)' = NewRow(p)
        /\ Written(p)' = Written(p) /\ Action(p)' = Action(p)
    BY <1>1, ImageKept DEF Version, NextVersion, NewRow, Written, Action
  <1>4. tables = Image(p)'
    BY <1>1, <1>2, <1>3, ImageKept DEF Image
  <1>5. GuardsHold(p)'
    BY <1>1, <1>2, <1>3, ImageKept DEF GuardsHold, Releasing
  <1> QED BY <1>1, <1>2, <1>4, <1>5, ExecIsolated

-----------------------------------------------------------------------------
(* A transaction that ends is one step of Releases.                        *)

\* A save that commits is SaveDraft.
LEMMA CommitSaves ==
  ASSUME TxInv, NEW p \in Req, Commit(p), call[p].op = "save"
  PROVE  SaveDraft(p)
PROOF
  <1> DEFINE e == call[p].env
  <1>1. /\ ThroughTx(p) /\ stmt = "commit" /\ Keep
        /\ Answered(p, "saved", call[p].expected + 1, call[p].items)
    BY DEF Commit
  <1>2. pc[p] = "write" /\ work = Image(p) /\ GuardsHold(p)
    BY <1>1, Holder
  <1>3. /\ UNCHANGED <<currentVersion, releases>>
        /\ draftRevision' = [draftRevision EXCEPT ![e] = @ + 1]
        /\ draftItems' = [draftItems EXCEPT ![e] = call[p].items]
        /\ audits' = [audits EXCEPT ![e]["draft.save"] = @ + 1]
    BY <1>1, <1>2 DEF Keep, Image, Written, Action
  <1>4. AcceptsRevision(e, call[p].expected)
    BY <1>1, <1>2 DEF GuardsHold, AcceptsRevision
  <1> QED BY <1>1, <1>2, <1>3, <1>4 DEF SaveDraft, At, Audit

\* A publish or a rollback that commits is WriteRelease.
LEMMA CommitReleases ==
  ASSUME TxInv, NEW p \in Req, Commit(p), call[p].op # "save"
  PROVE  WriteRelease(p)
PROOF
  <1> DEFINE e == call[p].env
             v == NextVersion(seen[p].version)
             rollback == call[p].op = "rollback"
  <1>1. /\ ThroughTx(p) /\ stmt = "commit" /\ Keep
        /\ Goto(p, "broadcast") /\ UNCHANGED seen
    BY DEF Commit
  <1>2. /\ pc[p] = "write" /\ call[p].op \in {"publish", "rollback"}
        /\ work = Image(p) /\ GuardsHold(p)
    BY <1>1, Holder
  <1>3. WriteOutcome(e, v, call[p].expected) = "release"
    BY <1>1, <1>2 DEF GuardsHold, Releasing, WriteOutcome, Version
  <1>4. releases' = [releases EXCEPT ![e] = Inserted(@, v, NewRow(p))]
    BY <1>1, <1>2 DEF Keep, Image, Version
  <1>5. InsertRelease(e, v, [items |-> seen[p].items, digest |-> seen[p].digest,
                             source |-> call[p].target])
    BY <1>4 DEF InsertRelease, Inserted, NewRow
  <1>6. /\ currentVersion' = [currentVersion EXCEPT ![e] = v]
        /\ audits' = [audits EXCEPT ![e][call[p].op] = @ + 1]
    BY <1>1, <1>2 DEF Keep, Image, Version, Action
  <1>7. IF rollback THEN SyncDraft(e, seen[p].items)
                    ELSE UNCHANGED <<draftItems, draftRevision>>
    BY <1>1, <1>2 DEF Keep, Image, Written, SyncDraft
  <1> QED BY <1>1, <1>2, <1>3, <1>5, <1>6, <1>7 DEF WriteRelease, Releasing, Audit

\* A save whose revision was not found is refused as SaveDraft refuses it.
LEMMA ConflictRefuses ==
  ASSUME TxInv, NEW p \in Req, CheckExists(p)
  PROVE  SaveDraft(p)
PROOF
  <1>1. /\ ThroughTx(p) /\ stmt = "exists" /\ Refuse(p, "REVISION_CONFLICT")
        /\ UNCHANGED db
    BY DEF CheckExists, Abort, Rollback
  <1>2. pc[p] = "write" /\ call[p].op = "save" /\ GuardsHold(p)
    BY <1>1, Holder DEF Statements
  <1>3. ~AcceptsRevision(call[p].env, call[p].expected)
    BY <1>1, <1>2 DEF GuardsHold, AcceptsRevision
  <1> QED BY <1>1, <1>2, <1>3 DEF SaveDraft, At

\* A row that the unique index refuses is refused by WriteRelease.
LEMMA IndexRefuses ==
  ASSUME TxInv, NEW p \in Req, Abort(p, "release", "CONFLICT"),
         Version(p) \in DOMAIN work.releases[call[p].env]
  PROVE  WriteRelease(p)
PROOF
  <1>1. /\ ThroughTx(p) /\ stmt = "release" /\ Refuse(p, "CONFLICT") /\ UNCHANGED db
    BY DEF Abort, Rollback
  <1>2. /\ pc[p] = "write" /\ call[p].op \in {"publish", "rollback"}
        /\ work = Image(p)
    BY <1>1, Holder DEF Statements
  <1>3. work.releases = releases
    BY <1>1, <1>2 DEF Image
  <1>4. WriteOutcome(call[p].env, NextVersion(seen[p].version), call[p].expected)
          = "CONFLICT"
    BY <1>3 DEF WriteOutcome, Version
  <1> QED BY <1>1, <1>2, <1>4 DEF WriteRelease, Releasing

\* So is a version that is not the expected one any more.
LEMMA UpdateRefuses ==
  ASSUME TxInv, NEW p \in Req, Abort(p, "version", "VERSION_CONFLICT"),
         ~VersionIs(call[p].env, call[p].expected)
  PROVE  WriteRelease(p)
PROOF
  <1>1. /\ ThroughTx(p) /\ stmt = "version" /\ Refuse(p, "VERSION_CONFLICT")
        /\ UNCHANGED db
    BY DEF Abort, Rollback
  <1>2. /\ pc[p] = "write" /\ call[p].op \in {"publish", "rollback"}
        /\ work = Image(p) /\ GuardsHold(p)
    BY <1>1, Holder DEF Statements
  <1>3. work.currentVersion = currentVersion
    BY <1>1, <1>2 DEF Image
  <1>4. WriteOutcome(call[p].env, NextVersion(seen[p].version), call[p].expected)
          = "VERSION_CONFLICT"
    BY <1>1, <1>2, <1>3 DEF GuardsHold, Releasing, WriteOutcome, Version, VersionIs
  <1> QED BY <1>1, <1>2, <1>4 DEF WriteRelease, Releasing

\* Each statement of a transaction is a step of Releases or none, and leaves
\* the transactions isolated.
LEMMA TransactStep ==
  ASSUME TxInv, NEW p \in Req, Transact(p)
  PROVE  [Next]_vars /\ Isolated'
PROOF
  <1>1. CASE Begin(p)
    BY <1>1, BeginIsolated DEF Begin
  <1>2. CASE UpdateRevision(p)
    BY <1>2, UpdateRevisionIsolated DEF UpdateRevision, Exec
  <1>3. CASE CheckExists(p)
    BY <1>3, ConflictRefuses, DoneIsolated DEF CheckExists, Abort, Next, Step
  <1>4. CASE InsertRow(p)
    <2>1. CASE Version(p) \in DOMAIN work.releases[call[p].env]
      BY <1>4, <2>1, IndexRefuses, DoneIsolated DEF InsertRow, Abort, Next, Step
    <2>2. CASE Version(p) \notin DOMAIN work.releases[call[p].env]
      BY <1>4, <2>2, InsertRowIsolated DEF InsertRow, Exec
    <2> QED BY <2>1, <2>2
  <1>5. CASE UpdateVersion(p)
    <2>1. CASE VersionIs(call[p].env, call[p].expected)
      BY <1>5, <2>1, UpdateVersionIsolated DEF UpdateVersion, Exec
    <2>2. CASE ~VersionIs(call[p].env, call[p].expected)
      BY <1>5, <2>2, UpdateRefuses, DoneIsolated DEF UpdateVersion, Abort, Next, Step
    <2> QED BY <2>1, <2>2
  <1>6. CASE DeleteItems(p)
    BY <1>6, DeleteItemsIsolated DEF DeleteItems, Exec
  <1>7. CASE InsertItems(p)
    BY <1>7, InsertItemsIsolated DEF InsertItems, Exec
  <1>8. CASE CountChange(p)
    BY <1>8, CountChangeIsolated DEF CountChange, Exec
  <1>9. CASE InsertAudit(p)
    BY <1>9, InsertAuditIsolated DEF InsertAudit, Exec
  <1>10. CASE Commit(p)
    <2>1. SaveDraft(p) \/ WriteRelease(p)
      BY <1>10, CommitSaves, CommitReleases
    <2> QED BY <1>10, <2>1, DoneIsolated DEF Commit, Next, Step
  <1> QED
    BY <1>1, <1>2, <1>3, <1>4, <1>5, <1>6, <1>7, <1>8, <1>9, <1>10 DEF Transact

-----------------------------------------------------------------------------
(* The steps outside of transactions.                                      *)

\* A step that touches neither the tables nor the request inside a transaction.
LEMMA FrameIsolated ==
  ASSUME Isolated, UNCHANGED <<db, tx>>,
         conn # Free => /\ pc'[conn] = pc[conn] /\ call'[conn] = call[conn]
                        /\ seen'[conn] = seen[conn]
  PROVE  Isolated'
PROOF
  <1>1. /\ conn' = conn /\ stmt' = stmt /\ work' = work
        /\ currentVersion' = currentVersion /\ draftRevision' = draftRevision
        /\ draftItems' = draftItems /\ releases' = releases /\ audits' = audits
    BY DEF db, tx
  <1>2. CASE conn = Free
    BY <1>1, <1>2 DEF Isolated
  <1>3. CASE conn # Free
    <2>1. /\ Version(conn)' = Version(conn) /\ NewRow(conn)' = NewRow(conn)
          /\ Written(conn)' = Written(conn) /\ Action(conn)' = Action(conn)
      BY <1>1, <1>3 DEF Version, NextVersion, NewRow, Written, Action
    <2>2. Statements(conn)' = Statements(conn)
      BY <1>1, <1>3 DEF Statements
    <2>3. Image(conn)' = Image(conn)
      BY <1>1, <1>3, <2>1 DEF Image
    <2>4. GuardsHold(conn)' <=> GuardsHold(conn)
      BY <1>1, <1>3, <2>1 DEF GuardsHold, Releasing
    <2> QED BY <1>1, <1>3, <2>2, <2>3, <2>4 DEF Isolated
  <1> QED BY <1>2, <1>3

\* Another request goes on while a transaction is open: its step reads and
\* writes none of the tables.
LEMMA OtherIsolated ==
  ASSUME TxInv, NEW p \in Req, Arrive(p) \/ Broadcast(p) \/ Fail(p),
         UNCHANGED <<db, tx>>, conn # p
  PROVE  Isolated'
PROOF
  <1>1. conn # Free => conn \in Req \ {p}
    BY DEF TxInv, Isolated
  <1> QED BY <1>1, OthersKept, FrameIsolated DEF TxInv, Step

\* A query of a service is its step of Releases; nobody is in a transaction.
LEMMA QueryStep ==
  ASSUME TxInv, NEW p \in Req, Query(p)
  PROVE  Step(p) /\ Isolated'
PROOF
  <1>1. conn' = Free /\ stmt' = "none"
    BY DEF Query, tx, TxInv, Isolated
  <1> QED BY <1>1 DEF Query, Step, Isolated

\* A request comes to a transaction as a save, a publish or a rollback.
LEMMA WritersStep ==
  ASSUME TypeOK, Writers, [Next]_vars
  PROVE  Writers'
PROOF
  <1>1. CASE UNCHANGED vars
    BY <1>1 DEF vars, local, Writers
  <1>2. CASE Crash
    BY <1>2 DEF Crash, Writers
  <1>3. ASSUME NEW p \in Req, Arrive(p) \/ Step(p) \/ Fail(p)
        PROVE  Writers'
    <2>1. \A q \in Req \ {p} : pc'[q] = pc[q] /\ call'[q] = call[q]
      BY <1>3, OthersKept
    <2>2. pc'[p] = "write" => call'[p].op \in {"save", "publish", "rollback"}
      BY <1>3 DEF TypeOK, Writers, At, Releasing, Step, Arrive, Fail, DraftResolve,
         ReadRevision, ReadDraft, SaveResolve, SaveDraft, PublishResolve,
         PublishReadDraft, RollbackResolve, RollbackReadTarget, ReadCurrent,
         WriteRelease, Broadcast, Goto, Refuse, Answered, Answer
    <2> QED BY <2>1, <2>2 DEF Writers
  <1> QED BY <1>1, <1>2, <1>3 DEF Next

-----------------------------------------------------------------------------
(* All steps.                                                              *)

\* Every step of Transactions is a step of Releases or none.
LEMMA TxStep ==
  ASSUME TxInv, [TxNext]_txVars
  PROVE  [Next]_vars /\ Isolated'
PROOF
  <1>1. CASE UNCHANGED txVars
    <2>1. UNCHANGED vars /\ UNCHANGED tx
      BY <1>1 DEF txVars
    <2> QED BY <2>1, FrameIsolated DEF TxInv, vars, local
  <1>2. CASE CrashTx
    BY <1>2, DoneIsolated DEF CrashTx, Next
  <1>3. ASSUME NEW p \in Req, TxArrive(p)
        PROVE  [Next]_vars /\ Isolated'
    <2>1. Arrive(p) /\ UNCHANGED <<db, tx>> /\ conn # p
      BY <1>3, FreeAssumption DEF TxArrive, Arrive, TxInv, Isolated
    <2> QED BY <2>1, OtherIsolated DEF Next
  <1>4. ASSUME NEW p \in Req, Serve(p)
        PROVE  [Next]_vars /\ Isolated'
    <2>1. CASE Query(p)
      BY <2>1, QueryStep DEF Next
    <2>2. CASE Transact(p)
      BY <2>2, TransactStep
    <2>3. CASE Broadcast(p) /\ UNCHANGED tx
      <3>1. UNCHANGED <<db, tx>> /\ conn # p
        BY <2>3, FreeAssumption DEF Broadcast, TxInv, Isolated
      <3> QED BY <2>3, <3>1, OtherIsolated DEF Next, Step
    <2> QED BY <1>4, <2>1, <2>2, <2>3 DEF Serve
  <1>5. ASSUME NEW p \in Req, Cancel(p)
        PROVE  [Next]_vars /\ Isolated'
    <2>1. Fail(p)
      BY <1>5 DEF Cancel, Rollback, Fail
    <2>2. CASE conn = p
      BY <1>5, <2>1, <2>2, DoneIsolated DEF Cancel, Next
    <2>3. CASE conn # p
      BY <1>5, <2>1, <2>3, OtherIsolated DEF Cancel, Next
    <2> QED BY <2>2, <2>3
  <1> QED BY <1>1, <1>2, <1>3, <1>4, <1>5 DEF TxNext

LEMMA TxInvariance == TxSpec => []TxInv /\ [][Next]_vars
PROOF
  <1>1. TxInit => TxInv
    <2>1. TxInit => Writers /\ Isolated
      BY DEF TxInit, Init, Writers, Isolated
    <2> QED BY <2>1, InitType DEF TxInit, TxInv
  <1>2. TxInv /\ [TxNext]_txVars => TxInv' /\ [Next]_vars
    BY TxStep, NextType, WritersStep DEF TxInv
  <1> QED BY <1>1, <1>2, PTL DEF TxSpec

\* A transaction sees the committed tables and its own statements, and what its
\* WHERE clauses compared stays so until it ends.
THEOREM TransactionsIsolated == TxSpec => []Isolated
PROOF
  <1>1. TxInv => Isolated
    BY DEF TxInv
  <1> QED BY <1>1, TxInvariance, PTL

\* The transactions, statement by statement, with failures and crashes between
\* any two of them, are all or nothing: they implement Releases.
THEOREM TransactionsAreAtomic == TxSpec => ImplementsReleases
PROOF
  <1>1. TxInit => Init
    BY DEF TxInit
  <1> QED BY <1>1, TxInvariance, PTL DEF TxSpec, Spec, ImplementsReleases

\* So what is proved of the tables and of the answers of Releases holds of the
\* transactions too.
THEOREM TablesStaySound ==
  TxSpec => [](VersionsGapless /\ NeighboursDiffer /\ AckedRelease /\ AuditComplete)
PROOF
  BY TransactionsAreAtomic, GaplessVersions, NeighboursAreDifferent, AnswersAreOwned,
     AuditsAreComplete, PTL DEF ImplementsReleases

=============================================================================
