-------------------------- MODULE ReleasesProofs ----------------------------
(***************************************************************************)
(* Proofs about Releases, for any environments, requests, item lists,      *)
(* checksums and bounds.  The first part is about the rows and what the    *)
(* requests have read, the second about what their callers have been told, *)
(* the third shows that Releases implements ConfigHistory.                 *)
(***************************************************************************)
EXTENDS Releases, SequenceTheorems, TLAPS

-----------------------------------------------------------------------------
(* Types.                                                                  *)

\* AnyEnv and what is made of it are of their types: Env is not empty.
LEMMA NothingType ==
  /\ AnyEnv \in Env
  /\ NoCall \in CallType
  /\ NothingSeen \in Seen
  /\ NoReply \in Reply
PROOF
  <1>1. AnyEnv \in Env
    BY ConstantsAssumption DEF AnyEnv
  <1>2. Digest[NoItems] \in Digests
    BY ConstantsAssumption DEF Digests
  <1> QED
    BY <1>1, <1>2, ConstantsAssumption
    DEF NoCall, NothingSeen, NoReply, CallType, Seen, Reply, Op

\* Whatever a request answers, its own variables stay in their types.
LEMMA AnswerType ==
  ASSUME TypeOK, NEW p \in Req, NEW r \in Reply, Answer(p, r)
  PROVE  /\ pc' \in [Req -> PC] /\ call' \in [Req -> CallType]
         /\ seen' \in [Req -> Seen] /\ reply' \in [Req -> Reply]
PROOF
  BY NothingType DEF TypeOK, Answer, PC

\* The same for the two forms of an answer the services give.
LEMMA AnsweredType ==
  ASSUME TypeOK, NEW p \in Req,
         NEW status \in {"draft", "saved", "release"} \cup Error,
         NEW n \in Nat, NEW i \in Items, Answered(p, status, n, i)
  PROVE  /\ pc' \in [Req -> PC] /\ call' \in [Req -> CallType]
         /\ seen' \in [Req -> Seen] /\ reply' \in [Req -> Reply]
PROOF
  <1>1. [status |-> status, env |-> call[p].env, num |-> n, items |-> i] \in Reply
    BY DEF TypeOK, CallType, Reply
  <1> QED BY <1>1, AnswerType DEF Answered

\* An error answer carries nothing of its own.
LEMMA RefuseType ==
  ASSUME TypeOK, NEW p \in Req, NEW code \in Error, Refuse(p, code)
  PROVE  /\ pc' \in [Req -> PC] /\ call' \in [Req -> CallType]
         /\ seen' \in [Req -> Seen] /\ reply' \in [Req -> Reply]
PROOF
  BY AnsweredType, ConstantsAssumption DEF Refuse

\* The values of a typed state that the actions copy.
LEMMA Typed ==
  ASSUME TypeOK, NEW p \in Req
  PROVE  /\ call[p] \in CallType /\ seen[p] \in Seen
         /\ call[p].env \in Env
         /\ seen[p].version \in Nat /\ seen[p].revision \in Nat
         /\ seen[p].items \in Items /\ seen[p].digest \in Digests
         /\ call[p].expected \in Nat /\ call[p].target \in Nat
         /\ call[p].items \in Items
         /\ draftItems[call[p].env] \in Items
         /\ currentVersion[call[p].env] \in Nat
         /\ draftRevision[call[p].env] \in Nat
PROOF
  BY DEF TypeOK, CallType, Seen

\* The checksum of a valid list is a checksum.
LEMMA DigestType == \A i \in Items : Digest[i] \in Digests
PROOF
  BY DEF Digests

\* Init establishes the types.
LEMMA InitType == Init => TypeOK
PROOF
  <1> SUFFICES ASSUME Init PROVE TypeOK
    OBVIOUS
  <1>1. \A e \in Env : DOMAIN releases[e] = {}
    BY DEF Init
  <1> QED
    BY <1>1, NothingType, ConstantsAssumption DEF Init, TypeOK, PC

\* Goto keeps pc, call and reply in their types.
LEMMA GotoType ==
  ASSUME TypeOK, NEW p \in Req, NEW label \in PC, Goto(p, label)
  PROVE  /\ pc' \in [Req -> PC] /\ call' \in [Req -> CallType]
         /\ reply' \in [Req -> Reply]
PROOF
  BY DEF TypeOK, Goto

-----------------------------------------------------------------------------
\* A request that has read a list and its checksum keeps its variables' types.
LEMMA SeenType ==
  ASSUME TypeOK, NEW p \in Req, NEW i \in Items, NEW d \in Digests,
         seen' = [seen EXCEPT ![p].items = i, ![p].digest = d]
  PROVE  seen' \in [Req -> Seen]
PROOF
  <1>1. [seen[p] EXCEPT !.items = i, !.digest = d] \in Seen
    BY Typed DEF Seen
  <1> QED BY <1>1 DEF TypeOK

\* One more audit row of a known action.
LEMMA AuditType ==
  ASSUME TypeOK, NEW p \in Req, NEW a \in AuditAction, Audit(call[p].env, a)
  PROVE  audits' \in [Env -> [AuditAction -> Nat]]
PROOF
  <1>1. [audits[call[p].env] EXCEPT ![a] = @ + 1] \in [AuditAction -> Nat]
    BY Typed DEF TypeOK
  <1> QED BY <1>1, Typed DEF Audit, TypeOK

\* Only SaveDraft and WriteRelease write the tables.  What the others need for
\* their types is that the tables do not change.
LEMMA LocalStepType ==
  ASSUME TypeOK, UNCHANGED db,
         pc' \in [Req -> PC], call' \in [Req -> CallType],
         seen' \in [Req -> Seen], reply' \in [Req -> Reply]
  PROVE  TypeOK'
PROOF
  BY DEF TypeOK, db

\* A step of Next keeps every variable in its type.
LEMMA NextType == TypeOK /\ [Next]_vars => TypeOK'
PROOF
  <1> SUFFICES ASSUME TypeOK, [Next]_vars PROVE TypeOK'
    OBVIOUS
  <1>1. CASE UNCHANGED vars
    BY <1>1 DEF vars, db, local, TypeOK
  <1>2. CASE Crash
    <2>1. /\ pc' \in [Req -> PC] /\ call' \in [Req -> CallType]
          /\ seen' \in [Req -> Seen] /\ reply' \in [Req -> Reply]
      BY <1>2, NothingType DEF Crash, TypeOK, PC
    <2> QED BY <2>1, <1>2, LocalStepType DEF Crash, db
  <1>3. ASSUME NEW p \in Req, Arrive(p) PROVE TypeOK'
    <2>1. Calls \subseteq CallType
      BY ConstantsAssumption DEF Calls, CallType, Op
    <2>2. call' \in [Req -> CallType]
      BY <1>3, <2>1 DEF Arrive, TypeOK
    <2>3. pc' \in [Req -> PC]
      BY <1>3 DEF Arrive, TypeOK, PC
    <2> QED BY <1>3, <2>2, <2>3, LocalStepType DEF Arrive, TypeOK, db
  <1>4. ASSUME NEW p \in Req, Fail(p) PROVE TypeOK'
    BY <1>4, RefuseType, LocalStepType DEF Fail, Error
  <1>5. ASSUME NEW p \in Req, DraftResolve(p) PROVE TypeOK'
    BY <1>5, GotoType, LocalStepType DEF DraftResolve, PC, TypeOK
  <1>6. ASSUME NEW p \in Req, ReadRevision(p) PROVE TypeOK'
    <2>1. seen' \in [Req -> Seen]
      BY <1>6, Typed DEF ReadRevision, TypeOK, Seen
    <2> QED BY <1>6, <2>1, GotoType, LocalStepType DEF ReadRevision, PC
  <1>7. ASSUME NEW p \in Req, ReadDraft(p) PROVE TypeOK'
    <2>1. Answered(p, "draft", seen[p].revision, draftItems[call[p].env])
      BY <1>7 DEF ReadDraft
    <2> QED BY <1>7, <2>1, AnsweredType, Typed, LocalStepType DEF ReadDraft
  <1>8. ASSUME NEW p \in Req, SaveResolve(p) PROVE TypeOK'
    BY <1>8, GotoType, LocalStepType DEF SaveResolve, PC, TypeOK
  <1>9. ASSUME NEW p \in Req, SaveDraft(p) PROVE TypeOK'
    <2>1. CASE ~AcceptsRevision(call[p].env, call[p].expected)
      BY <1>9, <2>1, RefuseType, LocalStepType DEF SaveDraft, Error
    <2>2. CASE AcceptsRevision(call[p].env, call[p].expected)
      <3>1. Answered(p, "saved", call[p].expected + 1, call[p].items)
        BY <1>9, <2>2 DEF SaveDraft
      <3>2. /\ pc' \in [Req -> PC] /\ call' \in [Req -> CallType]
            /\ seen' \in [Req -> Seen] /\ reply' \in [Req -> Reply]
        <4>1. call[p].expected + 1 \in Nat /\ call[p].items \in Items
          BY Typed
        <4> QED BY <3>1, <4>1, AnsweredType
      <3>3. audits' \in [Env -> [AuditAction -> Nat]]
        <4>1. Audit(call[p].env, "draft.save")
          BY <1>9, <2>2 DEF SaveDraft
        <4> QED BY <4>1, AuditType DEF AuditAction
      <3>4. /\ draftRevision' \in [Env -> Nat]
            /\ draftItems' \in [Env -> Items]
            /\ UNCHANGED <<currentVersion, releases>>
        <4>1. /\ draftRevision' = [draftRevision EXCEPT ![call[p].env] = @ + 1]
              /\ draftItems' = [draftItems EXCEPT ![call[p].env] = call[p].items]
              /\ UNCHANGED <<currentVersion, releases>>
          BY <1>9, <2>2 DEF SaveDraft
        <4> QED BY <4>1, Typed DEF TypeOK
      <3> QED BY <3>2, <3>3, <3>4 DEF TypeOK
    <2> QED BY <2>1, <2>2
  <1>10. ASSUME NEW p \in Req, PublishResolve(p) PROVE TypeOK'
    <2>1. CASE currentVersion[call[p].env] # call[p].expected
      BY <1>10, <2>1, RefuseType, LocalStepType DEF PublishResolve, Error
    <2>2. CASE currentVersion[call[p].env] = call[p].expected
      <3>1. seen' \in [Req -> Seen]
        <4>1. [seen[p] EXCEPT !.version = call[p].expected] \in Seen
          BY Typed DEF Seen
        <4>2. seen' = [seen EXCEPT ![p] = [seen[p] EXCEPT !.version = call[p].expected]]
          BY <1>10, <2>2, Typed DEF PublishResolve
        <4> QED BY <4>1, <4>2 DEF TypeOK
      <3> QED BY <1>10, <2>2, <3>1, GotoType, LocalStepType DEF PublishResolve, PC
    <2> QED BY <2>1, <2>2
  <1>11. ASSUME NEW p \in Req, PublishReadDraft(p) PROVE TypeOK'
    <2> DEFINE i == draftItems[call[p].env]
    <2>1. CASE i \in Unencodable
      BY <1>11, <2>1, RefuseType, LocalStepType DEF PublishReadDraft, Error
    <2>2. CASE i \notin Unencodable
      <3>1. i \in Items /\ Digest[i] \in Digests
        BY Typed, DigestType
      <3>2. seen' = [seen EXCEPT ![p].items = i, ![p].digest = Digest[i]]
        BY <1>11, <2>2 DEF PublishReadDraft
      <3>3. seen' \in [Req -> Seen]
        BY <3>1, <3>2, SeenType
      <3> QED BY <1>11, <2>2, <3>3, GotoType, LocalStepType DEF PublishReadDraft, PC
    <2> QED BY <2>1, <2>2
  <1>12. ASSUME NEW p \in Req, RollbackResolve(p) PROVE TypeOK'
    <2> DEFINE version == currentVersion[call[p].env]
    <2>1. CASE Goto(p, "target") /\ seen' = [seen EXCEPT ![p].version = version]
      <3>1. seen' \in [Req -> Seen]
        BY <2>1, Typed DEF TypeOK, Seen
      <3> QED BY <1>12, <2>1, <3>1, GotoType, LocalStepType DEF RollbackResolve, PC
    <2>2. CASE Refuse(p, "VERSION_CONFLICT") \/ Refuse(p, "INVALID_ARGUMENT")
      BY <1>12, <2>2, RefuseType, LocalStepType DEF RollbackResolve, Error
    <2> QED BY <1>12, <2>1, <2>2 DEF RollbackResolve
  <1>13. ASSUME NEW p \in Req, RollbackReadTarget(p) PROVE TypeOK'
    <2> DEFINE row == releases[call[p].env][call[p].target]
    <2>1. CASE call[p].target \notin DOMAIN releases[call[p].env]
      BY <1>13, <2>1, RefuseType, LocalStepType DEF RollbackReadTarget, Error
    <2>2. CASE call[p].target \in DOMAIN releases[call[p].env]
      <3>1. row.items \in Items /\ row.digest \in Digests
        BY <2>2, Typed DEF TypeOK, Row
      <3>2. seen' = [seen EXCEPT ![p].items = row.items, ![p].digest = row.digest]
        BY <1>13, <2>2 DEF RollbackReadTarget, GetRelease
      <3>3. seen' \in [Req -> Seen]
        BY <3>1, <3>2, SeenType
      <3> QED BY <1>13, <2>2, <3>3, GotoType, LocalStepType DEF RollbackReadTarget, PC
    <2> QED BY <2>1, <2>2
  <1>14. ASSUME NEW p \in Req, ReadCurrent(p) PROVE TypeOK'
    <2>1. CASE Refuse(p, "CONFLICT")
      BY <1>14, <2>1, RefuseType, LocalStepType DEF ReadCurrent, Error
    <2>2. CASE Goto(p, "write") /\ UNCHANGED seen
      BY <1>14, <2>2, GotoType, LocalStepType DEF ReadCurrent, PC, TypeOK
    <2> QED BY <1>14, <2>1, <2>2 DEF ReadCurrent
  <1>15. ASSUME NEW p \in Req, WriteRelease(p) PROVE TypeOK'
    <2> DEFINE e == call[p].env
               v == NextVersion(seen[p].version)
               out == WriteOutcome(e, v, call[p].expected)
               row == [items |-> seen[p].items, digest |-> seen[p].digest,
                       source |-> call[p].target]
    <2>1. CASE out # "release"
      <3>1. out \in Error
        BY <2>1 DEF WriteOutcome, Error
      <3>2. Refuse(p, out) /\ UNCHANGED db
        BY <1>15, <2>1 DEF WriteRelease
      <3> QED BY <3>1, <3>2, RefuseType, LocalStepType
    <2>2. CASE out = "release"
      <3>1. e \in Env /\ v \in Nat \ {0} /\ row \in Row
        BY Typed DEF NextVersion, Row
      <3>2. InsertRelease(e, v, row) /\ currentVersion' = [currentVersion EXCEPT ![e] = v]
        BY <1>15, <2>2 DEF WriteRelease
      <3>3. currentVersion' \in [Env -> Nat]
        BY <3>1, <3>2 DEF TypeOK
      <3>4. DOMAIN releases' = Env
        BY <3>2 DEF InsertRelease, TypeOK
      <3>5. ASSUME NEW d \in Env
            PROVE  /\ DOMAIN releases'[d] \subseteq Nat \ {0}
                   /\ \A w \in DOMAIN releases'[d] : releases'[d][w] \in Row
        BY <3>1, <3>2 DEF InsertRelease, TypeOK
      <3>6. draftItems' \in [Env -> Items] /\ draftRevision' \in [Env -> Nat]
        <4>1. CASE SyncDraft(e, seen[p].items)
          BY <4>1, Typed DEF SyncDraft, TypeOK
        <4>2. CASE UNCHANGED <<draftItems, draftRevision>>
          BY <4>2 DEF TypeOK
        <4> QED BY <1>15, <2>2, <4>1, <4>2 DEF WriteRelease
      <3>7. audits' \in [Env -> [AuditAction -> Nat]]
        <4>1. call[p].op \in AuditAction /\ Audit(e, call[p].op)
          BY <1>15, <2>2 DEF WriteRelease, Releasing, AuditAction
        <4> QED BY <3>1, <4>1, AuditType
      <3>8. Goto(p, "broadcast") /\ UNCHANGED seen
        BY <1>15, <2>2 DEF WriteRelease
      <3>9. /\ pc' \in [Req -> PC] /\ call' \in [Req -> CallType]
            /\ seen' \in [Req -> Seen] /\ reply' \in [Req -> Reply]
        BY <3>8, GotoType DEF PC, TypeOK
      <3> QED BY <3>3, <3>4, <3>5, <3>6, <3>7, <3>9 DEF TypeOK
    <2> QED BY <2>1, <2>2
  <1>16. ASSUME NEW p \in Req, Broadcast(p) PROVE TypeOK'
    <2>1. NextVersion(seen[p].version) \in Nat /\ seen[p].items \in Items
      BY Typed DEF NextVersion
    <2>2. Answered(p, "release", NextVersion(seen[p].version), seen[p].items)
      BY <1>16 DEF Broadcast
    <2> QED BY <1>16, <2>1, <2>2, AnsweredType, LocalStepType DEF Broadcast
  <1> QED
    BY <1>1, <1>2, <1>3, <1>4, <1>5, <1>6, <1>7, <1>8, <1>9, <1>10, <1>11, <1>12,
       <1>13, <1>14, <1>15, <1>16 DEF Next, Step

\* Every variable keeps its type, whatever the requests do and wherever the
\* process dies.
THEOREM TypeCorrect == Spec => []TypeOK
PROOF
  BY InitType, NextType, PTL DEF Spec

-----------------------------------------------------------------------------
(* Versions, contents and rollbacks.                                       *)

\* What is proved together: the rows, and what the requests in flight know of
\* them.  The unique index alone keeps neither the content of neighbouring
\* rows apart nor the versions gapless; what a request has compared before it
\* writes does.
RowsInv == VersionsGapless /\ NeighboursDiffer /\ RollbackFaithful

ReleaseInv == TypeOK /\ RowsInv /\ SnapshotSound

\* A request that has been answered knows nothing.
LEMMA AnswerSound ==
  ASSUME TypeOK, NEW p \in Req, NEW r, Answer(p, r)
  PROVE  Sound(p)'
PROOF
  <1>1. pc'[p] = "idle" /\ call'[p] = NoCall /\ seen'[p] = NothingSeen
    BY DEF Answer, TypeOK
  <1> QED BY <1>1 DEF Sound, NoCall, NothingSeen, Releasing

\* A step of p that reads only concerns the snapshot of p only.
LEMMA ReadStep ==
  ASSUME ReleaseInv, NEW p \in Req, UNCHANGED db, Sound(p)',
         \A q \in Req \ {p} :
           pc'[q] = pc[q] /\ call'[q] = call[q] /\ seen'[q] = seen[q]
  PROVE  RowsInv' /\ SnapshotSound'
PROOF
  <1>1. RowsInv'
    BY DEF ReleaseInv, RowsInv, VersionsGapless, NeighboursDiffer, RollbackFaithful, db
  <1>2. ASSUME NEW q \in Req \ {p} PROVE Sound(q)'
    BY <1>2 DEF ReleaseInv, SnapshotSound, Sound, Releasing, db
  <1> QED BY <1>1, <1>2 DEF SnapshotSound

\* The same, when the step of p ends its request.
LEMMA AnswerStep ==
  ASSUME ReleaseInv, NEW p \in Req, UNCHANGED db, NEW r, Answer(p, r)
  PROVE  RowsInv' /\ SnapshotSound'
PROOF
  <1>1. Sound(p)'
    BY AnswerSound DEF ReleaseInv
  <1>2. \A q \in Req \ {p} :
          pc'[q] = pc[q] /\ call'[q] = call[q] /\ seen'[q] = seen[q]
    BY DEF Answer, ReleaseInv, TypeOK
  <1> QED BY <1>1, <1>2, ReadStep

\* A request that is refused leaves the rows and what others hold as they were.
LEMMA RefuseStep ==
  ASSUME ReleaseInv, NEW p \in Req, UNCHANGED db, NEW code, Refuse(p, code)
  PROVE  RowsInv' /\ SnapshotSound'
PROOF
  BY AnswerStep DEF Refuse, Answered

\* The newest row is the one current_version names.
LEMMA LatestIsCurrent ==
  ASSUME TypeOK, VersionsGapless, NEW e \in Env, currentVersion[e] > 0
  PROVE  Latest(e) = currentVersion[e]
PROOF
  <1>1. currentVersion[e] \in Nat /\ DOMAIN releases[e] = 1 .. currentVersion[e]
    BY DEF TypeOK, VersionsGapless
  <1>2. /\ currentVersion[e] \in DOMAIN releases[e]
        /\ \A w \in DOMAIN releases[e] : w <= currentVersion[e]
    BY <1>1
  <1>3. \A v \in DOMAIN releases[e] :
          (\A w \in DOMAIN releases[e] : w <= v) => v = currentVersion[e]
    BY <1>1, <1>2
  <1> QED BY <1>2, <1>3 DEF Latest

\* There are no rows and no requests in flight at first.
LEMMA InitRows == Init => RowsInv /\ SnapshotSound
PROOF
  <1> SUFFICES ASSUME Init PROVE RowsInv /\ SnapshotSound
    OBVIOUS
  <1>1. \A e \in Env : DOMAIN releases[e] = {} /\ currentVersion[e] = 0
    BY DEF Init
  <1>2. RowsInv
    <2>1. 1 .. 0 = {}
      OBVIOUS
    <2> QED BY <1>1, <2>1 DEF RowsInv, VersionsGapless, NeighboursDiffer, RollbackFaithful
  <1>3. SnapshotSound
    BY DEF Init, SnapshotSound, Sound, Releasing, NoCall, NothingSeen
  <1> QED BY <1>2, <1>3

\* What WriteRelease does when nothing refuses it: it adds row cv + 1, and the
\* request knew everything about the current row.
LEMMA WriteReleaseStep ==
  ASSUME ReleaseInv, NEW p \in Req, WriteRelease(p),
         WriteOutcome(call[p].env, NextVersion(seen[p].version), call[p].expected)
           = "release"
  PROVE  RowsInv' /\ SnapshotSound'
PROOF
  <1> DEFINE e == call[p].env
             cv == currentVersion[e]
             row == [items |-> seen[p].items, digest |-> seen[p].digest,
                     source |-> call[p].target]
  <1>1. /\ TypeOK /\ VersionsGapless /\ NeighboursDiffer /\ RollbackFaithful
        /\ e \in Env /\ cv \in Nat /\ seen[p].version \in Nat
        /\ call[p].expected \in Nat /\ call[p].target \in Nat
        /\ pc[p] = "write" /\ Releasing(p) /\ Sound(p)
    BY Typed DEF ReleaseInv, RowsInv, SnapshotSound, WriteRelease
  <1>2. seen[p].version = cv /\ NextVersion(seen[p].version) = cv + 1
    BY <1>1 DEF WriteOutcome, Sound, NextVersion
  <1>3. /\ InsertRelease(e, cv + 1, row)
        /\ currentVersion' = [currentVersion EXCEPT ![e] = cv + 1]
        /\ Goto(p, "broadcast") /\ UNCHANGED seen
    BY <1>2 DEF WriteRelease
  <1>4. /\ DOMAIN releases[e] = 1 .. cv
        /\ DOMAIN releases'[e] = 1 .. cv + 1
        /\ releases'[e][cv + 1] = row
        /\ \A w \in 1 .. cv : releases'[e][w] = releases[e][w]
    <2>1. DOMAIN releases[e] = 1 .. cv
      BY <1>1 DEF VersionsGapless
    <2>2. releases'[e] = [w \in DOMAIN releases[e] \cup {cv + 1} |->
                            IF w = cv + 1 THEN row ELSE releases[e][w]]
      BY <1>1, <1>3 DEF InsertRelease, TypeOK
    <2>3. 1 .. cv \cup {cv + 1} = 1 .. cv + 1 /\ cv + 1 \notin 1 .. cv
      BY <1>1
    <2> HIDE DEF row
    <2> QED BY <2>1, <2>2, <2>3
  <1>5. \A d \in Env \ {e} :
          releases'[d] = releases[d] /\ currentVersion'[d] = currentVersion[d]
    BY <1>1, <1>3 DEF InsertRelease, TypeOK
  <1>6. currentVersion'[e] = cv + 1
    BY <1>1, <1>3 DEF TypeOK
  <1>7. VersionsGapless'
    BY <1>1, <1>4, <1>5, <1>6 DEF VersionsGapless
  <1>8. NeighboursDiffer'
    <2>1. cv > 0 => releases[e][cv].digest # row.digest
      BY <1>1, <1>2 DEF Sound
    <2>2. ASSUME NEW v \in DOMAIN releases'[e], v + 1 \in DOMAIN releases'[e]
          PROVE  releases'[e][v].digest # releases'[e][v + 1].digest
      <3>1. v \in 1 .. cv
        BY <1>1, <1>4, <2>2
      <3> HIDE DEF row
      <3>2. CASE v = cv
        <4>1. releases'[e][v] = releases[e][cv] /\ releases'[e][v + 1] = row /\ cv > 0
          BY <1>1, <1>4, <3>1, <3>2
        <4> QED BY <2>1, <4>1
      <3>3. CASE v # cv
        <4>1. v + 1 \in 1 .. cv
          BY <1>1, <3>1, <3>3
        <4>2. /\ releases'[e][v] = releases[e][v]
              /\ releases'[e][v + 1] = releases[e][v + 1]
          BY <1>4, <3>1, <4>1
        <4> QED BY <1>1, <1>4, <3>1, <4>1, <4>2 DEF NeighboursDiffer
      <3> QED BY <3>2, <3>3
    <2> QED BY <1>1, <1>5, <2>2 DEF NeighboursDiffer
  <1>9. RollbackFaithful'
    <2>1. row.digest = Digest[row.items]
      BY <1>1 DEF Sound
    <2>2. row.source # 0 => /\ row.source \in 1 .. cv
                            /\ releases[e][row.source].items = row.items
      BY <1>1, <1>4 DEF Sound, Releasing
    <2>3. ASSUME NEW v \in DOMAIN releases'[e]
          PROVE  /\ releases'[e][v].digest = Digest[releases'[e][v].items]
                 /\ releases'[e][v].source # 0 =>
                      /\ releases'[e][v].source \in DOMAIN releases'[e]
                      /\ releases'[e][v].source < v
                      /\ releases'[e][releases'[e][v].source].items
                           = releases'[e][v].items
      <3> HIDE DEF row
      <3>1. CASE v = cv + 1
        <4>1. releases'[e][v] = row /\ DOMAIN releases'[e] = 1 .. v
          BY <1>4, <3>1
        <4>2. row.source \in 1 .. cv =>
                /\ row.source \in 1 .. v /\ row.source < v
                /\ releases'[e][row.source] = releases[e][row.source]
          BY <1>1, <1>4, <3>1
        <4> QED BY <2>1, <2>2, <4>1, <4>2
      <3>2. CASE v \in 1 .. cv
        <4>1. releases'[e][v] = releases[e][v]
          BY <1>4, <3>2
        <4>2. \A w \in 1 .. cv :
                w \in DOMAIN releases'[e] /\ releases'[e][w] = releases[e][w]
          BY <1>1, <1>4
        <4>3. /\ releases[e][v].digest = Digest[releases[e][v].items]
              /\ releases[e][v].source # 0 =>
                   /\ releases[e][v].source \in 1 .. cv
                   /\ releases[e][v].source < v
                   /\ releases[e][releases[e][v].source].items = releases[e][v].items
          <5>1. v \in DOMAIN releases[e]
            BY <1>4, <3>2
          <5> QED BY <1>1, <1>4, <5>1 DEF RollbackFaithful
        <4> QED BY <4>1, <4>2, <4>3
      <3>3. v = cv + 1 \/ v \in 1 .. cv
        BY <1>1, <1>4
      <3> QED BY <3>1, <3>2, <3>3
    <2> QED BY <1>1, <1>5, <2>3 DEF RollbackFaithful
  <1>10. SnapshotSound'
    <2>1. call' = call /\ seen' = seen /\ pc' = [pc EXCEPT ![p] = "broadcast"]
      BY <1>3 DEF Goto
    <2>2. Sound(p)'
      BY <1>1, <1>2, <1>6, <2>1 DEF Sound, Releasing, TypeOK
    <2>3. ASSUME NEW q \in Req \ {p} PROVE Sound(q)'
      <3>1. Sound(q) /\ pc'[q] = pc[q]
        BY <1>1, <2>1 DEF ReleaseInv, SnapshotSound, TypeOK
      <3>2. seen[q].version \in Nat /\ call[q].env \in Env
        BY <1>1, Typed
      <3>3. CASE call[q].env # e
        BY <1>5, <2>1, <3>1, <3>2, <3>3 DEF Sound, Releasing
      <3>4. CASE call[q].env = e
        <4>1. \A w \in DOMAIN releases[e] :
                w \in DOMAIN releases'[e] /\ releases'[e][w] = releases[e][w]
          BY <1>1, <1>4
        <4>2. seen[q].version <= cv =>
                seen[q].version <= cv + 1 /\ seen[q].version # cv + 1
          BY <1>1, <3>2
        <4>3. /\ call'[q] = call[q] /\ seen'[q] = seen[q] /\ pc'[q] = pc[q]
              /\ currentVersion'[e] = cv + 1
          BY <1>6, <2>1, <3>1
        <4> QED BY <3>1, <3>4, <4>1, <4>2, <4>3 DEF Sound, Releasing
      <3> QED BY <3>3, <3>4
    <2> QED BY <2>2, <2>3 DEF SnapshotSound
  <1> QED BY <1>7, <1>8, <1>9, <1>10 DEF RowsInv

\* One lemma for each kind of step: those of RollbackReadTarget and ReadCurrent
\* are where a request learns what it relies on in WriteRelease.
LEMMA ReadTargetStep ==
  ASSUME ReleaseInv, NEW p \in Req, RollbackReadTarget(p)
  PROVE  RowsInv' /\ SnapshotSound'
PROOF
  <1> DEFINE e == call[p].env
             t == call[p].target
             row == releases[e][t]
  <1>1. CASE t \notin DOMAIN releases[e]
    BY <1>1, RefuseStep DEF RollbackReadTarget
  <1>2. CASE t \in DOMAIN releases[e]
    <2>1. /\ seen' = [seen EXCEPT ![p].items = row.items, ![p].digest = row.digest]
          /\ pc' = [pc EXCEPT ![p] = "current"] /\ UNCHANGED <<db, call>>
          /\ pc[p] = "target" /\ call[p].op = "rollback"
      BY <1>2 DEF RollbackReadTarget, GetRelease, Goto, At
    <2>2. e \in Env /\ row.digest = Digest[row.items]
      BY <1>2, Typed DEF ReleaseInv, RowsInv, RollbackFaithful
    <2>3. /\ seen'[p].items = row.items /\ seen'[p].digest = row.digest
          /\ seen'[p].version = seen[p].version /\ pc'[p] = "current"
      BY <2>1 DEF ReleaseInv, TypeOK, Seen
    <2>4. Sound(p)
      BY DEF ReleaseInv, SnapshotSound
    <2>5. Sound(p)'
      BY <1>2, <2>1, <2>2, <2>3, <2>4 DEF Sound, Releasing, db
    <2> QED BY <2>1, <2>5, ReadStep DEF ReleaseInv, TypeOK
  <1> QED BY <1>1, <1>2

\* The comparison with the newest row makes a current snapshot differ from it.
LEMMA ReadCurrentStep ==
  ASSUME ReleaseInv, NEW p \in Req, ReadCurrent(p)
  PROVE  RowsInv' /\ SnapshotSound'
PROOF
  <1> DEFINE e == call[p].env
  <1>1. CASE Refuse(p, "CONFLICT")
    BY <1>1, RefuseStep DEF ReadCurrent
  <1>2. CASE ~SameAsCurrent(e, seen[p].digest) /\ Goto(p, "write") /\ UNCHANGED seen
    <2>1. /\ pc' = [pc EXCEPT ![p] = "write"] /\ pc[p] = "current"
          /\ UNCHANGED <<db, call, seen>>
      BY <1>2 DEF ReadCurrent, Goto
    <2>2. Sound(p) /\ e \in Env
      BY Typed DEF ReleaseInv, SnapshotSound
    <2>3. currentVersion[e] > 0 => releases[e][currentVersion[e]].digest # seen[p].digest
      BY <1>2, <2>2, LatestIsCurrent
      DEF ReleaseInv, RowsInv, SameAsCurrent, GetCurrentRelease
    <2>4. pc'[p] = "write"
      BY <2>1 DEF ReleaseInv, TypeOK
    <2>5. Sound(p)'
      BY <2>1, <2>2, <2>3, <2>4 DEF Sound, Releasing, db
    <2> QED BY <2>1, <2>5, ReadStep DEF ReleaseInv, TypeOK
  <1> QED BY <1>1, <1>2 DEF ReadCurrent

\* The version a publish or rollback request starts from.
LEMMA ResolveStep ==
  ASSUME ReleaseInv, NEW p \in Req, PublishResolve(p) \/ RollbackResolve(p)
  PROVE  RowsInv' /\ SnapshotSound'
PROOF
  <1> DEFINE version == currentVersion[call[p].env]
  <1>1. CASE \E code \in Error : Refuse(p, code)
    BY <1>1, RefuseStep DEF PublishResolve, RollbackResolve
  <1>2. CASE /\ version = call[p].expected
             /\ seen' = [seen EXCEPT ![p].version = version]
             /\ Goto(p, "draft") \/ Goto(p, "target")
    <2>1. /\ UNCHANGED <<db, call>> /\ pc[p] = "resolve"
          /\ \/ pc' = [pc EXCEPT ![p] = "draft"]
             \/ pc' = [pc EXCEPT ![p] = "target"]
      BY <1>2 DEF PublishResolve, RollbackResolve, Goto, At
    <2>2. /\ Sound(p) /\ version \in Nat
      BY Typed DEF ReleaseInv, SnapshotSound
    <2>3. /\ seen'[p].version = version /\ seen'[p].items = seen[p].items
          /\ seen'[p].digest = seen[p].digest /\ pc'[p] \in {"draft", "target"}
      BY <1>2, <2>1 DEF ReleaseInv, TypeOK, Seen
    <2>4. Sound(p)'
      BY <1>2, <2>1, <2>2, <2>3 DEF Sound, Releasing, db
    <2> QED BY <1>2, <2>1, <2>4, ReadStep DEF ReleaseInv, TypeOK
  <1> QED BY <1>1, <1>2 DEF PublishResolve, RollbackResolve, Error

\* A draft that has been read is held with its own checksum.
LEMMA PublishReadDraftStep ==
  ASSUME ReleaseInv, NEW p \in Req, PublishReadDraft(p)
  PROVE  RowsInv' /\ SnapshotSound'
PROOF
  <1> DEFINE i == draftItems[call[p].env]
  <1>1. CASE i \in Unencodable
    BY <1>1, RefuseStep DEF PublishReadDraft
  <1>2. CASE i \notin Unencodable
    <2>1. /\ seen' = [seen EXCEPT ![p].items = i, ![p].digest = Digest[i]]
          /\ pc' = [pc EXCEPT ![p] = IF seen[p].version > 0 THEN "current" ELSE "write"]
          /\ UNCHANGED <<db, call>> /\ pc[p] = "draft" /\ call[p].op = "publish"
      BY <1>2 DEF PublishReadDraft, Goto, At
    <2>2. /\ Sound(p) /\ seen[p].version \in Nat
          /\ currentVersion[call[p].env] \in Nat
      BY Typed DEF ReleaseInv, SnapshotSound
    <2>3. /\ seen'[p].items = i /\ seen'[p].digest = Digest[i]
          /\ seen'[p].version = seen[p].version
          /\ pc'[p] = IF seen[p].version > 0 THEN "current" ELSE "write"
      BY <2>1 DEF ReleaseInv, TypeOK, Seen
    <2>4. Sound(p)'
      BY <2>1, <2>2, <2>3 DEF Sound, Releasing, db
    <2> QED BY <2>1, <2>4, ReadStep DEF ReleaseInv, TypeOK
  <1> QED BY <1>1, <1>2

\* A new call, and the steps that read for an editor.
LEMMA OtherReadStep ==
  ASSUME ReleaseInv, NEW p \in Req,
         \/ Arrive(p) \/ DraftResolve(p) \/ ReadRevision(p) \/ SaveResolve(p)
  PROVE  RowsInv' /\ SnapshotSound'
PROOF
  <1>1. Sound(p) /\ seen[p] \in Seen
    BY Typed DEF ReleaseInv, SnapshotSound
  <1>2. CASE Arrive(p)
    <2>1. PICK c \in Calls : call' = [call EXCEPT ![p] = c]
      BY <1>2 DEF Arrive
    <2>2. c.op = "publish" => c.target = 0
      BY DEF Calls
    <2>3. pc'[p] = "resolve" /\ call'[p] = c /\ UNCHANGED <<db, seen>>
      BY <1>2, <2>1 DEF Arrive, ReleaseInv, TypeOK
    <2>4. Sound(p)'
      BY <1>1, <2>2, <2>3 DEF Sound, Releasing
    <2> QED BY <1>2, <2>1, <2>4, ReadStep DEF Arrive, ReleaseInv, TypeOK
  <1>3. CASE DraftResolve(p) \/ SaveResolve(p) \/ ReadRevision(p)
    <2>1. /\ UNCHANGED <<db, call>> /\ call[p].op \in {"draft", "save"}
          /\ seen'[p].items = seen[p].items /\ seen'[p].digest = seen[p].digest
          /\ \A q \in Req \ {p} : pc'[q] = pc[q] /\ seen'[q] = seen[q]
      BY <1>1, <1>3
      DEF DraftResolve, SaveResolve, ReadRevision, Goto, At, ReleaseInv, TypeOK, Seen
    <2>2. Sound(p)'
      BY <1>1, <2>1 DEF Sound, Releasing
    <2> QED BY <2>1, <2>2, ReadStep
  <1> QED BY <1>2, <1>3

\* A saved draft leaves the rows and what is known of them alone.
LEMMA SaveDraftStep ==
  ASSUME ReleaseInv, NEW p \in Req, SaveDraft(p)
  PROVE  RowsInv' /\ SnapshotSound'
PROOF
  <1>1. CASE Refuse(p, "REVISION_CONFLICT") /\ UNCHANGED db
    BY <1>1, RefuseStep
  <1>2. CASE /\ Answered(p, "saved", call[p].expected + 1, call[p].items)
             /\ UNCHANGED <<currentVersion, releases>>
    <2>1. PICK r : Answer(p, r)
      BY <1>2 DEF Answered
    <2>2. RowsInv'
      BY <1>2 DEF ReleaseInv, RowsInv, VersionsGapless, NeighboursDiffer, RollbackFaithful
    <2>3. Sound(p)'
      BY <2>1, AnswerSound DEF ReleaseInv
    <2>4. ASSUME NEW q \in Req \ {p} PROVE Sound(q)'
      <3>1. pc'[q] = pc[q] /\ call'[q] = call[q] /\ seen'[q] = seen[q] /\ Sound(q)
        BY <2>1 DEF Answer, ReleaseInv, SnapshotSound, TypeOK
      <3> QED BY <1>2, <3>1 DEF Sound, Releasing
    <2> QED BY <2>2, <2>3, <2>4 DEF SnapshotSound
  <1> QED BY <1>1, <1>2 DEF SaveDraft

\* ReleaseInv is inductive.
LEMMA ReleaseInvStep == ReleaseInv /\ [Next]_vars => ReleaseInv'
PROOF
  <1> SUFFICES ASSUME ReleaseInv, [Next]_vars PROVE RowsInv' /\ SnapshotSound'
    BY NextType DEF ReleaseInv
  <1>1. CASE UNCHANGED vars
    BY <1>1 DEF vars, db, local, ReleaseInv, RowsInv, VersionsGapless,
       NeighboursDiffer, RollbackFaithful, SnapshotSound, Sound, Releasing
  <1>2. CASE Crash
    <2>1. RowsInv'
      BY <1>2 DEF Crash, db, ReleaseInv, RowsInv, VersionsGapless, NeighboursDiffer,
         RollbackFaithful
    <2>2. ASSUME NEW p \in Req PROVE Sound(p)'
      <3>1. pc'[p] = "idle" /\ call'[p] = NoCall /\ seen'[p] = NothingSeen
        BY <1>2 DEF Crash
      <3> QED BY <3>1 DEF Sound, Releasing, NoCall, NothingSeen
    <2> QED BY <2>1, <2>2 DEF SnapshotSound
  <1>3. ASSUME NEW p \in Req, Fail(p) \/ ReadDraft(p) \/ Broadcast(p)
        PROVE  RowsInv' /\ SnapshotSound'
    <2>1. UNCHANGED db /\ \E r : Answer(p, r)
      BY <1>3 DEF Fail, ReadDraft, Broadcast, Refuse, Answered
    <2> QED BY <2>1, AnswerStep
  <1>4. ASSUME NEW p \in Req, WriteRelease(p) PROVE RowsInv' /\ SnapshotSound'
    <2> DEFINE out == WriteOutcome(call[p].env, NextVersion(seen[p].version),
                                   call[p].expected)
    <2>1. CASE out # "release"
      BY <1>4, <2>1, RefuseStep DEF WriteRelease
    <2>2. CASE out = "release"
      BY <1>4, <2>2, WriteReleaseStep
    <2> QED BY <2>1, <2>2
  <1> QED
    BY <1>1, <1>2, <1>3, <1>4, ReadTargetStep, ReadCurrentStep, ResolveStep,
       PublishReadDraftStep, OtherReadStep, SaveDraftStep DEF Next, Step

\* The inductive invariant holds in every reachable state.
LEMMA ReleaseInvariance == Spec => []ReleaseInv
PROOF
  <1>1. Init => ReleaseInv
    BY InitType, InitRows DEF ReleaseInv
  <1> QED BY <1>1, ReleaseInvStep, PTL DEF Spec

\* current_version always names the newest row, and no version is missing.
THEOREM GaplessVersions == Spec => []VersionsGapless
PROOF
  <1>1. ReleaseInv => VersionsGapless
    BY DEF ReleaseInv, RowsInv
  <1> QED BY <1>1, ReleaseInvariance, PTL

\* No release repeats the content of the one before it, for any number of
\* concurrent requests.
THEOREM NeighboursAreDifferent == Spec => []NeighboursDiffer
PROOF
  <1>1. ReleaseInv => NeighboursDiffer
    BY DEF ReleaseInv, RowsInv
  <1> QED BY <1>1, ReleaseInvariance, PTL

\* A rollback row is a copy of an older row of its environment.
THEOREM RollbacksAreFaithful == Spec => []RollbackFaithful
PROOF
  <1>1. ReleaseInv => RollbackFaithful
    BY DEF ReleaseInv, RowsInv
  <1> QED BY <1>1, ReleaseInvariance, PTL

\* What a request has read stays good enough until it writes.
THEOREM SnapshotsAreSound == Spec => []SnapshotSound
PROOF
  <1>1. ReleaseInv => SnapshotSound
    BY DEF ReleaseInv
  <1> QED BY <1>1, ReleaseInvariance, PTL

\* The VERSION_CONFLICT branch of WriteRelease is dead code.
THEOREM LostRacesConflict == Spec => []LostRaceIsConflict
PROOF
  <1>1. ReleaseInv => LostRaceIsConflict
    <2> SUFFICES ASSUME ReleaseInv, NEW p \in Req, pc[p] = "write", Releasing(p)
                 PROVE  WriteOutcome(call[p].env, NextVersion(seen[p].version),
                                     call[p].expected) # "VERSION_CONFLICT"
      BY DEF LostRaceIsConflict
    <2> DEFINE cv == currentVersion[call[p].env]
    <2>1. /\ seen[p].version = call[p].expected /\ seen[p].version <= cv
          /\ DOMAIN releases[call[p].env] = 1 .. cv
          /\ cv \in Nat /\ seen[p].version \in Nat
      BY Typed DEF ReleaseInv, RowsInv, SnapshotSound, Sound, VersionsGapless
    <2>2. seen[p].version + 1 \notin 1 .. cv => call[p].expected = cv
      BY <2>1
    <2> QED BY <2>1, <2>2 DEF WriteOutcome, NextVersion
  <1> QED BY <1>1, ReleaseInvariance, PTL

\* WriteRelease adds a row where there is none; nothing else touches the rows.
LEMMA RowsKept ==
  ASSUME ReleaseInv, Next, NEW e \in Env, NEW v \in DOMAIN releases[e]
  PROVE  v \in DOMAIN releases'[e] /\ releases'[e][v] = releases[e][v]
PROOF
  <1>1. CASE UNCHANGED releases
    BY <1>1
  <1>2. CASE ~UNCHANGED releases
    <2>1. PICK p \in Req : WriteRelease(p)
      BY <1>2 DEF Next, Step, Crash, Arrive, Fail, DraftResolve, ReadRevision,
         ReadDraft, SaveResolve, SaveDraft, PublishResolve, PublishReadDraft,
         RollbackResolve, RollbackReadTarget, ReadCurrent, Broadcast, db
    <2> DEFINE d == call[p].env
               w == NextVersion(seen[p].version)
    <2>2. w \notin DOMAIN releases[d] /\ \E row : InsertRelease(d, w, row)
      BY <1>2, <2>1 DEF WriteRelease, WriteOutcome, db
    <2>3. d \in Env /\ DOMAIN releases = Env
      BY Typed DEF ReleaseInv, TypeOK
    <2> QED BY <2>2, <2>3 DEF InsertRelease
  <1> QED BY <1>1, <1>2

\* No step changes or removes a row.
THEOREM RowsAreImmutable == Spec => ReleasesImmutable
PROOF
  <1>1. ReleaseInv /\ [Next]_vars =>
          [\A e \in Env : \A v \in DOMAIN releases[e] :
             v \in DOMAIN releases'[e] /\ releases'[e][v] = releases[e][v]]_vars
    BY RowsKept
  <1> QED BY <1>1, ReleaseInvariance, PTL DEF Spec, ReleasesImmutable

-----------------------------------------------------------------------------
(* Second part: what the callers have been told.  The invariant above is   *)
(* about rows and snapshots, this one adds answers.                        *)

\* What p was told about a draft is no newer than the draft, and is the draft
\* where it is as new.
Saw(p) ==
  reply[p].status \in {"draft", "saved"} =>
    /\ reply[p].num <= draftRevision[reply[p].env]
    /\ reply[p].num = draftRevision[reply[p].env] =>
         reply[p].items = draftItems[reply[p].env]

\* The revision p has read, and will return, is no newer than the draft.
ReadRevisionIsOld(p) ==
  At(p, "draft", "draft") => seen[p].revision <= draftRevision[call[p].env]

DraftInv ==
  /\ \A p \in Req : Saw(p) /\ ReadRevisionIsOld(p)
  /\ OneSaverPerRevision

\* p has committed version v of e with the items i, or was told so.
Owns(p, e, v, i) ==
  \/ /\ pc[p] = "broadcast" /\ call[p].env = e
     /\ NextVersion(seen[p].version) = v /\ seen[p].items = i
  \/ /\ reply[p].status = "release" /\ reply[p].env = e
     /\ reply[p].num = v /\ reply[p].items = i

\* An owned version has its row, and one owner.
OwnerInv ==
  \A p \in Req, e \in Env, v \in Nat, i \in Items :
    Owns(p, e, v, i) =>
      /\ v \in DOMAIN releases[e] /\ releases[e][v].items = i
      /\ \A q \in Req \ {p}, j \in Items : ~Owns(q, e, v, j)

AnswerInv == ReleaseInv /\ AuditComplete /\ DraftInv /\ OwnerInv

-----------------------------------------------------------------------------
(* What a step may do to answers and drafts.                               *)

\* A step either leaves a draft as it is or counts one more change of it.
LEMMA DraftMoves ==
  ASSUME TypeOK, [Next]_vars, NEW e \in Env
  PROVE  \/ draftRevision'[e] = draftRevision[e] /\ draftItems'[e] = draftItems[e]
         \/ draftRevision'[e] = draftRevision[e] + 1
PROOF
  <1>1. CASE UNCHANGED <<draftRevision, draftItems>>
    BY <1>1
  <1>2. CASE ~UNCHANGED <<draftRevision, draftItems>>
    <2>1. PICK p \in Req : SaveDraft(p) \/ WriteRelease(p)
      BY <1>2 DEF Next, Step, Crash, Arrive, Fail, DraftResolve, ReadRevision,
         ReadDraft, SaveResolve, PublishResolve, PublishReadDraft, RollbackResolve,
         RollbackReadTarget, ReadCurrent, Broadcast, db, vars
    <2>2. \E d, i : /\ draftRevision' = [draftRevision EXCEPT ![d] = @ + 1]
                    /\ draftItems' = [draftItems EXCEPT ![d] = i]
      BY <1>2, <2>1 DEF SaveDraft, WriteRelease, SyncDraft, db
    <2> QED BY <2>2 DEF TypeOK
  <1> QED BY <1>1, <1>2

\* The step of p is not seen in the variables of q.
LEMMA OthersKept ==
  ASSUME TypeOK, NEW p \in Req, Arrive(p) \/ Step(p) \/ Fail(p),
         NEW q \in Req \ {p}
  PROVE  /\ pc'[q] = pc[q] /\ call'[q] = call[q]
         /\ seen'[q] = seen[q] /\ reply'[q] = reply[q]
PROOF
  BY DEF TypeOK, Step, Arrive, Fail, DraftResolve, ReadRevision, ReadDraft,
     SaveResolve, SaveDraft, PublishResolve, PublishReadDraft, RollbackResolve,
     RollbackReadTarget, ReadCurrent, WriteRelease, Broadcast, Goto, Refuse,
     Answered, Answer, db

\* Whoever learns nothing in a step stays right about the draft.
LEMMA StillSaw ==
  ASSUME TypeOK, [Next]_vars, NEW q \in Req, Saw(q), reply'[q] = reply[q]
  PROVE  Saw(q)'
PROOF
  <1> DEFINE e == reply[q].env
  <1>1. reply[q] \in Reply /\ e \in Env /\ draftRevision[e] \in Nat /\ reply[q].num \in Nat
    BY DEF TypeOK, Reply
  <1>2. \/ draftRevision'[e] = draftRevision[e] /\ draftItems'[e] = draftItems[e]
        \/ draftRevision'[e] = draftRevision[e] + 1
    BY <1>1, DraftMoves
  <1> QED BY <1>1, <1>2 DEF Saw

\* The same for a revision that has been read and not yet returned.
LEMMA StillOld ==
  ASSUME TypeOK, [Next]_vars, NEW q \in Req, ReadRevisionIsOld(q),
         pc'[q] = pc[q], call'[q] = call[q], seen'[q] = seen[q]
  PROVE  ReadRevisionIsOld(q)'
PROOF
  <1> DEFINE e == call[q].env
  <1>1. e \in Env /\ draftRevision[e] \in Nat /\ seen[q].revision \in Nat
    BY Typed DEF TypeOK
  <1>2. draftRevision'[e] \in {draftRevision[e], draftRevision[e] + 1}
    BY <1>1, DraftMoves
  <1> QED BY <1>1, <1>2 DEF ReadRevisionIsOld, At

-----------------------------------------------------------------------------
(* The step of a request, as far as its own answer is concerned.           *)

\* p is given an error.
Refused(p) ==
  /\ UNCHANGED db
  /\ \E code \in Error : Refuse(p, code)

\* p goes on to a query that is not the last one of reading a draft, nor past
\* the commit of a release.
Continues(p) ==
  /\ UNCHANGED <<db, reply>>
  /\ pc'[p] \in PC \ {"broadcast"}
  /\ ~At(p, "draft", "draft")'

\* Every step of a request is of one of seven kinds.
LEMMA StepKinds ==
  ASSUME TypeOK, NEW p \in Req, Arrive(p) \/ Step(p) \/ Fail(p)
  PROVE  \/ Refused(p) \/ Continues(p)
         \/ ReadRevision(p) \/ ReadDraft(p) \/ Broadcast(p)
         \/ SaveDraft(p) \/ WriteRelease(p)
PROOF
  <1>1. CASE Fail(p)
    BY <1>1 DEF Fail, Refused, Error
  <1>2. CASE Arrive(p) \/ DraftResolve(p) \/ SaveResolve(p)
    BY <1>2 DEF TypeOK, PC, Arrive, DraftResolve, SaveResolve, Goto, At, Continues
  <1>3. CASE PublishResolve(p)
    <2>1. CASE Refuse(p, "VERSION_CONFLICT")
      BY <1>3, <2>1 DEF PublishResolve, Refused, Error
    <2>2. CASE Goto(p, "draft")
      BY <1>3, <2>2 DEF TypeOK, PC, PublishResolve, Goto, At, Continues, db
    <2> QED BY <1>3, <2>1, <2>2 DEF PublishResolve
  <1>4. CASE PublishReadDraft(p)
    <2>1. CASE Refuse(p, "INTERNAL_ERROR")
      BY <1>4, <2>1 DEF PublishReadDraft, Refused, Error
    <2>2. CASE Goto(p, IF seen[p].version > 0 THEN "current" ELSE "write")
      BY <1>4, <2>2 DEF TypeOK, PC, PublishReadDraft, Goto, At, Continues, db
    <2> QED BY <1>4, <2>1, <2>2 DEF PublishReadDraft
  <1>5. CASE RollbackResolve(p)
    <2>1. CASE Refuse(p, "VERSION_CONFLICT") \/ Refuse(p, "INVALID_ARGUMENT")
      BY <1>5, <2>1 DEF RollbackResolve, Refused, Error
    <2>2. CASE Goto(p, "target")
      BY <1>5, <2>2 DEF TypeOK, PC, RollbackResolve, Goto, At, Continues, db
    <2> QED BY <1>5, <2>1, <2>2 DEF RollbackResolve
  <1>6. CASE RollbackReadTarget(p)
    <2>1. CASE Refuse(p, "NOT_FOUND")
      BY <1>6, <2>1 DEF RollbackReadTarget, Refused, Error
    <2>2. CASE Goto(p, "current")
      BY <1>6, <2>2 DEF TypeOK, PC, RollbackReadTarget, Goto, At, Continues, db
    <2> QED BY <1>6, <2>1, <2>2 DEF RollbackReadTarget
  <1>7. CASE ReadCurrent(p)
    <2>1. CASE Refuse(p, "CONFLICT")
      BY <1>7, <2>1 DEF ReadCurrent, Refused, Error
    <2>2. CASE Goto(p, "write")
      BY <1>7, <2>2 DEF TypeOK, PC, ReadCurrent, Goto, At, Continues, db
    <2> QED BY <1>7, <2>1, <2>2 DEF ReadCurrent
  <1> QED BY <1>1, <1>2, <1>3, <1>4, <1>5, <1>6, <1>7 DEF Step

\* What p was told after it returned.
LEMMA AnsweredReply ==
  ASSUME TypeOK, NEW p \in Req, NEW status, NEW n, NEW i, Answered(p, status, n, i)
  PROVE  /\ pc'[p] = "idle"
         /\ reply'[p] = [status |-> status, env |-> call[p].env, num |-> n, items |-> i]
         /\ reply'[p].status = status
PROOF
  BY DEF TypeOK, Answered, Answer

-----------------------------------------------------------------------------
(* Drafts.                                                                 *)

\* The accepted save of p is the first at its revision.
LEMMA SaveAnswer ==
  ASSUME TypeOK, DraftInv, NEW p \in Req, SaveDraft(p), ~Refused(p)
  PROVE  /\ Saw(p)' /\ ReadRevisionIsOld(p)'
         /\ \A q \in Req \ {p} :
              reply[q].status = "saved" /\ reply[q].env = reply'[p].env
                => reply[q].num # reply'[p].num
PROOF
  <1> DEFINE e == call[p].env
  <1>1. /\ draftRevision[e] = call[p].expected
        /\ draftRevision' = [draftRevision EXCEPT ![e] = @ + 1]
        /\ draftItems' = [draftItems EXCEPT ![e] = call[p].items]
        /\ Answered(p, "saved", call[p].expected + 1, call[p].items)
    BY DEF SaveDraft, AcceptsRevision, Refused, Error
  <1>2. e \in Env /\ draftRevision[e] \in Nat
    BY Typed DEF TypeOK
  <1>3. /\ draftRevision'[e] = draftRevision[e] + 1
        /\ draftItems'[e] = call[p].items
    BY <1>1, <1>2 DEF TypeOK
  <1>4. /\ pc'[p] = "idle"
        /\ reply'[p] = [status |-> "saved", env |-> e, num |-> draftRevision[e] + 1,
                        items |-> call[p].items]
    BY <1>1, AnsweredReply
  <1>5. Saw(p)' /\ ReadRevisionIsOld(p)'
    BY <1>2, <1>3, <1>4 DEF Saw, ReadRevisionIsOld, At
  <1>6. ASSUME NEW q \in Req \ {p}, reply[q].status = "saved", reply[q].env = e
        PROVE  reply[q].num # draftRevision[e] + 1
    <2>1. reply[q].num <= draftRevision[e] /\ reply[q].num \in Nat
      BY <1>6 DEF DraftInv, Saw, TypeOK, Reply
    <2> QED BY <1>2, <2>1
  <1> QED BY <1>4, <1>5, <1>6

\* In the other steps p reads, or is told something else.
LEMMA OtherAnswer ==
  ASSUME TypeOK, DraftInv, NEW p \in Req, Arrive(p) \/ Step(p) \/ Fail(p),
         ~SaveDraft(p) \/ Refused(p)
  PROVE  /\ Saw(p)' /\ ReadRevisionIsOld(p)'
         /\ reply'[p] = reply[p] \/ reply'[p].status # "saved"
PROOF
  <1> DEFINE e == call[p].env
  <1>0. Next
    BY DEF Next
  <1>1. CASE Refused(p)
    <2>1. PICK code \in Error : Answered(p, code, 0, NoItems)
      BY <1>1 DEF Refused, Refuse
    <2>2. pc'[p] = "idle" /\ reply'[p].status = code
      BY <2>1, AnsweredReply
    <2> QED BY <2>2 DEF Saw, ReadRevisionIsOld, At, Error
  <1>2. CASE Continues(p)
    <2>1. reply'[p] = reply[p] /\ ReadRevisionIsOld(p)'
      BY <1>2 DEF Continues, ReadRevisionIsOld
    <2> QED BY <1>0, <2>1, StillSaw DEF DraftInv
  <1>3. CASE ReadRevision(p)
    <2>1. /\ reply'[p] = reply[p] /\ call'[p] = call[p] /\ UNCHANGED db
          /\ seen'[p].revision = draftRevision[e]
      BY <1>3 DEF ReadRevision, Goto, TypeOK, Seen
    <2>2. e \in Env /\ draftRevision[e] \in Nat
      BY Typed DEF TypeOK
    <2>3. ReadRevisionIsOld(p)'
      BY <2>1, <2>2 DEF ReadRevisionIsOld, db
    <2> QED BY <1>0, <2>1, <2>3, StillSaw DEF DraftInv
  <1>4. CASE ReadDraft(p)
    <2>1. /\ pc'[p] = "idle" /\ UNCHANGED db
          /\ reply'[p] = [status |-> "draft", env |-> e, num |-> seen[p].revision,
                          items |-> draftItems[e]]
      BY <1>4, AnsweredReply DEF ReadDraft
    <2>2. seen[p].revision <= draftRevision[e]
      BY <1>4 DEF ReadDraft, DraftInv, ReadRevisionIsOld
    <2> QED BY <2>1, <2>2 DEF Saw, ReadRevisionIsOld, At, db
  <1>5. CASE Broadcast(p)
    <2>1. Answered(p, "release", NextVersion(seen[p].version), seen[p].items)
      BY <1>5 DEF Broadcast
    <2>2. pc'[p] = "idle" /\ reply'[p].status = "release"
      BY <2>1, AnsweredReply
    <2> QED BY <2>2 DEF Saw, ReadRevisionIsOld, At
  <1>6. CASE WriteRelease(p) /\ ~Refused(p)
    <2>1. reply'[p] = reply[p] /\ pc'[p] = "broadcast"
      BY <1>6 DEF WriteRelease, WriteOutcome, Refused, Error, Goto, TypeOK
    <2> QED BY <1>0, <2>1, StillSaw DEF DraftInv, ReadRevisionIsOld, At
  <1> QED BY <1>1, <1>2, <1>3, <1>4, <1>5, <1>6, StepKinds

\* The draft part is inductive.
LEMMA DraftInvStep ==
  ASSUME TypeOK, DraftInv, [Next]_vars
  PROVE  DraftInv'
PROOF
  <1>1. CASE UNCHANGED vars
    BY <1>1 DEF vars, db, local, DraftInv, Saw, ReadRevisionIsOld, At, OneSaverPerRevision
  <1>2. CASE Crash
    <2>1. ASSUME NEW q \in Req PROVE Saw(q)' /\ ReadRevisionIsOld(q)'
      <3>1. pc'[q] = "idle" /\ reply'[q] = reply[q]
        BY <1>2 DEF Crash
      <3> QED BY <3>1, StillSaw DEF DraftInv, ReadRevisionIsOld, At
    <2> QED BY <1>2, <2>1 DEF Crash, DraftInv, OneSaverPerRevision
  <1>3. ASSUME NEW p \in Req, Arrive(p) \/ Step(p) \/ Fail(p) PROVE DraftInv'
    <2>1. \A q \in Req \ {p} : reply'[q] = reply[q] /\ Saw(q)' /\ ReadRevisionIsOld(q)'
      BY <1>3, OthersKept, StillSaw, StillOld DEF DraftInv
    <2>2. CASE SaveDraft(p) /\ ~Refused(p)
      <3>1. OneSaverPerRevision'
        BY <2>1, <2>2, SaveAnswer DEF DraftInv, OneSaverPerRevision
      <3> QED BY <2>1, <2>2, <3>1, SaveAnswer DEF DraftInv
    <2>3. CASE ~SaveDraft(p) \/ Refused(p)
      <3>1. Saw(p)' /\ ReadRevisionIsOld(p)' /\ (reply'[p] = reply[p] \/ reply'[p].status # "saved")
        BY <1>3, <2>3, OtherAnswer
      <3>2. OneSaverPerRevision'
        BY <2>1, <3>1 DEF DraftInv, OneSaverPerRevision
      <3> QED BY <2>1, <3>1, <3>2 DEF DraftInv
    <2> QED BY <2>2, <2>3
  <1> QED BY <1>1, <1>2, <1>3 DEF Next

-----------------------------------------------------------------------------
(* Audit rows.                                                             *)

\* A step that is recorded under action a adds one to it, for its environment.
LEMMA AuditAdds ==
  ASSUME TypeOK, NEW e \in Env, NEW a \in AuditAction, Audit(e, a),
         NEW d \in Env, NEW b \in AuditAction
  PROVE  audits'[d][b] = IF d = e /\ b = a THEN audits[d][b] + 1 ELSE audits[d][b]
PROOF
  <1>1. /\ audits' = [audits EXCEPT ![e] = [audits[e] EXCEPT ![a] = audits[e][a] + 1]]
        /\ audits \in [Env -> [AuditAction -> Nat]]
    BY DEF Audit, TypeOK
  <1>2. audits[e] \in [AuditAction -> Nat]
    BY <1>1
  <1>3. CASE d # e
    BY <1>1, <1>3
  <1>4. CASE d = e
    BY <1>1, <1>2, <1>4
  <1> QED BY <1>3, <1>4

\* The release that is written has the next version.
LEMMA WritesNext ==
  ASSUME ReleaseInv, NEW p \in Req, WriteRelease(p), ~Refused(p)
  PROVE  LET e == call[p].env
             v == NextVersion(seen[p].version)
         IN  /\ e \in Env /\ v \in Nat /\ v = currentVersion[e] + 1
             /\ v \notin DOMAIN releases[e]
             /\ InsertRelease(e, v, [items |-> seen[p].items, digest |-> seen[p].digest,
                                     source |-> call[p].target])
             /\ currentVersion' = [currentVersion EXCEPT ![e] = v]
             /\ IF call[p].op = "rollback" THEN SyncDraft(e, seen[p].items)
                                           ELSE UNCHANGED <<draftItems, draftRevision>>
             /\ Audit(e, call[p].op) /\ call[p].op \in {"publish", "rollback"}
             /\ Goto(p, "broadcast") /\ UNCHANGED seen
PROOF
  <1> DEFINE e == call[p].env
             v == NextVersion(seen[p].version)
             out == WriteOutcome(e, v, call[p].expected)
  <1>1. out = "release"
    BY DEF WriteRelease, WriteOutcome, Refused, Error
  <1>2. v \notin DOMAIN releases[e] /\ currentVersion[e] = call[p].expected
    BY <1>1 DEF WriteOutcome
  <1>3. pc[p] = "write" /\ Releasing(p) /\ Sound(p)
    BY DEF WriteRelease, ReleaseInv, SnapshotSound
  <1>4. e \in Env /\ seen[p].version \in Nat /\ v = currentVersion[e] + 1
    BY <1>2, <1>3, Typed DEF ReleaseInv, Sound, NextVersion
  <1>5. v \in Nat
    BY <1>4 DEF NextVersion
  <1> QED BY <1>1, <1>2, <1>3, <1>4, <1>5 DEF WriteRelease, Releasing

\* Both transactions add the audit row of the change they make.
LEMMA AuditStep ==
  ASSUME ReleaseInv, AuditComplete, [Next]_vars
  PROVE  AuditComplete'
PROOF
  <1>1. CASE UNCHANGED db
    BY <1>1 DEF db, AuditComplete
  <1>2. CASE ~UNCHANGED db
    <2>1. PICK p \in Req : SaveDraft(p) \/ WriteRelease(p)
      BY <1>2 DEF Next, Step, Crash, Arrive, Fail, DraftResolve, ReadRevision,
         ReadDraft, SaveResolve, PublishResolve, PublishReadDraft, RollbackResolve,
         RollbackReadTarget, ReadCurrent, Broadcast, vars
    <2> DEFINE e == call[p].env
    <2>2. /\ e \in Env /\ TypeOK /\ ~Refused(p)
          /\ \A d \in Env, a \in AuditAction : audits[d][a] \in Nat
          /\ \A d \in Env : draftRevision[d] \in Nat /\ currentVersion[d] \in Nat
      BY <1>2, Typed DEF ReleaseInv, TypeOK, Refused
    <2>3. CASE SaveDraft(p)
      <3>1. /\ draftRevision' = [draftRevision EXCEPT ![e] = @ + 1]
            /\ Audit(e, "draft.save") /\ UNCHANGED currentVersion
        BY <1>2, <2>3 DEF SaveDraft
      <3>2. ASSUME NEW d \in Env, NEW b \in AuditAction
            PROVE  audits'[d][b] = IF d = e /\ b = "draft.save" THEN audits[d][b] + 1
                                                               ELSE audits[d][b]
        BY <2>2, <3>1, AuditAdds DEF AuditAction
      <3> QED BY <2>2, <3>1, <3>2 DEF AuditComplete, AuditAction, TypeOK
    <2>4. CASE WriteRelease(p)
      <3> DEFINE op == call[p].op
      <3>1. /\ op \in {"publish", "rollback"} /\ Audit(e, op)
            /\ currentVersion' = [currentVersion EXCEPT ![e] = currentVersion[e] + 1]
            /\ op = "rollback" => draftRevision' = [draftRevision EXCEPT ![e] = @ + 1]
            /\ op = "publish" => draftRevision' = draftRevision
        BY <2>2, <2>4, WritesNext DEF SyncDraft
      <3>2. ASSUME NEW d \in Env, NEW b \in AuditAction
            PROVE  audits'[d][b] = IF d = e /\ b = op THEN audits[d][b] + 1
                                                     ELSE audits[d][b]
        BY <2>2, <3>1, AuditAdds DEF AuditAction
      <3>3. CASE op = "publish"
        BY <2>2, <3>1, <3>2, <3>3 DEF AuditComplete, AuditAction, TypeOK
      <3>4. CASE op = "rollback"
        BY <2>2, <3>1, <3>2, <3>4 DEF AuditComplete, AuditAction, TypeOK
      <3> QED BY <3>1, <3>3, <3>4
    <2> QED BY <2>1, <2>3, <2>4
  <1> QED BY <1>1, <1>2

-----------------------------------------------------------------------------
(* Owners of versions.                                                     *)

\* Rows stay, so a step in which nobody comes to own anything keeps OwnerInv.
LEMMA OwnersKept ==
  ASSUME ReleaseInv, OwnerInv, Next,
         \A q \in Req, e \in Env, v \in Nat, i \in Items :
           Owns(q, e, v, i)' => Owns(q, e, v, i)
  PROVE  OwnerInv'
PROOF
  <1> SUFFICES ASSUME NEW p \in Req, NEW e \in Env, NEW v \in Nat, NEW i \in Items,
                      Owns(p, e, v, i)'
               PROVE  /\ v \in DOMAIN releases'[e] /\ releases'[e][v].items = i
                      /\ \A q \in Req \ {p}, j \in Items : ~Owns(q, e, v, j)'
    BY DEF OwnerInv
  <1>1. v \in DOMAIN releases[e] /\ releases[e][v].items = i
    BY DEF OwnerInv
  <1>2. v \in DOMAIN releases'[e] /\ releases'[e][v] = releases[e][v]
    BY <1>1, RowsKept
  <1>3. \A q \in Req \ {p}, j \in Items : ~Owns(q, e, v, j)
    BY DEF OwnerInv
  <1> QED BY <1>1, <1>2, <1>3

\* The owner of a row that is being written is the first one of its version.
LEMMA WriteOwns ==
  ASSUME ReleaseInv, OwnerInv, NEW p \in Req, WriteRelease(p), ~Refused(p)
  PROVE  OwnerInv'
PROOF
  <1> DEFINE e == call[p].env
             v == NextVersion(seen[p].version)
             row == [items |-> seen[p].items, digest |-> seen[p].digest,
                     source |-> call[p].target]
  <1>1. /\ e \in Env /\ v \in Nat /\ v \notin DOMAIN releases[e]
        /\ InsertRelease(e, v, row)
        /\ Goto(p, "broadcast") /\ UNCHANGED seen
    BY WritesNext
  <1>2. Next /\ TypeOK
    BY DEF Next, Step, ReleaseInv
  <1>3. v \in DOMAIN releases'[e] /\ releases'[e][v].items = seen[p].items
    BY <1>1, <1>2 DEF InsertRelease, TypeOK
  <1>4. UNCHANGED <<call, seen, reply>> /\ \A q \in Req \ {p} : pc'[q] = pc[q]
    BY <1>1, <1>2 DEF Goto, TypeOK
  <1>5. ASSUME NEW q \in Req, NEW d \in Env, NEW w \in Nat, NEW i \in Items,
               Owns(q, d, w, i)'
        PROVE  Owns(q, d, w, i) \/ (q = p /\ d = e /\ w = v /\ i = seen[p].items)
    BY <1>4, <1>5 DEF Owns, NextVersion
  <1>6. ASSUME NEW q \in Req, NEW j \in Items PROVE ~Owns(q, e, v, j)
    BY <1>1 DEF OwnerInv
  <1>7. ASSUME NEW q \in Req, NEW d \in Env, NEW w \in Nat, NEW i \in Items,
               Owns(q, d, w, i)'
        PROVE  /\ w \in DOMAIN releases'[d] /\ releases'[d][w].items = i
               /\ \A r \in Req \ {q}, j \in Items : ~Owns(r, d, w, j)'
    <2>1. CASE q = p /\ d = e /\ w = v /\ i = seen[p].items
      BY <1>3, <1>5, <1>6, <2>1
    <2>2. CASE Owns(q, d, w, i)
      <3>1. w \in DOMAIN releases[d] /\ releases[d][w].items = i
        BY <2>2 DEF OwnerInv
      <3>2. w \in DOMAIN releases'[d] /\ releases'[d][w] = releases[d][w]
        BY <1>2, <3>1, RowsKept
      <3>3. d # e \/ w # v
        BY <1>1, <3>1
      <3>4. \A r \in Req \ {q}, j \in Items : ~Owns(r, d, w, j)
        BY <2>2 DEF OwnerInv
      <3> QED BY <1>5, <3>1, <3>2, <3>3, <3>4
    <2> QED BY <1>5, <1>7, <2>1, <2>2
  <1> QED BY <1>7 DEF OwnerInv

\* Only a commit makes an owner; the answer hands the version on to the caller.
LEMMA OwnerStep ==
  ASSUME ReleaseInv, OwnerInv, [Next]_vars
  PROVE  OwnerInv'
PROOF
  <1>0. TypeOK
    BY DEF ReleaseInv
  <1>1. CASE UNCHANGED vars
    BY <1>1 DEF vars, db, local, OwnerInv, Owns, NextVersion
  <1>2. CASE Crash
    <2>1. \A q \in Req : pc'[q] = "idle" /\ reply'[q] = reply[q]
      BY <1>2 DEF Crash
    <2> QED BY <1>2, <2>1, OwnersKept DEF Owns, Next
  <1>3. ASSUME NEW p \in Req, Arrive(p) \/ Step(p) \/ Fail(p) PROVE OwnerInv'
    <2>0. Next
      BY <1>3 DEF Next
    <2>1. \A q \in Req \ {p} : /\ pc'[q] = pc[q] /\ call'[q] = call[q]
                               /\ seen'[q] = seen[q] /\ reply'[q] = reply[q]
      BY <1>0, <1>3, OthersKept
    <2>2. CASE WriteRelease(p) /\ ~Refused(p)
      BY <2>2, WriteOwns
    <2>3. CASE Broadcast(p)
      <3>1. Answered(p, "release", NextVersion(seen[p].version), seen[p].items)
            /\ pc[p] = "broadcast"
        BY <2>3 DEF Broadcast
      <3>2. /\ pc'[p] = "idle"
            /\ reply'[p] = [status |-> "release", env |-> call[p].env,
                            num |-> NextVersion(seen[p].version), items |-> seen[p].items]
        BY <1>0, <3>1, AnsweredReply
      <3>3. \A e \in Env, v \in Nat, i \in Items : Owns(p, e, v, i)' => Owns(p, e, v, i)
        BY <3>1, <3>2 DEF Owns
      <3>4. \A q \in Req \ {p}, e \in Env, v \in Nat, i \in Items :
              Owns(q, e, v, i)' => Owns(q, e, v, i)
        BY <2>1 DEF Owns, NextVersion
      <3> QED BY <2>0, <3>3, <3>4, OwnersKept
    <2>4. CASE /\ pc'[p] # "broadcast"
               /\ reply'[p] = reply[p] \/ reply'[p].status # "release"
      <3>1. \A q \in Req, e \in Env, v \in Nat, i \in Items :
              Owns(q, e, v, i)' => Owns(q, e, v, i)
        BY <2>1, <2>4 DEF Owns, NextVersion
      <3> QED BY <2>0, <3>1, OwnersKept
    <2>5. CASE Refused(p)
      <3>1. PICK code \in Error : Answered(p, code, 0, NoItems)
        BY <2>5 DEF Refused, Refuse
      <3>2. pc'[p] = "idle" /\ reply'[p].status = code
        BY <1>0, <3>1, AnsweredReply
      <3> QED BY <2>4, <3>2 DEF Error
    <2>6. CASE Continues(p) \/ ReadRevision(p)
      BY <1>0, <2>4, <2>6 DEF Continues, ReadRevision, Goto, TypeOK
    <2>7. CASE ReadDraft(p)
      <3>1. Answered(p, "draft", seen[p].revision, draftItems[call[p].env])
        BY <2>7 DEF ReadDraft
      <3>2. pc'[p] = "idle" /\ reply'[p].status = "draft"
        BY <1>0, <3>1, AnsweredReply
      <3> QED BY <2>4, <3>2
    <2>8. CASE SaveDraft(p) /\ ~Refused(p)
      <3>1. Answered(p, "saved", call[p].expected + 1, call[p].items)
        BY <2>8 DEF SaveDraft, Refused, Error
      <3>2. pc'[p] = "idle" /\ reply'[p].status = "saved"
        BY <1>0, <3>1, AnsweredReply
      <3> QED BY <2>4, <3>2
    <2> QED BY <1>0, <1>3, <2>2, <2>3, <2>5, <2>6, <2>7, <2>8, StepKinds
  <1> QED BY <1>1, <1>2, <1>3 DEF Next

-----------------------------------------------------------------------------
(* The theorems.                                                           *)

\* At first there are no rows, and nobody was told anything.
LEMMA InitAnswers == Init => AuditComplete /\ DraftInv /\ OwnerInv
PROOF
  <1> SUFFICES ASSUME Init PROVE AuditComplete /\ DraftInv /\ OwnerInv
    OBVIOUS
  <1>1. AuditComplete
    BY DEF Init, AuditComplete, AuditAction
  <1>2. \A p \in Req : pc[p] = "idle" /\ reply[p].status = "none"
    BY DEF Init, NoReply
  <1>3. DraftInv
    BY <1>2 DEF DraftInv, Saw, ReadRevisionIsOld, At, OneSaverPerRevision
  <1>4. OwnerInv
    BY <1>2 DEF OwnerInv, Owns
  <1> QED BY <1>1, <1>3, <1>4

\* The invariant about answers holds in every reachable state.
LEMMA AnswerInvariance == Spec => []AnswerInv
PROOF
  <1>1. Init => AnswerInv
    BY InitType, InitRows, InitAnswers DEF AnswerInv, ReleaseInv
  <1>2. AnswerInv /\ [Next]_vars => AnswerInv'
    <2> SUFFICES ASSUME AnswerInv, [Next]_vars PROVE AnswerInv'
      OBVIOUS
    <2>1. ReleaseInv' /\ AuditComplete' /\ OwnerInv'
      BY ReleaseInvStep, AuditStep, OwnerStep DEF AnswerInv
    <2>2. DraftInv'
      BY DraftInvStep DEF AnswerInv, ReleaseInv
    <2> QED BY <2>1, <2>2 DEF AnswerInv
  <1> QED BY <1>1, <1>2, PTL DEF Spec

\* Whoever holds the revision of the draft has seen the draft, although the
\* revision and the items are read in two queries.
THEOREM EditorsSawTheDraft == Spec => []EditorSawDraft
PROOF
  <1>1. AnswerInv => EditorSawDraft
    BY DEF AnswerInv, DraftInv, Saw, EditorSawDraft
  <1> QED BY <1>1, AnswerInvariance, PTL

\* Of any number of saves from one revision, one is accepted.
THEOREM SaversDoNotShare == Spec => []OneSaverPerRevision
PROOF
  <1>1. AnswerInv => OneSaverPerRevision
    BY DEF AnswerInv, DraftInv
  <1> QED BY <1>1, AnswerInvariance, PTL

\* A release that a caller was told of is in the table, and is that caller's.
THEOREM AnswersAreOwned == Spec => []AckedRelease
PROOF
  <1>1. AnswerInv => AckedRelease
    <2> SUFFICES ASSUME AnswerInv, NEW p \in Req, reply[p].status = "release"
                 PROVE  LET e == reply[p].env IN
                        /\ reply[p].num \in DOMAIN releases[e]
                        /\ releases[e][reply[p].num].items = reply[p].items
                        /\ \A q \in Req \ {p} :
                             reply[q].status = "release" /\ reply[q].env = e
                               => reply[q].num # reply[p].num
      BY DEF AckedRelease
    <2>1. \A q \in Req : /\ reply[q].env \in Env /\ reply[q].num \in Nat
                         /\ reply[q].items \in Items
      BY DEF AnswerInv, ReleaseInv, TypeOK, Reply
    <2>2. Owns(p, reply[p].env, reply[p].num, reply[p].items)
      BY DEF Owns
    <2>3. \A q \in Req \ {p} : reply[q].status = "release" =>
            Owns(q, reply[q].env, reply[q].num, reply[q].items)
      BY DEF Owns
    <2> QED BY <2>1, <2>2, <2>3 DEF AnswerInv, OwnerInv
  <1> QED BY <1>1, AnswerInvariance, PTL

\* The audit log has one row for every change of a draft and every release.
THEOREM AuditsAreComplete == Spec => []AuditComplete
PROOF
  <1>1. AnswerInv => AuditComplete
    BY DEF AnswerInv
  <1> QED BY <1>1, AnswerInvariance, PTL

-----------------------------------------------------------------------------
(* Third part: every query and every transaction of a request is one step  *)
(* of the abstract store, or none.                                         *)

Log == [e \in Env |-> Released(e)]

\* What has been released is a sequence of lists, as long as the version says.
LEMMA ReleasedType ==
  ASSUME TypeOK, VersionsGapless, NEW e \in Env
  PROVE  /\ Released(e) \in Seq(Items)
         /\ Len(Released(e)) = currentVersion[e]
         /\ \A v \in 1 .. currentVersion[e] : Released(e)[v] = releases[e][v].items
PROOF
  <1>1. currentVersion[e] \in Nat /\ DOMAIN releases[e] = 1 .. currentVersion[e]
    BY DEF TypeOK, VersionsGapless
  <1>2. \A v \in 1 .. currentVersion[e] : releases[e][v].items \in Items
    BY <1>1 DEF TypeOK, Row
  <1>3. Released(e) \in [1 .. currentVersion[e] -> Items]
    BY <1>2 DEF Released
  <1>4. Released(e) \in Seq(Items)
    BY <1>1, <1>3, SeqDef
  <1>5. Len(Released(e)) = currentVersion[e]
    BY <1>1, <1>3, <1>4, LenProperties
  <1> QED BY <1>4, <1>5 DEF Released

\* The tables of a new database are the empty history.
LEMMA InitRefines == Init => History!Init
PROOF
  <1> SUFFICES ASSUME Init PROVE History!Init
    OBVIOUS
  <1>1. ASSUME NEW e \in Env PROVE Released(e) = <<>>
    <2>1. currentVersion[e] = 0
      BY DEF Init
    <2>2. Released(e) \in [1 .. 0 -> Items]
      BY <2>1 DEF Released
    <2>3. Released(e) \in Seq(Items) /\ Len(Released(e)) = 0
      BY <2>2, SeqDef, LenProperties
    <2> QED BY <2>3, EmptySeq
  <1> QED BY <1>1 DEF Init, History!Init

\* A new row at the end of the table is a list appended to the log.
LEMMA InsertAppends ==
  ASSUME ReleaseInv, NEW e \in Env, NEW row \in Row,
         InsertRelease(e, currentVersion[e] + 1, row),
         currentVersion' = [currentVersion EXCEPT ![e] = currentVersion[e] + 1]
  PROVE  Log' = [Log EXCEPT ![e] = Append(Log[e], row.items)]
PROOF
  <1> DEFINE cv == currentVersion[e]
  <1>1. /\ TypeOK /\ VersionsGapless /\ cv \in Nat
        /\ DOMAIN releases[e] = 1 .. cv
    BY DEF ReleaseInv, RowsInv, TypeOK, VersionsGapless
  <1>2. /\ currentVersion'[e] = cv + 1
        /\ \A d \in Env \ {e} :
             currentVersion'[d] = currentVersion[d] /\ releases'[d] = releases[d]
    BY <1>1 DEF InsertRelease, TypeOK
  <1>3. /\ releases'[e][cv + 1] = row
        /\ \A v \in 1 .. cv : releases'[e][v] = releases[e][v]
    <2>1. releases'[e] = [w \in 1 .. cv \cup {cv + 1} |->
                            IF w = cv + 1 THEN row ELSE releases[e][w]]
      BY <1>1 DEF InsertRelease, TypeOK
    <2>2. \A v \in 1 .. cv : v # cv + 1
      BY <1>1
    <2> QED BY <2>1, <2>2
  <1>4. \A d \in Env \ {e} : Released(d)' = Released(d)
    BY <1>2 DEF Released
  <1>5. Released(e)' = Append(Released(e), row.items)
    <2> DEFINE old == Released(e)
               new == Append(old, row.items)
    <2>1. old \in Seq(Items) /\ Len(old) = cv /\ row.items \in Items
      BY <1>1, ReleasedType DEF Row
    <2>2. /\ new \in Seq(Items) /\ Len(new) = cv + 1
          /\ \A v \in 1 .. cv : new[v] = old[v]
          /\ new[cv + 1] = row.items
      BY <2>1, AppendProperties
    <2>3. new = [v \in 1 .. cv + 1 |-> new[v]]
      BY <2>2, LenProperties
    <2>4. \A v \in 1 .. cv : old[v] = releases[e][v].items
      BY <1>1, ReleasedType
    <2> HIDE DEF new, old
    <2>5. ASSUME NEW v \in 1 .. cv + 1 PROVE releases'[e][v].items = new[v]
      <3>1. CASE v = cv + 1
        BY <1>3, <2>2, <3>1
      <3>2. CASE v \in 1 .. cv
        BY <1>3, <2>2, <2>4, <3>2
      <3> QED BY <1>1, <3>1, <3>2
    <2>6. Released(e)' = [v \in 1 .. cv + 1 |-> releases'[e][v].items]
      BY <1>2 DEF Released
    <2>7. Released(e)' = new
      BY <2>3, <2>5, <2>6
    <2> QED BY <2>7 DEF new, old
  <1> QED BY <1>4, <1>5 DEF Log

\* Content that differs from the newest row's is a change of the history.
LEMMA WriteChanges ==
  ASSUME ReleaseInv, NEW p \in Req, pc[p] = "write", Releasing(p),
         seen[p].version = currentVersion[call[p].env]
  PROVE  History!Changes(call[p].env, seen[p].items)
PROOF
  <1> DEFINE e == call[p].env
             cv == currentVersion[e]
  <1>1. /\ TypeOK /\ VersionsGapless /\ RollbackFaithful /\ Sound(p)
        /\ e \in Env /\ cv \in Nat
    BY Typed DEF ReleaseInv, RowsInv, SnapshotSound
  <1>2. /\ Released(e) \in Seq(Items) /\ Len(Released(e)) = cv
        /\ \A v \in 1 .. cv : Released(e)[v] = releases[e][v].items
    BY <1>1, ReleasedType
  <1>3. CASE cv = 0
    BY <1>1, <1>2, <1>3, EmptySeq DEF History!Changes
  <1>4. CASE cv > 0
    <2>1. releases[e][cv].digest # seen[p].digest /\ seen[p].digest = Digest[seen[p].items]
      BY <1>1, <1>4 DEF Sound
    <2>2. cv \in 1 .. cv /\ cv \in DOMAIN releases[e]
      BY <1>1, <1>4 DEF VersionsGapless
    <2>3. releases[e][cv].digest = Digest[releases[e][cv].items]
      BY <1>1, <2>2 DEF RollbackFaithful
    <2> QED BY <1>1, <1>2, <2>1, <2>2, <2>3 DEF History!Changes
  <1> QED BY <1>1, <1>3, <1>4

\* An accepted save is an edit.
LEMMA SaveRefines ==
  ASSUME ReleaseInv, NEW p \in Req, SaveDraft(p)
  PROVE  [History!Next]_(History!vars)
PROOF
  <1>1. CASE UNCHANGED db
    BY <1>1 DEF db, History!vars, Released
  <1>2. CASE ~UNCHANGED db
    <2>1. /\ draftRevision' = [draftRevision EXCEPT ![call[p].env] = @ + 1]
          /\ draftItems' = [draftItems EXCEPT ![call[p].env] = call[p].items]
          /\ UNCHANGED <<currentVersion, releases>>
      BY <1>2 DEF SaveDraft
    <2>2. call[p].env \in Env /\ call[p].items \in Items
      BY Typed DEF ReleaseInv
    <2>3. History!Edit(call[p].env, call[p].items)
      BY <2>1 DEF History!Edit, History!SetDraft, Released
    <2> QED BY <2>2, <2>3 DEF History!Next
  <1> QED BY <1>1, <1>2

\* A release that is written is a release or a revert of the history.
LEMMA WriteRefines ==
  ASSUME ReleaseInv, NEW p \in Req, WriteRelease(p)
  PROVE  [History!Next]_(History!vars)
PROOF
  <1> DEFINE e == call[p].env
             cv == currentVersion[e]
             i == seen[p].items
             row == [items |-> i, digest |-> seen[p].digest, source |-> call[p].target]
             out == WriteOutcome(e, NextVersion(seen[p].version), call[p].expected)
  <1>1. CASE out # "release"
    BY <1>1 DEF WriteRelease, db, History!vars, Released
  <1>2. CASE out = "release"
    <2>1. /\ TypeOK /\ VersionsGapless /\ Sound(p) /\ e \in Env /\ i \in Items
          /\ row \in Row /\ pc[p] = "write" /\ Releasing(p)
          /\ cv \in Nat /\ seen[p].version \in Nat
      BY Typed DEF ReleaseInv, RowsInv, SnapshotSound, WriteRelease, Row
    <2>2. seen[p].version = cv /\ NextVersion(seen[p].version) = cv + 1
      BY <1>2, <2>1 DEF WriteOutcome, Sound, NextVersion
    <2>3. /\ InsertRelease(e, cv + 1, row)
          /\ currentVersion' = [currentVersion EXCEPT ![e] = cv + 1]
      BY <1>2, <2>2 DEF WriteRelease
    <2>4. Log' = [Log EXCEPT ![e] = Append(Log[e], i)]
      BY <2>1, <2>3, InsertAppends
    <2>5. History!AppendRelease(e, i)
      BY <2>4 DEF History!AppendRelease, Log
    <2>6. History!Changes(e, i)
      BY <2>1, <2>2, WriteChanges
    <2>7. CASE call[p].op = "publish"
      <3>1. UNCHANGED <<draftItems, draftRevision>>
        BY <1>2, <2>7 DEF WriteRelease
      <3>2. History!Release(e, i)
        BY <2>5, <2>6, <3>1 DEF History!Release
      <3> QED BY <2>1, <3>2 DEF History!Next
    <2>8. CASE call[p].op = "rollback"
      <3> DEFINE t == call[p].target
      <3>1. SyncDraft(e, i)
        BY <1>2, <2>8 DEF WriteRelease
      <3>2. History!SetDraft(e, i)
        BY <3>1 DEF SyncDraft, History!SetDraft
      <3>3. t \in 1 .. cv /\ releases[e][t].items = i
        BY <2>1, <2>8 DEF Sound, VersionsGapless
      <3>4. t \in DOMAIN Log[e] /\ Log[e][t] = i
        BY <2>1, <3>3 DEF Log, Released
      <3>5. History!Revert(e, t)
        BY <2>5, <2>6, <3>2, <3>4 DEF History!Revert, Log
      <3> QED BY <2>1, <3>4, <3>5 DEF History!Next, Log
    <2> QED BY <2>1, <2>7, <2>8 DEF Releasing
  <1> QED BY <1>1, <1>2

\* Every other step only reads, or forgets.
LEMMA StepRefines == ReleaseInv /\ [Next]_vars => [History!Next]_(History!vars)
PROOF
  <1> SUFFICES ASSUME ReleaseInv, [Next]_vars PROVE [History!Next]_(History!vars)
    OBVIOUS
  <1>1. CASE UNCHANGED db
    BY <1>1 DEF db, History!vars, Released
  <1>2. CASE ~UNCHANGED db
    <2>1. PICK p \in Req : SaveDraft(p) \/ WriteRelease(p)
      BY <1>2 DEF Next, Step, Crash, Arrive, Fail, DraftResolve, ReadRevision,
         ReadDraft, SaveResolve, PublishResolve, PublishReadDraft, RollbackResolve,
         RollbackReadTarget, ReadCurrent, Broadcast, vars
    <2> QED BY <2>1, SaveRefines, WriteRefines
  <1> QED BY <1>1, <1>2

\* The services over the tables implement the abstract history: no interleaving
\* of requests, and no crash, shows a caller anything else.
THEOREM ReleasesImplementHistory == Spec => ImplementsHistory
PROOF
  BY InitRefines, StepRefines, ReleaseInvariance, PTL DEF Spec, ImplementsHistory, History!Spec
=============================================================================
