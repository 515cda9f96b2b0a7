----------------------------- MODULE Releases -------------------------------
(***************************************************************************)
(* Drafts, releases and rollbacks: internal/service/releases.go and        *)
(* configurations.go over the tables of internal/repository.               *)
(*                                                                         *)
(* The database has one connection (SetMaxOpenConns(1)), so a single query *)
(* is atomic and a transaction holds the connection from BeginTx to        *)
(* Commit: each is one step.  A service method is several of them, and     *)
(* the steps of concurrent HTTP requests interleave freely.  Whatever a    *)
(* request read earlier may be stale when it writes.                       *)
(***************************************************************************)
EXTENDS Integers, FiniteSets

CONSTANTS
  Env,          \* rows of the table environments
  Req,          \* goroutines serving requests, each one request at a time
  Items,        \* item lists that domain.ValidateItems accepts
  NoItems,      \* the empty list, the draft of a new environment
  Digest,       \* Digest[i]: checksum of the canonical JSON of list i
  Unencodable,  \* valid lists that CanonicalJSON cannot encode (a NaN number)
  MaxVersion,   \* bound: no request asks for a version above it
  MaxRevision   \* bound: no save starts from a revision at or above it

ASSUME ConstantsAssumption ==
  /\ Env # {}
  /\ NoItems \in Items
  /\ Unencodable \subseteq Items
  /\ DOMAIN Digest = Items
  /\ MaxVersion \in Nat
  /\ MaxRevision \in Nat

VARIABLES
  currentVersion,  \* environments.current_version
  draftRevision,   \* environments.draft_revision
  draftItems,      \* the rows of draft_items of an environment
  releases,        \* releases[e][v]: the row with UNIQUE(environment_id, version)
  audits,          \* audits[e][a]: number of audit_logs rows with action a
  pc,              \* the next statement of a request
  call,            \* its parameters
  seen,            \* its local variables: what it has read
  reply            \* the last answer the caller of p was given

db == <<currentVersion, draftRevision, draftItems, releases, audits>>
local == <<pc, call, seen, reply>>
vars == <<db, local>>

Digests == {Digest[i] : i \in Items}

\* source is source_version, 0 for NULL.  A rollback row has a source.
Row == [items: Items, digest: Digests, source: Nat]

AuditAction == {"draft.save", "publish", "rollback"}

Op == {"none", "draft", "save", "publish", "rollback"}

CallType == [op: Op, env: Env, expected: Nat, target: Nat, items: Items]

Seen == [version: Nat, revision: Nat, items: Items, digest: Digests]

Error == {"CONFLICT", "VERSION_CONFLICT", "REVISION_CONFLICT",
          "INVALID_ARGUMENT", "NOT_FOUND", "INTERNAL_ERROR"}

\* num is the revision of a "draft" or "saved" answer, the version of a "release".
Reply == [status: {"none", "draft", "saved", "release"} \cup Error,
          env: Env, num: Nat, items: Items]

PC == {"idle", "resolve", "revision", "draft", "target", "current", "write",
       "broadcast"}

TypeOK ==
  /\ currentVersion \in [Env -> Nat]
  /\ draftRevision \in [Env -> Nat]
  /\ draftItems \in [Env -> Items]
  /\ DOMAIN releases = Env
  /\ \A e \in Env : /\ DOMAIN releases[e] \subseteq Nat \ {0}
                    /\ \A v \in DOMAIN releases[e] : releases[e][v] \in Row
  /\ audits \in [Env -> [AuditAction -> Nat]]
  /\ pc \in [Req -> PC]
  /\ call \in [Req -> CallType]
  /\ seen \in [Req -> Seen]
  /\ reply \in [Req -> Reply]

-----------------------------------------------------------------------------
AnyEnv == CHOOSE e \in Env : TRUE

NoCall == [op |-> "none", env |-> AnyEnv, expected |-> 0, target |-> 0,
           items |-> NoItems]

NothingSeen == [version |-> 0, revision |-> 0, items |-> NoItems,
                digest |-> Digest[NoItems]]

NoReply == [status |-> "none", env |-> AnyEnv, num |-> 0, items |-> NoItems]

Init ==
  /\ currentVersion = [e \in Env |-> 0]
  /\ draftRevision = [e \in Env |-> 0]
  /\ draftItems = [e \in Env |-> NoItems]
  /\ releases = [e \in Env |-> <<>>]
  /\ audits = [e \in Env |-> [a \in AuditAction |-> 0]]
  /\ pc = [p \in Req |-> "idle"]
  /\ call = [p \in Req |-> NoCall]
  /\ seen = [p \in Req |-> NothingSeen]
  /\ reply = [p \in Req |-> NoReply]

-----------------------------------------------------------------------------
(* Requests.  The parameters are any the caller may send.                  *)

Calls ==
  LET C(op, expected, target, items) ==
        [op: {op}, env: Env, expected: expected, target: target, items: items]
  IN  C("draft", {0}, {0}, {NoItems})
      \cup C("save", 0 .. MaxRevision - 1, {0}, Items)
      \cup C("publish", 0 .. MaxVersion - 1, {0}, {NoItems})
      \cup C("rollback", 0 .. MaxVersion - 1, 0 .. MaxVersion, {NoItems})

Arrive(p) ==
  /\ pc[p] = "idle"
  /\ \E c \in Calls : call' = [call EXCEPT ![p] = c]
  /\ pc' = [pc EXCEPT ![p] = "resolve"]
  /\ UNCHANGED <<db, seen, reply>>

Goto(p, label) == pc' = [pc EXCEPT ![p] = label] /\ UNCHANGED <<call, reply>>

\* The request returns r and its goroutine is free for another one.
Answer(p, r) ==
  /\ pc' = [pc EXCEPT ![p] = "idle"]
  /\ call' = [call EXCEPT ![p] = NoCall]
  /\ seen' = [seen EXCEPT ![p] = NothingSeen]
  /\ reply' = [reply EXCEPT ![p] = r]

Answered(p, status, n, i) ==
  Answer(p, [status |-> status, env |-> call[p].env, num |-> n, items |-> i])

Refuse(p, code) == Answered(p, code, 0, NoItems)

At(p, label, op) == pc[p] = label /\ call[p].op = op

Releasing(p) == call[p].op \in {"publish", "rollback"}

\* Any error return that changes nothing: input the validators of the domain
\* package refuse, an unknown application or environment, a cancelled request
\* context, a failing statement (its transaction is rolled back).
Fail(p) ==
  /\ pc[p] \notin {"idle", "broadcast"}
  /\ Refuse(p, "INTERNAL_ERROR")
  /\ UNCHANGED db

-----------------------------------------------------------------------------
(* Reading a draft: two queries, the revision first.  The current version  *)
(* that the answer also has is not kept: Console says what is done with it. *)

DraftResolve(p) ==
  /\ At(p, "resolve", "draft")
  /\ Goto(p, "revision")
  /\ UNCHANGED <<db, seen>>

ReadRevision(p) ==
  /\ At(p, "revision", "draft")
  /\ seen' = [seen EXCEPT ![p].revision = draftRevision[call[p].env]]
  /\ Goto(p, "draft")
  /\ UNCHANGED db

ReadDraft(p) ==
  /\ At(p, "draft", "draft")
  /\ Answered(p, "draft", seen[p].revision, draftItems[call[p].env])
  /\ UNCHANGED db

-----------------------------------------------------------------------------
(* Saving a draft.                                                         *)

SaveResolve(p) ==
  /\ At(p, "resolve", "save")
  /\ Goto(p, "write")
  /\ UNCHANGED <<db, seen>>

Audit(e, action) == audits' = [audits EXCEPT ![e][action] = @ + 1]

\* Mutation: the revision is read but not compared.
AcceptsAnyRevision(e, revision) == revision \in Nat

\* WHERE draft_revision = ?
AcceptsRevision(e, revision) == draftRevision[e] = revision

SaveDraft(p) ==
  LET e == call[p].env IN
  /\ At(p, "write", "save")
  /\ \/ /\ ~AcceptsRevision(e, call[p].expected)
        /\ Refuse(p, "REVISION_CONFLICT")
        /\ UNCHANGED db
     \/ /\ AcceptsRevision(e, call[p].expected)
        /\ draftRevision' = [draftRevision EXCEPT ![e] = @ + 1]
        /\ draftItems' = [draftItems EXCEPT ![e] = call[p].items]
        /\ Audit(e, "draft.save")
        /\ Answered(p, "saved", call[p].expected + 1, call[p].items)
        /\ UNCHANGED <<currentVersion, releases>>

-----------------------------------------------------------------------------
(* Publishing and rolling back.                                            *)

PublishResolve(p) ==
  LET version == currentVersion[call[p].env] IN
  /\ At(p, "resolve", "publish")
  /\ \/ version # call[p].expected /\ Refuse(p, "VERSION_CONFLICT")
     \/ /\ version = call[p].expected
        /\ seen' = [seen EXCEPT ![p].version = version]
        /\ Goto(p, "draft")
  /\ UNCHANGED db

PublishReadDraft(p) ==
  LET i == draftItems[call[p].env] IN
  /\ At(p, "draft", "publish")
  /\ \/ i \in Unencodable /\ Refuse(p, "INTERNAL_ERROR")
     \/ /\ i \notin Unencodable
        /\ seen' = [seen EXCEPT ![p].items = i, ![p].digest = Digest[i]]
        /\ Goto(p, IF seen[p].version > 0 THEN "current" ELSE "write")
  /\ UNCHANGED db

RollbackResolve(p) ==
  LET version == currentVersion[call[p].env] IN
  /\ At(p, "resolve", "rollback")
  /\ \/ version # call[p].expected /\ Refuse(p, "VERSION_CONFLICT")
     \/ /\ version = call[p].expected
        /\ call[p].target \in {0, version}
        /\ Refuse(p, "INVALID_ARGUMENT")
     \/ /\ version = call[p].expected
        /\ call[p].target \notin {0, version}
        /\ seen' = [seen EXCEPT ![p].version = version]
        /\ Goto(p, "target")
  /\ UNCHANGED db

\* Mutation: the stored checksum is kept, the items come from the draft.
TargetWithDraftItems(e, v) == [releases[e][v] EXCEPT !.items = draftItems[e]]

\* repository.GetRelease
GetRelease(e, v) == releases[e][v]

RollbackReadTarget(p) ==
  LET e == call[p].env
      v == call[p].target
  IN
  /\ At(p, "target", "rollback")
  /\ \/ v \notin DOMAIN releases[e] /\ Refuse(p, "NOT_FOUND")
     \/ /\ v \in DOMAIN releases[e]
        /\ seen' = [seen EXCEPT ![p].items = GetRelease(e, v).items,
                                ![p].digest = GetRelease(e, v).digest]
        /\ Goto(p, "current")
  /\ UNCHANGED db

\* ORDER BY version DESC LIMIT 1: the newest row, whatever current_version says.
Latest(e) ==
  CHOOSE v \in DOMAIN releases[e] : \A w \in DOMAIN releases[e] : w <= v

GetCurrentRelease(e) == releases[e][Latest(e)]

\* Mutation: the content is compared with the first release, not the newest.
SameAsFirst(e, digest) == releases[e][1].digest = digest

\* "draft has no published changes", "target content is already current"
SameAsCurrent(e, digest) == GetCurrentRelease(e).digest = digest

ReadCurrent(p) ==
  /\ pc[p] = "current" /\ Releasing(p)
  /\ \/ SameAsCurrent(call[p].env, seen[p].digest) /\ Refuse(p, "CONFLICT")
     \/ /\ ~SameAsCurrent(call[p].env, seen[p].digest)
        /\ Goto(p, "write")
        /\ UNCHANGED seen
  /\ UNCHANGED db

\* Mutation: versions start at 2 and step over the gaps.
NextButOneVersion(version) == version + 2

\* Mutation: versions count down.
PreviousVersion(version) == version - 1

\* Environment.NextVersion of the environment row read by resolve
NextVersion(version) == version + 1

\* Mutation: neither the index nor the guarded update refuses the write.
AlwaysWritten(e, v, expected) == "release"

\* Mutation: the version is checked before the row is inserted.
CheckedThenInserted(e, v, expected) ==
  IF currentVersion[e] # expected THEN "VERSION_CONFLICT"
  ELSE IF v \in DOMAIN releases[e] THEN "CONFLICT" ELSE "release"

\* The transaction first inserts the row, which the unique index may refuse,
\* then moves current_version where it still is what the caller expected.
WriteOutcome(e, v, expected) ==
  IF v \in DOMAIN releases[e] THEN "CONFLICT"
  ELSE IF currentVersion[e] # expected THEN "VERSION_CONFLICT" ELSE "release"

\* Mutation: the draft is replaced under the revision it had.
SyncItemsOnly(e, items) ==
  /\ draftItems' = [draftItems EXCEPT ![e] = items]
  /\ UNCHANGED draftRevision

\* The SyncDraft branch: a rollback replaces the draft, whatever revision it
\* is at, and counts it as a change of the draft.
SyncDraft(e, items) ==
  /\ draftItems' = [draftItems EXCEPT ![e] = items]
  /\ draftRevision' = [draftRevision EXCEPT ![e] = @ + 1]

InsertRelease(e, v, row) ==
  releases' = [releases EXCEPT ![e] =
    [w \in DOMAIN releases[e] \cup {v} |-> IF w = v THEN row ELSE releases[e][w]]]

WriteRelease(p) ==
  LET e == call[p].env
      v == NextVersion(seen[p].version)
      out == WriteOutcome(e, v, call[p].expected)
      rollback == call[p].op = "rollback"
  IN
  /\ pc[p] = "write" /\ Releasing(p)
  /\ \/ out # "release" /\ Refuse(p, out) /\ UNCHANGED db
     \/ /\ out = "release"
        /\ InsertRelease(e, v, [items |-> seen[p].items,
                                digest |-> seen[p].digest,
                                source |-> call[p].target])
        /\ currentVersion' = [currentVersion EXCEPT ![e] = v]
        /\ IF rollback THEN SyncDraft(e, seen[p].items)
                       ELSE UNCHANGED <<draftItems, draftRevision>>
        /\ Audit(e, call[p].op)
        /\ Goto(p, "broadcast")
        /\ UNCHANGED seen

\* The release is committed; the event hub is told, then the caller.
Broadcast(p) ==
  /\ pc[p] = "broadcast"
  /\ Answered(p, "release", NextVersion(seen[p].version), seen[p].items)
  /\ UNCHANGED db

-----------------------------------------------------------------------------
(* The process dies and is started again: the file survives, the requests  *)
(* in flight do not, and callers keep the answers they already have.       *)
Crash ==
  /\ \E p \in Req : pc[p] # "idle"
  /\ pc' = [p \in Req |-> "idle"]
  /\ call' = [p \in Req |-> NoCall]
  /\ seen' = [p \in Req |-> NothingSeen]
  /\ UNCHANGED <<db, reply>>

Step(p) ==
  \/ DraftResolve(p) \/ ReadRevision(p) \/ ReadDraft(p)
  \/ SaveResolve(p) \/ SaveDraft(p)
  \/ PublishResolve(p) \/ PublishReadDraft(p)
  \/ RollbackResolve(p) \/ RollbackReadTarget(p)
  \/ ReadCurrent(p) \/ WriteRelease(p) \/ Broadcast(p)

Next == Crash \/ \E p \in Req : Arrive(p) \/ Step(p) \/ Fail(p)

Spec == Init /\ [][Next]_vars

-----------------------------------------------------------------------------
(* Safety.                                                                 *)

\* The versions of an environment are 1 .. current_version, without a gap:
\* GetCurrentRelease (newest row) and current_version (the column the
\* services check) always name the same release.
VersionsGapless == \A e \in Env : DOMAIN releases[e] = 1 .. currentVersion[e]

\* Two neighbouring releases differ in content, although each request compares
\* its content with the newest release in one query and writes in another.
NeighboursDiffer ==
  \A e \in Env : \A v \in DOMAIN releases[e] :
    v + 1 \in DOMAIN releases[e] => releases[e][v].digest # releases[e][v + 1].digest

\* A rollback row is a copy of an older release of the same environment, and
\* the checksum of every row is that of its own items.
RollbackFaithful ==
  \A e \in Env : \A v \in DOMAIN releases[e] :
    LET row == releases[e][v] IN
    /\ row.digest = Digest[row.items]
    /\ row.source # 0 => /\ row.source \in DOMAIN releases[e]
                         /\ row.source < v
                         /\ releases[e][row.source].items = row.items

\* An editor whose revision is still the draft's has been shown the draft's
\* items: a save accepted with that revision replaces nothing unseen, although
\* revision and items are read by different queries and rollbacks write too.
EditorSawDraft ==
  \A p \in Req : reply[p].status \in {"draft", "saved"} =>
    LET e == reply[p].env IN
    /\ reply[p].num <= draftRevision[e]
    /\ reply[p].num = draftRevision[e] => reply[p].items = draftItems[e]

\* Of the editors who save from the same revision, one is told it was saved.
OneSaverPerRevision ==
  \A p, q \in Req :
    /\ p # q
    /\ reply[p].status = "saved" /\ reply[q].status = "saved"
    /\ reply[p].env = reply[q].env
    => reply[p].num # reply[q].num

\* A caller told that its release is version v owns version v: the row holds
\* its items, and no other caller was told the same version.
AckedRelease ==
  \A p \in Req : reply[p].status = "release" =>
    LET e == reply[p].env IN
    /\ reply[p].num \in DOMAIN releases[e]
    /\ releases[e][reply[p].num].items = reply[p].items
    /\ \A q \in Req \ {p} :
         reply[q].status = "release" /\ reply[q].env = e => reply[q].num # reply[p].num

\* Every change of a draft and every release left exactly one audit row.
AuditComplete ==
  \A e \in Env :
    /\ draftRevision[e] = audits[e]["draft.save"] + audits[e]["rollback"]
    /\ currentVersion[e] = audits[e]["publish"] + audits[e]["rollback"]

\* A release that lost the race for its version is refused by the unique index
\* with CONFLICT ("release already exists"); the VERSION_CONFLICT branch behind
\* the guarded update of current_version is never reached.
LostRaceIsConflict ==
  \A p \in Req :
    pc[p] = "write" /\ Releasing(p) =>
      WriteOutcome(call[p].env, NextVersion(seen[p].version), call[p].expected)
        # "VERSION_CONFLICT"

\* The version p has read is the one its caller expected, and was reached;
\* about to write on the current one, p has content that differs from it; and a
\* rollback holds a copy of its target.
Sound(p) ==
  LET e == call[p].env
      s == seen[p]
  IN
  /\ s.digest = Digest[s.items]
  /\ call[p].op = "publish" => call[p].target = 0
  /\ Releasing(p) /\ pc[p] \notin {"idle", "resolve"} =>
       s.version = call[p].expected /\ s.version <= currentVersion[e]
  /\ Releasing(p) /\ pc[p] = "write" /\ s.version = currentVersion[e]
       /\ currentVersion[e] > 0 => releases[e][currentVersion[e]].digest # s.digest
  /\ call[p].op = "rollback" /\ pc[p] \in {"current", "write"} =>
       /\ call[p].target \in DOMAIN releases[e]
       /\ releases[e][call[p].target].items = s.items

\* What a request has read may be stale when it writes, but never in a way that
\* the unique index on the versions would not notice.
SnapshotSound == \A p \in Req : Sound(p)

\* A published row is never changed and never removed.
ReleasesImmutable ==
  [][\A e \in Env : \A v \in DOMAIN releases[e] :
       v \in DOMAIN releases'[e] /\ releases'[e][v] = releases[e][v]]_vars

-----------------------------------------------------------------------------
(* Refinement: the tables implement the abstract history.                  *)
\* The lists released in e, by version.
Released(e) == [v \in 1 .. currentVersion[e] |-> releases[e][v].items]

History == INSTANCE ConfigHistory WITH
  log <- [e \in Env |-> Released(e)],
  draft <- draftItems,
  revision <- draftRevision

\* Every step of a request is a step of the abstract history or changes
\* nothing of it.
ImplementsHistory == History!Spec
=============================================================================
