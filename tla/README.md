# A TLA+ development of configcenter

The repository is a configuration centre in one Go process: administrators edit
a draft of an environment's configuration, publish it as an immutable version
or roll back to an older one; clients fetch the current version and follow
changes over a server-sent event stream. This directory models the parts of it
whose correctness depends on interleavings, crashes and bounds, checks them
with TLC on small instances and proves all but their liveness with TLAPS.

## Inventory

| Part | State it keeps | Operations | Modelled in |
| --- | --- | --- | --- |
| Drafts and releases (`internal/service/releases.go`, `configurations.go`, `internal/repository/sqlite_configs.go`) | tables `environments`, `draft_items`, `releases`, `audit_logs`; the local variables of each request | Draft, SaveDraft, Publish, Rollback; read-only List, Get, Compare, DiffDraft, Current | `Releases`, `Transactions`, `ConfigHistory` |
| Event hub (`internal/event/hub.go`) | groups of subscribers, their bounded channels, the bounded history, the last event id | Publish, Subscribe (with replay), unsubscribe, Close | `Hub`, `EventLog` |
| Subscriptions (`internal/transport/http/subscription.go`) | the release read before subscribing, the subscription, the replay | the SSE handler | `Notification` |
| Configuration items (`internal/domain/configuration.go`) | none | ValidateItems, CanonicalJSON, Compare | `ConfigItems` |
| Process (`cmd/server/main.go`) | which of store, hub and server are up | start, shutdown on a signal with a deadline | the variable `process` of `Notification` |
| Storage (`internal/repository/sqlite_base.go`) | one connection to one SQLite file | the statements of the transactions, unique indexes, error mapping | `Transactions`; the tables in `Releases` and `Applications` |
| Applications (`internal/service/applications.go`, `sqlite_entities.go`) | tables `applications`, `environments` | Create, ResetToken, CreateEnvironment, ListEnvironments, Authenticate | `Applications` |
| Web console (`internal/transport/http/web/app.js`) | the selected environment, its draft and releases, timers | select, refresh, save, publish, roll back, poll | `Console` |
| Routing, middleware, process configuration | none | stateless | no |

How they interact. An HTTP request is a goroutine that calls a service, which
makes several calls of the repository and, after a release has been committed,
one of the hub. The repository serialises them on one database connection
(`SetMaxOpenConns(1)`, `sqlite_base.go:38`), so a query outside a transaction is
one atomic step and so is a transaction from `BeginTx` to `Commit`; between two
calls anything may happen. The hub has one mutex, held by each of its methods
from beginning to end, so each is one step; a subscriber reads its channel
without it. The stream handler joins the two: it reads the database, then
subscribes, then writes to the client. The database outlives the process; the
hub with its event ids does not. The console is a client of the same HTTP interface; its
code runs from one `await` to the next and finds the state of the page as other code has left
it meanwhile.

What is hard. Publish and Rollback compare and then write, in different steps
(`releases.go:32-60`). Two of the three places a channel can be closed race with
each other (`hub.go:124`, `135`, `158`). Slow subscribers are dropped, the history is
trimmed and the ids of one process mean nothing to the next. A commit and its
broadcast are two steps, and two requests may do them in opposite orders. A draft
is read in two queries while others save and roll back. A transaction is cut off between two
statements. A shutdown waits for handlers that may be blocked in a write. The
answers of the console's requests arrive after the user has gone elsewhere. `PROJECT.json` lists
every such hazard at its line with the properties that cover it.

What makes each part correct:

- releases: versions without gap, content that changes from one to the next,
  rows that never change, rollbacks that copy, one audit row per change, lost
  races refused, nobody's save silently overwritten by a save;
- hub: no panic, no lost or duplicated event in a stream, no leak of groups, an
  honest "complete", streams that end on Close;
- notification: a client is never idle on an old release, nothing is announced
  that is not committed, clients converge;
- shutdown: it ends, whatever the handlers wait for;
- transactions: all of one or nothing, and nobody waits for the connection for ever;
- applications: the token stored last is the one that works, no stored token that nobody
  was told but for a request that failed, no replaced token accepted later;
- console: a save replaces only the draft that was on the screen, and a console left
  alone comes to show what the server has;
- items: a diff that does not depend on map order, is complete, shows no
  sensitive text and agrees with the checksum in one direction.

## Modules

`ConfigHistory` is what the store promises: a draft with a revision that counts its
changes and a log of releases that only grows and whose neighbours differ. It
has no requests and no versions to compare.

`Releases` is the services over the tables. A request `p` is a small program: `pc[p]`
is the next query of its service method, `call[p]` its parameters, `seen[p]` what it
has read. Each action is one query or one transaction together with every check
the Go code makes before the next one, including the error returns. `reply[p]` is
the last answer the caller of `p` was given and survives a crash, as callers do.

| Action | Code |
| --- | --- |
| `Arrive` | a handler has decoded its body |
| `DraftResolve`, `ReadRevision`, `ReadDraft` | `Configurations.Draft`, the two queries of `GetDraft` |
| `SaveResolve`, `SaveDraft` | `Configurations.SaveDraft` and its transaction |
| `PublishResolve`, `PublishReadDraft`, `ReadCurrent` | the reads and checks of `Releases.Publish` |
| `RollbackResolve`, `RollbackReadTarget`, `ReadCurrent` | those of `Releases.Rollback` |
| `WriteRelease` | the transaction of `SQLite.WriteRelease`: unique index, guarded update, draft, audit |
| `Broadcast` | `Hub.Publish` and the answer (what the hub does with it is in `Notification`) |
| `Fail` | every return that changes nothing: validation, an unknown environment, a cancelled context, a failing statement |
| `Crash` | the process dies; the file survives |

An item list is a value of the set `Items`, and `Digest[i]` stands for both the content
and the checksum `CanonicalJSON` computes; two lists may have one digest (they
differ in a description). `Unencodable` are lists that validate but cannot be
encoded (a number such as NaN). `resolve` reads the application and its
environment in two queries. The first result is an id that never changes and a
status that no code path sets to anything but `active`, so they are one step.

`Transactions` EXTENDS `Releases` and takes its two transactions apart: one step for each
statement, on the one connection (`conn`). `work` is the database as the open
transaction sees it; the variables of `Releases` are what is committed. A statement
may fail and the request may be cancelled between any two of them (`Cancel`), and the
process may die (`CrashTx`). The services are the actions of `Releases`, which also wait for the
connection. `Image` says what the statements so far have made of the tables, and
`GuardsHold` that what the WHERE clauses compared is still so; they are what it takes to show that
`Releases` is right to treat each transaction as one step.

`Applications` is the service of that name, and `Authenticate` in front of a client's fetch, in
the style of `Releases`. A token is a number, generated once; what is stored is its
hash. `issued`, `told` and `lost` are history: which tokens were stored, which were handed to a
caller, which were lost with their request. No code changes the status of an
application or deletes a row, so a row is its token's hash.

`EventLog` is what the hub promises to a stream: a numbered log, a position in it, and
the next event of the reader's key each time. `Hub` is the code: the map `groups`, the
bounded `history`, and for every subscription its channel (a bounded buffer that is
open, closed, or has panicked), the rest of its replay and what Subscribe answered.
`log` and `pos` are history variables; no guard of the code's actions reads them.
The channel is closed where the code closes it, and a second close is the state
`panic`, which the properties exclude. The 15 lines of Go that drop slow subscribers
are inside `Publish`, as they are inside its critical section. `After` is the loop of
`replayLocked` over the history.

`Notification` composes an instance of `Hub` with the database's newest version of each
key, the requests that have committed and not yet broadcast, the subscribe handler
of each client step by step, the client and the process. The client is external.
It does what README.md lines 29 to 37 ask: fetch, subscribe, fetch again after
each message, and reconnect with the last id it saw. `synced` is what it would run if
it ignored "ready"; `told` is the newest version any message named. `process` follows `run` of
`main.go` from `up` through `closing` (the hub is closed, connections are still accepted) and
`draining` (`server.Shutdown` waits for the requests in flight, or its deadline) to `down`. A
handler that writes to a client that does not read is `blocked`, be it in the write of "ready", "resync",
an event or a heartbeat; then it sees neither its channel nor the end of the request.

`Console` is one browser tab. `jobs` are its requests: what was asked for, whether the server has
answered, and the function that waits for it. A request is one step of the server
here. Its inner steps are in `Releases`, where `EditorSawDraft` is the reason why the
answer of a draft's two reads may be taken as one. `draft` and `tabs` are the numbers in
`state` that the next request will send, `rows` says of which draft the rows on the screen are a
copy: the content of a draft is named by the environment and revision that wrote it. Until the first
draft is drawn there are none. `timers` counts the intervals that run, of which `state.stream` knows at
most one; `overlap` remembers that an environment was selected while the refresh of an earlier
selection was still under way, the only way to forget one. `got` and `ok` of a request are its answer.

Each application has environments of its own (`Envs`), maybe none. `buttons` are the codes of the
last list that was drawn, and only they can be selected. While a list is on its way they are those
of the application before, and a list that comes late is that of an application no longer selected; so
the page may select an environment that does not exist (`Path \notin Environments`), and all its requests are
answered 404. An empty list hides the toolbar (`Visible`), but leaves what was selected, and polled, as it was.

`ConfigItems` is `domain.Compare` as the loop it is, over two maps in any order, next to
the content that `CanonicalJSON` encodes. A value is a pair of type and text; `Typed` is
what JSON makes of it, so that two spellings of a JSON object are one. `released` says whether the environment
has a release; before the first one `DiffDraft` compares with no items, and Publish with nothing, so an
empty draft has no diff and is published all the same. `sort.Slice` is not stable, so
`SortItems` is the set of all arrangements in key order and `Sort` picks one. That there is
only one is a property of the lists (`OneDiffForTwoLists` below), not of the sort.

`MCReleases`, `MCTransactions`, `MCApplications`, `MCNotification`, `MCConfigItems` and
`MCConsole` give the constants values for TLC. `ReleasesProofs`, `TransactionsProofs`,
`ApplicationsProofs`, `HubProofs`, `HubStreams`, `NotificationProofs`, `ConfigItemsProofs` and
`ConsoleProofs` hold the theorems.

Definitions marked `Mutation` are plausible bugs in the definition that follows them.
No specification uses them: `PROJECT.json` says which property each one breaks, which
shows that the property can tell the code from a wrong one.

## Runs

| Run | Instance | Shows |
| --- | --- | --- |
| `Releases` | 2 requests, 1 environment, 2 lists, 3 versions, 1 save revision; 530 000 states | the safety of concurrent publishing, rolling back, saving and reading, and that the tables implement `ConfigHistory` |
| `ReleasesLong` | 1 request, 4 lists (one reworded, one unencodable), 4 versions, 3 revisions; 70 000 states | the same code over longer histories: rollbacks of rollbacks, audit rows, types |
| `Transactions` | 2 requests, 1 environment, 2 lists, 3 versions, 2 revisions, a workload each, fairness; 120 000 states | the transactions implement `Releases`, see what they should, and every request ends |
| `Applications` | 2 applications, 1 environment code, 2 requests, 3 tokens; 790 000 states | which tokens are stored, told and accepted; which environments are listed |
| `Hub` | 2 keys, 2 subscriptions, history 2, channel 1, 4 events, fairness; 200 000 states | streams, panics, leaks, trimming, that the hub implements `EventLog`, and that Close ends every stream |
| `Notification` | 1 client, 3 versions, history 1, channel 1, 2 restarts, fairness; 180 000 states | the client follows; nothing is announced before it is committed; convergence; shutdown ends |
| `NotificationReady` | violated on purpose | see findings |
| `NotificationRestart` | violated on purpose | see findings |
| `ConfigItems` | 2 keys, 3 values, 2 descriptions; all 28 561 pairs of lists, with and without a release; 357 000 states | `Compare` against what a diff must say |
| `ConfigItemsDiff` | violated on purpose | see findings |
| `Console` | an application with 2 environments and one without any, 2 requests in flight, 1 forgotten timer, fairness; 620 000 states | when a save keeps its base; what is selected is polled, by one timer; a console left alone converges |
| `ConsoleSwitch` | violated on purpose | see findings |

Why the bounds are enough to be interesting. Two requests suffice for every race
of Publish and Rollback, which involve one reader and one writer at a time; three
versions let a rollback to version 1 race with a publish. `MaxRevision = 1`
bounds only which revision a *save* may start from; rollbacks raise the revision
further. A third request would only add a second overtaking writer, and the
theorems below hold for any number. In `Transactions` each request has a
workload (`Asks`): one publishes, rolls back and saves, the other saves, reads and publishes
(see `MCTransactions`), so that transactions of different kinds meet on the connection; the
theorems hold for any workload. In `Applications` three tokens are a creation and two resets that race. In `Hub` four events against a history of two
and a channel of one make eviction, trimming, dropping and replays after each of
them happen, with a second key whose events must be skipped. In `Notification` a
history of one event makes nearly every reconnection a matter of eviction. The
instances use the capacity 1 for the 16 of the code; nothing depends on it but
`Full`. In `Console` the bounds on revisions and versions are functions of the environment: one is busy, with
three revisions and three versions, and the other stays as it is, which is enough for answers of the one to
be drawn over the other, for saves that are refused, and for their revisions to be equal by
accident. `ConsoleSwitch` lets the second one be saved once, and has no application without environments. Two requests in flight are an old answer and the one that
overtakes it. `MaxLeaked` stops the user from selecting after a timer was forgotten; one that runs
on for ever is the interesting case, a second one does the same. Symmetry is used
for the requests of `Releases` and `Applications`, in runs without liveness.

Deadlock checking is on where requests can always arrive or subscribers always
subscribe, and off where the bounded versions run out (`Notification`) and where a
computation ends (`ConfigItems`).

## Fairness

`Hub!FairSpec`: a handler that can take from its stream eventually does, and one whose
range loop sees a closed channel returns. Both are a goroutine that stays runnable,
which the Go scheduler does run. A handler blocked in a write to a client that
does not read is outside this assumption; it is a step of its own in `Notification`.

`Notification!FairSpec`: requests that have committed reach the hub, handlers make progress, and
a client that was told to fetch does. What a handler writes is strongly fair (`Write`): heartbeats may block and
return any number of times, but `select` picks any of the cases that are ready, so an event is not passed
over for ever. `run` goes on from the hub's Close to Shutdown, and Shutdown ends at its
deadline at the latest. Commits, blocked writes, hang-ups, signals, crashes and starts are not
fair: `ClientsConverge` is about behaviours in which they stop mattering, and says so in
its disjuncts (a client that hangs up for ever or never reads again, a process that stays down).
`ShutdownEnds` needs no such escape: it holds although blocked writes may never return.

`Transactions!TxFairSpec`: strong fairness of each request's next step. The step waits for the
connection, which others take and give back, so it is not continuously enabled; but `database/sql` hands a
connection that is returned to one of the requests that wait for it, picked at random, so
none waits for ever. Failures and crashes are not fair.

`Console!FairSpec`: the server answers or the request is lost, answers are handled, and an interval
that runs keeps firing. Nothing is assumed of the user, of others, or of lost requests. `Converges` says that
polling brings the page up to date, so its other disjuncts are the ways in which nobody could: the user goes on
to select, save or publish, requests are lost for ever, or what is selected does not exist. To refresh, by the
timer or the button, is not among the actions of `User`: otherwise polling itself would be an excuse for not
converging. Neither is an answer that arrived and was not drawn: `Lose` of a refresh is a step before
its answer.

## Findings

1. `NotificationReady` (`subscription.go:22`): the handler reads the release before it
   subscribes. A release published in between is in neither "ready" nor an event, so
   the console's "notifies all subscribed clients" (`app.js:216`) fails for that client.
   Clients that fetch after "ready" are current all the same (`FollowerCurrent`).
2. `NotificationRestart` (`hub.go:84`): an event id of an earlier process is answered as
   complete by the empty history of the next one, so neither a replay nor a "resync"
   follows, against README.md line 37. Within one process the promise holds
   (`ResumeSyncsInOneProcess`).
3. `ConfigItemsDiff` (`releases.go:54`): a draft that differs in a sensitive flag, or in the
   spelling of a JSON value, is shown as modified by the diff and refused by Publish with "draft
   has no published changes". The other direction holds (`NoDiffNothingToPublish`),
   but for the empty draft of an environment that has no release yet, which has no diff and is published.
4. `ConsoleSwitch` (`app.js:155`): selecting an environment changes where the save button
   sends the draft at once, but the rows and the revision it sends only when the refresh has succeeded. If the
   two environments are at the same revision, the rows of one replace the draft of the other; the
   server cannot know. In TLC's behaviour the list has come and its first environment is drawn; the button of
   the other one and the save button are clicked before the refresh comes. `SavesKeepTheirBase` says when the console is safe: the last answer drawn was
   of the selected environment, and no save was in flight when it was drawn. The second
   condition is needed as well. A refresh that read the draft before a save and is drawn during it
   leaves the old rows under the revision that the save's answer then sets, and the next
   save is accepted and takes the first one back. (Without the second conjunct of `calm` in
   `RefreshLands` TLC finds that behaviour.)

## Proofs

Every invariant and every action or refinement property that a passing run checks is also stated by a theorem,
for every value of the constants that the assumption of its module allows. The runs check
them on small instances first, and the mutants show that they can fail.

### Releases and transactions

`ReleasesProofs` has three parts. The first proves about `Spec` of `Releases`, for any environments, requests, lists, digests
and bounds, from `ConstantsAssumption` alone (there is an environment, the empty list is a
list, every list has a digest, the bounds are naturals):

- `TypeCorrect`: `[]TypeOK`;
- `GaplessVersions`, `NeighboursAreDifferent`, `RollbacksAreFaithful`: the rows of `releases`
  are as they should be;
- `SnapshotsAreSound`: what a request in flight has read;
- `LostRacesConflict`: the comparison behind the guarded update of `current_version`
  never refuses, because the unique index has refused before;
- `RowsAreImmutable`: the action property `ReleasesImmutable`.

The argument. None of the three row properties is inductive: that neighbours
differ depends on what requests have read. `ReleaseInv` adds `SnapshotSound`, which says of
a request that the version it read is the one expected by its caller and not
beyond the current one; that, if it is still the current one when the request is about to write,
the content differs from the newest row; and that a rollback holds a copy of a row
that exists. A stale request has a version below the current one, so by
`VersionsGapless` the row it would insert exists already and the unique index refuses it;
a request that is not stale has compared with the very row that becomes its
neighbour. There is a lemma for each group of actions that leaves the rows alone
(`ReadStep`, `AnswerStep`, `RefuseStep`), one for each action that changes them
(`WriteReleaseStep`, `SaveDraftStep`) and `ReleaseInvStep` puts them together.

The second part goes on to what callers were told, from an invariant that adds three parts
to `ReleaseInv`:

- `EditorsSawTheDraft`, `SaversDoNotShare`: `EditorSawDraft` and `OneSaverPerRevision`, by `DraftInv`. No step takes a
  revision back or changes items without raising it (`DraftMoves`), so what an editor was told
  ages but never becomes wrong. The one fact to add is that a revision which has been read
  and not yet returned is no newer than the draft (`ReadRevisionIsOld`);
- `AnswersAreOwned`: `AckedRelease`, by `OwnerInv`. A request owns its version from the commit, not from
  the answer; a commit takes a version that has no row, and every owned one has;
- `AuditsAreComplete`: `AuditComplete`, from `WritesNext`: a written version is the next one.

The third part proves `ReleasesImplementHistory`, that `Spec` implements `ConfigHistory`. A saved draft is
an edit; a written release appends to the log (`InsertAppends`), with content that differs from
the last entry because of what `SnapshotSound` says of the request (`WriteChanges`), and with the
content of an older entry if it is a rollback; every other step stutters.

`TransactionsProofs` proves about `TxSpec` of `Transactions`, from `ConstantsAssumption` and `FreeAssumption`
(the free connection is no request):

- `TransactionsIsolated`: `[]Isolated`;
- `TransactionsAreAtomic`: `TxSpec` implements `Spec` of `Releases`;
- `TablesStaySound`: hence `VersionsGapless`, `NeighboursDiffer`, `AckedRelease` and `AuditComplete` hold of the
  tables also when the transactions are interrupted anywhere.

`Isolated` says that the open transaction sees the committed tables with its own statements
applied. To be inductive it needs the types and that only a save, a publish or a rollback
comes to a transaction (`Writers`). Each statement extends `Image` by its own effect, one lemma each; a
step of another request touches neither the tables nor the holder (`FrameIsolated`), because every
query needs the connection. At the end `Image` is exactly what `SaveDraft` or `WriteRelease` write, and
`GuardsHold` that they would have accepted (`CommitSaves`, `CommitReleases`); an aborted transaction is
the refusal of the same action; every other statement stutters.

### Applications

`ApplicationsProofs` proves about `Spec` of `Applications`, from its `ConstantsAssumption`, for any
applications, environment codes, requests and number of tokens:

- `TypeCorrect`: `[]TypeOK`;
- `TokensAreAccounted`: `[]TokensAccounted`;
- `DeadTokensDoNotPass`, `ListsStayCurrent`: `[]NoDeadTokenPasses` and `[]ListsAreCurrent`, what a client that reads in
  several queries may rely on.

`TokensAccounted` alone is not inductive: it speaks of the tokens whose request still runs, so `AppInv`
adds that the table holds the hash of the token stored last (`LastTokenStored`), that a request has a
token exactly from its write to its end (`OwnsToken`), and that it writes only to an
application it has found (`KnowsApplication`). The two reading properties need that tokens and
environments are only added after a request arrived (`ArrivedEarlier`). The actions are many
but do three things: a step of a request reads and goes on, stores, or ends (`Kinds`), and there
is one lemma for each, one for an arrival and one for a crash.

### The hub

`HubProofs` proves about `Spec` of `Hub`, from `HubAssumption`, for any keys, subscriptions, sizes and
number of events:

- `HubDoesNotPanic`, `RegisteredAreOpen`: `[]NoPanic` and `[]RegisteredIffOpen`. Each needs the other: a channel is
  closed by whoever finds its subscriber in a group, and that is safe because the subscribers in the
  groups are those with an open channel;
- `GroupsAreReclaimed`: `[]GroupsReclaimed`, by the same invariant;
- `HistoryIsWindow`: `[]HistoryWindow`. The history is a suffix of the log; an event is appended to both,
  and cutting a suffix at the front leaves a suffix (`AppendKeepsSuffix`, `TrimKeepsNewest`).

`HubInv` is the conjunction of these, of `HubTyped` (what of `TypeOK` does not depend on a replay) and of
`ClosedIsEmpty`, without which a subscriber might be registered in a hub that is closed.

`HubStreams` goes on to what subscribers receive, from the same assumption. Its last conjunct says that the
value `NoKey`, for a stream that is off, is not also a stream.

- `HubTypeCorrect`: `[]TypeOK`;
- `StreamsAreExact`: `[]StreamExact`, no event of a stream lost, repeated or out of order;
- `HubImplementsEventLog`: `Spec` implements `EventLog`.

What a subscriber is owed is `After(log, key, pos)`, computed by a loop over the log, so these theorems rest
on lemmas about that loop: what it returns grows with the sequence (`AfterAppend`), has exactly
the events of the key above the position (`AfterElements`), does not change when events at or below
the position are cut off in front (`AfterSuffix`), and after its head comes what it returns
from there on (`AfterNext`). They are by induction over the sequence. The library's induction rules have
an operator as a parameter and cannot be used, so `SetInduction` and `AppendInduction` are about a *set* of
numbers or sequences, and follow from the well-foundedness of the naturals. With them, `ReplayIsOwed`
says that a replay answered as complete is what the whole log still owes, although
the history has only its end. `StreamInv` adds to `HubInv` the other types (`StreamTyped`), that nobody has
read beyond the log (`ReadFromLog`), and `StreamExact`: replay and buffer together are a
beginning of what is owed, and all of it while the channel is open.

### Subscriptions

`NotificationProofs` proves about `Spec` of `Notification`, from `NotificationAssumption` (the hub's
assumption, a key for each client, a bound on restarts), for any number of clients, keys and
restarts:

- `NotificationTypeCorrect`: `[]TypeOK`;
- `IdleClientsAreCurrent`: `[]FollowerCurrent`;
- `FetchedAsTold`: `[]FetchedWhatWasTold`;
- `ResumedClientsAreSynced`: `[]ResumeSyncsInOneProcess`.

The hub's steps are those of an instance of `HubStreams` (`SameHub`), so that its lemmas apply. `StreamExact`
does not hold here: after a restart a client may resume at a position that the new log has not
reached. What is used of the hub is what each step does to the *set* of events a
stream still brings (`PublishEffect`, `SubscribeEffect`, ... at the end of `HubStreams`), and that holds
for any position. `NotificationInv` has these parts:

- `Announced`: what is in a log or on its way to it is committed, and while the first process is
  up each committed version is one or the other. Commit and broadcast are two steps, and
  this is what holds between them;
- `ToldCommitted`: no client was told more than is committed, and one that has nothing to fetch has
  what it was told. It gives `FetchedWhatWasTold`;
- `NewestPending`: a client with an open stream that has fetched after "ready" and is behind is
  about to be told, by an event in its stream or one not yet published. It gives `FollowerCurrent`,
  and needs `UnreadPublished` (a stream brings events of its own key) and `HeldIffServed` (the subscription
  lives from Subscribe to the end of the handler);
- `SeenSynced`, `MissedPending`: in one process, a client that names its last event id has
  fetched all that was published up to there, and what it has missed is in its stream, or
  it must fetch, or "resync" comes. They give `ResumeSyncsInOneProcess`;
- `ClosedByRun`, `FetchedFirst` and the types: without them a client could be connected to a process
  that is down, or be told before it is "ready".

### Configuration items

`ConfigItemsProofs` proves about `Spec` of `ConfigItems`, from `KeyAssumption` (keys are ordered, as
numbers), for lists of any length:

- `ItemsTypeCorrect`: `[]TypeOK`, which the run leaves to this theorem;
- `DiffsAreOrdered`, `DiffsRebuild`, `SensitiveTextsAreHidden`, `NoDiffIsRefused`: the invariants `DiffOrdered`, `DiffRebuilds`, `SensitiveMasked` and `NoDiffNothingToPublish`;
- `OneDiffForTwoLists`: two sorted parts of a diff with the same keys of the same list are equal, so the
  order in which the maps were visited cannot be seen;
- `SortAlwaysEnds`: any entries can be arranged in key order. A model that picks from `SortItems` would
  otherwise satisfy every property of finished diffs by never finishing.

`ItemsInv` says of the two loops, between any two iterations, that each part lists exactly the keys
visited so far that belong in it, once each, masked (`PartsExact`). `ListsAppend` is one iteration; sorting
keeps it (`ListsSort`); and the number of entries is the number of keys (`ListsCount`), which is what
the counts in `DiffOrdered` need. `SortAlwaysEnds` is by induction on the length: the last entry is inserted
before the least position whose key is greater (`InsertLast`).

### Console

`ConsoleProofs` proves about `Spec` of `Console`, from its `ConstantsAssumption`, for any applications,
environments, requests in flight, and forgotten timers:

- `ConsoleTypeCorrect`: `[]TypeOK`, which the run leaves to this theorem;
- `CalmSavesKeepTheirBase`: `[]SavesKeepTheirBase`;
- `SelectedIsPolled`: `[]PolledByOneTimer`.

The types already need more than themselves: a timer that `state.stream` holds runs (`TimerKnown`), an
environment is one of a selected application (`AppSelected`), an answer that has arrived has the
shape of its request (`JobsAnswered`). `CalmAgrees` says that the rows of a calm console are those of the draft
it would send, *and* that all saves in flight were sent with these rows to this environment. The
second half is what keeps the first when a save is answered and sets `draft`: the rows are then what
that save has written. It is also the reason for the second condition of finding 4. Nothing is
needed of the server, not even that its revisions grow.

For `SelectedIsPolled`, `TimerInv` says that an environment which is selected has the timer that
`state.stream` holds or a refresh that will start it, and of a page without `overlap` also that it has not both, that
there is one such refresh at most and no other timer. The steps that touch neither the selection nor its refresh keep it (`TimersFrame`, `StartOther`).

### Only model-checked

The five liveness properties (`StreamsEndAfterClose`, `ClientsConverge`, `ShutdownEnds`, `RequestsEnd` and
`Converges`), because the prover has no rules for fairness and none for what is enabled.

## Not modelled

Paging and formatting, the string rules of `ValidateItem`, the HTTP middleware, the
administrator token and the reading of environment variables have no state to get
wrong. SQLite's atomic commit and recovery are trusted. Heartbeats carry nothing; that their
writes may block is modelled. `Draft.CurrentVersion` (`configurations.go:30`), read in the first query of a
draft, is left out of `Releases`, where nothing depends on it; `Console` has it as `tabs`.
The wrap of `last + 1` at the largest uint64 can only turn "complete" into "resync", for an id no
hub ever gave out. Of the console, `connect`, `loadApps` and the creation of entities only load
or add lists that no request depends on; the diff dialog shows an answer and keeps
nothing; what the user types into single rows is not told apart, and neither is its loss when a
timer draws the rows again.

## Plan

What is left: in `Console` the creation of entities, `loadApps`, and the list of releases from which
the target of a rollback is chosen; in `ConfigItems` the checks of `ValidateItems`, which are one refusal
of `Releases` now. After them, what the proofs of one part say of the next: the
commits of `Notification` as those of `Releases`, where `Announced` is assumed of the order of commits.
