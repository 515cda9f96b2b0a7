------------------------------ MODULE Console -------------------------------
(***************************************************************************)
(* The web console, internal/transport/http/web/app.js: one browser tab    *)
(* with its selected environment, the draft rows on its screen, its        *)
(* requests in flight and its polling timers, against a server that others *)
(* use too.  JavaScript runs one piece of code at a time, up to the next   *)
(* await; the answers come back in any order and are written into whatever *)
(* is selected when they arrive.                                           *)
(*                                                                         *)
(* A request is one step of the server: Releases shows its inner steps,    *)
(* and EditorSawDraft why the two reads of a draft may be taken as one.    *)
(*                                                                         *)
(* The content of a draft is named by the revision that wrote it.  The     *)
(* list of releases on the screen and the diff dialog are left out: no     *)
(* request depends on them but for the target of a rollback.               *)
(***************************************************************************)
EXTENDS Naturals, FiniteSets

CONSTANTS
  App,          \* applications
  Code,         \* environment codes
  Envs,         \* Envs[a]: the codes of the environments of application a, if it has any
  First,        \* First[a]: the first of them in the order of the server's answer
  Job,          \* bound: requests the console has in flight at a time
  None,         \* nothing selected
  MaxRevision,  \* bound: the draft revisions of each environment
  MaxVersion,   \* bound: the releases of each environment
  MaxLeaked     \* bound: no selection after so many timers were forgotten

Space == App \X Code

\* The environments that exist.  A request about another one is answered 404.
Environments == {s \in Space : s[2] \in Envs[s[1]]}

ASSUME ConstantsAssumption ==
  /\ Envs \in [App -> SUBSET Code] /\ First \in [App -> Code]
  /\ \A a \in App : Envs[a] # {} => First[a] \in Envs[a]
  /\ None \notin App \cup Code
  /\ MaxRevision \in [Space -> Nat] /\ MaxVersion \in [Space -> Nat] /\ MaxLeaked \in Nat

VARIABLES
  server,  \* server[s]: draft revision and current version of environment s
  app,     \* state.app
  env,     \* state.environment.code
  buttons, \* state.environments: the codes a button was drawn for
  tabs,    \* the current_version that the object of each environment says
  draft,   \* state.draft.revision
  rows,    \* the rows on the screen: the draft they were made from
  stream,  \* state.stream holds a timer
  timers,  \* number of intervals that are running
  jobs,    \* jobs[j]: a request and the function that awaits it
  calm,    \* history: see SavesKeepTheirBase
  overlap  \* history: an environment was selected before the last one was refreshed

vars == <<server, app, env, buttons, tabs, draft, rows, stream, timers, jobs, calm, overlap>>
page == <<app, env, buttons, tabs, draft, rows, stream, timers, calm, overlap>>

\* What the server knows of an environment, and answers of it.
State == [revision: Nat, version: Nat]

Rows == [space: Space \cup {None}, revision: Nat, sent: SUBSET Job]

\* A request: what was asked for, whether it was answered, and the answer.
NoJob == [kind |-> "none"]
Step == {"sent", "answered"}
List == [kind: {"list"}, step: Step, app: App, got: {None} \cup [Code -> Nat]]
Reload == [kind: {"refresh"}, step: Step, space: Space, open: BOOLEAN, got: {None} \cup State]
Saving == [kind: {"save"}, step: Step, space: Space, revision: Nat,
           base: (Space \cup {None}) \X Nat, calm: BOOLEAN, ok: BOOLEAN]
Acting == [kind: {"act"}, step: Step, space: Space, version: Nat, ok: BOOLEAN]

TypeOK ==
  /\ server \in [Space -> State]
  /\ app \in App \cup {None} /\ env \in Code \cup {None}
  /\ buttons \subseteq Code /\ tabs \in [Code -> Nat]
  /\ draft \in Nat \cup {None} /\ rows \in Rows
  /\ stream \in BOOLEAN /\ timers \in Nat /\ calm \in BOOLEAN /\ overlap \in BOOLEAN
  /\ jobs \in [Job -> {NoJob} \cup List \cup Reload \cup Saving \cup Acting]

Free(j) == jobs[j] = NoJob
At(j, kind, step) == ~Free(j) /\ jobs[j].kind = kind /\ jobs[j].step = step
Start(j, job) == jobs' = [jobs EXCEPT ![j] = job]
Finish(j) == Start(j, NoJob)

\* spacePath: the environment the next request is about.
Path == <<app, env>>
Selected == app # None /\ env # None

\* Every environment has a saved draft and two releases; nothing is selected.
Init ==
  /\ server = [s \in Space |-> [revision |-> 1, version |-> 2]]
  /\ app = None /\ env = None
  /\ buttons = {} /\ tabs = [c \in Code |-> 0]
  /\ draft = None
  /\ rows = [space |-> None, revision |-> 0, sent |-> {}]
  /\ stream = FALSE /\ timers = 0
  /\ jobs = [j \in Job |-> NoJob]
  /\ calm = FALSE /\ overlap = FALSE

-----------------------------------------------------------------------------
(* Selecting.                                                              *)

\* Mutation: the timer is only forgotten, not cleared.
ForgetStream == stream' = FALSE /\ timers' = timers

\* closeStream clears the timer it knows.
CloseStream ==
  /\ stream' = FALSE
  /\ timers' = IF stream THEN timers - 1 ELSE timers

\* Timers that run and that closeStream can clear no more.
Leaked == IF stream THEN timers - 1 ELSE timers

\* openStream: a timer that state.stream held before is forgotten and runs on.
OpenStream == stream' = TRUE /\ timers' = timers + 1

\* A request that has no answer yet; got or ok will be the answer.
RefreshOf(s, open) ==
  [kind |-> "refresh", step |-> "sent", space |-> s, open |-> open, got |-> None]

\* The refresh of a selection, which will start a timer.
Opening(j) == ~Free(j) /\ jobs[j].kind = "refresh" /\ jobs[j].open

\* selectEnvironment up to its await.
SelectAnd(j, code) ==
  /\ CloseStream
  /\ env' = code
  /\ calm' = FALSE
  /\ overlap' = (overlap \/ \E i \in Job : Opening(i))
  /\ Start(j, RefreshOf(<<app, code>>, TRUE))

\* The button of an environment, which may be one of the application before.
Select(j, code) ==
  /\ Free(j) /\ code \in buttons
  /\ SelectAnd(j, code)
  /\ UNCHANGED <<server, app, buttons, tabs, draft, rows>>

\* selectApp up to its await: no environment is selected until the list comes, but
\* the buttons stay.
SelectApp(j, a) ==
  /\ Free(j)
  /\ CloseStream
  /\ app' = a /\ env' = None /\ draft' = None
  /\ calm' = FALSE
  /\ Start(j, [kind |-> "list", step |-> "sent", app |-> a, got |-> None])
  /\ UNCHANGED <<server, buttons, tabs, rows, overlap>>

ServeList(j) ==
  /\ At(j, "list", "sent")
  /\ Start(j, [jobs[j] EXCEPT !.step = "answered",
               !.got = [c \in Code |-> server[<<jobs[j].app, c>>].version]])
  /\ UNCHANGED <<server, page>>

\* The list of the application asked for, which may be selected no more.
ListLands(j) ==
  LET listed == jobs[j].app IN
  /\ At(j, "list", "answered") /\ Envs[listed] # {}
  /\ buttons' = Envs[listed]
  /\ tabs' = jobs[j].got
  /\ SelectAnd(j, First[listed])
  /\ UNCHANGED <<server, app, draft, rows>>

\* showEmpty hides the view of the environment, but leaves it selected.
EmptyListLands(j) ==
  /\ At(j, "list", "answered") /\ Envs[jobs[j].app] = {}
  /\ buttons' = {}
  /\ Finish(j)
  /\ UNCHANGED <<server, app, env, tabs, draft, rows, stream, timers, calm, overlap>>

-----------------------------------------------------------------------------
(* refreshEnvironment: of a selection, of a timer, of the button, and after a *)
(* release.                                                                *)

Refresh(j) ==
  /\ Free(j) /\ Selected
  /\ Start(j, RefreshOf(Path, FALSE))
  /\ UNCHANGED <<server, page>>

\* The toolbar with its buttons was shown by selectEnvironment.
Visible == buttons # {}

RefreshButton(j) == Visible /\ Refresh(j)

Tick(j) == timers > 0 /\ Refresh(j)

ServeRefresh(j) ==
  /\ At(j, "refresh", "sent")
  /\ Start(j, [jobs[j] EXCEPT !.step = "answered",
               !.got = IF jobs[j].space \in Environments THEN server[jobs[j].space] ELSE None])
  /\ UNCHANGED <<server, page>>

SaveInFlight == \E j \in Job : ~Free(j) /\ jobs[j].kind = "save"

\* refreshEnvironment catches its errors, so selectEnvironment goes on to openStream.
AfterRefresh(j) ==
  /\ IF jobs[j].open THEN OpenStream ELSE UNCHANGED <<stream, timers>>
  /\ Finish(j)

\* Mutation: an answer with an older revision than the one on the screen is thrown
\* away.
SucceedsIfNewer(j) ==
  jobs[j].got # None /\ (draft # None => jobs[j].got.revision >= draft)

Succeeds(j) == jobs[j].got # None

\* The answer is written to what is selected now.  With nothing selected the
\* line after state.draft throws.
RefreshLands(j) ==
  LET got == jobs[j].got IN
  /\ At(j, "refresh", "answered") /\ Succeeds(j)
  /\ draft' = got.revision
  /\ IF env = None THEN UNCHANGED <<tabs, rows, calm>>
     ELSE /\ tabs' = [tabs EXCEPT ![env] = got.version]
          /\ rows' = [space |-> jobs[j].space, revision |-> got.revision, sent |-> {}]
          /\ calm' = (jobs[j].space = Path /\ ~SaveInFlight)
  /\ AfterRefresh(j)
  /\ UNCHANGED <<server, app, env, buttons, overlap>>

\* The error is shown, and what is on the screen stays.
RefreshFails(j) ==
  /\ At(j, "refresh", "answered") /\ ~Succeeds(j)
  /\ AfterRefresh(j)
  /\ UNCHANGED <<server, app, env, buttons, tabs, draft, rows, calm, overlap>>

-----------------------------------------------------------------------------
(* saveDraft: the revision of state.draft with the rows of the screen.      *)

Save(j) ==
  /\ Free(j) /\ Visible /\ Selected /\ draft # None
  /\ draft < MaxRevision[Path]
  /\ Start(j, [kind |-> "save", step |-> "sent", space |-> Path, revision |-> draft,
               base |-> <<rows.space, rows.revision>>, calm |-> calm, ok |-> FALSE])
  /\ rows' = [rows EXCEPT !.sent = @ \cup {j}]
  /\ UNCHANGED <<server, app, env, buttons, tabs, draft, stream, timers, calm, overlap>>

ServeSave(j) ==
  LET s == jobs[j].space
      ok == s \in Environments /\ server[s].revision = jobs[j].revision
  IN
  /\ At(j, "save", "sent")
  /\ server' = IF ok THEN [server EXCEPT ![s].revision = @ + 1] ELSE server
  /\ Start(j, [jobs[j] EXCEPT !.step = "answered", !.ok = ok])
  /\ UNCHANGED page

\* Mutation: a refused save takes over the revision it was refused for.
RetryWithCurrent(j) ==
  IF jobs[j].ok THEN jobs[j].revision + 1 ELSE server[jobs[j].space].revision

\* state.draft is the answer, or stays if there was an error.
DraftAfterSave(j) == IF jobs[j].ok THEN jobs[j].revision + 1 ELSE draft

\* The rows are not drawn again: they are what was saved, if they still are the
\* rows that were sent.
SaveLands(j) ==
  /\ At(j, "save", "answered")
  /\ draft' = DraftAfterSave(j)
  /\ rows' = IF jobs[j].ok /\ j \in rows.sent
             THEN [space |-> jobs[j].space, revision |-> jobs[j].revision + 1,
                   sent |-> rows.sent \ {j}]
             ELSE [rows EXCEPT !.sent = @ \ {j}]
  /\ Finish(j)
  /\ UNCHANGED <<server, app, env, buttons, tabs, stream, timers, calm, overlap>>

-----------------------------------------------------------------------------
(* submitAction: publish, or roll back, what the server has.  The dialog may  *)
(* be older than what is selected and shown when it is submitted.            *)

Act(j) ==
  /\ Free(j) /\ Selected
  /\ tabs[env] < MaxVersion[Path]
  /\ Start(j, [kind |-> "act", step |-> "sent", space |-> Path, version |-> tabs[env],
               ok |-> FALSE])
  /\ UNCHANGED <<server, page>>

\* A publish adds a version; a rollback replaces the draft too.
Released(s) == {[server[s] EXCEPT !.version = @ + 1]} \cup
  (IF server[s].revision < MaxRevision[s]
   THEN {[revision |-> server[s].revision + 1, version |-> server[s].version + 1]} ELSE {})

ServeAct(j) ==
  LET s == jobs[j].space
      ok == s \in Environments /\ server[s].version = jobs[j].version
  IN
  /\ At(j, "act", "sent")
  /\ IF ok THEN \E new \in Released(s) : server' = [server EXCEPT ![s] = new]
           ELSE UNCHANGED server
  /\ Start(j, [jobs[j] EXCEPT !.step = "answered", !.ok = ok])
  /\ UNCHANGED page

ActLands(j) ==
  /\ At(j, "act", "answered")
  /\ IF jobs[j].ok /\ Selected THEN Start(j, RefreshOf(Path, FALSE)) ELSE Finish(j)
  /\ UNCHANGED <<server, page>>

-----------------------------------------------------------------------------
\* A request or its answer is lost, or the server answers with an error.  A list or a
\* refresh whose answer is lost might as well not have reached the server.
Lose(j) ==
  /\ ~Free(j)
  /\ jobs[j].step = "answered" => jobs[j].kind \in {"save", "act"}
  /\ IF jobs[j].kind = "refresh" THEN AfterRefresh(j)
     ELSE Finish(j) /\ UNCHANGED <<stream, timers>>
  /\ rows' = [rows EXCEPT !.sent = @ \ {j}]
  /\ UNCHANGED <<server, app, env, buttons, tabs, draft, calm, overlap>>

\* Another user saves, publishes or rolls back.
Others(s) ==
  /\ s \in Environments
  /\ \/ /\ server[s].revision < MaxRevision[s]
        /\ server' = [server EXCEPT ![s].revision = @ + 1]
     \/ /\ server[s].version < MaxVersion[s]
        /\ \E new \in Released(s) : server' = [server EXCEPT ![s] = new]
  /\ UNCHANGED <<page, jobs>>

\* What the user asks for, except to refresh.
User(j) ==
  \/ /\ Leaked < MaxLeaked
     /\ \/ \E code \in Code : Select(j, code)
        \/ \E a \in App : SelectApp(j, a)
  \/ Save(j) \/ Act(j)

Serve(j) == ServeList(j) \/ ServeRefresh(j) \/ ServeSave(j) \/ ServeAct(j)
Lands(j) ==
  \/ ListLands(j) \/ EmptyListLands(j) \/ RefreshLands(j) \/ RefreshFails(j)
  \/ SaveLands(j) \/ ActLands(j)

Next ==
  \/ \E j \in Job : User(j) \/ RefreshButton(j) \/ Tick(j) \/ Serve(j) \/ Lands(j) \/ Lose(j)
  \/ \E s \in Space : Others(s)

Spec == Init /\ [][Next]_vars

\* The browser's event loop and the server go on; intervals keep firing.
FairSpec ==
  /\ Spec
  /\ \A j \in Job : WF_vars(Serve(j)) /\ WF_vars(Lands(j))
  /\ WF_vars(\E j \in Job : Tick(j))

-----------------------------------------------------------------------------
(* Properties.                                                             *)

Accepted(j) == ~Free(j) /\ At(j, "save", "answered") /\ jobs[j].ok

Based(j) == jobs[j].base = <<jobs[j].space, jobs[j].revision>>

\* A save that the server accepts changes only the rows that were on the screen:
\* they were made from the very draft it replaces, whatever others saved and
\* rolled back meanwhile.  So it is for a calm console, whose last drawn answer
\* was of the selected environment and was drawn while no save was in flight;
\* those are the only two ways to lose the agreement of rows and revision.
SavesKeepTheirBase == \A j \in Job : Accepted(j) /\ jobs[j].calm => Based(j)

\* The toolbar names one environment next to the button that saves its draft:
\* the rows it saves were made from that environment's draft.
SavesOwnRows == \A j \in Job : Accepted(j) => jobs[j].base[1] = jobs[j].space

\* A selected environment is polled, or will be after its first refresh, whether that
\* succeeds or not; and no timer is forgotten that goes on polling, unless another
\* environment was selected before the first refresh of the last one was over.
PolledByOneTimer ==
  /\ env # None => stream \/ \E j \in Job : Opening(j)
  /\ ~overlap => Leaked = 0

UpToDate ==
  /\ Path \in Environments
  /\ draft = server[Path].revision
  /\ tabs[env] = server[Path].version
  /\ rows.space = Path /\ rows.revision = draft

\* Under FairSpec: a console that is left alone with an environment that exists comes
\* to show its newest draft and version and stays so, whatever was in flight when it
\* was left: an old answer, or one of another environment, is drawn over by polling.
Converges ==
  \/ []<><<\E j \in Job : User(j)>>_vars
  \/ []<><<\E j \in Job : Lose(j)>>_vars
  \/ <>[](Path \notin Environments)
  \/ <>[]UpToDate
=============================================================================
