--------------------------- MODULE ConsoleProofs ----------------------------
(***************************************************************************)
(* Proofs about Console, for any number of applications, environments,     *)
(* requests in flight and other users: a save that is accepted replaces    *)
(* the draft that was on the screen, if the console was calm.              *)
(***************************************************************************)
EXTENDS Console, TLAPS

-----------------------------------------------------------------------------
(* The invariant.                                                          *)

IsSave(j) == ~Free(j) /\ jobs[j].kind = "save"

\* An answer that has arrived is one.
JobsAnswered ==
  \A j \in Job :
    /\ At(j, "list", "answered") => jobs[j].got \in [Code -> Nat]
    /\ At(j, "refresh", "answered") => jobs[j].got \in {None} \cup State

\* Environments are those of an application that was selected.
AppSelected ==
  /\ env # None \/ buttons # {} => app # None
  /\ \A j \in Job : ~Free(j) /\ jobs[j].kind = "list" => app # None

\* The timer that state.stream holds is running.
TimerKnown == stream => timers > 0

\* The rows of a calm console are those of the revision it would send, and stay so
\* when its saves are answered, because those were sent with the same rows.
CalmAgrees ==
  calm =>
    /\ env # None /\ rows.space = Path /\ rows.revision = draft
    /\ \A j \in Job : IsSave(j) => jobs[j].space = Path /\ j \in rows.sent

\* Every save sent by a calm console is based on the draft it names.
CalmSaves == \A j \in Job : IsSave(j) /\ jobs[j].calm => Based(j)

ConsoleInv ==
  TypeOK /\ JobsAnswered /\ AppSelected /\ TimerKnown /\ CalmAgrees /\ CalmSaves

-----------------------------------------------------------------------------
(* Requests.                                                               *)

LEMMA KindsOfJobs ==
  ASSUME TypeOK, NEW j \in Job
  PROVE  /\ Free(j) \/ jobs[j] \in List \cup Reload \cup Saving \cup Acting
         /\ ~Free(j) /\ jobs[j].kind = "list" => jobs[j] \in List
         /\ ~Free(j) /\ jobs[j].kind = "refresh" => jobs[j] \in Reload
         /\ ~Free(j) /\ jobs[j].kind = "save" => jobs[j] \in Saving
         /\ ~Free(j) /\ jobs[j].kind = "act" => jobs[j] \in Acting
PROOF
  <1>1. Free(j) \/ jobs[j] \in List \cup Reload \cup Saving \cup Acting
    BY DEF TypeOK, Free
  <1>2. /\ \A r \in List : r.kind = "list"
        /\ \A r \in Reload : r.kind = "refresh"
        /\ \A r \in Saving : r.kind = "save"
        /\ \A r \in Acting : r.kind = "act"
    BY DEF List, Reload, Saving, Acting
  <1> QED BY <1>1, <1>2

LEMMA JobShapes ==
  /\ \A r \in List : r # NoJob /\ r.kind = "list"
  /\ \A r \in Reload : r # NoJob /\ r.kind = "refresh"
  /\ \A r \in Saving : r # NoJob /\ r.kind = "save"
  /\ \A r \in Acting : r # NoJob /\ r.kind = "act"
PROOF
  BY DEF List, Reload, Saving, Acting, NoJob

LEMMA RefreshTyped ==
  ASSUME NEW s \in Space, NEW open \in BOOLEAN
  PROVE  /\ RefreshOf(s, open) \in Reload
         /\ RefreshOf(s, open).step = "sent" /\ RefreshOf(s, open).kind = "refresh"
PROOF
  BY DEF RefreshOf, Reload, Step

JobKind == {NoJob} \cup List \cup Reload \cup Saving \cup Acting

\* What the invariant asks of a request by itself
JobSound(job) ==
  /\ job \in JobKind
  /\ job # NoJob /\ job.kind = "list" /\ job.step = "answered" => job.got \in [Code -> Nat]
  /\ job # NoJob /\ job.kind = "refresh" /\ job.step = "answered" =>
       job.got \in {None} \cup State
  /\ job # NoJob /\ job.kind = "save" /\ job.calm => job.base = <<job.space, job.revision>>

JobsSound == jobs \in [Job -> JobKind] /\ \A j \in Job : JobSound(jobs[j])

ListsHaveApp == \A j \in Job : ~Free(j) /\ jobs[j].kind = "list" => app # None

LEMMA JobsOfInv ==
  /\ ConsoleInv => JobsSound
  /\ JobsSound => JobsAnswered /\ CalmSaves
PROOF
  <1>1. ASSUME ConsoleInv PROVE JobsSound
    BY <1>1 DEF ConsoleInv, TypeOK, JobsAnswered, CalmSaves, JobsSound, JobSound, JobKind, At,
                Free, IsSave, Based
  <1>2. ASSUME JobsSound PROVE JobsAnswered /\ CalmSaves
    BY <1>2 DEF JobsAnswered, CalmSaves, JobsSound, JobSound, At, Free, IsSave, Based
  <1> QED BY <1>1, <1>2

\* A step that goes on with one request leaves the others sound.
LEMMA StartSound ==
  ASSUME JobsSound, NEW j \in Job, NEW job, Start(j, job), JobSound(job)
  PROVE  /\ JobsSound'
         /\ jobs'[j] = job /\ \A i \in Job : i # j => jobs'[i] = jobs[i]
PROOF
  <1>1. jobs' \in [Job -> JobKind]
    BY DEF Start, JobsSound, JobSound
  <1>2. jobs'[j] = job /\ \A i \in Job : i # j => jobs'[i] = jobs[i]
    BY DEF Start, JobsSound
  <1>3. \A i \in Job : JobSound(jobs'[i])
    BY <1>2 DEF JobsSound
  <1>4. (\A i \in Job : JobSound(jobs[i]))' <=> \A i \in Job : JobSound(jobs'[i])
    BY DEF JobSound, JobKind, NoJob, List, Reload, Saving, Acting, State, Step, Space
  <1> QED BY <1>1, <1>2, <1>3, <1>4 DEF JobsSound, JobKind, NoJob, List, Reload, Saving, Acting,
                                        State, Step, Space

\* A console that sends nothing else, or is not calm, keeps the agreement.
LEMMA CalmKept ==
  ASSUME CalmAgrees, UNCHANGED <<app, env, draft>>, calm' => calm,
         rows'.space = rows.space, rows'.revision = rows.revision,
         \A i \in Job : jobs'[i] # NoJob /\ jobs'[i].kind = "save" =>
           /\ IsSave(i) => jobs'[i].space = jobs[i].space /\ (i \in rows.sent => i \in rows'.sent)
           /\ ~IsSave(i) => jobs'[i].space = Path /\ i \in rows'.sent
  PROVE  CalmAgrees'
PROOF
  <1>1. Path' = Path
    BY DEF Path
  <1> QED BY <1>1 DEF CalmAgrees, IsSave, Free

LEMMA NotCalm == ASSUME calm' = FALSE PROVE CalmAgrees'
PROOF
  BY DEF CalmAgrees

\* The buttons of the environments are those of an application that was selected.
ButtonsSound ==
  /\ buttons \subseteq Code /\ overlap \in BOOLEAN
  /\ buttons # {} => app # None

\* The parts of the invariant together.
LEMMA InvParts ==
  ConsoleInv <=>
    /\ server \in [Space -> State]
    /\ app \in App \cup {None} /\ env \in Code \cup {None}
    /\ tabs \in [Code -> Nat] /\ draft \in Nat \cup {None} /\ rows \in Rows
    /\ stream \in BOOLEAN /\ timers \in Nat /\ calm \in BOOLEAN
    /\ JobsSound
    /\ env # None => app # None
    /\ ButtonsSound
    /\ ListsHaveApp
    /\ TimerKnown
    /\ CalmAgrees
PROOF
  BY JobsOfInv
  DEF ConsoleInv, TypeOK, AppSelected, ListsHaveApp, JobsSound, JobKind, ButtonsSound

LEMMA InvPartsNext ==
  ASSUME server' \in [Space -> State],
         app' \in App \cup {None}, env' \in Code \cup {None},
         tabs' \in [Code -> Nat], draft' \in Nat \cup {None}, rows' \in Rows,
         stream' \in BOOLEAN, timers' \in Nat, calm' \in BOOLEAN,
         JobsSound', env' # None => app' # None, ButtonsSound', ListsHaveApp', TimerKnown', CalmAgrees'
  PROVE  ConsoleInv'
PROOF
  <1>1. JobsSound' => JobsAnswered' /\ CalmSaves'
    BY JobsOfInv, PTL
  <1>2. jobs' \in [Job -> {NoJob} \cup List \cup Reload \cup Saving \cup Acting]
    BY DEF JobsSound, JobKind
  <1> QED BY <1>1, <1>2 DEF ConsoleInv, TypeOK, AppSelected, ListsHaveApp, ButtonsSound, Rows,
                            Space, State, NoJob, List, Reload, Saving, Acting, Step

\* No request becomes the request of a list without an application.
LEMMA ListsKept ==
  ASSUME ListsHaveApp, NEW j \in Job, NEW job, \A i \in Job : i # j => jobs'[i] = jobs[i],
         jobs'[j] = job, job # NoJob /\ job.kind = "list" => app' # None,
         app # None => app' # None
  PROVE  ListsHaveApp'
PROOF
  BY DEF ListsHaveApp, Free

-----------------------------------------------------------------------------
(* Selecting.                                                              *)

LEMMA TimersTyped ==
  ASSUME stream \in BOOLEAN, timers \in Nat, TimerKnown
  PROVE  /\ CloseStream => stream' \in BOOLEAN /\ timers' \in Nat /\ TimerKnown'
         /\ OpenStream => stream' \in BOOLEAN /\ timers' \in Nat /\ TimerKnown'
         /\ UNCHANGED <<stream, timers>> => stream' \in BOOLEAN /\ timers' \in Nat /\ TimerKnown'
PROOF
  <1>1. CASE stream
    <2>1. timers > 0 /\ timers - 1 \in Nat /\ timers + 1 \in Nat /\ timers + 1 > 0
      BY <1>1 DEF TimerKnown
    <2> QED BY <1>1, <2>1 DEF TimerKnown, CloseStream, OpenStream
  <1>2. CASE ~stream
    <2>1. timers + 1 \in Nat /\ timers + 1 > 0 /\ stream = FALSE
      BY <1>2
    <2>2. ASSUME CloseStream PROVE stream' \in BOOLEAN /\ timers' \in Nat /\ TimerKnown'
      BY <1>2, <2>1, <2>2 DEF TimerKnown, CloseStream
    <2>3. ASSUME OpenStream PROVE stream' \in BOOLEAN /\ timers' \in Nat /\ TimerKnown'
      BY <2>1, <2>3 DEF TimerKnown, OpenStream
    <2>4. ASSUME UNCHANGED <<stream, timers>>
          PROVE  stream' \in BOOLEAN /\ timers' \in Nat /\ TimerKnown'
      <3>1. stream' = FALSE /\ timers' = timers
        BY <2>1, <2>4
      <3> QED BY <3>1 DEF TimerKnown
    <2> QED BY <2>2, <2>3, <2>4
  <1> QED BY <1>1, <1>2

LEMMA RefreshSound ==
  ASSUME NEW s \in Space, NEW open \in BOOLEAN
  PROVE  JobSound(RefreshOf(s, open)) /\ RefreshOf(s, open).kind = "refresh"
         /\ RefreshOf(s, open) # NoJob
PROOF
  BY RefreshTyped, JobShapes DEF JobSound, JobKind

\* Both ways to select an environment
LEMMA SelectAndKeeps ==
  ASSUME ConsoleInv, NEW j \in Job, NEW code \in Code, SelectAnd(j, code), app # None,
         tabs' \in [Code -> Nat], buttons' \subseteq Code, UNCHANGED <<server, app, draft, rows>>
  PROVE  ConsoleInv'
PROOF
  <1>1. app \in App /\ <<app, code>> \in Space
    BY InvParts DEF Space
  <1> DEFINE job == RefreshOf(<<app, code>>, TRUE)
  <1>2. JobSound(job) /\ job.kind = "refresh" /\ job # NoJob
    BY <1>1, RefreshSound
  <1>3. Start(j, job) /\ CloseStream /\ env' = code /\ calm' = FALSE
    BY DEF SelectAnd
  <1> HIDE DEF job
  <1>4. JobsSound' /\ jobs'[j] = job /\ \A i \in Job : i # j => jobs'[i] = jobs[i]
    BY <1>2, <1>3, StartSound, InvParts
  <1>5. ListsHaveApp'
    BY <1>2, <1>4, ListsKept, InvParts
  <1>6. stream' \in BOOLEAN /\ timers' \in Nat /\ TimerKnown'
    BY <1>3, TimersTyped, InvParts
  <1>7. /\ server' \in [Space -> State] /\ app' \in App \cup {None} /\ env' \in Code \cup {None}
        /\ draft' \in Nat \cup {None} /\ rows' \in Rows /\ calm' \in BOOLEAN
        /\ (env' # None => app' # None)
    BY <1>1, <1>3, InvParts
  <1>8. CalmAgrees'
    BY <1>3, NotCalm
  <1>9. ButtonsSound'
    <2>1. overlap' \in BOOLEAN
      BY DEF SelectAnd
    <2> QED BY <1>1, <2>1, ConstantsAssumption DEF ButtonsSound
  <1> QED BY <1>4, <1>5, <1>6, <1>7, <1>8, <1>9, InvPartsNext

LEMMA SelectKeeps ==
  ASSUME ConsoleInv, NEW j \in Job, NEW code \in Code, Select(j, code)
  PROVE  ConsoleInv'
PROOF
  <1>1. /\ SelectAnd(j, code) /\ code \in buttons /\ UNCHANGED <<buttons, tabs>>
        /\ UNCHANGED <<server, app, draft, rows>>
    BY DEF Select
  <1>2. tabs' \in [Code -> Nat] /\ app # None /\ buttons' \subseteq Code
    BY <1>1, InvParts DEF ButtonsSound
  <1> QED BY <1>1, <1>2, SelectAndKeeps

LEMMA ListLandsKeeps ==
  ASSUME ConsoleInv, NEW j \in Job, ListLands(j)
  PROVE  ConsoleInv'
PROOF
  <1> DEFINE listed == jobs[j].app
  <1>1. /\ At(j, "list", "answered") /\ Envs[listed] # {}
        /\ buttons' = Envs[listed] /\ tabs' = jobs[j].got
        /\ SelectAnd(j, First[listed]) /\ UNCHANGED <<server, app, draft, rows>>
    BY DEF ListLands
  <1>2. tabs' \in [Code -> Nat]
    BY <1>1 DEF ConsoleInv, JobsAnswered
  <1>3. app # None
    BY <1>1 DEF ConsoleInv, AppSelected, At
  <1>4. listed \in App
    BY <1>1, KindsOfJobs DEF ConsoleInv, List, At
  <1>5. buttons' \subseteq Code /\ First[listed] \in Code
    BY <1>1, <1>4, ConstantsAssumption
  <1> HIDE DEF listed
  <1> QED BY <1>1, <1>2, <1>3, <1>5, SelectAndKeeps

\* An empty list changes nothing but the buttons.
LEMMA EmptyListLandsKeeps ==
  ASSUME ConsoleInv, NEW j \in Job, EmptyListLands(j)
  PROVE  ConsoleInv'
PROOF
  <1>1. /\ buttons' = {} /\ Start(j, NoJob)
        /\ UNCHANGED <<server, app, env, tabs, draft, rows, stream, timers, calm, overlap>>
        /\ ~IsSave(j)
    BY DEF EmptyListLands, Finish, At, IsSave
  <1>2. JobSound(NoJob)
    BY DEF JobSound, JobKind
  <1>3. JobsSound' /\ jobs'[j] = NoJob /\ \A i \in Job : i # j => jobs'[i] = jobs[i]
    BY <1>1, <1>2, StartSound, InvParts
  <1>4. ListsHaveApp'
    BY <1>1, <1>3, ListsKept, InvParts
  <1>5. CalmAgrees'
    <2>1. ASSUME NEW i \in Job, jobs'[i] # NoJob /\ jobs'[i].kind = "save"
          PROVE  IsSave(i) /\ jobs'[i].space = jobs[i].space
      BY <1>3, <2>1 DEF IsSave, Free
    <2> QED BY <1>1, <2>1, CalmKept, InvParts
  <1>6. TimerKnown' /\ ButtonsSound'
    BY <1>1, InvParts DEF TimerKnown, ButtonsSound
  <1> QED BY <1>1, <1>3, <1>4, <1>5, <1>6, InvParts, InvPartsNext

LEMMA SelectAppKeeps ==
  ASSUME ConsoleInv, NEW j \in Job, NEW a \in App, SelectApp(j, a)
  PROVE  ConsoleInv'
PROOF
  <1> DEFINE job == [kind |-> "list", step |-> "sent", app |-> a, got |-> None]
  <1>1. JobSound(job)
    <2>1. job \in List /\ job.step = "sent"
      BY DEF List, Step
    <2> QED BY <2>1, JobShapes DEF JobSound, JobKind
  <1>2. /\ Start(j, job) /\ CloseStream /\ app' = a /\ env' = None /\ draft' = None
        /\ calm' = FALSE /\ UNCHANGED <<server, buttons, tabs, rows, overlap>>
    BY DEF SelectApp
  <1> HIDE DEF job
  <1>3. JobsSound' /\ jobs'[j] = job /\ \A i \in Job : i # j => jobs'[i] = jobs[i]
    BY <1>1, <1>2, StartSound, InvParts
  <1>4. a # None
    BY ConstantsAssumption
  <1>5. ListsHaveApp'
    BY <1>2, <1>3, <1>4, ListsKept, InvParts
  <1>6. stream' \in BOOLEAN /\ timers' \in Nat /\ TimerKnown'
    BY <1>2, TimersTyped, InvParts
  <1>7. /\ server' \in [Space -> State] /\ app' \in App \cup {None} /\ env' \in Code \cup {None}
        /\ tabs' \in [Code -> Nat] /\ draft' \in Nat \cup {None} /\ rows' \in Rows
        /\ calm' \in BOOLEAN /\ (env' # None => app' # None)
    BY <1>2, InvParts
  <1>8. CalmAgrees'
    BY <1>2, NotCalm
  <1>9. ButtonsSound'
    BY <1>2, <1>4, InvParts DEF ButtonsSound
  <1> QED BY <1>3, <1>5, <1>6, <1>7, <1>8, <1>9, InvPartsNext

-----------------------------------------------------------------------------
(* Steps that leave the page as it is.                                     *)

LEMMA PageKept ==
  ASSUME ConsoleInv, UNCHANGED page, server' \in [Space -> State],
         NEW j \in Job, NEW job, Start(j, job), JobSound(job),
         job # NoJob /\ job.kind = "list" => app # None,
         job # NoJob /\ job.kind = "save" => IsSave(j) /\ job.space = jobs[j].space
  PROVE  ConsoleInv'
PROOF
  <1>1. UNCHANGED <<app, env, buttons, tabs, draft, rows, stream, timers, calm, overlap>>
    BY DEF page
  <1>2. JobsSound' /\ jobs'[j] = job /\ \A i \in Job : i # j => jobs'[i] = jobs[i]
    BY StartSound, InvParts
  <1>3. ListsHaveApp'
    BY <1>1, <1>2, ListsKept, InvParts
  <1>4. CalmAgrees'
    <2>1. ASSUME NEW i \in Job, jobs'[i] # NoJob /\ jobs'[i].kind = "save"
          PROVE  IsSave(i) /\ jobs'[i].space = jobs[i].space
      <3>1. CASE i = j
        BY <1>2, <2>1, <3>1
      <3>2. CASE i # j
        BY <1>2, <2>1, <3>2 DEF IsSave, Free
      <3> QED BY <3>1, <3>2
    <2> QED BY <1>1, <2>1, CalmKept, InvParts
  <1>5. TimerKnown' /\ ButtonsSound'
    BY <1>1, InvParts DEF TimerKnown, ButtonsSound
  <1> QED BY <1>1, <1>2, <1>3, <1>4, <1>5, InvParts, InvPartsNext

\* An answer changes what it is the answer to in nothing else.
LEMMA AnswerTyped ==
  ASSUME JobsSound, NEW j \in Job, ~Free(j)
  PROVE  /\ jobs[j].kind = "list" => \A got \in [Code -> Nat] :
              LET job == [jobs[j] EXCEPT !.step = "answered", !.got = got] IN
              job \in List /\ job.got = got
         /\ jobs[j].kind = "refresh" => \A got \in {None} \cup State :
              LET job == [jobs[j] EXCEPT !.step = "answered", !.got = got] IN
              job \in Reload /\ job.got = got
         /\ jobs[j].kind = "save" => \A ok \in BOOLEAN :
              LET job == [jobs[j] EXCEPT !.step = "answered", !.ok = ok] IN
              /\ job \in Saving /\ job.space = jobs[j].space /\ job.base = jobs[j].base
              /\ job.revision = jobs[j].revision /\ job.calm = jobs[j].calm
         /\ jobs[j].kind = "act" => \A ok \in BOOLEAN :
              [jobs[j] EXCEPT !.step = "answered", !.ok = ok] \in Acting
PROOF
  <1>1. jobs[j] \in List \cup Reload \cup Saving \cup Acting
    BY DEF JobsSound, JobKind, Free
  <1>2. CASE jobs[j] \in List
    BY <1>2, JobShapes DEF List, Step
  <1>3. CASE jobs[j] \in Reload
    BY <1>3, JobShapes DEF Reload, Step
  <1>4. CASE jobs[j] \in Saving
    BY <1>4, JobShapes DEF Saving, Step
  <1>5. CASE jobs[j] \in Acting
    BY <1>5, JobShapes DEF Acting, Step
  <1> QED BY <1>1, <1>2, <1>3, <1>4, <1>5

\* A refresh by the button or a timer, an action, and what follows one
LEMMA RefreshKeeps ==
  ASSUME ConsoleInv, NEW j \in Job, Refresh(j)
  PROVE  ConsoleInv'
PROOF
  <1>1. Path \in Space
    BY InvParts DEF Refresh, Selected, Path, Space
  <1>2. Start(j, RefreshOf(Path, FALSE)) /\ UNCHANGED <<server, page>>
    BY DEF Refresh
  <1>3. UNCHANGED page /\ server' \in [Space -> State]
    BY <1>2, InvParts
  <1> QED BY <1>1, <1>2, <1>3, RefreshSound, PageKept

LEMMA ActKeeps ==
  ASSUME ConsoleInv, NEW j \in Job, Act(j)
  PROVE  ConsoleInv'
PROOF
  <1> DEFINE job == [kind |-> "act", step |-> "sent", space |-> Path, version |-> tabs[env],
                     ok |-> FALSE]
  <1>1. Path \in Space /\ env \in Code /\ tabs[env] \in Nat
    BY InvParts DEF Act, Selected, Path, Space
  <1>2. Start(j, job) /\ UNCHANGED <<server, page>>
    BY DEF Act
  <1>3. UNCHANGED page /\ server' \in [Space -> State]
    BY <1>2, InvParts
  <1>4. job \in Acting
    BY <1>1 DEF Acting, Step
  <1> HIDE DEF job
  <1> QED BY <1>2, <1>3, <1>4, JobShapes, PageKept DEF JobSound, JobKind

LEMMA ActLandsKeeps ==
  ASSUME ConsoleInv, NEW j \in Job, ActLands(j)
  PROVE  ConsoleInv'
PROOF
  <1>1. UNCHANGED page /\ server' \in [Space -> State]
    BY InvParts DEF ActLands
  <1>2. CASE jobs[j].ok /\ Selected
    <2>1. Path \in Space
      BY <1>2, InvParts DEF Selected, Path, Space
    <2>2. Start(j, RefreshOf(Path, FALSE))
      BY <1>2 DEF ActLands
    <2> QED BY <1>1, <2>1, <2>2, RefreshSound, PageKept
  <1>3. CASE ~(jobs[j].ok /\ Selected)
    <2>1. Start(j, NoJob)
      BY <1>3 DEF ActLands, Finish
    <2> QED BY <1>1, <2>1, PageKept DEF JobSound, JobKind
  <1> QED BY <1>2, <1>3

-----------------------------------------------------------------------------
(* Steps of the server.                                                    *)

LEMMA ServeListKeeps ==
  ASSUME ConsoleInv, NEW j \in Job, ServeList(j)
  PROVE  ConsoleInv'
PROOF
  <1> DEFINE got == [c \in Code |-> server[<<jobs[j].app, c>>].version]
             job == [jobs[j] EXCEPT !.step = "answered", !.got = got]
  <1>1. ~Free(j) /\ jobs[j].kind = "list"
    BY DEF ServeList, At
  <1>2. got \in [Code -> Nat]
    <2>1. jobs[j].app \in App
      BY <1>1, KindsOfJobs DEF ConsoleInv, List
    <2>2. \A c \in Code : server[<<jobs[j].app, c>>] \in State
      BY <2>1, InvParts DEF Space
    <2> QED BY <2>2 DEF State
  <1>3. Start(j, job) /\ UNCHANGED page /\ server' \in [Space -> State]
    BY InvParts DEF ServeList
  <1> HIDE DEF got
  <1>4. job \in List /\ job.got = got
    BY <1>1, <1>2, AnswerTyped, InvParts
  <1>5. app # None
    BY <1>1, InvParts DEF ListsHaveApp
  <1> HIDE DEF job
  <1>6. JobSound(job) /\ job.kind = "list"
    BY <1>2, <1>4, JobShapes DEF JobSound, JobKind
  <1> QED BY <1>3, <1>5, <1>6, PageKept

LEMMA ServeRefreshKeeps ==
  ASSUME ConsoleInv, NEW j \in Job, ServeRefresh(j)
  PROVE  ConsoleInv'
PROOF
  <1> DEFINE got == IF jobs[j].space \in Environments THEN server[jobs[j].space] ELSE None
             job == [jobs[j] EXCEPT !.step = "answered", !.got = got]
  <1>1. ~Free(j) /\ jobs[j].kind = "refresh"
    BY DEF ServeRefresh, At
  <1>2. got \in {None} \cup State
    <2>1. jobs[j].space \in Space
      BY <1>1, KindsOfJobs DEF ConsoleInv, Reload
    <2> QED BY <2>1, InvParts
  <1>3. Start(j, job) /\ UNCHANGED page /\ server' \in [Space -> State]
    BY InvParts DEF ServeRefresh
  <1> HIDE DEF got
  <1>4. job \in Reload /\ job.got = got
    BY <1>1, <1>2, AnswerTyped, InvParts
  <1> HIDE DEF job
  <1>5. JobSound(job) /\ job.kind = "refresh"
    BY <1>2, <1>4, JobShapes DEF JobSound, JobKind
  <1> QED BY <1>3, <1>5, PageKept

LEMMA ServeSaveKeeps ==
  ASSUME ConsoleInv, NEW j \in Job, ServeSave(j)
  PROVE  ConsoleInv'
PROOF
  <1> DEFINE s == jobs[j].space
             ok == s \in Environments /\ server[s].revision = jobs[j].revision
             job == [jobs[j] EXCEPT !.step = "answered", !.ok = ok]
  <1>1. ~Free(j) /\ jobs[j].kind = "save" /\ IsSave(j)
    BY DEF ServeSave, At, IsSave
  <1>2. s \in Space /\ ok \in BOOLEAN
    BY <1>1, KindsOfJobs DEF ConsoleInv, Saving
  <1>3. Start(j, job) /\ UNCHANGED page
    BY DEF ServeSave
  <1>4. server' \in [Space -> State]
    <2>1. server' = server \/ server' = [server EXCEPT ![s].revision = @ + 1]
      BY DEF ServeSave
    <2>2. server \in [Space -> State] /\ server[s] \in State
      BY <1>2, InvParts
    <2>3. [server[s] EXCEPT !.revision = @ + 1] \in State
      BY <2>2 DEF State
    <2> HIDE DEF s
    <2> QED BY <2>1, <2>2, <2>3
  <1> HIDE DEF ok
  <1>5. job \in Saving /\ job.space = s /\ job.base = jobs[j].base
        /\ job.revision = jobs[j].revision /\ job.calm = jobs[j].calm
    BY <1>1, <1>2, AnswerTyped, InvParts
  <1>6. jobs[j].calm => jobs[j].base = <<s, jobs[j].revision>>
    BY <1>1 DEF ConsoleInv, CalmSaves, Based
  <1> HIDE DEF job
  <1>7. JobSound(job) /\ job.kind = "save"
    BY <1>5, <1>6, JobShapes DEF JobSound, JobKind
  <1> QED BY <1>1, <1>3, <1>4, <1>5, <1>7, PageKept

\* A release is a state of its environment.
LEMMA ReleasedTyped ==
  ASSUME server \in [Space -> State], NEW s \in Space, NEW new \in Released(s)
  PROVE  new \in State /\ [server EXCEPT ![s] = new] \in [Space -> State]
PROOF
  <1>1. server[s] \in State
    OBVIOUS
  <1>2. new \in State
    BY <1>1 DEF Released, State
  <1> QED BY <1>2

LEMMA ServeActKeeps ==
  ASSUME ConsoleInv, NEW j \in Job, ServeAct(j)
  PROVE  ConsoleInv'
PROOF
  <1> DEFINE s == jobs[j].space
             ok == s \in Environments /\ server[s].version = jobs[j].version
             job == [jobs[j] EXCEPT !.step = "answered", !.ok = ok]
  <1>1. ~Free(j) /\ jobs[j].kind = "act"
    BY DEF ServeAct, At
  <1>2. s \in Space /\ ok \in BOOLEAN
    BY <1>1, KindsOfJobs DEF ConsoleInv, Acting
  <1>3. Start(j, job) /\ UNCHANGED page
    BY DEF ServeAct
  <1>4. server' \in [Space -> State]
    BY <1>2, ReleasedTyped, InvParts DEF ServeAct
  <1> HIDE DEF ok
  <1>5. job \in Acting
    BY <1>1, <1>2, AnswerTyped, InvParts
  <1> HIDE DEF job
  <1> QED BY <1>3, <1>4, <1>5, JobShapes, PageKept DEF JobSound, JobKind

\* Another user changes nothing that the console knows.
LEMMA OthersKeeps ==
  ASSUME ConsoleInv, NEW s \in Space, Others(s)
  PROVE  ConsoleInv'
PROOF
  <1>1. UNCHANGED <<app, env, buttons, tabs, draft, rows, stream, timers, calm, overlap, jobs>>
    BY DEF Others, page
  <1>2. server' \in [Space -> State]
    <2>1. server \in [Space -> State] /\ server[s] \in State
      BY InvParts
    <2>2. [server[s] EXCEPT !.revision = @ + 1] \in State
      BY <2>1 DEF State
    <2>3. \/ server' = [server EXCEPT ![s].revision = @ + 1]
          \/ \E new \in Released(s) : server' = [server EXCEPT ![s] = new]
      BY DEF Others
    <2> QED BY <2>1, <2>2, <2>3, ReleasedTyped
  <1> QED BY <1>1, <1>2 DEF ConsoleInv, TypeOK, JobsAnswered, AppSelected, TimerKnown, CalmAgrees,
                            CalmSaves, IsSave, Free, At, Path, Based

-----------------------------------------------------------------------------
(* Steps that change the rows.                                             *)

LEMMA SaveKeeps ==
  ASSUME ConsoleInv, NEW j \in Job, Save(j)
  PROVE  ConsoleInv'
PROOF
  <1> DEFINE job == [kind |-> "save", step |-> "sent", space |-> Path, revision |-> draft,
                     base |-> <<rows.space, rows.revision>>, calm |-> calm, ok |-> FALSE]
  <1>1. Path \in Space /\ draft \in Nat /\ rows \in Rows /\ calm \in BOOLEAN
    BY InvParts DEF Save, Selected, Path, Space
  <1>2. rows.space \in Space \cup {None} /\ rows.revision \in Nat /\ rows.sent \in SUBSET Job
    BY <1>1 DEF Rows
  <1>3. /\ Start(j, job) /\ Free(j) /\ rows' = [rows EXCEPT !.sent = @ \cup {j}]
        /\ UNCHANGED <<server, app, env, buttons, tabs, draft, stream, timers, calm, overlap>>
    BY DEF Save
  <1>4. job \in Saving
    BY <1>1, <1>2 DEF Saving, Step
  <1>5. job.calm => job.base = <<job.space, job.revision>>
    BY InvParts DEF CalmAgrees
  <1>6. job.space = Path
    OBVIOUS
  <1> HIDE DEF job
  <1>7. JobSound(job) /\ job.kind = "save"
    BY <1>4, <1>5, JobShapes DEF JobSound, JobKind
  <1>8. JobsSound' /\ jobs'[j] = job /\ \A i \in Job : i # j => jobs'[i] = jobs[i]
    BY <1>3, <1>7, StartSound, InvParts
  <1>9. ListsHaveApp'
    BY <1>3, <1>7, <1>8, ListsKept, InvParts
  <1>10. /\ rows' \in Rows /\ rows'.space = rows.space /\ rows'.revision = rows.revision
         /\ rows'.sent = rows.sent \cup {j}
    BY <1>1, <1>2, <1>3 DEF Rows
  <1>11. CalmAgrees'
    <2>1. ASSUME NEW i \in Job, jobs'[i] # NoJob /\ jobs'[i].kind = "save"
          PROVE  /\ IsSave(i) => jobs'[i].space = jobs[i].space
                                 /\ (i \in rows.sent => i \in rows'.sent)
                 /\ ~IsSave(i) => jobs'[i].space = Path /\ i \in rows'.sent
      <3>1. CASE i = j
        BY <1>3, <1>6, <1>8, <1>10, <3>1 DEF IsSave
      <3>2. CASE i # j
        BY <1>8, <1>10, <2>1, <3>2 DEF IsSave, Free
      <3> QED BY <3>1, <3>2
    <2> QED BY <1>3, <1>10, <2>1, CalmKept, InvParts
  <1>12. TimerKnown' /\ ButtonsSound'
    BY <1>3, InvParts DEF TimerKnown, ButtonsSound
  <1> QED BY <1>3, <1>8, <1>9, <1>10, <1>11, <1>12, InvParts, InvPartsNext

\* The answer of a save ends it; the rows that were sent are then those of the
\* revision it made, and the next save will name that one.
LEMMA SaveLandsKeeps ==
  ASSUME ConsoleInv, NEW j \in Job, SaveLands(j)
  PROVE  ConsoleInv'
PROOF
  <1> DEFINE s == jobs[j].space
             new == jobs[j].revision + 1
  <1>1. IsSave(j) /\ s \in Space /\ new \in Nat /\ jobs[j].ok \in BOOLEAN
    <2>1. IsSave(j)
      BY DEF SaveLands, At, IsSave
    <2> QED BY <2>1, KindsOfJobs DEF ConsoleInv, Saving, IsSave
  <1>2. /\ Start(j, NoJob) /\ draft' = DraftAfterSave(j)
        /\ rows' = IF jobs[j].ok /\ j \in rows.sent
                   THEN [space |-> s, revision |-> new, sent |-> rows.sent \ {j}]
                   ELSE [rows EXCEPT !.sent = @ \ {j}]
        /\ UNCHANGED <<server, app, env, buttons, tabs, stream, timers, calm, overlap>>
    BY DEF SaveLands, Finish
  <1>3. draft' = IF jobs[j].ok THEN new ELSE draft
    BY <1>2 DEF DraftAfterSave
  <1>4. /\ rows \in Rows /\ rows.space \in Space \cup {None} /\ rows.revision \in Nat
        /\ rows.sent \in SUBSET Job
    BY InvParts DEF Rows
  <1> HIDE DEF s, new
  <1>5. /\ rows' \in Rows /\ rows'.sent = rows.sent \ {j}
        /\ jobs[j].ok /\ j \in rows.sent => rows'.space = s /\ rows'.revision = new
        /\ ~jobs[j].ok => rows'.space = rows.space /\ rows'.revision = rows.revision
    <2>1. CASE jobs[j].ok /\ j \in rows.sent
      BY <1>1, <1>2, <1>4, <2>1 DEF Rows
    <2>2. CASE ~(jobs[j].ok /\ j \in rows.sent)
      BY <1>2, <1>4, <2>2 DEF Rows
    <2> QED BY <2>1, <2>2
  <1>6. JobSound(NoJob)
    BY DEF JobSound, JobKind
  <1>7. JobsSound' /\ jobs'[j] = NoJob /\ \A i \in Job : i # j => jobs'[i] = jobs[i]
    BY <1>2, <1>6, StartSound, InvParts
  <1>8. ListsHaveApp'
    BY <1>2, <1>7, ListsKept, InvParts
  <1>9. CalmAgrees'
    <2> SUFFICES ASSUME calm' PROVE CalmAgrees'
      BY DEF CalmAgrees
    <2>1. calm /\ Path' = Path /\ env' # None
      BY <1>2, InvParts DEF CalmAgrees, Path
    <2>2. /\ rows.space = Path /\ rows.revision = draft /\ s = Path /\ j \in rows.sent
          /\ \A i \in Job : IsSave(i) => jobs[i].space = Path /\ i \in rows.sent
      BY <1>1, <2>1, InvParts DEF CalmAgrees, s
    <2>3. rows'.space = Path /\ rows'.revision = draft'
      BY <1>1, <1>3, <1>5, <2>2
    <2>4. ASSUME NEW i \in Job, jobs'[i] # NoJob /\ jobs'[i].kind = "save"
          PROVE  jobs'[i].space = Path /\ i \in rows'.sent
      <3>1. i # j
        BY <1>7, <2>4
      <3>2. IsSave(i) /\ jobs'[i] = jobs[i]
        BY <1>7, <2>4, <3>1 DEF IsSave, Free
      <3> QED BY <1>5, <2>2, <3>1, <3>2
    <2> QED BY <2>1, <2>3, <2>4 DEF CalmAgrees, IsSave, Free
  <1>10. draft' \in Nat \cup {None}
    BY <1>1, <1>3, InvParts
  <1>11. TimerKnown' /\ ButtonsSound'
    BY <1>2, InvParts DEF TimerKnown, ButtonsSound
  <1> QED BY <1>2, <1>5, <1>7, <1>8, <1>9, <1>10, <1>11, InvParts, InvPartsNext

\* The end of a refresh may start a timer.
LEMMA AfterRefreshKeeps ==
  ASSUME ConsoleInv, NEW j \in Job, AfterRefresh(j)
  PROVE  /\ stream' \in BOOLEAN /\ timers' \in Nat /\ TimerKnown'
         /\ Start(j, NoJob)
PROOF
  BY TimersTyped, InvParts DEF AfterRefresh, Finish

LEMMA RefreshLandsKeeps ==
  ASSUME ConsoleInv, NEW j \in Job, RefreshLands(j)
  PROVE  ConsoleInv'
PROOF
  <1> DEFINE s == jobs[j].space
             got == jobs[j].got
  <1>1. ~Free(j) /\ jobs[j].kind = "refresh" /\ jobs[j].step = "answered"
    BY DEF RefreshLands, At
  <1>2. s \in Space /\ got \in State
    BY <1>1, KindsOfJobs DEF ConsoleInv, Reload, JobsAnswered, At, RefreshLands, Succeeds
  <1>3. /\ draft' = got.revision /\ AfterRefresh(j) /\ UNCHANGED <<server, app, env, buttons, overlap>>
        /\ env = None => UNCHANGED <<tabs, rows, calm>>
        /\ env # None => /\ tabs' = [tabs EXCEPT ![env] = got.version]
                         /\ rows' = [space |-> s, revision |-> got.revision, sent |-> {}]
                         /\ calm' = (s = Path /\ ~SaveInFlight)
    BY DEF RefreshLands
  <1> HIDE DEF s, got
  <1>4. got.revision \in Nat /\ got.version \in Nat
    BY <1>2 DEF State
  <1>5. stream' \in BOOLEAN /\ timers' \in Nat /\ TimerKnown' /\ Start(j, NoJob)
    BY <1>3, AfterRefreshKeeps
  <1>6. JobSound(NoJob)
    BY DEF JobSound, JobKind
  <1>7. JobsSound' /\ jobs'[j] = NoJob /\ \A i \in Job : i # j => jobs'[i] = jobs[i]
    BY <1>5, <1>6, StartSound, InvParts
  <1>8. ListsHaveApp'
    BY <1>3, <1>7, ListsKept, InvParts
  <1>9. /\ server' \in [Space -> State] /\ app' \in App \cup {None} /\ env' \in Code \cup {None}
        /\ draft' \in Nat \cup {None} /\ (env' # None => app' # None)
    BY <1>3, <1>4, InvParts
  <1>10. tabs' \in [Code -> Nat] /\ rows' \in Rows /\ calm' \in BOOLEAN /\ CalmAgrees'
    <2>1. CASE env = None
      <3>1. ~calm
        BY <2>1, InvParts DEF CalmAgrees
      <3>2. calm' = FALSE
        BY <1>3, <2>1, <3>1, InvParts
      <3> QED BY <1>3, <2>1, <3>2, NotCalm, InvParts
    <2>2. CASE env # None
      <3>1. tabs' \in [Code -> Nat] /\ rows' \in Rows /\ calm' \in BOOLEAN
        BY <1>2, <1>3, <1>4, <2>2, InvParts DEF Rows
      <3>2. CalmAgrees'
        <4> SUFFICES ASSUME calm' PROVE CalmAgrees'
          BY DEF CalmAgrees
        <4>1. s = Path /\ ~SaveInFlight /\ Path' = Path
          BY <1>3, <2>2 DEF Path
        <4>2. ASSUME NEW i \in Job, jobs'[i] # NoJob /\ jobs'[i].kind = "save" PROVE FALSE
          BY <1>7, <4>1, <4>2 DEF SaveInFlight, Free
        <4>3. rows'.space = Path /\ rows'.revision = draft' /\ env' # None
          BY <1>3, <2>2, <4>1
        <4> QED BY <4>1, <4>2, <4>3 DEF CalmAgrees, IsSave, Free
      <3> QED BY <3>1, <3>2
    <2> QED BY <2>1, <2>2
  <1>11. ButtonsSound'
    BY <1>3, InvParts DEF ButtonsSound
  <1> QED BY <1>5, <1>7, <1>8, <1>9, <1>10, <1>11, InvPartsNext

\* A request ends, and of the page only what it was sent with and the timers change.
LEMMA EndKeeps ==
  ASSUME ConsoleInv, NEW j \in Job, Start(j, NoJob), rows' \in Rows,
         rows'.space = rows.space, rows'.revision = rows.revision,
         \A i \in Job \ {j} : i \in rows.sent => i \in rows'.sent,
         stream' \in BOOLEAN, timers' \in Nat, TimerKnown',
         UNCHANGED <<server, app, env, buttons, tabs, draft, calm, overlap>>
  PROVE  ConsoleInv'
PROOF
  <1>1. JobSound(NoJob)
    BY DEF JobSound, JobKind
  <1>2. JobsSound' /\ jobs'[j] = NoJob /\ \A i \in Job : i # j => jobs'[i] = jobs[i]
    BY <1>1, StartSound, InvParts
  <1>3. ListsHaveApp' /\ ButtonsSound'
    BY <1>2, ListsKept, InvParts DEF ButtonsSound
  <1>4. CalmAgrees'
    <2>1. ASSUME NEW i \in Job, jobs'[i] # NoJob /\ jobs'[i].kind = "save"
          PROVE  /\ IsSave(i) /\ jobs'[i].space = jobs[i].space
                 /\ (i \in rows.sent => i \in rows'.sent)
      <3>1. i # j
        BY <1>2, <2>1
      <3> QED BY <1>2, <2>1, <3>1 DEF IsSave, Free
    <2> QED BY <2>1, CalmKept, InvParts
  <1> QED BY <1>2, <1>3, <1>4, InvParts, InvPartsNext

LEMMA RefreshFailsKeeps ==
  ASSUME ConsoleInv, NEW j \in Job, RefreshFails(j)
  PROVE  ConsoleInv'
PROOF
  <1>1. /\ AfterRefresh(j)
        /\ UNCHANGED <<server, app, env, buttons, tabs, draft, rows, calm, overlap>>
    BY DEF RefreshFails
  <1>2. stream' \in BOOLEAN /\ timers' \in Nat /\ TimerKnown' /\ Start(j, NoJob)
    BY <1>1, AfterRefreshKeeps
  <1> QED BY <1>1, <1>2, EndKeeps, InvParts

LEMMA LoseKeeps ==
  ASSUME ConsoleInv, NEW j \in Job, Lose(j)
  PROVE  ConsoleInv'
PROOF
  <1>1. /\ rows' = [rows EXCEPT !.sent = @ \ {j}]
        /\ UNCHANGED <<server, app, env, buttons, tabs, draft, calm, overlap>>
    BY DEF Lose
  <1>2. /\ rows' \in Rows /\ rows'.space = rows.space /\ rows'.revision = rows.revision
        /\ rows'.sent = rows.sent \ {j}
    BY <1>1, InvParts DEF Rows
  <1>3. stream' \in BOOLEAN /\ timers' \in Nat /\ TimerKnown' /\ Start(j, NoJob)
    <2>1. CASE jobs[j].kind = "refresh"
      BY <2>1, AfterRefreshKeeps DEF Lose
    <2>2. CASE jobs[j].kind # "refresh"
      BY <2>2, TimersTyped, InvParts DEF Lose, Finish
    <2> QED BY <2>1, <2>2
  <1> QED BY <1>1, <1>2, <1>3, EndKeeps

-----------------------------------------------------------------------------
(* The invariant holds.                                                    *)

LEMMA ConsoleInvInit == Init => ConsoleInv
PROOF
  <1> SUFFICES ASSUME Init PROVE ConsoleInv
    OBVIOUS
  <1>1. \A j \in Job : Free(j)
    BY DEF Init, Free
  <1>2. TypeOK
    BY DEF Init, TypeOK, State, Rows
  <1> QED BY <1>1, <1>2 DEF Init, ConsoleInv, JobsAnswered, AppSelected, TimerKnown, CalmAgrees,
                            CalmSaves, IsSave, At

LEMMA ConsoleInvStep == ConsoleInv /\ [Next]_vars => ConsoleInv'
PROOF
  <1> SUFFICES ASSUME ConsoleInv, [Next]_vars PROVE ConsoleInv'
    OBVIOUS
  <1>1. ASSUME NEW j \in Job, User(j) PROVE ConsoleInv'
    BY <1>1, SelectKeeps, SelectAppKeeps, SaveKeeps, ActKeeps DEF User
  <1>2. ASSUME NEW j \in Job, RefreshButton(j) \/ Tick(j) PROVE ConsoleInv'
    BY <1>2, RefreshKeeps DEF RefreshButton, Tick
  <1>3. ASSUME NEW j \in Job, Serve(j) PROVE ConsoleInv'
    BY <1>3, ServeListKeeps, ServeRefreshKeeps, ServeSaveKeeps, ServeActKeeps DEF Serve
  <1>4. ASSUME NEW j \in Job, Lands(j) PROVE ConsoleInv'
    BY <1>4, ListLandsKeeps, EmptyListLandsKeeps, RefreshLandsKeeps, RefreshFailsKeeps,
       SaveLandsKeeps, ActLandsKeeps
    DEF Lands
  <1>5. ASSUME NEW j \in Job, Lose(j) PROVE ConsoleInv'
    BY <1>5, LoseKeeps
  <1>6. ASSUME NEW s \in Space, Others(s) PROVE ConsoleInv'
    BY <1>6, OthersKeeps
  <1>7. CASE UNCHANGED vars
    BY <1>7 DEF vars, ConsoleInv, TypeOK, JobsAnswered, AppSelected, TimerKnown, CalmAgrees,
                CalmSaves, IsSave, Free, At, Path, Based
  <1> QED BY <1>1, <1>2, <1>3, <1>4, <1>5, <1>6, <1>7 DEF Next

LEMMA ConsoleInvariance == Spec => []ConsoleInv
PROOF
  BY ConsoleInvInit, ConsoleInvStep, PTL DEF Spec

-----------------------------------------------------------------------------
(* The timers.                                                             *)

\* A selected environment is polled, or will be when a refresh is over.
Polled == env # None => stream \/ \E j \in Job : Opening(j)

\* While no two selections overlap there is one timer at most, and none but one
\* refresh is to start it.
TimersCounted ==
  ~overlap =>
    /\ timers = IF stream THEN 1 ELSE 0
    /\ \A i \in Job : Opening(i) => ~stream /\ \A j \in Job : Opening(j) => j = i

TimerInv == Polled /\ TimersCounted

\* Steps that have nothing to do with a selection or its refresh
LEMMA TimersFrame ==
  ASSUME TimerInv, UNCHANGED <<env, stream, timers, overlap>>,
         \A i \in Job : Opening(i)' <=> Opening(i)
  PROVE  TimerInv'
PROOF
  BY DEF TimerInv, Polled, TimersCounted

\* Most steps go on with one request, and no selection waits for it.
LEMMA StartOther ==
  ASSUME ConsoleInv, NEW j \in Job, NEW job, Start(j, job), ~Opening(j),
         ~(job # NoJob /\ job.kind = "refresh" /\ job.open)
  PROVE  \A i \in Job : Opening(i)' <=> Opening(i)
PROOF
  <1>1. jobs'[j] = job /\ \A i \in Job : i # j => jobs'[i] = jobs[i]
    BY InvParts DEF Start, JobsSound
  <1> QED BY <1>1 DEF Opening, Free

LEMMA SelectAndTimers ==
  ASSUME ConsoleInv, TimerInv, NEW j \in Job, NEW code, SelectAnd(j, code), ~Opening(j)
  PROVE  TimerInv'
PROOF
  <1> DEFINE job == RefreshOf(<<app, code>>, TRUE)
  <1>1. /\ CloseStream /\ Start(j, job)
        /\ overlap' = (overlap \/ \E i \in Job : Opening(i))
    BY DEF SelectAnd
  <1>2. job # NoJob /\ job.kind = "refresh" /\ job.open
    BY DEF RefreshOf, NoJob
  <1> HIDE DEF job
  <1>3. jobs'[j] = job /\ \A i \in Job : i # j => jobs'[i] = jobs[i]
    BY <1>1, InvParts DEF Start, JobsSound
  <1>4. Opening(j)' /\ \A i \in Job : i # j => (Opening(i)' <=> Opening(i))
    BY <1>2, <1>3 DEF Opening, Free
  <1>5. Polled'
    BY <1>4 DEF Polled
  <1>6. TimersCounted'
    <2> SUFFICES ASSUME ~overlap'
                 PROVE  /\ timers' = IF stream' THEN 1 ELSE 0
                        /\ \A i \in Job : Opening(i)' =>
                             ~stream' /\ \A k \in Job : Opening(k)' => k = i
      BY DEF TimersCounted
    <2>1. ~overlap /\ \A i \in Job : ~Opening(i)
      BY <1>1
    <2>2. timers = IF stream THEN 1 ELSE 0
      BY <2>1 DEF TimerInv, TimersCounted
    <2>3. stream' = FALSE /\ timers' = 0
      BY <1>1, <2>2 DEF CloseStream
    <2>4. \A i \in Job : Opening(i)' => i = j
      BY <1>4, <2>1
    <2> QED BY <2>3, <2>4
  <1> QED BY <1>5, <1>6 DEF TimerInv

LEMMA SelectAppTimers ==
  ASSUME ConsoleInv, TimerInv, NEW j \in Job, NEW a \in App, SelectApp(j, a)
  PROVE  TimerInv'
PROOF
  <1> DEFINE job == [kind |-> "list", step |-> "sent", app |-> a, got |-> None]
  <1>1. Start(j, job) /\ Free(j) /\ CloseStream /\ env' = None /\ overlap' = overlap
    BY DEF SelectApp
  <1>2. job # NoJob /\ job.kind = "list" /\ ~Opening(j)
    BY <1>1 DEF NoJob, Opening
  <1> HIDE DEF job
  <1>3. \A i \in Job : Opening(i)' <=> Opening(i)
    BY <1>1, <1>2, StartOther
  <1>4. Polled'
    BY <1>1 DEF Polled
  <1>5. TimersCounted'
    <2>1. stream' = FALSE /\ timers' = IF stream THEN timers - 1 ELSE timers
      BY <1>1 DEF CloseStream
    <2>2. ~overlap => timers' = 0
      BY <2>1 DEF TimerInv, TimersCounted
    <2> QED BY <1>1, <1>3, <2>1, <2>2 DEF TimerInv, TimersCounted
  <1> QED BY <1>4, <1>5 DEF TimerInv

\* The end of a refresh: if it was that of a selection it starts the timer.
LEMMA AfterRefreshTimers ==
  ASSUME ConsoleInv, TimerInv, NEW j \in Job, ~Free(j), jobs[j].kind = "refresh",
         AfterRefresh(j), UNCHANGED <<env, overlap>>
  PROVE  TimerInv'
PROOF
  <1>1. Start(j, NoJob)
    BY DEF AfterRefresh, Finish
  <1>2. CASE jobs[j].open
    <2>1. stream' = TRUE /\ timers' = timers + 1 /\ Opening(j)
      BY <1>2 DEF AfterRefresh, OpenStream, Opening
    <2>2. jobs'[j] = NoJob /\ \A i \in Job : i # j => jobs'[i] = jobs[i]
      BY <1>1, InvParts DEF Start, JobsSound
    <2>3. ~Opening(j)' /\ \A i \in Job : i # j => (Opening(i)' <=> Opening(i))
      BY <2>2 DEF Opening, Free
    <2>4. Polled'
      BY <2>1 DEF Polled
    <2>5. TimersCounted'
      <3>1. ~overlap => timers' = 1 /\ \A i \in Job : Opening(i) => i = j
        BY <2>1 DEF TimerInv, TimersCounted
      <3> QED BY <2>1, <2>3, <3>1 DEF TimersCounted
    <2> QED BY <2>4, <2>5 DEF TimerInv
  <1>3. CASE ~jobs[j].open
    <2>1. UNCHANGED <<stream, timers>> /\ ~Opening(j)
      BY <1>3 DEF AfterRefresh, Opening
    <2>2. \A i \in Job : Opening(i)' <=> Opening(i)
      BY <1>1, <2>1, StartOther
    <2> QED BY <2>1, <2>2, TimersFrame
  <1> QED BY <1>2, <1>3

\* An answer leaves its request what it was.
LEMMA ServeTimers ==
  ASSUME ConsoleInv, TimerInv, NEW j \in Job, Serve(j)
  PROVE  TimerInv'
PROOF
  <1>1. UNCHANGED page
    BY DEF Serve, ServeList, ServeRefresh, ServeSave, ServeAct
  <1>2. ~Free(j) /\ jobs[j] \in JobKind
    BY InvParts DEF Serve, ServeList, ServeRefresh, ServeSave, ServeAct, At, JobsSound
  <1>3. PICK job : Start(j, job) /\ (job # NoJob /\ job.kind = "refresh" /\ job.open <=> Opening(j))
    <2>1. jobs[j] \in List \cup Reload \cup Saving \cup Acting
      BY <1>2 DEF JobKind, Free
    <2>2. CASE ServeList(j)
      <3>1. jobs[j] \in List
        BY <2>1, <2>2, JobShapes DEF ServeList, At
      <3> DEFINE got == [c \in Code |-> server[<<jobs[j].app, c>>].version]
                 job == [jobs[j] EXCEPT !.step = "answered", !.got = got]
      <3>2. Start(j, job) /\ job.kind = "list" /\ ~Opening(j)
        BY <2>2, <3>1, JobShapes DEF ServeList, Opening, List
      <3> HIDE DEF job
      <3> QED BY <3>2
    <2>3. CASE ServeRefresh(j)
      <3>1. jobs[j] \in Reload
        BY <2>1, <2>3, JobShapes DEF ServeRefresh, At
      <3> DEFINE got == IF jobs[j].space \in Environments THEN server[jobs[j].space] ELSE None
                 job == [jobs[j] EXCEPT !.step = "answered", !.got = got]
      <3>2. Start(j, job)
        BY <2>3 DEF ServeRefresh
      <3> HIDE DEF got
      <3>3. job.kind = "refresh" /\ job.open = jobs[j].open /\ job # NoJob
        BY <3>1 DEF Reload, NoJob
      <3> HIDE DEF job
      <3> QED BY <1>2, <2>3, <3>2, <3>3 DEF ServeRefresh, At, Opening
    <2>4. CASE ServeSave(j)
      <3>1. jobs[j] \in Saving
        BY <2>1, <2>4, JobShapes DEF ServeSave, At
      <3>2. PICK ok : Start(j, [jobs[j] EXCEPT !.step = "answered", !.ok = ok])
        BY <2>4 DEF ServeSave
      <3> DEFINE job == [jobs[j] EXCEPT !.step = "answered", !.ok = ok]
      <3>3. job.kind = "save" /\ ~Opening(j)
        BY <3>1, JobShapes DEF Opening, Saving
      <3> HIDE DEF job
      <3> QED BY <3>2, <3>3 DEF job
    <2>5. CASE ServeAct(j)
      <3>1. jobs[j] \in Acting
        BY <2>1, <2>5, JobShapes DEF ServeAct, At
      <3>2. PICK ok : Start(j, [jobs[j] EXCEPT !.step = "answered", !.ok = ok])
        BY <2>5 DEF ServeAct
      <3> DEFINE job == [jobs[j] EXCEPT !.step = "answered", !.ok = ok]
      <3>3. job.kind = "act" /\ ~Opening(j)
        BY <3>1, JobShapes DEF Opening, Acting
      <3> HIDE DEF job
      <3> QED BY <3>2, <3>3 DEF job
    <2> QED BY <2>2, <2>3, <2>4, <2>5 DEF Serve
  <1>4. jobs'[j] = job /\ \A i \in Job : i # j => jobs'[i] = jobs[i]
    BY <1>3, InvParts DEF Start, JobsSound
  <1>5. \A i \in Job : Opening(i)' <=> Opening(i)
    BY <1>3, <1>4 DEF Opening, Free
  <1> QED BY <1>1, <1>5, TimersFrame DEF page

\* What a request is replaced by, if it is no refresh of a selection
Plain(job) == ~(job # NoJob /\ job.kind = "refresh" /\ job.open)

LEMMA OtherTimers ==
  ASSUME ConsoleInv, TimerInv, NEW j \in Job, ~Opening(j),
         \E job : Start(j, job) /\ Plain(job), UNCHANGED <<env, stream, timers, overlap>>
  PROVE  TimerInv'
PROOF
  BY StartOther, TimersFrame DEF Plain

LEMMA TimerInvStep == ConsoleInv /\ TimerInv /\ [Next]_vars => TimerInv'
PROOF
  <1> SUFFICES ASSUME ConsoleInv, TimerInv, [Next]_vars PROVE TimerInv'
    OBVIOUS
  <1>1. \A s : Plain(RefreshOf(s, FALSE))
    BY DEF Plain, RefreshOf
  <1>2. Plain(NoJob)
    BY DEF Plain
  <1>3. ASSUME NEW j \in Job, RefreshButton(j) \/ Tick(j) PROVE TimerInv'
    BY <1>1, <1>3, OtherTimers DEF RefreshButton, Tick, Refresh, Opening, page
  <1>4. ASSUME NEW j \in Job, User(j) PROVE TimerInv'
    <2>1. ASSUME NEW code \in Code, Select(j, code) PROVE TimerInv'
      BY <2>1, SelectAndTimers DEF Select, Opening
    <2>2. CASE Save(j)
      <3>1. /\ Start(j, [kind |-> "save", step |-> "sent", space |-> Path, revision |-> draft,
                         base |-> <<rows.space, rows.revision>>, calm |-> calm, ok |-> FALSE])
            /\ ~Opening(j) /\ UNCHANGED <<env, stream, timers, overlap>>
        BY <2>2 DEF Save, Opening
      <3> QED BY <3>1, OtherTimers DEF Plain
    <2>3. CASE Act(j)
      <3>1. /\ Start(j, [kind |-> "act", step |-> "sent", space |-> Path,
                         version |-> tabs[env], ok |-> FALSE])
            /\ ~Opening(j) /\ UNCHANGED <<env, stream, timers, overlap>>
        BY <2>3 DEF Act, Opening, page
      <3> QED BY <3>1, OtherTimers DEF Plain
    <2> QED BY <1>4, <2>1, <2>2, <2>3, SelectAppTimers DEF User
  <1>5. ASSUME NEW j \in Job, Lands(j) PROVE TimerInv'
    <2>1. CASE ListLands(j)
      BY <2>1, SelectAndTimers DEF ListLands, At, Opening
    <2>2. CASE EmptyListLands(j) \/ SaveLands(j)
      BY <1>2, <2>2, OtherTimers DEF EmptyListLands, SaveLands, Finish, At, Opening
    <2>3. CASE RefreshLands(j) \/ RefreshFails(j)
      BY <2>3, AfterRefreshTimers DEF RefreshLands, RefreshFails, At
    <2>4. CASE ActLands(j)
      <3>1. ~Opening(j) /\ UNCHANGED <<env, stream, timers, overlap>>
        BY <2>4 DEF ActLands, At, Opening, page
      <3>2. \E job : Start(j, job) /\ Plain(job)
        BY <1>1, <1>2, <2>4 DEF ActLands, Finish
      <3> QED BY <3>1, <3>2, OtherTimers
    <2> QED BY <1>5, <2>1, <2>2, <2>3, <2>4 DEF Lands
  <1>6. ASSUME NEW j \in Job, Lose(j) PROVE TimerInv'
    <2>1. CASE jobs[j].kind = "refresh"
      BY <1>6, <2>1, AfterRefreshTimers DEF Lose
    <2>2. CASE jobs[j].kind # "refresh"
      BY <1>2, <1>6, <2>2, OtherTimers DEF Lose, Finish, Opening
    <2> QED BY <2>1, <2>2
  <1>7. ASSUME NEW s \in Space, Others(s) PROVE TimerInv'
    BY <1>7, TimersFrame DEF Others, page, Opening, Free
  <1>8. CASE UNCHANGED vars
    BY <1>8, TimersFrame DEF vars, Opening, Free
  <1> QED BY <1>3, <1>4, <1>5, <1>6, <1>7, <1>8, ServeTimers DEF Next

LEMMA TimerInvariance == Spec => []TimerInv
PROOF
  <1>1. Init => TimerInv
    BY DEF Init, TimerInv, Polled, TimersCounted, Opening, Free
  <1> QED BY <1>1, TimerInvStep, ConsoleInvariance, PTL DEF Spec

-----------------------------------------------------------------------------
(* Theorems.                                                               *)

\* The page and its requests keep their types: no answer is drawn that has not
\* arrived and no draft is sent that was not loaded.
THEOREM ConsoleTypeCorrect == Spec => []TypeOK
PROOF
  <1>1. ConsoleInv => TypeOK
    BY DEF ConsoleInv
  <1> QED BY <1>1, ConsoleInvariance, PTL

\* A save of a calm console that the server accepts replaces the draft that its
\* rows were made from, whatever others saved and whatever answers are in flight.
THEOREM CalmSavesKeepTheirBase == Spec => []SavesKeepTheirBase
PROOF
  <1>1. ConsoleInv => SavesKeepTheirBase
    BY DEF ConsoleInv, CalmSaves, SavesKeepTheirBase, Accepted, IsSave, At
  <1> QED BY <1>1, ConsoleInvariance, PTL

\* A selected environment is polled, whether its first refresh succeeded or not, and
\* by no more timers than the one closeStream can clear, unless selections overlapped.
THEOREM SelectedIsPolled == Spec => []PolledByOneTimer
PROOF
  <1>1. TimerInv => PolledByOneTimer
    BY DEF TimerInv, Polled, TimersCounted, PolledByOneTimer, Leaked
  <1> QED BY <1>1, TimerInvariance, PTL
=============================================================================
