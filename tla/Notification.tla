---------------------------- MODULE Notification ----------------------------
(***************************************************************************)
(* How a client learns of a release: the database commits it, the          *)
(* publishing request tells the event hub, the subscribe handler           *)
(* (internal/transport/http/subscription.go) writes the stream and the     *)
(* client fetches the configuration again.  Commit and broadcast are two   *)
(* steps of a request, reading the release and subscribing two steps of    *)
(* the handler, and the process may die between any of them: its hub dies  *)
(* with it, the database and the clients do not.  It ends by a crash or as *)
(* cmd/server/main.go ends it after a signal.                        *)
(*                                                                         *)
(* The client is no code of the repository.  It does what the README asks  *)
(* for: it fetches first, then subscribes; it fetches after each event of  *)
(* the stream; it reconnects with the last event id it has seen.           *)
(***************************************************************************)
EXTENDS Naturals, Sequences, FiniteSets

CONSTANTS
  Key, Sub, Version, NoID, BadID, NoKey, HistorySize, ChannelSize, MaxEvents,
             \* see Hub; a client has one stream at a time and is named by it
  Follows,   \* Follows[c] is the configuration space of client c
  MaxRestarts  \* bound on the restarts of the process

VARIABLES
  eventID, history, groups, closed, log,
  channel, held, asked, complete, replay, pos,  \* see Hub
  stored,    \* stored[k] is the version of the newest committed release of k
  unsent,    \* unsent[k]: committed releases whose request has yet to broadcast
  handler,   \* handler[c]: step and release read by the handler that serves c
  client,    \* client[c]: what the client keeps when its stream ends
  process,   \* how far run has come
  restarts

Hub == INSTANCE Hub

ASSUME NotificationAssumption ==
  /\ Hub!HubAssumption
  /\ Follows \in [Sub -> Key]
  /\ MaxRestarts \in Nat

hubVars == <<eventID, history, groups, closed, log,
             channel, held, asked, complete, replay, pos>>
ownVars == <<stored, unsent, handler, client, process, restarts>>
vars == <<hubVars, ownVars>>

\* fetch: why it must fetch, if it must; config: the version it runs with;
\* synced: what config would be if it fetched after "resync" and
\* "config.changed" only; told: the newest version any message ever named.
Client == [lastID: Nat \cup {NoID}, fetch: {"no", "ready", "change"},
           config: Nat, synced: Nat, told: Nat]

\* blocked: the handler waits for a write to return.
Handler == [step: {"off", "read", "registered", "streaming"}, version: Nat, blocked: BOOLEAN]

Process == {"up", "closing", "draining", "down"}

TypeOK ==
  /\ Hub!TypeOK
  /\ stored \in [Key -> Nat]
  /\ unsent \in [Key -> SUBSET Version]
  /\ handler \in [Sub -> Handler]
  /\ client \in [Sub -> Client]
  /\ process \in Process
  /\ restarts \in 0 .. MaxRestarts

NoHandler == [step |-> "off", version |-> 0, blocked |-> FALSE]

Init ==
  /\ Hub!Init
  /\ stored = [k \in Key |-> 0]
  /\ unsent = [k \in Key |-> {}]
  /\ handler = [c \in Sub |-> NoHandler]
  /\ client = [c \in Sub |->
       [lastID |-> NoID, fetch |-> "change", config |-> 0, synced |-> 0, told |-> 0]]
  /\ process = "up" /\ restarts = 0

Newest(a, b) == IF a > b THEN a ELSE b

-----------------------------------------------------------------------------
(* Publish and Rollback of the release service.                            *)

\* Mutation: a release whose commit may have failed is broadcast all the same.
CommitIgnored(k) ==
  /\ process # "down"
  /\ stored[k] + 1 \in Version
  /\ stored' \in {stored, [stored EXCEPT ![k] = @ + 1]}
  /\ unsent' = [unsent EXCEPT ![k] = @ \cup {stored[k] + 1}]
  /\ UNCHANGED <<hubVars, handler, client, process, restarts>>

\* WriteRelease has committed the next version.  Requests that are in flight
\* go on while the process is shutting down.
Commit(k) ==
  /\ process # "down"
  /\ stored[k] + 1 \in Version
  /\ stored' = [stored EXCEPT ![k] = @ + 1]
  /\ unsent' = [unsent EXCEPT ![k] = @ \cup {stored[k] + 1}]
  /\ UNCHANGED <<hubVars, handler, client, process, restarts>>

\* Mutation: one of the callers forgets to broadcast.
NotBroadcast(k, v) ==
  /\ v \in unsent[k]
  /\ unsent' = [unsent EXCEPT ![k] = @ \ {v}]
  /\ UNCHANGED <<hubVars, stored, handler, client, process, restarts>>

\* The requests that have committed reach the hub in any order.
Broadcast(k, v) ==
  /\ v \in unsent[k]
  /\ Hub!Publish(k, v)
  /\ unsent' = [unsent EXCEPT ![k] = @ \ {v}]
  /\ UNCHANGED <<stored, handler, client, process, restarts>>

-----------------------------------------------------------------------------
(* The subscribe handler and its client.                                   *)

At(c, step) == handler[c].step = step

\* The handler has reached this step and is not blocked in a write.
Runs(c, step) == At(c, step) /\ ~handler[c].blocked

\* The server accepts connections until Shutdown.
Accepting == process \in {"up", "closing"}

\* Configurations.Current: NOT_FOUND until there is a first release.
ReadRelease(c) ==
  /\ At(c, "off") /\ client[c].fetch = "no" /\ Accepting
  /\ stored[Follows[c]] > 0
  /\ handler' = [handler EXCEPT ![c] =
                   [step |-> "read", version |-> stored[Follows[c]], blocked |-> FALSE]]
  /\ UNCHANGED <<hubVars, stored, unsent, client, process, restarts>>

Register(c) ==
  /\ At(c, "read")
  /\ Hub!Subscribe(c, Follows[c], client[c].lastID)
  /\ handler' = [handler EXCEPT ![c].step = "registered"]
  /\ UNCHANGED <<stored, unsent, client, process, restarts>>

\* "ready" and, if the replay is not complete, "resync": they name the release
\* that was read before the subscription and have no event id.
SendReady(c) ==
  LET version == handler[c].version IN
  /\ Runs(c, "registered")
  /\ handler' = [handler EXCEPT ![c].step = "streaming"]
  /\ client' = [client EXCEPT ![c].told = Newest(@, version),
                  ![c].fetch = IF complete[c] THEN "ready" ELSE "change"]
  /\ UNCHANGED <<hubVars, stored, unsent, process, restarts>>

\* The next "config.changed": the replay first, then the channel.
NextEvent(c) ==
  IF replay[c] # <<>> THEN Head(replay[c]) ELSE Head(channel[c].buffer)

SendEvent(c) ==
  LET event == NextEvent(c) IN
  /\ Runs(c, "streaming") /\ client[c].fetch = "no"
  /\ Hub!Take(c)
  /\ client' = [client EXCEPT ![c].fetch = "change", ![c].lastID = event.id,
                              ![c].told = Newest(@, event.version)]
  /\ UNCHANGED <<stored, unsent, handler, process, restarts>>

\* WriteTimeout is 0: a write to a client that does not read returns when the
\* client reads again, if it does.  It is the write of "ready" or "resync", of an
\* event, which is still counted in the stream, or of a heartbeat.
Block(c) ==
  /\ Runs(c, "registered") \/ Runs(c, "streaming")
  /\ handler' = [handler EXCEPT ![c].blocked = TRUE]
  /\ UNCHANGED <<hubVars, stored, unsent, client, process, restarts>>

Unblock(c) ==
  /\ handler[c].blocked
  /\ handler' = [handler EXCEPT ![c].blocked = FALSE]
  /\ UNCHANGED <<hubVars, stored, unsent, client, process, restarts>>

Gone(c) ==
  /\ handler' = [handler EXCEPT ![c] = NoHandler]
  /\ UNCHANGED <<stored, unsent, client, process, restarts>>

\* The handler returns: the client hung up, or a write failed.
HangUp(c) ==
  \/ At(c, "read") /\ Gone(c) /\ UNCHANGED hubVars
  \/ handler[c].step \in {"registered", "streaming"} /\ Gone(c) /\ Hub!Unsubscribe(c)

\* The hub closed the channel: a slow subscriber, or the hub itself is closed.
EndStream(c) == Runs(c, "streaming") /\ Hub!EndOfStream(c) /\ Gone(c)

\* GET .../config, answered 304 when the client already has this version.
Fetch(c) ==
  LET version == stored[Follows[c]] IN
  /\ client[c].fetch # "no" /\ Accepting
  /\ version > 0
  /\ client' = [client EXCEPT ![c].fetch = "no", ![c].config = version,
       ![c].synced = IF client[c].fetch = "change" THEN version ELSE @]
  /\ UNCHANGED <<hubVars, stored, unsent, handler, process, restarts>>

-----------------------------------------------------------------------------
(* The process.                                                            *)

\* SIGTERM: run closes the hub ...
Signal ==
  /\ process = "up"
  /\ Hub!Close
  /\ process' = "closing"
  /\ UNCHANGED <<stored, unsent, handler, client, restarts>>

\* ... and calls server.Shutdown, which closes the listeners.
Shutdown ==
  /\ process = "closing"
  /\ process' = "draining"
  /\ UNCHANGED <<hubVars, stored, unsent, handler, client, restarts>>

\* NewHub, in another process: no subscription is left.
NewHub ==
  /\ eventID' = 0 /\ history' = <<>> /\ log' = <<>>
  /\ groups' = Hub!NoGroups /\ closed' = FALSE
  /\ channel' = [c \in Sub |-> Hub!NoChannel]
  /\ held' = [c \in Sub |-> NoKey]
  /\ asked' = [c \in Sub |-> NoID]
  /\ complete' = [c \in Sub |-> FALSE]
  /\ replay' = [c \in Sub |-> <<>>]
  /\ pos' = [c \in Sub |-> 0]

\* What was in memory is lost: the hub, the handlers, and broadcasts to come.
Stop ==
  /\ process' = "down"
  /\ NewHub
  /\ unsent' = [k \in Key |-> {}]
  /\ handler' = [c \in Sub |-> NoHandler]
  /\ UNCHANGED <<stored, client, restarts>>

Crash == process # "down" /\ Stop

Drained == (\A c \in Sub : At(c, "off")) /\ (\A k \in Key : unsent[k] = {})

\* Mutation: Shutdown is given a context without a deadline.
NoDeadline == FALSE

\* ShutdownTimeout may be over at any moment.
DeadlineExceeded == TRUE

\* Shutdown returns when no request is in flight, or at the deadline.
Exit ==
  /\ process = "draining"
  /\ Drained \/ DeadlineExceeded
  /\ Stop

\* Started again, with an empty hub: event ids start at 1 again.
Start ==
  /\ process = "down" /\ restarts < MaxRestarts
  /\ process' = "up" /\ restarts' = restarts + 1
  /\ UNCHANGED <<hubVars, stored, unsent, handler, client>>

Connect(c) == ReadRelease(c) \/ Register(c)
Write(c) == SendReady(c) \/ SendEvent(c) \/ EndStream(c)

Next ==
  \/ \E k \in Key : Commit(k) \/ \E v \in Version : Broadcast(k, v)
  \/ \E c \in Sub : Connect(c) \/ Write(c) \/ Block(c) \/ Unblock(c) \/ HangUp(c) \/ Fetch(c)
  \/ Signal \/ Shutdown \/ Exit \/ Crash \/ Start

\* A goroutine that can run does, and a client fetches what it was told to.  A write
\* blocks once: when the handler gets to run again and again, it gets on, and select
\* picks any of the cases that are ready, not always the heartbeat.
\* Nothing is assumed of commits, blocked writes, hang-ups, signals, crashes and
\* starts.
Fairness ==
  /\ \A k \in Key, v \in Version : WF_vars(Broadcast(k, v))
  /\ \A c \in Sub : WF_vars(Connect(c)) /\ SF_vars(Write(c)) /\ WF_vars(Fetch(c))
  /\ WF_vars(Shutdown) /\ WF_vars(Exit)

Spec == Init /\ [][Next]_vars

FairSpec == Spec /\ Fairness

-----------------------------------------------------------------------------
(* Safety.                                                                 *)

\* The stream of c is open, c has read it to its end and has fetched.
Idle(c) ==
  /\ At(c, "streaming") /\ channel[c].state = "open"
  /\ replay[c] = <<>> /\ channel[c].buffer = <<>>
  /\ client[c].fetch = "no"

\* Every committed release c follows was broadcast, or its request died first.
Settled(c) == unsent[Follows[c]] = {}

\* A client that has nothing left to read runs with the newest release, though
\* requests broadcast after the commit and out of order, the handler reads the
\* release before it subscribes, slow clients are dropped and hubs forgotten.
FollowerCurrent ==
  \A c \in Sub : Idle(c) /\ Settled(c) => client[c].config = stored[Follows[c]]

\* Having fetched, a client has at least the newest version it was ever told
\* of, by this process or by one before: nothing is announced before it is
\* committed.
FetchedWhatWasTold ==
  \A c \in Sub : client[c].fetch = "no" => client[c].config >= client[c].told

\* A client that reconnects with a Last-Event-ID need not look at "ready": the
\* replay of cached events or "resync" makes it fetch what it has missed.
ResumeSyncs ==
  \A c \in Sub :
    Idle(c) /\ Settled(c) /\ asked[c] # NoID => client[c].synced = stored[Follows[c]]

\* That is so as long as the process that gave out the event id lives.
ResumeSyncsInOneProcess == restarts = 0 => ResumeSyncs

\* A client with an open stream has been told of the newest release: "publish
\* creates a new version and notifies all subscribed clients".
SubscribersNotified ==
  \A c \in Sub : Idle(c) /\ Settled(c) => client[c].told = stored[Follows[c]]

-----------------------------------------------------------------------------
(* Liveness, under FairSpec.                                               *)

\* Releases are bounded, so in the end there is a newest one, and each client
\* comes to run with it and stays there, unless the process is not started again,
\* or the client hangs up again and again or stops to read for good.
ClientsConverge ==
  \A c \in Sub :
    \/ <>[](process = "down")
    \/ []<><<HangUp(c)>>_vars
    \/ <>[]handler[c].blocked
    \/ <>[](client[c].config = stored[Follows[c]])

\* A shutdown comes to its end though a handler may be blocked in a write, where
\* it sees neither that the hub has closed its channel nor that the server waits.
ShutdownEnds == process = "closing" ~> process = "down"
=============================================================================
