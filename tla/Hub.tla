-------------------------------- MODULE Hub ---------------------------------
(***************************************************************************)
(* The event hub, internal/event/hub.go: a bounded history of events and   *)
(* one bounded Go channel per subscription, all under one mutex, so that   *)
(* each method is one step.  The subscriber reads the replay that          *)
(* Subscribe returned, then its channel, without the mutex.                *)
(***************************************************************************)
EXTENDS Naturals, Sequences, FiniteSets

CONSTANTS
  Key,          \* Key(application, environment)
  Sub,          \* subscriptions, each used again once it is closed
  Version,      \* versions an event may carry
  NoID,         \* an empty lastEventID
  BadID,        \* a lastEventID that ParseUint refuses
  NoKey,        \* the key of a subscription that is not in use
  HistorySize,  \* historySize
  ChannelSize,  \* capacity of a subscriber's channel (16)
  MaxEvents     \* bound on the events published

ASSUME HubAssumption ==
  /\ NoKey \notin Key
  /\ NoKey \notin [key: Key, asked: Nat \cup {NoID, BadID}, complete: BOOLEAN, pos: Nat]
  /\ NoID \notin Nat /\ BadID \notin Nat /\ NoID # BadID
  /\ Version \subseteq Nat
  /\ HistorySize \in Nat \ {0}
  /\ ChannelSize \in Nat \ {0}
  /\ MaxEvents \in Nat

VARIABLES
  eventID,   \* Hub.eventID
  history,   \* Hub.history
  groups,    \* Hub.groups: a Go map, so a function on the keys present
  closed,    \* Hub.closed
  channel,   \* channel[s]: [state, buffer] of the channel of s
  held,      \* held[s]: the key of s until its Close, then NoKey
  asked,     \* the lastEventID that s gave to Subscribe
  complete,  \* what Subscribe returned to s ...
  replay,    \* ... and the events of it that s has still to read
  pos,       \* id of the last event s has read; the id it started after
  log        \* history variable: every event ever published, by id

hubVars == <<eventID, history, groups, closed, log>>
subVars == <<channel, held, asked, complete, replay, pos>>
vars == <<hubVars, subVars>>

Event == [id: Nat, key: Key, version: Version]

\* A channel in state "panic" has been closed, or sent on, after its close.
Channel == [state: {"none", "open", "closed", "panic"}, buffer: Seq(Event)]

LastEventID == Nat \cup {NoID, BadID}

TypeOK ==
  /\ eventID \in Nat
  /\ history \in Seq(Event)
  /\ DOMAIN groups \subseteq Key /\ \A k \in DOMAIN groups : groups[k] \subseteq Sub
  /\ closed \in BOOLEAN
  /\ channel \in [Sub -> Channel]
  /\ \A s \in Sub : Len(channel[s].buffer) <= ChannelSize
  /\ held \in [Sub -> Key \cup {NoKey}]
  /\ asked \in [Sub -> LastEventID]
  /\ complete \in [Sub -> BOOLEAN]
  /\ replay \in [Sub -> Seq(Event)]
  /\ pos \in [Sub -> Nat]
  /\ log \in Seq(Event)

NoChannel == [state |-> "none", buffer |-> <<>>]
OpenChannel == [state |-> "open", buffer |-> <<>>]
ClosedChannel == [state |-> "closed", buffer |-> <<>>]

\* make(map[string]map[uint64]*subscriber)
NoGroups == [k \in {} |-> {}]

Init ==
  /\ eventID = 0
  /\ history = <<>>
  /\ groups = NoGroups
  /\ closed = FALSE
  /\ channel = [s \in Sub |-> NoChannel]
  /\ held = [s \in Sub |-> NoKey]
  /\ asked = [s \in Sub |-> NoID]
  /\ complete = [s \in Sub |-> FALSE]
  /\ replay = [s \in Sub |-> <<>>]
  /\ pos = [s \in Sub |-> 0]
  /\ log = <<>>

-----------------------------------------------------------------------------
(* Go channels and maps.                                                   *)

Send(c, event) ==
  IF c.state = "open" THEN [c EXCEPT !.buffer = Append(@, event)]
  ELSE [c EXCEPT !.state = "panic"]

\* Mutation: the channel of a subscriber that is forgotten stays open.
LeftOpen(c) == c

CloseChannel(c) ==
  [c EXCEPT !.state = IF c.state = "open" THEN "closed" ELSE "panic"]

\* Mutation: one event more than the capacity is accepted.
FullTooLate(s) == Len(channel[s].buffer) > ChannelSize

Full(s) == Len(channel[s].buffer) >= ChannelSize

\* Reading a key that is not in the map gives the nil map.
Group(k) == IF k \in DOMAIN groups THEN groups[k] ELSE {}

SetGroup(k, members) ==
  [j \in DOMAIN groups \cup {k} |-> IF j = k THEN members ELSE groups[j]]

DeleteGroup(k) == [j \in DOMAIN groups \ {k} |-> groups[j]]

-----------------------------------------------------------------------------
(* Publish                                                                 *)

\* Mutation: the newest event is the one that is dropped.
KeepOldest(events) ==
  IF Len(events) > HistorySize THEN SubSeq(events, 1, HistorySize) ELSE events

Trim(events) ==
  IF Len(events) > HistorySize
  THEN SubSeq(events, Len(events) - HistorySize + 1, Len(events))
  ELSE events

\* Mutation: a dropped subscriber stays registered.
DropNone(k, dropped) == SetGroup(k, Group(k))

\* Removes the dropped subscribers; an emptied group stays in the map.
Drop(k, dropped) == SetGroup(k, Group(k) \ dropped)

Publish(k, v) ==
  LET event == [id |-> eventID + 1, key |-> k, version |-> v]
      dropped == {s \in Group(k) : Full(s)}
  IN
  \/ closed /\ UNCHANGED vars
  \/ /\ ~closed
     /\ eventID' = eventID + 1
     /\ history' = Trim(Append(history, event))
     /\ log' = Append(log, event)
     /\ channel' = [s \in Sub |->
          IF s \in dropped THEN CloseChannel(channel[s])
          ELSE IF s \in Group(k) THEN Send(channel[s], event) ELSE channel[s]]
     /\ groups' = IF k \in DOMAIN groups THEN Drop(k, dropped) ELSE groups
     /\ UNCHANGED <<closed, held, asked, complete, replay, pos>>

-----------------------------------------------------------------------------
(* Subscribe                                                               *)

\* Mutation: a history that starts two events later still counts as complete.
EvictedLate(last) == history # <<>> /\ last + 2 < history[1].id

\* An event after last may no longer be in the history.
Evicted(last) == history # <<>> /\ last + 1 < history[1].id

\* The second result of replayLocked
Complete(last) == last = NoID \/ (last # BadID /\ ~Evicted(last))

\* The loop over the events: those of k with an id above last, in their order.
After(events, k, last) ==
  LET picked[i \in 0 .. Len(events)] ==
        IF i = 0 THEN <<>>
        ELSE IF events[i].id > last /\ events[i].key = k
             THEN Append(picked[i - 1], events[i])
             ELSE picked[i - 1]
  IN  picked[Len(events)]

\* Mutation: the event the subscriber named is replayed to it.
ReplayFrom(k, last) ==
  IF last = NoID \/ ~Complete(last) THEN <<>>
  ELSE SelectSeq(history, LAMBDA event : event.id >= last /\ event.key = k)

\* Mutation: the first event that was missed is left out.
ReplayAfterNext(k, last) ==
  IF last = NoID \/ ~Complete(last) THEN <<>>
  ELSE After(history, k, last + 1)

\* The first result of replayLocked
Replay(k, last) ==
  IF last = NoID \/ ~Complete(last) THEN <<>>
  ELSE After(history, k, last)

Subscribe(s, k, last) ==
  LET whole == ~closed /\ Complete(last) IN
  /\ held[s] = NoKey
  /\ held' = [held EXCEPT ![s] = k]
  /\ asked' = [asked EXCEPT ![s] = last]
  /\ complete' = [complete EXCEPT ![s] = whole]
  /\ pos' = [pos EXCEPT ![s] = IF whole /\ last # NoID THEN last ELSE eventID]
  /\ IF closed
     THEN /\ channel' = [channel EXCEPT ![s] = ClosedChannel]
          /\ replay' = [replay EXCEPT ![s] = <<>>]
          /\ UNCHANGED groups
     ELSE /\ channel' = [channel EXCEPT ![s] = OpenChannel]
          /\ replay' = [replay EXCEPT ![s] = Replay(k, last)]
          /\ groups' = SetGroup(k, Group(k) \cup {s})
  /\ UNCHANGED <<eventID, history, closed, log>>

\* The subscriber reads the replay first, then its channel, which can still
\* be read after it was closed.
Take(s) ==
  /\ held[s] # NoKey
  /\ \/ /\ replay[s] # <<>>
        /\ pos' = [pos EXCEPT ![s] = Head(replay[s]).id]
        /\ replay' = [replay EXCEPT ![s] = Tail(@)]
        /\ UNCHANGED channel
     \/ /\ replay[s] = <<>> /\ channel[s].buffer # <<>>
        /\ pos' = [pos EXCEPT ![s] = Head(channel[s].buffer).id]
        /\ channel' = [channel EXCEPT ![s].buffer = Tail(@)]
        /\ UNCHANGED replay
  /\ UNCHANGED <<hubVars, held, asked, complete>>

-----------------------------------------------------------------------------
(* Subscription.Close, which calls unsubscribe once.                       *)

\* Mutation: an empty group is left in the map.
KeepGroup(k, members) == SetGroup(k, members)

\* len(group) == 0 holds for the nil map too.
Shrink(k, members) == IF members = {} THEN DeleteGroup(k) ELSE SetGroup(k, members)

\* Mutation: the channel is closed without looking the subscriber up.
AlwaysClose(s, k) == CloseChannel(channel[s])

Leave(s, k) == IF s \in Group(k) THEN CloseChannel(channel[s]) ELSE channel[s]

\* Nobody reads the channel any more.
Discard(c) == IF c.state = "panic" THEN c ELSE NoChannel

Unsubscribe(s) ==
  LET k == held[s] IN
  /\ k # NoKey
  /\ channel' = [channel EXCEPT ![s] = Discard(Leave(s, k))]
  /\ groups' = Shrink(k, Group(k) \ {s})
  /\ held' = [held EXCEPT ![s] = NoKey]
  /\ asked' = [asked EXCEPT ![s] = NoID]
  /\ complete' = [complete EXCEPT ![s] = FALSE]
  /\ replay' = [replay EXCEPT ![s] = <<>>]
  /\ pos' = [pos EXCEPT ![s] = 0]
  /\ UNCHANGED <<eventID, history, closed, log>>

-----------------------------------------------------------------------------
(* Hub.Close                                                               *)

Registered == {s \in Sub : \E k \in DOMAIN groups : s \in groups[k]}

\* Mutation: the channels are left open when the groups are forgotten.
CloseNone(registered) == channel

CloseAll(registered) ==
  [s \in Sub |-> IF s \in registered THEN CloseChannel(channel[s]) ELSE channel[s]]

Close ==
  /\ ~closed
  /\ closed' = TRUE
  /\ channel' = CloseAll(Registered)
  /\ groups' = NoGroups
  /\ UNCHANGED <<eventID, history, log, held, asked, complete, replay, pos>>

-----------------------------------------------------------------------------
\* A subscriber names no event, something else, or an event of this hub: ids
\* that another hub gave out before a restart are the matter of Notification.
Next ==
  \/ \E k \in Key, v \in Version : eventID < MaxEvents /\ Publish(k, v)
  \/ Close
  \/ \E s \in Sub :
       \/ \E k \in Key, last \in {NoID, BadID} \cup 0 .. eventID : Subscribe(s, k, last)
       \/ Take(s)
       \/ Unsubscribe(s)

\* The range loop of the handler has ended: it returns, and its deferred Close runs.
EndOfStream(s) ==
  /\ channel[s].state = "closed" /\ channel[s].buffer = <<>> /\ replay[s] = <<>>
  /\ Unsubscribe(s)

\* A handler keeps reading its stream, and returns when it has ended.
Fairness == \A s \in Sub : WF_vars(Take(s)) /\ WF_vars(EndOfStream(s))

Spec == Init /\ [][Next]_vars

FairSpec == Spec /\ Fairness

-----------------------------------------------------------------------------
(* Safety.                                                                 *)

\* No channel is closed twice and nothing is sent on a closed one, which would
\* panic, however Publish, unsubscribe and Hub.Close follow each other.
NoPanic == \A s \in Sub : channel[s].state # "panic"

\* The groups hold exactly the subscribers whose channel is open, each under
\* its own key.
RegisteredIffOpen ==
  \A s \in Sub :
    /\ channel[s].state = "open" <=> s \in Registered
    /\ \A k \in DOMAIN groups : s \in groups[k] => k = held[s]

\* A key stays in the map only while a subscription of that key is held.
GroupsReclaimed == \A k \in DOMAIN groups : \E s \in Sub : held[s] = k

\* The history is the newest end of the log, as long as it may be, and the id
\* of an event is its place in the log.
HistoryWindow ==
  /\ eventID = Len(log)
  /\ \A i \in DOMAIN log : log[i].id = i
  /\ LET n == IF Len(log) < HistorySize THEN Len(log) ELSE HistorySize
     IN  history = SubSeq(log, Len(log) - n + 1, Len(log))

\* The events of the key of s that s has not read.
Owed(s) == After(log, held[s], pos[s])

\* What a subscriber has still to read, replay and channel together, is all of
\* the events it is owed, in order and without a duplicate; once it has been
\* dropped, it is the beginning of them.
StreamExact ==
  \A s \in Sub : held[s] # NoKey =>
    LET rest == replay[s] \o channel[s].buffer IN
    /\ Len(rest) <= Len(Owed(s)) /\ rest = SubSeq(Owed(s), 1, Len(rest))
    /\ channel[s].state = "open" => rest = Owed(s)

-----------------------------------------------------------------------------
(* Liveness, under FairSpec.                                               *)

\* Closing the hub ends every stream: each handler that holds a subscription
\* gives it back, which is what server.Shutdown waits for.
StreamsEndAfterClose ==
  \A s \in Sub : (closed /\ held[s] # NoKey) ~> (held[s] = NoKey)

-----------------------------------------------------------------------------
(* Refinement.                                                             *)

Stream(s) ==
  IF held[s] = NoKey THEN NoKey
  ELSE [key |-> held[s], asked |-> asked[s], complete |-> complete[s], pos |-> pos[s]]

Log == INSTANCE EventLog WITH
  log <- [i \in DOMAIN log |-> log[i].key],
  reader <- [s \in Sub |-> Stream(s)],
  Off <- NoKey

\* A subscriber told that it is complete receives the events after the one it
\* named, and any subscriber the next event of its key, or nothing more.
ImplementsEventLog == Log!Spec
=============================================================================
