------------------------- MODULE NotificationProofs -------------------------
(***************************************************************************)
(* Proofs about Notification, for any number of clients, releases and      *)
(* restarts: a client that is idle runs with the newest release, nothing   *)
(* is announced before it is committed, and a client that resumes in the   *)
(* process that gave it its last event id misses nothing.                  *)
(***************************************************************************)
EXTENDS Notification, TLAPS

HS == INSTANCE HubStreams

-----------------------------------------------------------------------------
(* The hub as HubStreams knows it.                                         *)

LEMMA HubAssumed == HS!HubAssumption
PROOF
  BY NotificationAssumption DEF Hub!HubAssumption, HS!HubAssumption

\* Both instances of the hub have the same steps.
LEMMA SameHub ==
  /\ Hub!Init <=> HS!Init
  /\ \A k, v : Hub!Publish(k, v) <=> HS!Publish(k, v)
  /\ \A s, k, last : Hub!Subscribe(s, k, last) <=> HS!Subscribe(s, k, last)
  /\ \A s : Hub!Take(s) <=> HS!Take(s)
  /\ \A s : Hub!Unsubscribe(s) <=> HS!Unsubscribe(s)
  /\ Hub!Close <=> HS!Close
  /\ Hub!TypeOK <=> HS!TypeOK
PROOF
  <1>1. Hub!Init <=> HS!Init
    BY DEF Hub!Init, HS!Init, Hub!NoGroups, HS!NoGroups, Hub!NoChannel, HS!NoChannel
  <1>2. \A k, v : Hub!Publish(k, v) <=> HS!Publish(k, v)
    BY DEF Hub!Publish, HS!Publish, Hub!Full, HS!Full, Hub!Send, HS!Send, Hub!CloseChannel,
           HS!CloseChannel, Hub!Group, HS!Group, Hub!Drop, HS!Drop, Hub!SetGroup,
           HS!SetGroup, Hub!Trim, HS!Trim, Hub!vars, HS!vars, Hub!hubVars, HS!hubVars,
           Hub!subVars, HS!subVars
  <1>3. \A s, k, last : Hub!Subscribe(s, k, last) <=> HS!Subscribe(s, k, last)
    BY DEF Hub!Subscribe, HS!Subscribe, Hub!ClosedChannel, HS!ClosedChannel,
           Hub!OpenChannel, HS!OpenChannel, Hub!Complete, HS!Complete, Hub!Evicted,
           HS!Evicted, Hub!Replay, HS!Replay, Hub!After, HS!After, Hub!SetGroup,
           HS!SetGroup, Hub!Group, HS!Group
  <1>4. \A s : Hub!Take(s) <=> HS!Take(s)
    BY DEF Hub!Take, HS!Take, Hub!hubVars, HS!hubVars
  <1>5. \A s : Hub!Unsubscribe(s) <=> HS!Unsubscribe(s)
    BY DEF Hub!Unsubscribe, HS!Unsubscribe, Hub!Group, HS!Group, Hub!Shrink, HS!Shrink,
           Hub!DeleteGroup, HS!DeleteGroup, Hub!SetGroup, HS!SetGroup, Hub!Leave, HS!Leave,
           Hub!Discard, HS!Discard, Hub!CloseChannel, HS!CloseChannel,
           Hub!NoChannel, HS!NoChannel
  <1>6. Hub!Close <=> HS!Close
    BY DEF Hub!Close, HS!Close, Hub!CloseAll, HS!CloseAll, Hub!Registered, HS!Registered,
           Hub!NoGroups, HS!NoGroups, Hub!CloseChannel, HS!CloseChannel
  <1>7. Hub!TypeOK <=> HS!TypeOK
    BY DEF Hub!TypeOK, HS!TypeOK, Hub!Event, HS!Event, Hub!Channel, HS!Channel,
           Hub!LastEventID, HS!LastEventID
  <1> QED BY <1>1, <1>2, <1>3, <1>4, <1>5, <1>6, <1>7

\* What holds of a new hub holds of the hub of a new process.
LEMMA NewHubIsInit ==
  /\ HS!Init => HS!HubInv /\ HS!StreamTyped
  /\ NewHub => (HS!HubInv /\ HS!StreamTyped)'
PROOF
  <1>1. HS!Init => HS!HubInv /\ HS!StreamTyped
    BY HubAssumed, HS!StreamInvInit DEF HS!StreamInv
  <1>2. NewHub => HS!Init'
    BY DEF NewHub, HS!Init, Hub!NoGroups, HS!NoGroups, Hub!NoChannel, HS!NoChannel
  <1>3. HS!Init' => (HS!HubInv /\ HS!StreamTyped)'
    BY <1>1, PTL
  <1> QED BY <1>1, <1>2, <1>3

-----------------------------------------------------------------------------
(* The invariant.                                                          *)

HubOK == HS!HubInv /\ HS!StreamTyped

OwnTyped ==
  /\ stored \in [Key -> Nat]
  /\ unsent \in [Key -> SUBSET Version]
  /\ handler \in [Sub -> Handler]
  /\ client \in [Sub -> Client]
  /\ process \in Process
  /\ restarts \in 0 .. MaxRestarts

\* The hub is closed by run alone, and no handler outlives the process.
ClosedByRun ==
  /\ closed <=> process \in {"closing", "draining"}
  /\ process = "down" => \A c \in Sub : At(c, "off")

\* Nothing is announced before it is committed, and in the process that has
\* committed every release there is none that is lost.
Announced ==
  /\ \A k \in Key : \A v \in unsent[k] : v <= stored[k]
  /\ \A e \in HS!Published : e.version <= stored[e.key]
  /\ restarts = 0 /\ process = "up" =>
       \A k \in Key : \A v \in 1 .. stored[k] :
         v \in unsent[k] \/ \E e \in HS!Published : e.key = k /\ e.version = v

Serving(c) == handler[c].step \in {"registered", "streaming"}

Open(c) == channel[c].state = "open"

\* A handler holds its subscription from Subscribe until it returns.
HeldIffServed(c) == held[c] = IF Serving(c) THEN Follows[c] ELSE NoKey

\* What c knows, or is about to be told, has been committed.
ToldCommitted(c) ==
  LET newest == stored[Follows[c]] IN
  /\ handler[c].version <= newest /\ client[c].told <= newest /\ client[c].synced <= newest
  /\ client[c].fetch = "no" => client[c].told <= client[c].config

\* What a stream still brings was published under the key of its client.
UnreadPublished(c) ==
  Serving(c) => HS!Unread(c) \subseteq {e \in HS!Published : e.key = Follows[c]}

\* A client connects when it has fetched, and is told nothing before "ready".
FetchedFirst(c) == handler[c].step \in {"read", "registered"} => client[c].fetch = "no"

\* Version v will be sent to c, if its stream stays open.
Pending(c, v) == v \in unsent[Follows[c]] \/ \E e \in HS!Unread(c) : e.version = v

\* A client that has fetched after "ready" and is behind will be told.
NewestPending(c) ==
  /\ handler[c].step = "streaming" /\ Open(c) /\ client[c].fetch = "no"
  /\ client[c].config # stored[Follows[c]]
  => Pending(c, stored[Follows[c]])

\* The first process has given c its last event id, and c has fetched after it.
SeenSynced(c) ==
  restarts = 0 /\ process # "down" /\ client[c].lastID # NoID =>
    /\ client[c].lastID <= eventID
    /\ client[c].fetch # "change" =>
         \A e \in HS!Published :
           e.id <= client[c].lastID /\ e.key = Follows[c] => e.version <= client[c].synced

\* A stream that was resumed in the first process brings all that c has missed,
\* or c must fetch, or will be told "resync".
MissedPending(c) ==
  restarts = 0 /\ Serving(c) /\ Open(c) /\ asked[c] # NoID =>
    \/ client[c].fetch = "change"
    \/ At(c, "registered") /\ ~complete[c]
    \/ \A v \in 1 .. stored[Follows[c]] : v <= client[c].synced \/ Pending(c, v)

ClientInv(c) ==
  /\ HeldIffServed(c) /\ UnreadPublished(c) /\ ToldCommitted(c) /\ FetchedFirst(c)
  /\ NewestPending(c) /\ SeenSynced(c) /\ MissedPending(c)

NotificationInv ==
  HubOK /\ OwnTyped /\ ClosedByRun /\ Announced /\ \A c \in Sub : ClientInv(c)

-----------------------------------------------------------------------------
(* What leaves the invariant alone.                                        *)

LEMMA HubFrame ==
  ASSUME HubOK, UNCHANGED hubVars
  PROVE  /\ HubOK' /\ HS!Published' = HS!Published
         /\ UNCHANGED <<closed, eventID, held, asked, complete, channel>>
         /\ \A c \in Sub : HS!Unread(c)' = HS!Unread(c)
PROOF
  <1>1. UNCHANGED <<eventID, history, groups, closed, log, channel, held, asked, complete,
                    replay, pos>>
    BY DEF hubVars
  <1>2. HS!HubInv'
    BY <1>1
    DEF HubOK, HS!HubInv, HS!HubTyped, HS!ClosedIsEmpty, HS!NoPanic, HS!RegisteredIffOpen,
        HS!Registered, HS!GroupsReclaimed, HS!HistoryWindow
  <1>3. HS!StreamTyped'
    BY <1>1 DEF HubOK, HS!StreamTyped
  <1>4. HS!Published' = HS!Published
    BY <1>1 DEF HS!Published, HS!In
  <1>5. \A c \in Sub : HS!Unread(c)' = HS!Unread(c)
    BY <1>1 DEF HS!Unread, HS!In, HS!Rest
  <1> QED BY <1>1, <1>2, <1>3, <1>4, <1>5 DEF HubOK

\* A step that does not concern c.
LEMMA ClientFrame ==
  ASSUME NEW c \in Sub, ClientInv(c), handler'[c] = handler[c], client'[c] = client[c],
         UNCHANGED <<stored, unsent, process, restarts, eventID>>,
         HS!Published' = HS!Published, HS!Unread(c)' = HS!Unread(c),
         held'[c] = held[c], asked'[c] = asked[c], complete'[c] = complete[c],
         channel'[c].state = channel[c].state
  PROVE  ClientInv(c)'
PROOF
  <1>1. HeldIffServed(c)' /\ UnreadPublished(c)' /\ FetchedFirst(c)' /\ ToldCommitted(c)'
    BY DEF ClientInv, HeldIffServed, UnreadPublished, FetchedFirst, ToldCommitted, Serving
  <1>2. \A v : Pending(c, v) <=> Pending(c, v)'
    BY DEF Pending
  <1>3. NewestPending(c)' /\ MissedPending(c)'
    BY <1>2 DEF ClientInv, NewestPending, MissedPending, Open, Serving, At
  <1>4. SeenSynced(c)'
    BY DEF ClientInv, SeenSynced
  <1> QED BY <1>1, <1>3, <1>4 DEF ClientInv

LEMMA AnnouncedFrame ==
  ASSUME Announced, UNCHANGED <<stored, unsent, process, restarts>>,
         HS!Published' = HS!Published
  PROVE  Announced'
PROOF
  BY DEF Announced

\* The types, as far as the steps need them.
LEMMA OwnTypes ==
  ASSUME OwnTyped
  PROVE  /\ Follows \in [Sub -> Key]
         /\ \A k \in Key : stored[k] \in Nat /\ unsent[k] \subseteq Nat
         /\ \A c \in Sub : /\ handler[c].version \in Nat /\ client[c].config \in Nat
                           /\ client[c].synced \in Nat /\ client[c].told \in Nat
                           /\ client[c].lastID \in Nat \cup {NoID}
PROOF
  BY NotificationAssumption DEF OwnTyped, Handler, Client, Hub!HubAssumption

\* Events are numbered up to the last one.
LEMMA PublishedIDs ==
  ASSUME HubOK
  PROVE  \A e \in HS!Published : e.id <= eventID
PROOF
  BY DEF HubOK, HS!HubInv, HS!HubTyped, HS!HistoryWindow, HS!Published, HS!In

\* Who has read the replay and the channel has nothing unread.
LEMMA IdleIsRead ==
  ASSUME NEW c \in Sub, Idle(c)
  PROVE  HS!Unread(c) = {}
PROOF
  <1>1. HS!Rest(c) = <<>> \o <<>>
    BY DEF Idle, HS!Rest
  <1>2. Len(HS!Rest(c)) = 0
    BY <1>1
  <1> QED BY <1>2 DEF HS!Unread, HS!In

\* Nobody is registered with a closed hub.
LEMMA ClosedIsNotOpen ==
  ASSUME HubOK, closed
  PROVE  \A c \in Sub : ~Open(c)
PROOF
  BY DEF HubOK, HS!HubInv, HS!ClosedIsEmpty, HS!RegisteredIffOpen, HS!Registered, Open

-----------------------------------------------------------------------------
(* Releases.                                                               *)

LEMMA CommitKeeps ==
  ASSUME NotificationInv, NEW k \in Key, Commit(k)
  PROVE  NotificationInv'
PROOF
  <1>1. /\ HubOK /\ OwnTyped /\ ClosedByRun /\ Announced /\ \A c \in Sub : ClientInv(c)
    BY DEF NotificationInv
  <1>2. /\ UNCHANGED hubVars /\ UNCHANGED <<handler, client, process, restarts>>
        /\ stored[k] + 1 \in Version
        /\ stored' = [stored EXCEPT ![k] = stored[k] + 1]
        /\ unsent' = [unsent EXCEPT ![k] = unsent[k] \cup {stored[k] + 1}]
    BY DEF Commit
  <1>3. /\ HubOK' /\ HS!Published' = HS!Published
        /\ UNCHANGED <<closed, eventID, held, asked, complete, channel>>
        /\ \A c \in Sub : HS!Unread(c)' = HS!Unread(c)
    BY <1>1, <1>2, HubFrame
  <1>4. /\ \A j \in Key \ {k} : stored'[j] = stored[j] /\ unsent'[j] = unsent[j]
        /\ stored'[k] = stored[k] + 1 /\ unsent'[k] = unsent[k] \cup {stored[k] + 1}
        /\ \A j \in Key : stored[j] \in Nat /\ unsent[j] \subseteq Nat
    BY <1>1, <1>2, OwnTypes DEF OwnTyped
  <1>5. OwnTyped'
    BY <1>1, <1>2, <1>4 DEF OwnTyped
  <1>6. ClosedByRun'
    BY <1>1, <1>2, <1>3 DEF ClosedByRun, At
  <1>7. Announced'
    <2>1. \A j \in Key : \A v \in unsent'[j] : v <= stored'[j]
      BY <1>1, <1>4 DEF Announced
    <2>2. \A e \in HS!Published : e.version <= stored'[e.key]
      <3>1. \A e \in HS!Published : e.key \in Key /\ e.version \in Nat
        BY HubAssumed DEF HS!Published, HS!Event, HS!HubAssumption
      <3> QED BY <1>1, <1>4, <3>1 DEF Announced
    <2>3. restarts = 0 /\ process = "up" =>
            \A j \in Key : \A v \in 1 .. stored'[j] :
              v \in unsent'[j] \/ \E e \in HS!Published : e.key = j /\ e.version = v
      BY <1>1, <1>4 DEF Announced
    <2> QED BY <1>2, <1>3, <2>1, <2>2, <2>3 DEF Announced
  <1>8. ASSUME NEW c \in Sub PROVE ClientInv(c)'
    <2>1. /\ ClientInv(c) /\ Follows[c] \in Key
          /\ stored[Follows[c]] \in Nat /\ stored[Follows[c]] <= stored'[Follows[c]]
          /\ unsent[Follows[c]] \subseteq unsent'[Follows[c]]
          /\ \A v \in 1 .. stored'[Follows[c]] :
               v \in 1 .. stored[Follows[c]] \/ v \in unsent'[Follows[c]]
      BY <1>1, <1>4, OwnTypes
    <2>2. /\ handler[c].version \in Nat /\ client[c].told \in Nat /\ client[c].synced \in Nat
      BY <1>1, OwnTypes
    <2>3. HeldIffServed(c)' /\ UnreadPublished(c)' /\ FetchedFirst(c)'
      BY <1>2, <1>3, <2>1 DEF ClientInv, HeldIffServed, UnreadPublished, FetchedFirst, Serving
    <2>4. ToldCommitted(c)'
      <3>1. stored'[Follows[c]] \in Nat
        BY <1>5, <2>1 DEF OwnTyped
      <3> QED BY <1>2, <1>3, <2>1, <2>2, <3>1 DEF ClientInv, ToldCommitted, Serving
    <2>5. SeenSynced(c)'
      BY <1>2, <1>3, <2>1 DEF ClientInv, SeenSynced
    <2>6. \A v : Pending(c, v) => Pending(c, v)'
      BY <1>3, <2>1 DEF Pending
    <2>7. NewestPending(c)'
      <3>1. CASE Follows[c] = k
        <4>1. Pending(c, stored[Follows[c]])'
          BY <1>4, <3>1 DEF Pending
        <4> QED BY <4>1 DEF NewestPending, Pending
      <3>2. CASE Follows[c] # k
        <4>1. stored'[Follows[c]] = stored[Follows[c]]
          BY <1>4, <2>1, <3>2
        <4> QED BY <1>2, <1>3, <2>1, <2>6, <4>1 DEF ClientInv, NewestPending, Open
      <3> QED BY <3>1, <3>2
    <2>8. MissedPending(c)'
      <3>1. \A v \in unsent'[Follows[c]] : Pending(c, v)'
        BY DEF Pending
      <3> QED BY <1>2, <1>3, <2>1, <2>6, <3>1 DEF ClientInv, MissedPending, Open, Serving, At
    <2> QED BY <2>3, <2>4, <2>5, <2>7, <2>8 DEF ClientInv
  <1> QED BY <1>3, <1>5, <1>6, <1>7, <1>8 DEF NotificationInv

\* A closed hub publishes nothing: the step only forgets what was to be sent.
LEMMA BroadcastToClosed ==
  ASSUME NotificationInv, NEW k \in Key, NEW v \in Version, Broadcast(k, v), closed
  PROVE  NotificationInv'
PROOF
  <1>1. /\ HubOK /\ OwnTyped /\ ClosedByRun /\ Announced /\ \A c \in Sub : ClientInv(c)
    BY DEF NotificationInv
  <1>2. UNCHANGED hubVars
    BY SameHub DEF Broadcast, HS!Publish, HS!vars, HS!hubVars, HS!subVars, hubVars
  <1>3. /\ UNCHANGED <<stored, handler, client, process, restarts>>
        /\ unsent' = [unsent EXCEPT ![k] = unsent[k] \ {v}]
    BY DEF Broadcast
  <1>4. /\ HubOK' /\ HS!Published' = HS!Published
        /\ UNCHANGED <<closed, eventID, held, asked, complete, channel>>
        /\ \A c \in Sub : HS!Unread(c)' = HS!Unread(c)
    BY <1>1, <1>2, HubFrame
  <1>5. \A j \in Key : unsent'[j] \subseteq unsent[j]
    BY <1>1, <1>3 DEF OwnTyped
  <1>6. OwnTyped' /\ ClosedByRun'
    BY <1>1, <1>3, <1>4 DEF OwnTyped, ClosedByRun, At
  <1>7. Announced'
    BY <1>1, <1>3, <1>4, <1>5 DEF Announced, ClosedByRun
  <1>8. ASSUME NEW c \in Sub PROVE ClientInv(c)'
    <2>1. ClientInv(c) /\ ~Open(c)
      BY <1>1, ClosedIsNotOpen
    <2>2. HeldIffServed(c)' /\ UnreadPublished(c)' /\ FetchedFirst(c)' /\ ToldCommitted(c)' /\ SeenSynced(c)'
      BY <1>3, <1>4, <2>1
      DEF ClientInv, HeldIffServed, UnreadPublished, FetchedFirst, ToldCommitted, SeenSynced, Serving
    <2>3. NewestPending(c)' /\ MissedPending(c)'
      BY <1>4, <2>1 DEF NewestPending, MissedPending, Open
    <2> QED BY <2>2, <2>3 DEF ClientInv
  <1> QED BY <1>4, <1>6, <1>7, <1>8 DEF NotificationInv

\* What was to be sent is in the log now, and on its way to every open stream.
LEMMA BroadcastToOpen ==
  ASSUME NotificationInv, NEW k \in Key, NEW v \in Version, Broadcast(k, v), ~closed
  PROVE  NotificationInv'
PROOF
  <1>1. /\ HubOK /\ OwnTyped /\ ClosedByRun /\ Announced /\ \A c \in Sub : ClientInv(c)
    BY DEF NotificationInv
  <1>2. /\ UNCHANGED <<stored, handler, client, process, restarts>>
        /\ v \in unsent[k] /\ unsent' = [unsent EXCEPT ![k] = unsent[k] \ {v}]
        /\ HS!Publish(k, v)
    BY SameHub DEF Broadcast
  <1>3. PICK event \in HS!Event :
          /\ event.id = eventID + 1 /\ event.key = k /\ event.version = v
          /\ eventID' = eventID + 1
          /\ UNCHANGED <<closed, held, asked, complete>>
          /\ HS!Published' = HS!Published \cup {event}
          /\ \A s \in Sub :
               /\ HS!Unread(s) \subseteq HS!Unread(s)'
               /\ HS!Unread(s)' \subseteq
                    IF held[s] = k THEN HS!Unread(s) \cup {event} ELSE HS!Unread(s)
               /\ channel'[s].state = "open" =>
                    channel[s].state = "open" /\ (held[s] = k => event \in HS!Unread(s)')
    BY <1>1, <1>2, HubAssumed, HS!PublishEffect DEF HubOK
  <1>4. HubOK'
    <2>1. HS!HubInv'
      BY <1>1, <1>2, HubAssumed, HS!PublishKeepsAll DEF HubOK
    <2>2. HS!StreamTyped'
      BY <1>1, <1>2, HubAssumed, HS!OthersTypes DEF HubOK
    <2> QED BY <2>1, <2>2 DEF HubOK
  <1>5. /\ \A j \in Key \ {k} : unsent'[j] = unsent[j]
        /\ unsent'[k] = unsent[k] \ {v} /\ v <= stored[k]
    BY <1>1, <1>2 DEF OwnTyped, Announced
  <1>6. OwnTyped' /\ ClosedByRun'
    BY <1>1, <1>2, <1>3 DEF OwnTyped, ClosedByRun, At
  <1>7. Announced'
    BY <1>1, <1>2, <1>3, <1>5 DEF Announced
  <1>8. ASSUME NEW c \in Sub PROVE ClientInv(c)'
    <2>1. ClientInv(c) /\ HeldIffServed(c) /\ Follows[c] \in Key
      BY <1>1, OwnTypes DEF ClientInv
    <2>2. Serving(c) => held[c] = Follows[c]
      BY <2>1 DEF HeldIffServed
    <2>3. HeldIffServed(c)' /\ UnreadPublished(c)' /\ FetchedFirst(c)'
      BY <1>2, <1>3, <2>1 DEF ClientInv, HeldIffServed, UnreadPublished, FetchedFirst, Serving
    <2>4. ToldCommitted(c)'
      BY <1>2, <2>1 DEF ClientInv, ToldCommitted
    <2>5. SeenSynced(c)'
      <3>1. client[c].lastID \in Nat \cup {NoID} /\ eventID \in Nat
        BY <1>1, OwnTypes DEF HubOK, HS!HubInv, HS!HubTyped
      <3>2. client[c].lastID # NoID /\ client[c].lastID <= eventID =>
              client[c].lastID <= eventID + 1 /\ ~(eventID + 1 <= client[c].lastID)
        BY <3>1
      <3> QED BY <1>2, <1>3, <2>1, <3>2 DEF ClientInv, SeenSynced
    <2>6. Open(c)' => Open(c)
      BY <1>3 DEF Open
    <2>7. ASSUME Open(c)', Serving(c), NEW u, Pending(c, u) PROVE Pending(c, u)'
      <3>1. CASE u \in unsent[Follows[c]] /\ u = v /\ Follows[c] = k
        BY <1>3, <2>2, <2>7, <3>1 DEF Pending, Open
      <3>2. CASE u \in unsent[Follows[c]] /\ ~(u = v /\ Follows[c] = k)
        BY <1>5, <2>1, <3>2 DEF Pending
      <3>3. CASE \E e \in HS!Unread(c) : e.version = u
        BY <1>3, <3>3 DEF Pending
      <3> QED BY <2>7, <3>1, <3>2, <3>3 DEF Pending
    <2>8. NewestPending(c)'
      <3>1. handler[c].step = "streaming" => Serving(c)
        BY DEF Serving
      <3> QED BY <1>2, <2>1, <2>6, <2>7, <3>1 DEF ClientInv, NewestPending
    <2>9. MissedPending(c)'
      <3> SUFFICES ASSUME (restarts = 0 /\ Serving(c) /\ Open(c) /\ asked[c] # NoID)'
                   PROVE  (\/ client[c].fetch = "change"
                           \/ At(c, "registered") /\ ~complete[c]
                           \/ \A u \in 1 .. stored[Follows[c]] :
                                u <= client[c].synced \/ Pending(c, u))'
        BY DEF MissedPending
      <3>1. restarts = 0 /\ Serving(c) /\ Open(c) /\ asked[c] # NoID
        BY <1>2, <1>3, <2>6 DEF Serving
      <3>2. \/ client[c].fetch = "change"
            \/ At(c, "registered") /\ ~complete[c]
            \/ \A u \in 1 .. stored[Follows[c]] : u <= client[c].synced \/ Pending(c, u)
        BY <2>1, <3>1 DEF ClientInv, MissedPending
      <3> QED BY <1>2, <1>3, <2>7, <3>1, <3>2 DEF At
    <2> QED BY <2>3, <2>4, <2>5, <2>8, <2>9 DEF ClientInv
  <1> QED BY <1>4, <1>6, <1>7, <1>8 DEF NotificationInv

-----------------------------------------------------------------------------
(* The handler of a client.                                                *)

\* Only the handler of c and its client change.
LEMMA OnlyOf ==
  ASSUME NotificationInv, NEW c \in Sub, UNCHANGED hubVars,
         UNCHANGED <<stored, unsent, process, restarts>>,
         NEW h \in Handler, handler' = [handler EXCEPT ![c] = h],
         NEW l \in Client, client' = [client EXCEPT ![c] = l],
         process = "down" => h.step = "off",
         ClientInv(c)'
  PROVE  NotificationInv'
PROOF
  <1>1. /\ HubOK /\ OwnTyped /\ ClosedByRun /\ Announced /\ \A d \in Sub : ClientInv(d)
    BY DEF NotificationInv
  <1>2. /\ HubOK' /\ HS!Published' = HS!Published
        /\ UNCHANGED <<closed, eventID, held, asked, complete, channel>>
        /\ \A d \in Sub : HS!Unread(d)' = HS!Unread(d)
    BY <1>1, HubFrame
  <1>3. /\ \A d \in Sub \ {c} : handler'[d] = handler[d] /\ client'[d] = client[d]
        /\ handler'[c] = h
    BY <1>1 DEF OwnTyped
  <1>4. OwnTyped'
    BY <1>1 DEF OwnTyped
  <1>5. ClosedByRun'
    BY <1>1, <1>2, <1>3 DEF ClosedByRun, At
  <1>6. Announced'
    BY <1>1, <1>2, AnnouncedFrame
  <1>7. \A d \in Sub \ {c} : ClientInv(d)'
    BY <1>1, <1>2, <1>3, ClientFrame
  <1> QED BY <1>2, <1>4, <1>5, <1>6, <1>7 DEF NotificationInv

\* The hub and the database as one client sees them when nothing of theirs changes.
LEMMA QuietHub ==
  ASSUME HubOK, UNCHANGED hubVars, UNCHANGED <<stored, unsent>>, NEW c \in Sub
  PROVE  /\ HS!Published' = HS!Published
         /\ UNCHANGED <<closed, eventID, held, asked, complete, channel>>
         /\ HS!Unread(c)' = HS!Unread(c)
         /\ Open(c)' = Open(c)
         /\ \A v : Pending(c, v)' <=> Pending(c, v)
PROOF
  BY HubFrame DEF Open, Pending

LEMMA ReadReleaseKeeps ==
  ASSUME NotificationInv, NEW c \in Sub, ReadRelease(c)
  PROVE  NotificationInv'
PROOF
  <1> DEFINE h == [step |-> "read", version |-> stored[Follows[c]], blocked |-> FALSE]
  <1>1. HubOK /\ OwnTyped /\ ClientInv(c)
    BY DEF NotificationInv
  <1>2. /\ UNCHANGED hubVars /\ UNCHANGED <<stored, unsent, client, process, restarts>>
        /\ At(c, "off") /\ client[c].fetch = "no" /\ Accepting
        /\ handler' = [handler EXCEPT ![c] = h]
    BY DEF ReadRelease
  <1>3. h \in Handler /\ client[c] \in Client /\ client' = [client EXCEPT ![c] = client[c]]
    BY <1>1, <1>2, OwnTypes DEF OwnTyped, Handler
  <1>4. handler'[c] = h /\ handler[c].step = "off"
    BY <1>1, <1>2 DEF OwnTyped, At
  <1>5. ClientInv(c)'
    <2>1. /\ HS!Published' = HS!Published
          /\ UNCHANGED <<closed, eventID, held, asked, complete, channel>>
      BY <1>1, <1>2, QuietHub
    <2>2. HeldIffServed(c)' /\ UnreadPublished(c)' /\ FetchedFirst(c)' /\ SeenSynced(c)'
      BY <1>1, <1>2, <1>4, <2>1 DEF ClientInv, HeldIffServed, UnreadPublished, FetchedFirst, SeenSynced, Serving
    <2>3. ToldCommitted(c)'
      <3>1. stored[Follows[c]] \in Nat
        BY <1>1, OwnTypes
      <3> QED BY <1>1, <1>2, <1>4, <3>1 DEF ClientInv, ToldCommitted, Serving
    <2>4. NewestPending(c)' /\ MissedPending(c)'
      BY <1>4 DEF NewestPending, MissedPending, Serving
    <2> QED BY <2>2, <2>3, <2>4 DEF ClientInv
  <1>6. process # "down"
    BY <1>2 DEF Accepting
  <1> HIDE DEF h
  <1> QED BY <1>2, <1>3, <1>4, <1>5, <1>6, OnlyOf DEF h

LEMMA SendReadyKeeps ==
  ASSUME NotificationInv, NEW c \in Sub, SendReady(c)
  PROVE  NotificationInv'
PROOF
  <1> DEFINE h == [handler[c] EXCEPT !.step = "streaming"]
             l == [client[c] EXCEPT !.told = Newest(@, handler[c].version),
                                    !.fetch = IF complete[c] THEN "ready" ELSE "change"]
  <1>1. HubOK /\ OwnTyped /\ ClosedByRun /\ ClientInv(c)
    BY DEF NotificationInv
  <1>2. /\ UNCHANGED hubVars /\ UNCHANGED <<stored, unsent, process, restarts>>
        /\ handler[c].step = "registered"
        /\ handler' = [handler EXCEPT ![c] = h] /\ client' = [client EXCEPT ![c] = l]
    BY <1>1 DEF SendReady, Runs, At, OwnTyped
  <1>3. /\ handler[c] \in Handler /\ client[c] \in Client
        /\ h \in Handler /\ l \in Client /\ h.step = "streaming"
        /\ h.version = handler[c].version
        /\ l.fetch = (IF complete[c] THEN "ready" ELSE "change")
        /\ l.told \in {client[c].told, handler[c].version}
        /\ l.synced = client[c].synced /\ l.lastID = client[c].lastID
    BY <1>1 DEF OwnTyped, Handler, Client, Newest
  <1>4. handler'[c] = h /\ client'[c] = l
    BY <1>1, <1>2 DEF OwnTyped
  <1> HIDE DEF h, l
  <1>5. process # "down"
    BY <1>1, <1>2 DEF ClosedByRun, At
  <1>6. ClientInv(c)'
    <2>1. /\ HS!Published' = HS!Published
          /\ UNCHANGED <<closed, eventID, held, asked, complete, channel>>
          /\ HS!Unread(c)' = HS!Unread(c) /\ Open(c)' = Open(c)
          /\ \A v : Pending(c, v)' <=> Pending(c, v)
      BY <1>1, <1>2, QuietHub
    <2>2. client[c].fetch = "no"
      BY <1>1, <1>2 DEF ClientInv, FetchedFirst
    <2>3. HeldIffServed(c)' /\ UnreadPublished(c)' /\ FetchedFirst(c)'
      BY <1>1, <1>2, <1>3, <1>4, <2>1 DEF ClientInv, HeldIffServed, UnreadPublished, FetchedFirst, Serving
    <2>4. ToldCommitted(c)'
      BY <1>1, <1>2, <1>3, <1>4, <2>1 DEF ClientInv, ToldCommitted, Serving
    <2>5. SeenSynced(c)'
      BY <1>1, <1>2, <1>3, <1>4, <2>1, <2>2 DEF ClientInv, SeenSynced
    <2>6. NewestPending(c)'
      BY <1>3, <1>4 DEF NewestPending
    <2>7. MissedPending(c)'
      <3>1. CASE complete[c]
        BY <1>1, <1>2, <1>3, <1>4, <2>1, <2>2, <3>1 DEF ClientInv, MissedPending, Serving, At
      <3>2. CASE ~complete[c]
        BY <1>3, <1>4, <3>2 DEF MissedPending
      <3> QED BY <3>1, <3>2
    <2> QED BY <2>3, <2>4, <2>5, <2>6, <2>7 DEF ClientInv
  <1> QED BY <1>2, <1>3, <1>5, <1>6, OnlyOf

\* Block and Unblock: the handler stays where it is.
LEMMA BlockKeeps ==
  ASSUME NotificationInv, NEW c \in Sub, Block(c) \/ Unblock(c)
  PROVE  NotificationInv'
PROOF
  <1>1. HubOK /\ OwnTyped /\ ClosedByRun /\ ClientInv(c)
    BY DEF NotificationInv
  <1>2. PICK b \in BOOLEAN : handler' = [handler EXCEPT ![c] = [handler[c] EXCEPT !.blocked = b]]
    BY DEF Block, Unblock
  <1> DEFINE h == [handler[c] EXCEPT !.blocked = b]
  <1>3. UNCHANGED hubVars /\ UNCHANGED <<stored, unsent, client, process, restarts>>
    BY DEF Block, Unblock
  <1>4. /\ h \in Handler /\ h.step = handler[c].step /\ h.version = handler[c].version
        /\ client[c] \in Client /\ client' = [client EXCEPT ![c] = client[c]]
        /\ handler' = [handler EXCEPT ![c] = h] /\ handler'[c] = h
    BY <1>1, <1>2, <1>3 DEF OwnTyped, Handler
  <1> HIDE DEF h
  <1>5. process = "down" => h.step = "off"
    BY <1>1, <1>4 DEF ClosedByRun, At
  <1>6. ClientInv(c)'
    <2>1. /\ HS!Published' = HS!Published
          /\ UNCHANGED <<closed, eventID, held, asked, complete, channel>>
          /\ HS!Unread(c)' = HS!Unread(c) /\ Open(c)' = Open(c)
          /\ \A v : Pending(c, v)' <=> Pending(c, v)
      BY <1>1, <1>3, QuietHub
    <2>2. HeldIffServed(c)' /\ UnreadPublished(c)' /\ FetchedFirst(c)' /\ ToldCommitted(c)' /\ SeenSynced(c)'
      BY <1>1, <1>3, <1>4, <2>1
      DEF ClientInv, HeldIffServed, UnreadPublished, FetchedFirst, ToldCommitted, SeenSynced, Serving
    <2>3. NewestPending(c)' /\ MissedPending(c)'
      BY <1>1, <1>3, <1>4, <2>1 DEF ClientInv, NewestPending, MissedPending, Serving, At
    <2> QED BY <2>2, <2>3 DEF ClientInv
  <1> QED BY <1>3, <1>4, <1>5, <1>6, OnlyOf

LEMMA FetchKeeps ==
  ASSUME NotificationInv, NEW c \in Sub, Fetch(c)
  PROVE  NotificationInv'
PROOF
  <1> DEFINE newest == stored[Follows[c]]
             l == [client[c] EXCEPT !.fetch = "no", !.config = newest,
                     !.synced = IF client[c].fetch = "change" THEN newest ELSE @]
  <1>1. HubOK /\ OwnTyped /\ ClosedByRun /\ Announced /\ ClientInv(c)
    BY DEF NotificationInv
  <1>2. /\ UNCHANGED hubVars /\ UNCHANGED <<stored, unsent, handler, process, restarts>>
        /\ client[c].fetch # "no" /\ Accepting /\ client' = [client EXCEPT ![c] = l]
    BY <1>1 DEF Fetch, OwnTyped
  <1>3. newest \in Nat /\ Follows[c] \in Key
    BY <1>1, OwnTypes
  <1>4. /\ handler[c] \in Handler /\ handler' = [handler EXCEPT ![c] = handler[c]]
        /\ l \in Client /\ l.fetch = "no" /\ l.config = newest
        /\ l.synced = (IF client[c].fetch = "change" THEN newest ELSE client[c].synced)
        /\ l.told = client[c].told /\ l.lastID = client[c].lastID
    BY <1>1, <1>2, <1>3 DEF OwnTyped, Client
  <1>5. client'[c] = l /\ handler'[c] = handler[c]
    BY <1>1, <1>2 DEF OwnTyped
  <1> HIDE DEF l
  <1>6. process # "down"
    BY <1>2 DEF Accepting
  <1>7. ClientInv(c)'
    <2>1. /\ HS!Published' = HS!Published
          /\ UNCHANGED <<closed, eventID, held, asked, complete, channel>>
          /\ HS!Unread(c)' = HS!Unread(c) /\ Open(c)' = Open(c)
          /\ \A v : Pending(c, v)' <=> Pending(c, v)
      BY <1>1, <1>2, QuietHub
    <2>2. HeldIffServed(c)' /\ UnreadPublished(c)' /\ FetchedFirst(c)'
      BY <1>1, <1>2, <1>4, <1>5, <2>1 DEF ClientInv, HeldIffServed, UnreadPublished, FetchedFirst, Serving
    <2>3. ToldCommitted(c)'
      BY <1>1, <1>2, <1>3, <1>4, <1>5, <2>1 DEF ClientInv, ToldCommitted, Serving
    <2>4. SeenSynced(c)'
      <3>1. \A e \in HS!Published : e.key = Follows[c] => e.version <= newest
        BY <1>1, <1>3 DEF Announced
      <3> QED BY <1>1, <1>2, <1>4, <1>5, <2>1, <3>1 DEF ClientInv, SeenSynced
    <2>5. NewestPending(c)'
      BY <1>2, <1>4, <1>5 DEF NewestPending
    <2>6. MissedPending(c)'
      <3>1. CASE client[c].fetch = "change"
        BY <1>2, <1>3, <1>4, <1>5, <3>1 DEF MissedPending
      <3>2. CASE client[c].fetch # "change"
        BY <1>1, <1>2, <1>4, <1>5, <2>1, <3>2 DEF ClientInv, MissedPending, Serving, At
      <3> QED BY <3>1, <3>2
    <2> QED BY <2>2, <2>3, <2>4, <2>5, <2>6 DEF ClientInv
  <1> QED BY <1>1, <1>2, <1>4, <1>6, <1>7, OnlyOf DEF At

\* A stream that is resumed begins with what was published after the event named.
LEMMA RegisterKeeps ==
  ASSUME NotificationInv, NEW c \in Sub, Register(c)
  PROVE  NotificationInv'
PROOF
  <1> DEFINE h == [handler[c] EXCEPT !.step = "registered"]
             last == client[c].lastID
             k == Follows[c]
  <1>1. /\ HubOK /\ OwnTyped /\ ClosedByRun /\ Announced /\ \A d \in Sub : ClientInv(d)
    BY DEF NotificationInv
  <1>2. /\ UNCHANGED <<stored, unsent, client, process, restarts>>
        /\ handler[c].step = "read" /\ handler' = [handler EXCEPT ![c] = h]
        /\ HS!Subscribe(c, k, last)
    BY SameHub DEF Register, At
  <1>3. k \in Key /\ last \in Nat \cup {NoID} /\ stored[k] \in Nat
    BY <1>1, OwnTypes
  <1>4. last \in HS!LastEventID
    BY <1>3 DEF HS!LastEventID
  <1>5. /\ UNCHANGED <<closed, eventID>> /\ HS!Published' = HS!Published
        /\ held' = [held EXCEPT ![c] = k] /\ asked' = [asked EXCEPT ![c] = last]
        /\ \A d \in Sub \ {c} : /\ complete'[d] = complete[d] /\ channel'[d] = channel[d]
                                /\ HS!Unread(d)' = HS!Unread(d)
        /\ channel'[c].state = "open" => ~closed
        /\ HS!Unread(c)' \subseteq {e \in HS!Published : e.key = k}
        /\ complete'[c] /\ last \in Nat =>
             HS!Unread(c)' = {e \in HS!Published : e.key = k /\ e.id > last}
    BY <1>1, <1>2, <1>3, <1>4, HubAssumed, HS!SubscribeEffect DEF HubOK
  <1>6. HubOK'
    BY <1>1, <1>2, <1>3, <1>4, HubAssumed, HS!SubscribeKeeps, HS!SubscribeTypes DEF HubOK
  <1>7. /\ h \in Handler /\ h.step = "registered" /\ h.version = handler[c].version
        /\ DOMAIN held = Sub /\ DOMAIN asked = Sub
    BY <1>1, <1>2 DEF OwnTyped, Handler, HubOK, HS!HubInv, HS!HubTyped, HS!StreamTyped
  <1> HIDE DEF h, last, k
  <1>8. /\ handler'[c] = h /\ held'[c] = k /\ asked'[c] = last
        /\ \A d \in Sub \ {c} : handler'[d] = handler[d] /\ held'[d] = held[d]
                                /\ asked'[d] = asked[d]
    BY <1>1, <1>2, <1>5, <1>7 DEF OwnTyped
  <1>9. OwnTyped'
    BY <1>1, <1>2, <1>7 DEF OwnTyped
  <1>10. process # "down" /\ ClosedByRun'
    BY <1>1, <1>2, <1>5, <1>8 DEF ClosedByRun, At
  <1>11. Announced'
    BY <1>1, <1>2, <1>5, AnnouncedFrame
  <1>12. ASSUME NEW d \in Sub, d # c PROVE ClientInv(d)'
    BY <1>1, <1>2, <1>5, <1>8, <1>12, ClientFrame
  <1>13. ClientInv(c)'
    <2>1. ClientInv(c) /\ client[c].fetch = "no"
      BY <1>1, <1>2 DEF ClientInv, FetchedFirst
    <2>2. HeldIffServed(c)' /\ UnreadPublished(c)' /\ FetchedFirst(c)' /\ NewestPending(c)'
      BY <1>2, <1>5, <1>7, <1>8, <2>1 DEF HeldIffServed, UnreadPublished, FetchedFirst, NewestPending, Serving, k
    <2>3. ToldCommitted(c)'
      BY <1>2, <1>7, <1>8, <2>1 DEF ClientInv, ToldCommitted, k
    <2>4. SeenSynced(c)'
      BY <1>2, <1>5, <2>1 DEF ClientInv, SeenSynced
    <2>5. MissedPending(c)'
      <3> SUFFICES ASSUME restarts = 0, channel'[c].state = "open", last # NoID, complete'[c],
                          NEW v \in 1 .. stored[k]
                   PROVE  v <= client[c].synced \/ v \in unsent[k]
                            \/ \E e \in HS!Unread(c)' : e.version = v
        BY <1>2, <1>7, <1>8 DEF MissedPending, Pending, Open, At, k
      <3>1. process = "up"
        BY <1>1, <1>5, <1>10 DEF ClosedByRun, OwnTyped, Process
      <3>2. v \in unsent[k] \/ \E e \in HS!Published : e.key = k /\ e.version = v
        BY <1>1, <1>3, <3>1 DEF Announced
      <3>3. ASSUME NEW e \in HS!Published, e.key = k, e.version = v
            PROVE  v <= client[c].synced \/ e \in HS!Unread(c)'
        <4>1. e.id \in Nat
          BY DEF HS!Published, HS!Event
        <4>2. CASE e.id <= last
          BY <2>1, <3>1, <3>3, <4>2 DEF ClientInv, SeenSynced, last, k
        <4>3. CASE e.id > last
          BY <1>3, <1>5, <3>3, <4>3
        <4> QED BY <1>3, <4>1, <4>2, <4>3
      <3> QED BY <3>2, <3>3
    <2> QED BY <2>2, <2>3, <2>4, <2>5 DEF ClientInv
  <1> QED BY <1>6, <1>9, <1>10, <1>11, <1>12, <1>13 DEF NotificationInv

LEMMA SendEventKeeps ==
  ASSUME NotificationInv, NEW c \in Sub, SendEvent(c)
  PROVE  NotificationInv'
PROOF
  <1> DEFINE event == NextEvent(c)
             l == [client[c] EXCEPT !.fetch = "change", !.lastID = event.id,
                                    !.told = Newest(@, event.version)]
  <1>1. /\ HubOK /\ OwnTyped /\ ClosedByRun /\ Announced /\ \A d \in Sub : ClientInv(d)
    BY DEF NotificationInv
  <1>2. /\ UNCHANGED <<stored, unsent, handler, process, restarts>>
        /\ HS!Take(c) /\ client' = [client EXCEPT ![c] = l]
        /\ handler[c].step = "streaming"
    BY <1>1, SameHub DEF SendEvent, Runs, At, OwnTyped
  <1>3. /\ UNCHANGED <<closed, eventID, held, asked, complete>> /\ HS!Published' = HS!Published
        /\ \A d \in Sub : HS!Unread(d)' \subseteq HS!Unread(d)
                          /\ channel'[d].state = channel[d].state
        /\ \A d \in Sub \ {c} : HS!Unread(d)' = HS!Unread(d)
        /\ event \in HS!Unread(c)
    BY <1>1, <1>2, HubAssumed, HS!TakeEffect DEF HubOK, NextEvent
  <1>4. HubOK'
    BY <1>1, <1>2, HubAssumed, HS!TakeKeeps, HS!TakeTypes DEF HubOK
  <1>5. event.id \in Nat /\ event.version \in Nat
    BY <1>3, HubAssumed DEF HS!Unread, HS!Event, HS!HubAssumption
  <1> HIDE DEF event
  <1>6. /\ l \in Client /\ l.fetch = "change" /\ l.told \in {client[c].told, event.version}
        /\ l.synced = client[c].synced /\ l.lastID = event.id
    BY <1>1, <1>5 DEF OwnTyped, Client, Newest
  <1> HIDE DEF l
  <1>7. client'[c] = l /\ \A d \in Sub \ {c} : client'[d] = client[d]
    BY <1>1, <1>2 DEF OwnTyped
  <1>8. OwnTyped'
    BY <1>1, <1>2, <1>6 DEF OwnTyped
  <1>9. process # "down" /\ ClosedByRun'
    BY <1>1, <1>2, <1>3, <1>7 DEF ClosedByRun, At
  <1>10. Announced'
    BY <1>1, <1>2, <1>3, AnnouncedFrame
  <1>11. ASSUME NEW d \in Sub, d # c PROVE ClientInv(d)'
    BY <1>1, <1>2, <1>3, <1>7, <1>11, ClientFrame
  <1>12. ClientInv(c)'
    <2>1. ClientInv(c) /\ Serving(c)
      BY <1>1, <1>2 DEF Serving
    <2>2. HeldIffServed(c)' /\ UnreadPublished(c)' /\ FetchedFirst(c)' /\ NewestPending(c)' /\ MissedPending(c)'
      BY <1>2, <1>3, <1>6, <1>7, <2>1
      DEF ClientInv, HeldIffServed, UnreadPublished, FetchedFirst, NewestPending, MissedPending, Serving
    <2>3. event \in HS!Published /\ event.key = Follows[c]
      BY <1>3, <2>1 DEF ClientInv, UnreadPublished
    <2>4. ToldCommitted(c)'
      <3>1. event.version <= stored[Follows[c]]
        BY <1>1, <2>3 DEF Announced
      <3> QED BY <1>2, <1>3, <1>6, <1>7, <2>1, <3>1 DEF ClientInv, ToldCommitted
    <2>5. SeenSynced(c)'
      <3>1. event.id <= eventID
        BY <1>1, <2>3, PublishedIDs
      <3> QED BY <1>3, <1>6, <1>7, <3>1 DEF SeenSynced
    <2> QED BY <2>2, <2>4, <2>5 DEF ClientInv
  <1> QED BY <1>4, <1>8, <1>9, <1>10, <1>11, <1>12 DEF NotificationInv

\* HangUp and EndStream: the handler returns, and gives its subscription back.
LEMMA LeaveKeeps ==
  ASSUME NotificationInv, NEW c \in Sub, Serving(c), Gone(c), HS!Unsubscribe(c)
  PROVE  NotificationInv'
PROOF
  <1>1. /\ HubOK /\ OwnTyped /\ ClosedByRun /\ Announced /\ \A d \in Sub : ClientInv(d)
    BY DEF NotificationInv
  <1>2. /\ UNCHANGED <<stored, unsent, client, process, restarts>>
        /\ handler' = [handler EXCEPT ![c] = NoHandler]
    BY DEF Gone
  <1>3. /\ UNCHANGED <<closed, eventID>> /\ HS!Published' = HS!Published
        /\ held' = [held EXCEPT ![c] = NoKey]
        /\ \A d \in Sub \ {c} : /\ asked'[d] = asked[d] /\ complete'[d] = complete[d]
                                /\ channel'[d] = channel[d]
                                /\ HS!Unread(d)' = HS!Unread(d)
    BY <1>1, HubAssumed, HS!UnsubscribeEffect DEF HubOK
  <1>4. HubOK'
    BY <1>1, HubAssumed, HS!UnsubscribeKeeps, HS!UnsubscribeTypes DEF HubOK
  <1>5. /\ handler'[c] = NoHandler /\ held'[c] = NoKey
        /\ \A d \in Sub \ {c} : handler'[d] = handler[d] /\ held'[d] = held[d]
    BY <1>1, <1>2, <1>3 DEF OwnTyped, HubOK, HS!HubInv, HS!HubTyped
  <1>6. OwnTyped'
    BY <1>1, <1>2 DEF OwnTyped, NoHandler, Handler
  <1>7. ClosedByRun'
    BY <1>1, <1>2, <1>3, <1>5 DEF ClosedByRun, At, NoHandler
  <1>8. Announced'
    BY <1>1, <1>2, <1>3, AnnouncedFrame
  <1>9. ASSUME NEW d \in Sub, d # c PROVE ClientInv(d)'
    BY <1>1, <1>2, <1>3, <1>5, <1>9, ClientFrame
  <1>10. ClientInv(c)'
    <2>1. ClientInv(c) /\ stored[Follows[c]] \in Nat
      BY <1>1, OwnTypes
    <2>2. HeldIffServed(c)' /\ UnreadPublished(c)' /\ FetchedFirst(c)' /\ NewestPending(c)'
            /\ MissedPending(c)'
      BY <1>5
      DEF HeldIffServed, UnreadPublished, FetchedFirst, NewestPending, MissedPending,
          Serving, NoHandler
    <2>3. ToldCommitted(c)'
      BY <1>2, <1>5, <2>1 DEF ClientInv, ToldCommitted, NoHandler
    <2>4. SeenSynced(c)'
      BY <1>2, <1>3, <2>1 DEF ClientInv, SeenSynced
    <2> QED BY <2>2, <2>3, <2>4 DEF ClientInv
  <1> QED BY <1>4, <1>6, <1>7, <1>8, <1>9, <1>10 DEF NotificationInv

\* The client hung up before the handler subscribed.
LEMMA GoneKeeps ==
  ASSUME NotificationInv, NEW c \in Sub, At(c, "read"), Gone(c), UNCHANGED hubVars
  PROVE  NotificationInv'
PROOF
  <1>1. HubOK /\ OwnTyped /\ ClosedByRun /\ ClientInv(c)
    BY DEF NotificationInv
  <1>2. /\ UNCHANGED <<stored, unsent, client, process, restarts>>
        /\ handler' = [handler EXCEPT ![c] = NoHandler] /\ handler[c].step = "read"
    BY DEF Gone, At
  <1>3. /\ NoHandler \in Handler /\ handler'[c] = NoHandler
        /\ client[c] \in Client /\ client' = [client EXCEPT ![c] = client[c]]
    BY <1>1, <1>2 DEF OwnTyped, NoHandler, Handler
  <1>4. ClientInv(c)'
    <2>1. /\ HS!Published' = HS!Published
          /\ UNCHANGED <<closed, eventID, held, asked, complete, channel>>
      BY <1>1, <1>2, QuietHub
    <2>2. stored[Follows[c]] \in Nat
      BY <1>1, OwnTypes
    <2>3. HeldIffServed(c)' /\ UnreadPublished(c)' /\ FetchedFirst(c)' /\ NewestPending(c)'
            /\ MissedPending(c)' /\ SeenSynced(c)'
      BY <1>1, <1>2, <1>3, <2>1
      DEF ClientInv, HeldIffServed, UnreadPublished, FetchedFirst, NewestPending,
          MissedPending, SeenSynced, Serving, NoHandler
    <2>4. ToldCommitted(c)'
      BY <1>1, <1>2, <1>3, <2>2 DEF ClientInv, ToldCommitted, NoHandler
    <2> QED BY <2>3, <2>4 DEF ClientInv
  <1> QED BY <1>2, <1>3, <1>4, OnlyOf DEF NoHandler

-----------------------------------------------------------------------------
(* The process.                                                            *)

LEMMA SignalKeeps ==
  ASSUME NotificationInv, Signal
  PROVE  NotificationInv'
PROOF
  <1>1. /\ HubOK /\ OwnTyped /\ ClosedByRun /\ Announced /\ \A d \in Sub : ClientInv(d)
    BY DEF NotificationInv
  <1>2. /\ UNCHANGED <<stored, unsent, handler, client, restarts>>
        /\ process = "up" /\ process' = "closing" /\ HS!Close
    BY SameHub DEF Signal
  <1>3. /\ closed' /\ UNCHANGED <<eventID, held, asked, complete>>
        /\ HS!Published' = HS!Published
        /\ \A c \in Sub : HS!Unread(c)' = HS!Unread(c) /\ channel'[c].state # "open"
    BY <1>1, <1>2, HubAssumed, HS!CloseEffect DEF HubOK
  <1>4. HubOK'
    BY <1>1, <1>2, HubAssumed, HS!CloseKeeps, HS!OthersTypes DEF HubOK
  <1>5. OwnTyped' /\ ClosedByRun' /\ Announced'
    BY <1>1, <1>2, <1>3 DEF OwnTyped, Process, ClosedByRun, Announced
  <1>6. ASSUME NEW c \in Sub PROVE ClientInv(c)'
    <2>1. ClientInv(c)
      BY <1>1
    <2>2. HeldIffServed(c)' /\ UnreadPublished(c)' /\ FetchedFirst(c)' /\ ToldCommitted(c)'
      BY <1>2, <1>3, <2>1
      DEF ClientInv, HeldIffServed, UnreadPublished, FetchedFirst, ToldCommitted, Serving
    <2>3. NewestPending(c)' /\ MissedPending(c)'
      BY <1>3 DEF NewestPending, MissedPending, Open
    <2>4. SeenSynced(c)'
      BY <1>2, <1>3, <2>1 DEF ClientInv, SeenSynced
    <2> QED BY <2>2, <2>3, <2>4 DEF ClientInv
  <1> QED BY <1>4, <1>5, <1>6 DEF NotificationInv

LEMMA ShutdownKeeps ==
  ASSUME NotificationInv, Shutdown
  PROVE  NotificationInv'
PROOF
  <1>1. /\ HubOK /\ OwnTyped /\ ClosedByRun /\ Announced /\ \A d \in Sub : ClientInv(d)
    BY DEF NotificationInv
  <1>2. /\ UNCHANGED hubVars /\ UNCHANGED <<stored, unsent, handler, client, restarts>>
        /\ process = "closing" /\ process' = "draining"
    BY DEF Shutdown
  <1>3. /\ HubOK' /\ HS!Published' = HS!Published
        /\ UNCHANGED <<closed, eventID, held, asked, complete, channel>>
        /\ \A c \in Sub : HS!Unread(c)' = HS!Unread(c)
    BY <1>1, <1>2, HubFrame
  <1>4. OwnTyped' /\ ClosedByRun' /\ Announced'
    BY <1>1, <1>2, <1>3 DEF OwnTyped, Process, ClosedByRun, Announced
  <1>5. ASSUME NEW c \in Sub PROVE ClientInv(c)'
    <2>1. ClientInv(c)
      BY <1>1
    <2>2. /\ HeldIffServed(c)' /\ UnreadPublished(c)' /\ FetchedFirst(c)' /\ ToldCommitted(c)'
          /\ SeenSynced(c)'
      BY <1>2, <1>3, <2>1
      DEF ClientInv, HeldIffServed, UnreadPublished, FetchedFirst, ToldCommitted,
          SeenSynced, Serving
    <2>3. NewestPending(c)' /\ MissedPending(c)'
      BY <1>2, <1>3, <2>1 DEF ClientInv, NewestPending, MissedPending, Pending, Open, Serving, At
    <2> QED BY <2>2, <2>3 DEF ClientInv
  <1> QED BY <1>3, <1>4, <1>5 DEF NotificationInv

\* Crash and Exit: only the database and the clients are left.
LEMMA StopKeeps ==
  ASSUME NotificationInv, Stop
  PROVE  NotificationInv'
PROOF
  <1>1. OwnTyped /\ \A c \in Sub : ClientInv(c)
    BY DEF NotificationInv
  <1>2. /\ UNCHANGED <<stored, client, restarts>> /\ process' = "down" /\ NewHub
        /\ unsent' = [k \in Key |-> {}] /\ handler' = [c \in Sub |-> NoHandler]
    BY DEF Stop
  <1>3. HubOK' /\ ~closed' /\ \A c \in Sub : held'[c] = NoKey
    BY <1>2, NewHubIsInit DEF HubOK, NewHub
  <1>4. HS!Published' = {}
    <2>1. log' \in Seq(HS!Event) /\ Len(log') = 0
      BY <1>2 DEF NewHub
    <2> QED BY <2>1 DEF HS!Published, HS!In
  <1>5. OwnTyped'
    BY <1>1, <1>2 DEF OwnTyped, Process, NoHandler, Handler
  <1>6. ClosedByRun' /\ Announced'
    BY <1>2, <1>3, <1>4 DEF ClosedByRun, Announced, At, NoHandler
  <1>7. ASSUME NEW c \in Sub PROVE ClientInv(c)'
    <2>1. ClientInv(c) /\ stored[Follows[c]] \in Nat /\ handler'[c] = NoHandler
      BY <1>1, <1>2, OwnTypes
    <2>2. HeldIffServed(c)' /\ UnreadPublished(c)' /\ FetchedFirst(c)' /\ NewestPending(c)'
            /\ MissedPending(c)'
      BY <1>3, <2>1
      DEF HeldIffServed, UnreadPublished, FetchedFirst, NewestPending, MissedPending,
          Serving, NoHandler
    <2>3. ToldCommitted(c)'
      BY <1>2, <2>1 DEF ClientInv, ToldCommitted, NoHandler
    <2>4. SeenSynced(c)'
      BY <1>2 DEF SeenSynced
    <2> QED BY <2>2, <2>3, <2>4 DEF ClientInv
  <1> QED BY <1>3, <1>5, <1>6, <1>7 DEF NotificationInv

LEMMA StartKeeps ==
  ASSUME NotificationInv, Start
  PROVE  NotificationInv'
PROOF
  <1>1. /\ HubOK /\ OwnTyped /\ ClosedByRun /\ Announced /\ \A d \in Sub : ClientInv(d)
    BY DEF NotificationInv
  <1>2. /\ UNCHANGED hubVars /\ UNCHANGED <<stored, unsent, handler, client>>
        /\ process = "down" /\ process' = "up"
        /\ restarts' = restarts + 1 /\ restarts < MaxRestarts
    BY DEF Start
  <1>3. /\ HubOK' /\ HS!Published' = HS!Published
        /\ UNCHANGED <<closed, eventID, held, asked, complete, channel>>
        /\ \A c \in Sub : HS!Unread(c)' = HS!Unread(c)
    BY <1>1, <1>2, HubFrame
  <1>4. restarts' \in 0 .. MaxRestarts /\ restarts' # 0
    BY <1>1, <1>2, NotificationAssumption DEF OwnTyped
  <1>5. OwnTyped' /\ ClosedByRun'
    BY <1>1, <1>2, <1>3, <1>4 DEF OwnTyped, Process, ClosedByRun
  <1>6. Announced'
    BY <1>1, <1>2, <1>3, <1>4 DEF Announced
  <1>7. ASSUME NEW c \in Sub PROVE ClientInv(c)'
    <2>1. ClientInv(c) /\ handler[c].step = "off"
      BY <1>1, <1>2 DEF ClosedByRun, At
    <2>2. HeldIffServed(c)' /\ UnreadPublished(c)' /\ FetchedFirst(c)' /\ ToldCommitted(c)'
      BY <1>2, <1>3, <2>1
      DEF ClientInv, HeldIffServed, UnreadPublished, FetchedFirst, ToldCommitted, Serving
    <2>3. NewestPending(c)' /\ MissedPending(c)' /\ SeenSynced(c)'
      BY <1>2, <1>4, <2>1 DEF NewestPending, MissedPending, SeenSynced
    <2> QED BY <2>2, <2>3 DEF ClientInv
  <1> QED BY <1>3, <1>5, <1>6, <1>7 DEF NotificationInv

-----------------------------------------------------------------------------
(* All steps.                                                              *)

LEMMA NotificationInit == Init => NotificationInv
PROOF
  <1> SUFFICES ASSUME Init PROVE NotificationInv
    OBVIOUS
  <1>1. HS!Init
    BY SameHub DEF Init
  <1>2. HubOK
    BY <1>1, NewHubIsInit DEF HubOK
  <1>3. ~closed /\ \A c \in Sub : held[c] = NoKey
    BY <1>1 DEF HS!Init
  <1>4. HS!Published = {}
    <2>1. Len(log) = 0
      BY <1>1 DEF HS!Init
    <2> QED BY <2>1 DEF HS!Published, HS!In
  <1>5. OwnTyped
    BY NotificationAssumption
    DEF Init, OwnTyped, NoHandler, Handler, Client, Process
  <1>6. ClosedByRun /\ Announced
    BY <1>3, <1>4 DEF Init, ClosedByRun, Announced
  <1>7. ASSUME NEW c \in Sub PROVE ClientInv(c)
    <2>1. Follows[c] \in Key
      BY NotificationAssumption
    <2>2. /\ handler[c] = NoHandler /\ stored[Follows[c]] = 0
          /\ client[c] = [lastID |-> NoID, fetch |-> "change", config |-> 0, synced |-> 0,
                          told |-> 0]
      BY <2>1 DEF Init
    <2> QED
      BY <1>3, <2>2
      DEF ClientInv, HeldIffServed, UnreadPublished, ToldCommitted, FetchedFirst,
          NewestPending, SeenSynced, MissedPending, Serving, NoHandler
  <1> QED BY <1>2, <1>5, <1>6, <1>7 DEF NotificationInv

LEMMA NotificationStep == NotificationInv /\ [Next]_vars => NotificationInv'
PROOF
  <1> SUFFICES ASSUME NotificationInv, [Next]_vars PROVE NotificationInv'
    OBVIOUS
  <1>1. CASE UNCHANGED vars
    <2>1. UNCHANGED hubVars /\ UNCHANGED <<stored, unsent, handler, client, process, restarts>>
      BY <1>1 DEF vars, ownVars
    <2>2. /\ HubOK /\ OwnTyped /\ ClosedByRun /\ Announced /\ \A d \in Sub : ClientInv(d)
      BY DEF NotificationInv
    <2>3. /\ HubOK' /\ HS!Published' = HS!Published
          /\ UNCHANGED <<closed, eventID, held, asked, complete, channel>>
          /\ \A c \in Sub : HS!Unread(c)' = HS!Unread(c)
      BY <2>1, <2>2, HubFrame
    <2>4. OwnTyped' /\ ClosedByRun' /\ Announced'
      BY <2>1, <2>2, <2>3, AnnouncedFrame DEF OwnTyped, ClosedByRun, At
    <2>5. \A c \in Sub : ClientInv(c)'
      BY <2>1, <2>2, <2>3, ClientFrame
    <2> QED BY <2>3, <2>4, <2>5 DEF NotificationInv
  <1>2. ASSUME NEW k \in Key, Commit(k) \/ \E v \in Version : Broadcast(k, v)
        PROVE  NotificationInv'
    BY <1>2, CommitKeeps, BroadcastToClosed, BroadcastToOpen
  <1>3. ASSUME NEW c \in Sub, HangUp(c) \/ EndStream(c) PROVE NotificationInv'
    BY <1>3, SameHub, LeaveKeeps, GoneKeeps
    DEF HangUp, EndStream, Hub!EndOfStream, Runs, At, Serving
  <1>4. ASSUME NEW c \in Sub, Connect(c) \/ SendReady(c) \/ SendEvent(c) \/ Fetch(c)
        PROVE  NotificationInv'
    BY <1>4, ReadReleaseKeeps, RegisterKeeps, SendReadyKeeps, SendEventKeeps, FetchKeeps
    DEF Connect
  <1>5. ASSUME NEW c \in Sub, Block(c) \/ Unblock(c) PROVE NotificationInv'
    BY <1>5, BlockKeeps
  <1>6. ASSUME Signal \/ Shutdown \/ Exit \/ Crash \/ Start PROVE NotificationInv'
    BY <1>6, SignalKeeps, ShutdownKeeps, StopKeeps, StartKeeps DEF Exit, Crash
  <1> QED BY <1>1, <1>2, <1>3, <1>4, <1>5, <1>6 DEF Next, Write

LEMMA NotificationInvariance == Spec => []NotificationInv
PROOF
  BY NotificationInit, NotificationStep, PTL DEF Spec

-----------------------------------------------------------------------------
(* Theorems.                                                               *)

\* The hub, the handlers and the clients keep their types; no buffer exceeds its
\* channel.
THEOREM NotificationTypeCorrect == Spec => []TypeOK
PROOF
  <1>1. NotificationInv => TypeOK
    <2> SUFFICES ASSUME NotificationInv PROVE TypeOK
      OBVIOUS
    <2>1. HS!TypeOK
      BY DEF NotificationInv, HubOK, HS!HubInv, HS!HubTyped, HS!StreamTyped, HS!TypeOK
    <2> QED BY <2>1, SameHub DEF NotificationInv, OwnTyped, TypeOK
  <1> QED BY <1>1, NotificationInvariance, PTL

\* A client that has nothing left to read runs with the newest release, though
\* requests broadcast after the commit and out of order, the handler reads the
\* release before it subscribes, slow clients are dropped and hubs forgotten.
THEOREM IdleClientsAreCurrent == Spec => []FollowerCurrent
PROOF
  <1>1. NotificationInv => FollowerCurrent
    <2> SUFFICES ASSUME NotificationInv, NEW c \in Sub, Idle(c), Settled(c)
                 PROVE  client[c].config = stored[Follows[c]]
      BY DEF FollowerCurrent
    <2>1. HS!Unread(c) = {} /\ unsent[Follows[c]] = {}
      BY IdleIsRead DEF Settled
    <2>2. NewestPending(c)
      BY DEF NotificationInv, ClientInv
    <2> QED BY <2>1, <2>2 DEF NewestPending, Pending, Idle, At, Open
  <1> QED BY <1>1, NotificationInvariance, PTL

\* Having fetched, a client has at least the newest version it was ever told of, by
\* this process or by one before.
THEOREM FetchedAsTold == Spec => []FetchedWhatWasTold
PROOF
  <1>1. NotificationInv => FetchedWhatWasTold
    BY OwnTypes DEF NotificationInv, ClientInv, ToldCommitted, FetchedWhatWasTold
  <1> QED BY <1>1, NotificationInvariance, PTL

\* As long as the process that gave out its last event id lives, a client that
\* resumes with it learns of all it has missed from the replay or from "resync".
THEOREM ResumedClientsAreSynced == Spec => []ResumeSyncsInOneProcess
PROOF
  <1>1. NotificationInv => ResumeSyncsInOneProcess
    <2> SUFFICES ASSUME NotificationInv, restarts = 0, NEW c \in Sub, Idle(c), Settled(c),
                        asked[c] # NoID
                 PROVE  client[c].synced = stored[Follows[c]]
      BY DEF ResumeSyncsInOneProcess, ResumeSyncs
    <2>1. HS!Unread(c) = {} /\ unsent[Follows[c]] = {}
      BY IdleIsRead DEF Settled
    <2>2. MissedPending(c) /\ client[c].synced <= stored[Follows[c]]
      BY DEF NotificationInv, ClientInv, ToldCommitted
    <2>3. \A v \in 1 .. stored[Follows[c]] : v <= client[c].synced
      BY <2>1, <2>2 DEF MissedPending, Pending, Idle, At, Open, Serving
    <2>4. stored[Follows[c]] \in Nat /\ client[c].synced \in Nat
      BY OwnTypes DEF NotificationInv
    <2> QED BY <2>2, <2>3, <2>4
  <1> QED BY <1>1, NotificationInvariance, PTL
=============================================================================
