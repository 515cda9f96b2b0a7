----------------------------- MODULE HubProofs ------------------------------
(***************************************************************************)
(* Proofs about Hub, for any keys, subscriptions, sizes and number of      *)
(* events: no use of the hub panics, its map holds what it should and no   *)
(* more, and its history is the end of what was published.                 *)
(***************************************************************************)
EXTENDS Hub, SequenceTheorems, TLAPS

-----------------------------------------------------------------------------
(* The invariant.                                                          *)

\* The part of TypeOK that does not depend on what a replay selects.
HubTyped ==
  /\ eventID \in Nat
  /\ history \in Seq(Event)
  /\ DOMAIN groups \subseteq Key /\ \A k \in DOMAIN groups : groups[k] \subseteq Sub
  /\ channel \in [Sub -> Channel]
  /\ \A s \in Sub : Len(channel[s].buffer) <= ChannelSize
  /\ held \in [Sub -> Key \cup {NoKey}]
  /\ log \in Seq(Event)

\* Hub.Close forgets the groups and nobody is added after it.
ClosedIsEmpty == closed => DOMAIN groups = {}

HubInv ==
  /\ HubTyped /\ ClosedIsEmpty
  /\ NoPanic /\ RegisteredIffOpen /\ GroupsReclaimed /\ HistoryWindow

\* What the three close operations and Send have to know of a channel.
LEMMA MembersAreOpen ==
  ASSUME HubInv, NEW s \in Sub, NEW k \in Key
  PROVE  /\ s \in Group(k) <=> k \in DOMAIN groups /\ s \in groups[k]
         /\ s \in Group(k) => channel[s].state = "open" /\ held[s] = k
         /\ s \in Registered <=> channel[s].state = "open"
         /\ channel[s].state = "open" => held[s] # NoKey /\ s \in Group(held[s])
         /\ channel[s].state \in {"none", "open", "closed"}
PROOF
  BY HubAssumption DEF HubInv, HubTyped, Channel, NoPanic, RegisteredIffOpen, Registered, Group

-----------------------------------------------------------------------------
(* Publish.                                                                *)

\* The channels after an event: dropped, sent to, or left alone.
LEMMA PublishChannels ==
  ASSUME HubInv, NEW k \in Key, NEW v \in Version, Publish(k, v), ~closed
  PROVE  /\ channel' \in [Sub -> Channel]
         /\ \A s \in Sub : Len(channel'[s].buffer) <= ChannelSize
         /\ \A s \in Sub :
              channel'[s].state = IF s \in Group(k) /\ Full(s) THEN "closed"
                                  ELSE channel[s].state
PROOF
  <1> DEFINE event == [id |-> eventID + 1, key |-> k, version |-> v]
             dropped == {s \in Group(k) : Full(s)}
             next(s) == IF s \in dropped THEN CloseChannel(channel[s])
                        ELSE IF s \in Group(k) THEN Send(channel[s], event)
                        ELSE channel[s]
  <1>1. event \in Event
    BY HubAssumption DEF HubInv, HubTyped, Event
  <1>2. channel' = [s \in Sub |-> next(s)]
    BY DEF Publish
  <1>3. ASSUME NEW s \in Sub
        PROVE  /\ next(s) \in Channel /\ Len(next(s).buffer) <= ChannelSize
               /\ next(s).state = IF s \in Group(k) /\ Full(s) THEN "closed"
                                  ELSE channel[s].state
    <2>1. /\ channel[s] \in Channel /\ Len(channel[s].buffer) <= ChannelSize
          /\ channel[s].buffer \in Seq(Event) /\ Len(channel[s].buffer) \in Nat
      BY DEF HubInv, HubTyped, Channel
    <2>2. s \in Group(k) => channel[s].state = "open"
      BY MembersAreOpen
    <2>3. CASE s \in dropped
      BY <2>1, <2>2, <2>3 DEF CloseChannel, Channel
    <2>4. CASE s \in Group(k) /\ ~Full(s)
      <3> HIDE DEF event
      <3>1. /\ Append(channel[s].buffer, event) \in Seq(Event)
            /\ Len(Append(channel[s].buffer, event)) = Len(channel[s].buffer) + 1
        BY <1>1, <2>1
      <3>2. next(s) = [channel[s] EXCEPT !.buffer = Append(@, event)]
        BY <2>2, <2>4 DEF Send
      <3>3. Len(channel[s].buffer) + 1 <= ChannelSize
        BY <2>1, <2>4, HubAssumption DEF Full
      <3> DEFINE longer == Append(channel[s].buffer, event)
      <3>4. longer \in Seq(Event) /\ Len(longer) <= ChannelSize
        BY <3>1, <3>3
      <3>5. next(s) = [channel[s] EXCEPT !.buffer = longer]
        BY <3>2
      <3> HIDE DEF longer, next
      <3> QED BY <2>1, <2>4, <3>4, <3>5 DEF Channel
    <2>5. CASE s \notin Group(k)
      BY <2>1, <2>5
    <2> QED BY <2>3, <2>4, <2>5
  <1> HIDE DEF next
  <1> QED BY <1>2, <1>3

LEMMA PublishKeeps ==
  ASSUME HubInv, NEW k \in Key, NEW v \in Version, Publish(k, v), ~closed
  PROVE  /\ NoPanic' /\ RegisteredIffOpen' /\ GroupsReclaimed' /\ ClosedIsEmpty'
         /\ DOMAIN groups' \subseteq Key /\ \A j \in DOMAIN groups' : groups'[j] \subseteq Sub
PROOF
  <1> DEFINE dropped == {s \in Group(k) : Full(s)}
  <1>1. /\ groups' = IF k \in DOMAIN groups THEN Drop(k, dropped) ELSE groups
        /\ held' = held /\ closed' = closed
    BY DEF Publish
  <1>2. DOMAIN groups' = DOMAIN groups
    BY <1>1 DEF Drop, SetGroup
  <1>3. \A j \in DOMAIN groups : groups'[j] = IF j = k THEN Group(k) \ dropped ELSE groups[j]
    BY <1>1 DEF Drop, SetGroup
  <1>4. \A j \in DOMAIN groups' : groups'[j] \subseteq Sub
    BY <1>2, <1>3 DEF HubInv, HubTyped, Group
  <1>5. NoPanic'
    BY PublishChannels DEF HubInv, NoPanic
  <1>6. RegisteredIffOpen'
    <2> SUFFICES ASSUME NEW s \in Sub
                 PROVE  /\ channel'[s].state = "open" <=>
                             \E j \in DOMAIN groups' : s \in groups'[j]
                        /\ \A j \in DOMAIN groups' : s \in groups'[j] => j = held[s]
      BY <1>1 DEF RegisteredIffOpen, Registered
    <2>1. \A j \in DOMAIN groups :
            s \in groups'[j] <=> s \in groups[j] /\ ~(j = k /\ Full(s))
      BY <1>3 DEF Group
    <2>2. \A j \in DOMAIN groups : s \in groups[j] => j = held[s]
      BY DEF HubInv, RegisteredIffOpen
    <2>3. channel[s].state = "open" <=> \E j \in DOMAIN groups : s \in groups[j]
      BY DEF HubInv, RegisteredIffOpen, Registered
    <2>4. s \in Group(k) <=> k \in DOMAIN groups /\ s \in groups[k]
      BY MembersAreOpen
    <2>5. channel'[s].state = IF s \in Group(k) /\ Full(s) THEN "closed" ELSE channel[s].state
      BY PublishChannels
    <2> QED BY <1>2, <2>1, <2>2, <2>3, <2>4, <2>5
  <1>7. GroupsReclaimed'
    BY <1>1, <1>2 DEF HubInv, GroupsReclaimed
  <1> QED
    BY <1>1, <1>2, <1>4, <1>5, <1>6, <1>7 DEF HubInv, HubTyped, ClosedIsEmpty

\* How much of a log of length len the history holds.
Window(len) == IF len < HistorySize THEN len ELSE HistorySize

Newest(l) == SubSeq(l, Len(l) - Window(Len(l)) + 1, Len(l))

IsSuffix(h, l) ==
  Len(h) <= Len(l) /\ \A i \in 1 .. Len(h) : h[i] = l[Len(l) - Len(h) + i]

\* h has been appended to together with l and is not yet trimmed.
Untrimmed(h, l) ==
  IsSuffix(h, l) /\ Len(l) # 0 /\ Len(h) = Window(Len(l) - 1) + 1

\* The newest end of a log is a suffix of it, of the length that is allowed.
LEMMA NewestIsSuffix ==
  ASSUME NEW l \in Seq(Event)
  PROVE  /\ Newest(l) \in Seq(Event) /\ Len(Newest(l)) = Window(Len(l))
         /\ IsSuffix(Newest(l), l)
PROOF
  <1>1. /\ Len(l) \in Nat /\ Window(Len(l)) \in Nat /\ Window(Len(l)) <= Len(l)
    BY HubAssumption DEF Window
  <1> DEFINE m == Len(l)
             n == Window(m)
  <1>2. \A i \in m - n + 1 .. m : l[i] \in Event
    BY <1>1
  <1> HIDE DEF m, n
  <1>3. m \in Nat /\ n \in Nat /\ n <= m
    BY <1>1 DEF m, n
  <1>4. /\ SubSeq(l, m - n + 1, m) \in Seq(Event)
        /\ Len(SubSeq(l, m - n + 1, m)) = n
        /\ \A i \in 1 .. n : SubSeq(l, m - n + 1, m)[i] = l[m - n + i]
    BY <1>2, <1>3, SubSeqProperties
  <1>5. Newest(l) = SubSeq(l, m - n + 1, m)
    BY DEF Newest, m, n
  <1>6. n = Window(Len(l)) /\ m = Len(l)
    BY DEF m, n
  <1> QED BY <1>3, <1>4, <1>5, <1>6 DEF IsSuffix

\* Nothing else is.
LEMMA SuffixIsNewest ==
  ASSUME NEW l \in Seq(Event), NEW h \in Seq(Event), IsSuffix(h, l),
         Len(h) = Window(Len(l))
  PROVE  h = Newest(l)
PROOF
  <1>1. /\ Newest(l) \in Seq(Event) /\ Len(Newest(l)) = Len(h)
        /\ IsSuffix(Newest(l), l)
    BY NewestIsSuffix
  <1>2. \A i \in 1 .. Len(h) : Newest(l)[i] = l[Len(l) - Len(h) + i]
    BY <1>1 DEF IsSuffix
  <1>3. \A i \in 1 .. Len(h) : h[i] = Newest(l)[i]
    BY <1>2 DEF IsSuffix
  <1> QED BY <1>1, <1>3, SeqEqual

LEMMA AppendKeepsSuffix ==
  ASSUME NEW l \in Seq(Event), NEW h \in Seq(Event), NEW e \in Event,
         IsSuffix(h, l), Len(h) = Window(Len(l))
  PROVE  Untrimmed(Append(h, e), Append(l, e))
PROOF
  <1>1. /\ Len(Append(l, e)) = Len(l) + 1 /\ Append(l, e)[Len(l) + 1] = e
        /\ \A i \in 1 .. Len(l) : Append(l, e)[i] = l[i]
    BY AppendProperties
  <1>2. /\ Len(Append(h, e)) = Len(h) + 1 /\ Append(h, e)[Len(h) + 1] = e
        /\ \A i \in 1 .. Len(h) : Append(h, e)[i] = h[i]
    BY AppendProperties
  <1> DEFINE m == Len(l)
             n == Len(h)
             ll == Append(l, e)
             hh == Append(h, e)
  <1>3. m \in Nat /\ n \in Nat /\ n <= m /\ \A i \in 1 .. n : h[i] = l[m - n + i]
    BY DEF IsSuffix
  <1>4. /\ Len(ll) = m + 1 /\ ll[m + 1] = e /\ \A i \in 1 .. m : ll[i] = l[i]
        /\ Len(hh) = n + 1 /\ hh[n + 1] = e /\ \A i \in 1 .. n : hh[i] = h[i]
    BY <1>1, <1>2
  <1> HIDE DEF m, n, ll, hh
  <1>5. ASSUME NEW i \in 1 .. n + 1
        PROVE  hh[i] = ll[m - n + i]
    <2>1. CASE i = n + 1
      <3>1. m - n + i = m + 1
        BY <1>3, <2>1
      <3> QED BY <1>4, <2>1, <3>1
    <2>2. CASE i \in 1 .. n
      <3>1. m - n + i \in 1 .. m
        BY <1>3, <2>2
      <3>2. ll[m - n + i] = l[m - n + i]
        BY <1>4, <3>1
      <3> QED BY <1>3, <1>4, <2>2, <3>2
    <2> QED BY <1>3, <2>1, <2>2
  <1>6. m + 1 - (n + 1) = m - n /\ n + 1 <= m + 1 /\ m + 1 - 1 = m
    BY <1>3
  <1>7. IsSuffix(hh, ll)
    <2>1. Len(hh) <= Len(ll) /\ Len(ll) - Len(hh) = m - n
      BY <1>3, <1>4, <1>6
    <2>2. \A i \in 1 .. Len(hh) : hh[i] = ll[Len(ll) - Len(hh) + i]
      BY <1>4, <1>5, <2>1
    <2> QED BY <2>1, <2>2 DEF IsSuffix
  <1>8. Len(ll) # 0 /\ Len(ll) - 1 = m /\ Window(m) = n
    BY <1>3, <1>4 DEF m, n
  <1>9. Untrimmed(hh, ll)
    BY <1>4, <1>7, <1>8 DEF Untrimmed
  <1> QED BY <1>9 DEF hh, ll

\* Trimmed, it is again the newest end of the log.
LEMMA TrimKeepsNewest ==
  ASSUME NEW l \in Seq(Event), NEW h \in Seq(Event), Untrimmed(h, l)
  PROVE  Trim(h) \in Seq(Event) /\ Trim(h) = Newest(l)
PROOF
  <1> DEFINE m == Len(l)
             n == Len(h)
  <1>1. /\ m \in Nat /\ n \in Nat /\ n <= m /\ n = Window(m - 1) + 1
        /\ \A i \in 1 .. n : h[i] = l[m - n + i]
    BY DEF Untrimmed, IsSuffix
  <1>2. m \in Nat \ {0} /\ HistorySize \in Nat \ {0}
    BY <1>1, HubAssumption DEF Untrimmed
  <1>3. CASE n > HistorySize
    <2>1. n = HistorySize + 1 /\ Window(m) = HistorySize
      BY <1>1, <1>2, <1>3 DEF Window
    <2>2. Trim(h) = SubSeq(h, 2, n)
      BY <1>2, <1>3, <2>1 DEF Trim
    <2> DEFINE t == SubSeq(h, 2, n)
    <2>3. \A i \in 2 .. n : h[i] \in Event
      BY <1>1
    <2>4. t \in Seq(Event) /\ Len(t) = n - 1 /\ \A i \in 1 .. n - 1 : t[i] = h[i + 1]
      BY <1>1, <1>2, <2>1, <2>3, SubSeqProperties
    <2> HIDE DEF t
    <2>5. ASSUME NEW i \in 1 .. n - 1
          PROVE  t[i] = l[m - (n - 1) + i]
      <3>1. i + 1 \in 1 .. n /\ m - n + (i + 1) = m - (n - 1) + i
        BY <1>1
      <3>2. h[i + 1] = l[m - n + (i + 1)]
        BY <1>1, <3>1
      <3> QED BY <2>4, <3>1, <3>2
    <2>6. n - 1 = Window(m) /\ n - 1 <= m
      BY <1>1, <1>2, <2>1
    <2>7. IsSuffix(t, l)
      BY <2>4, <2>5, <2>6 DEF IsSuffix
    <2> QED BY <2>2, <2>4, <2>6, <2>7, SuffixIsNewest DEF t
  <1>4. CASE n <= HistorySize
    <2>1. Trim(h) = h
      BY <1>1, <1>2, <1>4 DEF Trim
    <2> HIDE DEF m, n
    <2>2. n = Window(m)
      BY <1>1, <1>2, <1>4 DEF Window
    <2> QED BY <2>1, <2>2, SuffixIsNewest DEF Untrimmed, m, n
  <1> QED BY <1>1, <1>2, <1>3, <1>4

LEMMA PublishHistory ==
  ASSUME HubInv, NEW k \in Key, NEW v \in Version, Publish(k, v), ~closed
  PROVE  /\ eventID' \in Nat /\ history' \in Seq(Event) /\ log' \in Seq(Event)
         /\ HistoryWindow'
PROOF
  <1>1. PICK e \in Event :
          e.id = eventID + 1 /\ log' = Append(log, e) /\ history' = Trim(Append(history, e))
    BY HubAssumption DEF Publish, HubInv, HubTyped, Event
  <1>2. /\ eventID' = eventID + 1 /\ eventID = Len(log)
        /\ log \in Seq(Event) /\ history \in Seq(Event)
        /\ \A i \in DOMAIN log : log[i].id = i
    BY DEF Publish, HubInv, HubTyped, HistoryWindow
  <1>3. history = Newest(log)
    BY DEF HubInv, HistoryWindow, Newest, Window
  <1>4. Untrimmed(Append(history, e), Append(log, e))
    BY <1>2, <1>3, NewestIsSuffix, AppendKeepsSuffix
  <1>5. Append(history, e) \in Seq(Event) /\ log' \in Seq(Event)
    BY <1>1, <1>2, AppendProperties
  <1>6. history' \in Seq(Event) /\ history' = Newest(log')
    BY <1>1, <1>4, <1>5, TrimKeepsNewest
  <1>7. /\ Len(log') = Len(log) + 1 /\ log'[Len(log) + 1] = e
        /\ \A i \in 1 .. Len(log) : log'[i] = log[i]
    BY <1>1, <1>2, AppendProperties
  <1>8. \A i \in DOMAIN log' : log'[i].id = i
    <2>1. DOMAIN log' = 1 .. Len(log) + 1 /\ DOMAIN log = 1 .. Len(log)
      BY <1>2, <1>5, <1>7
    <2>2. Len(log) \in Nat
      BY <1>2
    <2> QED BY <1>1, <1>2, <1>7, <2>1, <2>2
  <1>9. eventID' = Len(log') /\ eventID' \in Nat
    BY <1>2, <1>7
  <1> QED BY <1>5, <1>6, <1>8, <1>9 DEF HistoryWindow, Newest, Window

-----------------------------------------------------------------------------
(* The other methods.                                                      *)

\* Nothing of the hub but groups changes: what is left to show.
LEMMA HistoryFrame ==
  ASSUME HubInv, UNCHANGED <<eventID, history, log>>
  PROVE  HistoryWindow' /\ eventID' \in Nat /\ history' \in Seq(Event) /\ log' \in Seq(Event)
PROOF
  BY DEF HubInv, HubTyped, HistoryWindow

LEMMA SubscribeKeeps ==
  ASSUME HubInv, NEW s \in Sub, NEW k \in Key, NEW last, Subscribe(s, k, last)
  PROVE  HubInv'
PROOF
  <1>1. /\ held[s] = NoKey /\ held' = [held EXCEPT ![s] = k]
        /\ UNCHANGED <<eventID, history, closed, log>>
    BY DEF Subscribe
  <1>2. held' \in [Sub -> Key \cup {NoKey}] /\ held'[s] = k
        /\ \A r \in Sub \ {s} : held'[r] = held[r]
    BY <1>1 DEF HubInv, HubTyped
  <1>3. channel[s].state # "open"
    BY <1>1, MembersAreOpen
  <1>4. \A j \in DOMAIN groups : s \notin groups[j]
    BY <1>3 DEF HubInv, RegisteredIffOpen, Registered
  <1>5. CASE closed
    <2>1. channel' = [channel EXCEPT ![s] = ClosedChannel] /\ groups' = groups
      BY <1>5 DEF Subscribe
    <2>2. /\ channel' \in [Sub -> Channel]
          /\ channel'[s].state = "closed" /\ Len(channel'[s].buffer) = 0
          /\ \A r \in Sub \ {s} : channel'[r] = channel[r]
      BY <2>1 DEF HubInv, HubTyped, ClosedChannel, Channel
    <2>3. HubTyped'
      BY <1>2, <2>1, <2>2, HistoryFrame, <1>1, HubAssumption DEF HubInv, HubTyped
    <2>4. DOMAIN groups = {}
      BY <1>5 DEF HubInv, ClosedIsEmpty
    <2>5. NoPanic' /\ RegisteredIffOpen' /\ GroupsReclaimed' /\ ClosedIsEmpty'
      BY <1>1, <2>1, <2>2, <2>4
      DEF HubInv, NoPanic, RegisteredIffOpen, Registered, GroupsReclaimed, ClosedIsEmpty
    <2> QED BY <1>1, <2>3, <2>5, HistoryFrame DEF HubInv
  <1>6. CASE ~closed
    <2>1. /\ channel' = [channel EXCEPT ![s] = OpenChannel]
          /\ groups' = SetGroup(k, Group(k) \cup {s})
      BY <1>6 DEF Subscribe
    <2>2. /\ channel' \in [Sub -> Channel]
          /\ channel'[s].state = "open" /\ Len(channel'[s].buffer) = 0
          /\ \A r \in Sub \ {s} : channel'[r] = channel[r]
      BY <2>1 DEF HubInv, HubTyped, OpenChannel, Channel
    <2>3. /\ DOMAIN groups' = DOMAIN groups \cup {k}
          /\ \A j \in DOMAIN groups' :
               groups'[j] = IF j = k THEN Group(k) \cup {s} ELSE groups[j]
      BY <2>1 DEF SetGroup
    <2>4. \A j \in DOMAIN groups', r \in Sub :
            r \in groups'[j] <=> (j = k /\ r = s) \/ (j \in DOMAIN groups /\ r \in groups[j])
      BY <2>3 DEF Group
    <2>5. HubTyped'
      <3>1. \A j \in DOMAIN groups' : groups'[j] \subseteq Sub
        BY <2>3 DEF HubInv, HubTyped, Group
      <3> QED BY <1>1, <1>2, <2>2, <2>3, <3>1, HistoryFrame, HubAssumption
              DEF HubInv, HubTyped
    <2>6. NoPanic' /\ ClosedIsEmpty'
      BY <1>1, <1>6, <2>2 DEF HubInv, NoPanic, ClosedIsEmpty
    <2>7. RegisteredIffOpen'
      <3>1. \A r \in Sub \ {s} :
              /\ channel[r].state = "open" <=> \E j \in DOMAIN groups : r \in groups[j]
              /\ \A j \in DOMAIN groups : r \in groups[j] => j = held[r]
        BY DEF HubInv, RegisteredIffOpen, Registered
      <3>2. \A r \in Sub : channel'[r].state = "open" <=> r \in Registered'
        BY <2>2, <2>3, <2>4, <3>1 DEF Registered
      <3>3. \A r \in Sub : \A j \in DOMAIN groups' : r \in groups'[j] => j = held'[r]
        BY <1>2, <1>4, <2>4, <3>1
      <3> QED BY <3>2, <3>3 DEF RegisteredIffOpen
    <2>8. GroupsReclaimed'
      <3>1. \A j \in DOMAIN groups : \E r \in Sub \ {s} : held[r] = j
        BY <1>1, HubAssumption DEF HubInv, HubTyped, GroupsReclaimed
      <3> QED BY <1>2, <2>3, <3>1 DEF GroupsReclaimed
    <2> QED BY <1>1, <2>5, <2>6, <2>7, <2>8, HistoryFrame DEF HubInv
  <1> QED BY <1>5, <1>6

LEMMA TakeKeeps ==
  ASSUME HubInv, NEW s \in Sub, Take(s)
  PROVE  HubInv'
PROOF
  <1>1. UNCHANGED <<eventID, history, groups, closed, log, held>>
    BY DEF Take, hubVars
  <1>2. /\ channel' \in [Sub -> Channel]
        /\ \A r \in Sub : Len(channel'[r].buffer) <= ChannelSize
        /\ \A r \in Sub : channel'[r].state = channel[r].state
    <2>1. CASE channel' = channel
      BY <2>1 DEF HubInv, HubTyped
    <2>2. CASE /\ channel[s].buffer # <<>>
               /\ channel' = [channel EXCEPT ![s].buffer = Tail(@)]
      <3>1. /\ channel[s].buffer \in Seq(Event) /\ Len(channel[s].buffer) <= ChannelSize
        BY DEF HubInv, HubTyped, Channel
      <3> DEFINE rest == Tail(channel[s].buffer)
      <3>2. rest \in Seq(Event) /\ Len(rest) <= ChannelSize
        BY <2>2, <3>1, HubAssumption
      <3>3. channel' = [channel EXCEPT ![s].buffer = rest]
        BY <2>2
      <3> HIDE DEF rest
      <3> QED BY <3>2, <3>3 DEF HubInv, HubTyped, Channel
    <2> QED BY <2>1, <2>2 DEF Take
  <1>3. HubTyped'
    BY <1>1, <1>2 DEF HubInv, HubTyped
  <1> QED
    BY <1>1, <1>2, <1>3, HistoryFrame
    DEF HubInv, NoPanic, RegisteredIffOpen, Registered, GroupsReclaimed, ClosedIsEmpty

LEMMA UnsubscribeKeeps ==
  ASSUME HubInv, NEW s \in Sub, Unsubscribe(s)
  PROVE  HubInv'
PROOF
  <1>1. PICK k \in Key : k = held[s]
    BY DEF Unsubscribe, HubInv, HubTyped
  <1>2. /\ channel' = [channel EXCEPT ![s] = Discard(Leave(s, k))]
        /\ groups' = Shrink(k, Group(k) \ {s})
        /\ held' = [held EXCEPT ![s] = NoKey]
        /\ UNCHANGED <<eventID, history, closed, log>>
    BY <1>1 DEF Unsubscribe
  <1>3. Discard(Leave(s, k)) = NoChannel
    <2>1. channel[s].state # "panic" /\ channel[s] \in Channel
      BY DEF HubInv, NoPanic, HubTyped
    <2>2. s \in Group(k) => channel[s].state = "open"
      BY MembersAreOpen
    <2> QED BY <2>1, <2>2 DEF Discard, Leave, CloseChannel, Channel
  <1>4. /\ channel' \in [Sub -> Channel] /\ channel'[s] = NoChannel
        /\ \A r \in Sub \ {s} : channel'[r] = channel[r]
        /\ held' \in [Sub -> Key \cup {NoKey}]
        /\ \A r \in Sub \ {s} : held'[r] = held[r]
    BY <1>2, <1>3 DEF HubInv, HubTyped, NoChannel, Channel
  <1>5. \A j \in DOMAIN groups' :
          j \in DOMAIN groups \cup {k} /\ groups'[j] = IF j = k THEN Group(k) \ {s} ELSE groups[j]
    BY <1>2 DEF Shrink, DeleteGroup, SetGroup
  <1>6. \A j \in DOMAIN groups : j \in DOMAIN groups' \/ (j = k /\ Group(k) \ {s} = {})
    BY <1>2 DEF Shrink, DeleteGroup, SetGroup
  <1>7. k \in DOMAIN groups' => Group(k) \ {s} # {}
    BY <1>2 DEF Shrink, DeleteGroup
  <1>8. \A j \in DOMAIN groups', r \in Sub :
          r \in groups'[j] => r # s /\ j \in DOMAIN groups /\ r \in groups[j]
    <2>1. \A j \in DOMAIN groups : s \in groups[j] => j = k
      BY <1>1 DEF HubInv, RegisteredIffOpen
    <2> QED BY <1>5, <2>1 DEF Group
  <1>9. \A j \in DOMAIN groups, r \in Sub \ {s} :
          r \in groups[j] => j \in DOMAIN groups' /\ r \in groups'[j]
    BY <1>5, <1>6 DEF Group
  <1>10. HubTyped'
    <2>1. DOMAIN groups' \subseteq Key /\ \A j \in DOMAIN groups' : groups'[j] \subseteq Sub
      BY <1>5 DEF HubInv, HubTyped, Group
    <2>2. Len(channel'[s].buffer) <= ChannelSize
      BY <1>4, HubAssumption DEF NoChannel
    <2>3. \A r \in Sub : Len(channel'[r].buffer) <= ChannelSize
      BY <1>4, <2>2 DEF HubInv, HubTyped
    <2> QED BY <1>2, <1>4, <2>1, <2>3 DEF HubInv, HubTyped
  <1>11. NoPanic'
    BY <1>4 DEF HubInv, NoPanic, NoChannel
  <1>12. ClosedIsEmpty'
    BY <1>2, <1>5, <1>7 DEF HubInv, ClosedIsEmpty, Group
  <1>13. RegisteredIffOpen'
    <2>1. \A r \in Sub \ {s} :
            /\ channel[r].state = "open" <=> \E j \in DOMAIN groups : r \in groups[j]
            /\ \A j \in DOMAIN groups : r \in groups[j] => j = held[r]
      BY DEF HubInv, RegisteredIffOpen, Registered
    <2>2. channel'[s].state # "open"
      BY <1>4 DEF NoChannel
    <2>3. \A r \in Sub : channel'[r].state = "open" <=> r \in Registered'
      BY <1>4, <1>8, <1>9, <2>1, <2>2 DEF Registered
    <2>4. \A r \in Sub : \A j \in DOMAIN groups' : r \in groups'[j] => j = held'[r]
      BY <1>4, <1>8, <2>1
    <2> QED BY <2>3, <2>4 DEF RegisteredIffOpen
  <1>14. GroupsReclaimed'
    <2> SUFFICES ASSUME NEW j \in DOMAIN groups' PROVE \E r \in Sub : held'[r] = j
      BY DEF GroupsReclaimed
    <2>1. CASE j = k
      <3>1. PICK r : r \in Group(k) \ {s}
        BY <1>7, <2>1
      <3>2. r \in Sub /\ held[r] = k
        BY <3>1, MembersAreOpen DEF HubInv, HubTyped, Group
      <3> QED BY <1>4, <2>1, <3>1, <3>2
    <2>2. CASE j # k
      <3>1. PICK r \in Sub : held[r] = j
        BY <1>5, <2>2 DEF HubInv, GroupsReclaimed
      <3> QED BY <1>1, <1>4, <2>2, <3>1
    <2> QED BY <2>1, <2>2
  <1> QED
    BY <1>2, <1>10, <1>11, <1>12, <1>13, <1>14, HistoryFrame DEF HubInv

LEMMA CloseKeeps ==
  ASSUME HubInv, Close
  PROVE  HubInv'
PROOF
  <1>1. /\ UNCHANGED <<eventID, history, log, held>>
        /\ channel' = CloseAll(Registered) /\ groups' = NoGroups
    BY DEF Close
  <1>2. DOMAIN groups' = {}
    BY <1>1 DEF NoGroups
  <1>3. \A s \in Sub :
          /\ channel'[s] \in Channel /\ channel'[s].state \notin {"open", "panic"}
          /\ channel'[s].buffer = channel[s].buffer
    <2> SUFFICES ASSUME NEW s \in Sub
                 PROVE  /\ channel'[s] \in Channel
                        /\ channel'[s].state \notin {"open", "panic"}
                        /\ channel'[s].buffer = channel[s].buffer
      OBVIOUS
    <2>1. /\ channel[s] \in Channel /\ channel[s].state # "panic"
          /\ s \in Registered <=> channel[s].state = "open"
      BY DEF HubInv, HubTyped, NoPanic, RegisteredIffOpen
    <2>2. channel'[s] = IF s \in Registered THEN CloseChannel(channel[s]) ELSE channel[s]
      BY <1>1 DEF CloseAll
    <2>3. CASE s \in Registered
      <3>1. channel'[s] = [channel[s] EXCEPT !.state = "closed"]
        BY <2>1, <2>2, <2>3 DEF CloseChannel
      <3> QED BY <2>1, <3>1 DEF Channel
    <2>4. CASE s \notin Registered
      BY <2>1, <2>2, <2>4
    <2> QED BY <2>3, <2>4
  <1>4. HubTyped'
    BY <1>1, <1>2, <1>3 DEF CloseAll, HubInv, HubTyped
  <1> QED
    BY <1>1, <1>2, <1>3, <1>4, HistoryFrame
    DEF HubInv, NoPanic, RegisteredIffOpen, Registered, GroupsReclaimed, ClosedIsEmpty

-----------------------------------------------------------------------------
(* All steps.                                                              *)

LEMMA PublishKeepsAll ==
  ASSUME HubInv, NEW k \in Key, NEW v \in Version, Publish(k, v), ~closed
  PROVE  HubInv'
PROOF
  <1>1. held' = held
    BY DEF Publish
  <1>2. HubTyped'
    BY <1>1, PublishChannels, PublishKeeps, PublishHistory DEF HubInv, HubTyped
  <1> QED BY <1>2, PublishKeeps, PublishHistory DEF HubInv

LEMMA HubInvStep == HubInv /\ [Next]_vars => HubInv'
PROOF
  <1> SUFFICES ASSUME HubInv, [Next]_vars PROVE HubInv'
    OBVIOUS
  <1>1. CASE UNCHANGED vars
    <2>1. UNCHANGED <<eventID, history, groups, closed, log, channel, held>>
      BY <1>1 DEF vars, hubVars, subVars
    <2> QED
      BY <2>1
      DEF HubInv, HubTyped, ClosedIsEmpty, NoPanic, RegisteredIffOpen, Registered,
          GroupsReclaimed, HistoryWindow
  <1>2. ASSUME NEW k \in Key, NEW v \in Version, Publish(k, v), ~closed
        PROVE  HubInv'
    BY <1>2, PublishKeepsAll
  <1>3. ASSUME NEW k \in Key, NEW v \in Version, Publish(k, v), closed
        PROVE  UNCHANGED vars
    BY <1>3 DEF Publish
  <1> QED
    BY <1>1, <1>2, <1>3, CloseKeeps, SubscribeKeeps, TakeKeeps, UnsubscribeKeeps DEF Next

LEMMA HubInit == Init => HubInv
PROOF
  <1> SUFFICES ASSUME Init PROVE HubInv
    OBVIOUS
  <1>1. DOMAIN groups = {} /\ Len(log) = 0 /\ DOMAIN log = {} /\ NoChannel \in Channel
    BY DEF Init, NoGroups, NoChannel, Channel
  <1>2. HistoryWindow
    BY <1>1, HubAssumption, SubSeqEmpty DEF Init, HistoryWindow
  <1> QED
    BY <1>1, <1>2, HubAssumption
    DEF Init, NoChannel, HubInv, HubTyped, ClosedIsEmpty, NoPanic, RegisteredIffOpen,
        Registered, GroupsReclaimed

LEMMA HubInvariance == Spec => []HubInv
PROOF
  BY HubInit, HubInvStep, PTL DEF Spec

-----------------------------------------------------------------------------
(* Theorems.                                                               *)

\* However Publish, unsubscribe and Hub.Close follow each other, no channel is
\* closed twice and nothing is sent on a closed one.
THEOREM HubDoesNotPanic == Spec => []NoPanic
PROOF
  BY HubInvariance, PTL DEF HubInv

\* The groups hold exactly the subscribers whose channel is open, each under the
\* key it subscribed to.
THEOREM RegisteredAreOpen == Spec => []RegisteredIffOpen
PROOF
  BY HubInvariance, PTL DEF HubInv

\* No key stays in the map after its last subscription was given back.
THEOREM GroupsAreReclaimed == Spec => []GroupsReclaimed
PROOF
  BY HubInvariance, PTL DEF HubInv

\* The history is the newest end of everything published, of the length that is
\* configured, and ids number the events without a gap.
THEOREM HistoryIsWindow == Spec => []HistoryWindow
PROOF
  BY HubInvariance, PTL DEF HubInv
=============================================================================
