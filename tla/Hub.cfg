SPECIFICATION FairSpec
CONSTANTS
  Key = {orders, billing}
  Sub = {s1, s2}
  Version = {0}
  NoID = NoID
  BadID = BadID
  NoKey = NoKey
  HistorySize = 2
  ChannelSize = 1
  MaxEvents = 4
INVARIANTS
  TypeOK
  NoPanic
  RegisteredIffOpen
  GroupsReclaimed
  HistoryWindow
  StreamExact
PROPERTIES
  ImplementsEventLog
  StreamsEndAfterClose
