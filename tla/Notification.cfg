SPECIFICATION FairSpec
CONSTANTS
  orders = orders
  Key = {orders}
  Sub = {c1}
  Version = {1, 2, 3}
  NoID = NoID
  BadID = BadID
  NoKey = NoKey
  HistorySize = 1
  ChannelSize = 1
  MaxEvents = 0
  Follows <- FollowOrders
  MaxRestarts = 2
INVARIANTS
  TypeOK
  FollowerCurrent
  FetchedWhatWasTold
  ResumeSyncsInOneProcess
PROPERTIES
  ClientsConverge
  ShutdownEnds
CHECK_DEADLOCK FALSE
