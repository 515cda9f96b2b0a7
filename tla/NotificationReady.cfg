SPECIFICATION Spec
CONSTANTS
  orders = orders
  Key = {orders}
  Sub = {c1}
  Version = {1, 2}
  NoID = NoID
  BadID = BadID
  NoKey = NoKey
  HistorySize = 2
  ChannelSize = 1
  MaxEvents = 0
  Follows <- FollowOrders
  MaxRestarts = 0
INVARIANTS
  SubscribersNotified
CHECK_DEADLOCK FALSE
