--------------------------- MODULE MCNotification ---------------------------
(* Small instances of Notification for TLC.                                *)
EXTENDS Notification

CONSTANT orders

\* Every client follows orders.
FollowOrders == [c \in Sub |-> orders]
=============================================================================
