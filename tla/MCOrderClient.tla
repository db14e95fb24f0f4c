--------------------------- MODULE MCOrderClient ---------------------------
(* A small instance of OrderClient for TLC. *)
EXTENDS OrderClient

CONSTANT MaxOrders   \* calls of sendOrder

MCNext == \/ calls < MaxOrders /\ SendOrder
          \/ ProcessSendQueue
          \/ ReconnectClient \/ DisconnectClient
          \/ Elapse(1) /\ UNCHANGED clientVars

MCSpec == Init /\ [][MCNext]_vars
=============================================================================
