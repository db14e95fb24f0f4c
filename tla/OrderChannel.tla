---------------------------- MODULE OrderChannel ----------------------------
(***************************************************************************)
(* What the order client promises to its caller: an abstract channel for   *)
(* orders, without bytes, backoff or kernel buffers.  OrderClient is shown *)
(* to implement it, and TradingSystem is built on it.                      *)
(*                                                                         *)
(* Orders are numbered by the calls of sendOrder.  An order for which the  *)
(* call returned true is written, pending or abandoned, only one of them.  *)
(***************************************************************************)
EXTENDS Naturals, FiniteSets

CONSTANT QUEUE_CAPACITY

VARIABLES
  open,      \* the connection is usable
  calls,     \* orders handed to sendOrder
  pending,   \* accepted, and still in the queue with all or part of its bytes
  written,   \* accepted and written completely
  abandoned  \* accepted, and thrown away after an error

channelVars == <<open, calls, pending, written, abandoned>>

ChannelInit ==
  /\ open = TRUE /\ calls = 0
  /\ pending = {} /\ written = {} /\ abandoned = {}

-----------------------------------------------------------------------------
NewOrder == calls + 1

(* sendOrder returned false: nothing of the order will be sent any more.   *)
(* The call may have found out that the connection is lost.                *)
Refused == /\ open' \in {open, FALSE}
           /\ UNCHANGED <<pending, written, abandoned>>

(* The kernel took the order at once, whatever is still pending. *)
WrittenAtOnce ==
  /\ open
  /\ written' = written \cup {NewOrder}
  /\ UNCHANGED <<open, pending, abandoned>>

(* The kernel took none or a part of it; an interrupted call has also      *)
(* closed the connection.                                                  *)
Queued ==
  /\ open /\ Cardinality(pending) < QUEUE_CAPACITY
  /\ pending' = pending \cup {NewOrder}
  /\ open' \in BOOLEAN
  /\ UNCHANGED <<written, abandoned>>

SendOrder == calls' = NewOrder /\ (Refused \/ WrittenAtOnce \/ Queued)

(* Nothing overtakes within the queue. *)
Prefixes == {S \in SUBSET pending : \A a \in S, b \in pending \ S : a < b}

(* processSendQueue writes the oldest pending orders; it may be interrupted. *)
Flush ==
  /\ open /\ pending # {}
  /\ \E S \in Prefixes :
       pending' = pending \ S /\ written' = written \cup S
  /\ open' \in BOOLEAN
  /\ UNCHANGED <<calls, abandoned>>

(* An error after the first of them: every order left is thrown away. *)
Abandon ==
  /\ open /\ pending # {} /\ pending' = {}
  /\ \E S \in Prefixes \ {pending} :
       written' = written \cup S /\ abandoned' = abandoned \cup (pending \ S)
  /\ open' = FALSE
  /\ UNCHANGED calls

(* reconnect keeps the queue, and so does disconnect. *)
Reopen ==
  ~ open /\ open' = TRUE /\ UNCHANGED <<calls, pending, written, abandoned>>
Close == open' = FALSE /\ UNCHANGED <<calls, pending, written, abandoned>>

ChannelNext == SendOrder \/ Flush \/ Abandon \/ Reopen \/ Close

ChannelSpec == ChannelInit /\ [][ChannelNext]_channelVars
=============================================================================
