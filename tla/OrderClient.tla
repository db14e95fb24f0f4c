---------------------------- MODULE OrderClient ----------------------------
(***************************************************************************)
(* OrderClient (include/order_client.h, src/order_client.cpp): writes      *)
(* orders to the order server as fixed-size messages without a header, and *)
(* queues what the kernel does not take.                                   *)
(*                                                                         *)
(* An order is OrderSize bytes (25 in the code); a byte is the pair of its *)
(* order and its position.  The queue is the sequence of the bytes that    *)
(* wait: an order has at most one entry, so the entries are the orders in  *)
(* it.  How much the kernel takes of a write, and every error it may       *)
(* return, are chosen freely.  Orders are numbered in the order of the     *)
(* calls of sendOrder; the serialised fields are left out.                 *)
(***************************************************************************)
EXTENDS TcpClient, FiniteSets

CONSTANTS OrderSize,       \* WireFormat::ORDER_SIZE
          QUEUE_CAPACITY   \* entries of the send queue (1000 in the code)

ASSUME OrderSizeAssumption == OrderSize \in Nat \ {0}
ASSUME QueueCapacityAssumption == QUEUE_CAPACITY \in Nat \ {0}

VARIABLES
  queue,      \* bytes waiting to be sent, oldest first
  calls,      \* orders handed to sendOrder so far
  wire,       \* bytes written on the current connection
  \* Auxiliary: no action of the code depends on these.
  accepted,   \* orders for which sendOrder returned true
  past,       \* bytes written on earlier connections
  discarded,  \* bytes of accepted orders that processSendQueue threw away
  broken      \* the framing of the current connection is at risk

clientVars == <<queue, calls, wire, accepted, past, discarded, broken>>
vars == <<tcpVars, clientVars>>

Byte(order, pos) == [order |-> order, pos |-> pos]
Bytes(order, first) == [i \in 1 .. OrderSize - first + 1 |->
                          Byte(order, first + i - 1)]
BytesOf(s) == {s[i] : i \in DOMAIN s}
Written == past \cup BytesOf(wire)

Entries(q) == Cardinality({b.order : b \in BytesOf(q)})

(* An entry is the rest of an order whose first bytes were written. *)
PartialPending ==
  \E b \in BytesOf(queue) : Byte(b.order, 1) \notin BytesOf(queue)

Init ==
  /\ TcpInit
  /\ queue = << >> /\ calls = 0 /\ wire = << >>
  /\ accepted = {} /\ past = {} /\ discarded = {} /\ broken = FALSE

-----------------------------------------------------------------------------
(* sendOrder, for the order with the next number *)
NewOrder == calls + 1

(* Not connected, or an order without quantity or price: nothing is sent. *)
RefuseOrder ==
  UNCHANGED <<tcpVars, queue, wire, accepted, past, discarded, broken>>

(* Mutants of EnqueueRest: the whole order instead of the rest, or success *)
(* reported when the queue is full.                                        *)
EnqueueWhole(sent) ==
  IF Entries(queue) < QUEUE_CAPACITY
  THEN /\ queue' = queue \o Bytes(NewOrder, 1)
       /\ accepted' = accepted \cup {NewOrder}
  ELSE UNCHANGED <<queue, accepted>>

EnqueueOrForget(sent) ==
  /\ accepted' = accepted \cup {NewOrder}
  /\ queue' = IF Entries(queue) < QUEUE_CAPACITY
              THEN queue \o Bytes(NewOrder, sent + 1) ELSE queue

(* enqueue what is left of the order, or drop it when the queue is full *)
EnqueueRest(sent) ==
  IF Entries(queue) < QUEUE_CAPACITY
  THEN /\ queue' = queue \o Bytes(NewOrder, sent + 1)
       /\ accepted' = accepted \cup {NewOrder}
  ELSE UNCHANGED <<queue, accepted>>

(* The order is written at once, whatever is queued already. *)
WriteOrder(sent) ==
  /\ wire' = wire \o SubSeq(Bytes(NewOrder, 1), 1, sent)
  /\ IF sent = OrderSize
     THEN accepted' = accepted \cup {NewOrder} /\ UNCHANGED queue
     ELSE EnqueueRest(sent)
  /\ broken' = (\/ broken
                \/ PartialPending
                \/ sent < OrderSize /\ queue # << >>)
  /\ UNCHANGED <<tcpVars, past, discarded>>

(* EAGAIN, and EINTR, for which TcpClient::send has set ERROR_STATE *)
SendBlocks ==
  /\ EnqueueRest(0)
  /\ UNCHANGED tcpVars \/ ConnectionLost("ERROR_STATE")
  /\ UNCHANGED <<wire, past, discarded, broken>>

(* EPIPE and ECONNRESET, or another error; the queue keeps its entries *)
SendFails ==
  /\ ConnectionLost("DISCONNECTED") \/ ConnectionLost("ERROR_STATE")
  /\ UNCHANGED <<queue, wire, accepted, past, discarded, broken>>

SendOrder ==
  /\ calls' = calls + 1
  /\ \/ RefuseOrder
     \/ /\ connState = "CONNECTED"
        /\ \/ \E sent \in 1 .. OrderSize : WriteOrder(sent)
           \/ SendBlocks
           \/ SendFails

-----------------------------------------------------------------------------
(* Mutant of FlushQueue: a partly written entry is removed with its rest. *)
FlushWholeEntries(sent) ==
  /\ wire' = wire \o SubSeq(queue, 1, sent)
  /\ queue' = SelectSeq(SubSeq(queue, sent + 1, Len(queue)),
                        LAMBDA b : sent = 0 \/ b.order # queue[sent].order)
  /\ discarded' = discarded \cup (BytesOf(queue) \ BytesOf(queue'))

(* processSendQueue writes the queue from its head until the kernel takes  *)
(* no more: sent bytes in all, over one or several entries.                *)
FlushQueue(sent) ==
  /\ wire' = wire \o SubSeq(queue, 1, sent)
  /\ queue' = SubSeq(queue, sent + 1, Len(queue))
  /\ UNCHANGED discarded

(* EPIPE, ECONNRESET or another error: the rest of the queue is emptied. *)
AbandonQueue(sent) ==
  /\ wire' = wire \o SubSeq(queue, 1, sent)
  /\ queue' = << >>
  /\ discarded' = discarded \cup BytesOf(SubSeq(queue, sent + 1, Len(queue)))

ProcessSendQueue ==
  /\ connState = "CONNECTED" /\ queue # << >>
  /\ \/ \E sent \in 0 .. Len(queue) : FlushQueue(sent) /\ UNCHANGED tcpVars
     \* EINTR: the loop continues, finds ERROR_STATE and stops
     \/ /\ \E sent \in 0 .. Len(queue) - 1 : FlushQueue(sent)
        /\ ConnectionLost("ERROR_STATE")
     \/ /\ \E sent \in 0 .. Len(queue) - 1 : AbandonQueue(sent)
        /\ ConnectionLost("DISCONNECTED") \/ ConnectionLost("ERROR_STATE")
  /\ UNCHANGED <<calls, accepted, past, broken>>

(* reconnect: a new stream; nothing empties the queue. *)
ReconnectClient ==
  \/ /\ ReconnectSucceeds
     /\ wire' = << >>
     /\ past' = Written
     /\ broken' = PartialPending
     /\ UNCHANGED <<queue, calls, accepted, discarded>>
  \/ ReconnectFails /\ UNCHANGED clientVars

(* NetworkManager::stop, at the end of main *)
DisconnectClient == Disconnect /\ UNCHANGED clientVars

Next ==
  \/ SendOrder \/ ProcessSendQueue \/ ReconnectClient \/ DisconnectClient
  \/ Elapse(1) /\ UNCHANGED clientVars

Spec == Init /\ [][Next]_vars

-----------------------------------------------------------------------------
AllBytes == [order : Nat \ {0}, pos : 1 .. OrderSize]

TypeOK ==
  /\ TcpTypeOK
  /\ queue \in Seq(AllBytes) /\ Entries(queue) <= QUEUE_CAPACITY
  /\ wire \in Seq(AllBytes)
  /\ calls \in Nat /\ accepted \subseteq 1 .. calls
  /\ past \subseteq AllBytes /\ discarded \subseteq AllBytes
  /\ broken \in BOOLEAN

NoRepeat(s) == \A i, j \in DOMAIN s : s[i] = s[j] => i = j

(* No byte of an order is ever written twice, on one connection or over    *)
(* several: queueing after a partial or failed send and keeping the queue  *)
(* across a reconnect never duplicate an order (sendOrder,                 *)
(* processSendQueue, reconnect).                                           *)
AtMostOnce ==
  /\ NoRepeat(wire) /\ NoRepeat(queue)
  /\ BytesOf(wire) \cap past = {}
  /\ BytesOf(queue) \cap Written = {}

(* An order for which sendOrder returned true is never forgotten: each of  *)
(* its bytes is written, waits in the queue, or was in the queue when      *)
(* processSendQueue emptied it after an error.                             *)
AcceptedAccountedFor ==
  \A o \in accepted :
    BytesOf(Bytes(o, 1)) \subseteq Written \cup BytesOf(queue) \cup discarded

(* The stream of a connection read in blocks of OrderSize bytes, as the    *)
(* order server does (recv_fully in simple_order_server.py)                *)
Framed(s) ==
  \A i \in DOMAIN s :
    /\ s[i].pos = ((i - 1) % OrderSize) + 1
    /\ s[i].pos > 1 => s[i-1].order = s[i].order

(* The stream is framed as long as sendOrder never wrote past a queue that *)
(* held part of an order, was never cut short with something queued, and   *)
(* the connection did not begin with part of an order left in the queue.   *)
FramedUnlessBroken == broken \/ Framed(wire)

Channel == INSTANCE OrderChannel WITH
  open      <- connState = "CONNECTED",
  pending   <- {b.order : b \in BytesOf(queue)},
  written   <- {o \in accepted : BytesOf(Bytes(o, 1)) \subseteq Written},
  abandoned <- {b.order : b \in discarded}

(* The client implements the abstract channel, with the bytes it writes,   *)
(* queues and throws away: an accepted order leaves the queue only by      *)
(* being written to its last byte, in the order of the calls, or by an     *)
(* error that also ends the connection and empties the queue (sendOrder,   *)
(* processSendQueue, reconnect).                                           *)
ImplementsChannel == Channel!ChannelSpec

-----------------------------------------------------------------------------
(* A claim that the code does not meet *)

(* "Receives fixed 25-byte order messages (no header) per protocol spec."  *)
(* (simple_order_server.py:4)                                              *)
OrdersFramed == Framed(wire)
=============================================================================
