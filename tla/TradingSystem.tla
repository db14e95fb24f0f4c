--------------------------- MODULE TradingSystem ---------------------------
(***************************************************************************)
(* The trading program (src/main.cpp): the event loop, the callbacks for   *)
(* quotes and trades, the OrderManager they feed and the order client they *)
(* send to, until a signal asks for the end.                               *)
(*                                                                         *)
(* The order client is the abstract channel that OrderClient implements;   *)
(* the market data client is its effect: in one turn of the loop up to     *)
(* BatchLimit messages reach the callbacks.  A signal may come between any *)
(* two of them.  A symbol is the configured one, a longer one that starts  *)
(* with it, or another.                                                    *)
(***************************************************************************)
EXTENDS OrderManager

CONSTANTS QUEUE_CAPACITY,
          BatchLimit   \* messages that one processIncomingData may deliver

ASSUME BatchAssumption == BatchLimit \in Nat \ {0}
ASSUME ChannelAssumption == QUEUE_CAPACITY \in Nat \ {0}

VARIABLES
  open, calls, pending, written, abandoned,   \* the order channel
  shutdownRequested,   \* g_shutdown_requested
  running,             \* of the NetworkManager
  step,                \* of the turn: top of the loop, events
  batch,               \* messages this turn may still deliver
  writable,            \* the order socket is in writeSet
  totalQuotes, totalTrades, totalOrders,
  late                 \* auxiliary: messages handled since the signal

Channel == INSTANCE OrderChannel

channelVars == <<open, calls, pending, written, abandoned>>
totals == <<totalQuotes, totalTrades, totalOrders>>
loopVars == <<shutdownRequested, running, step, batch, writable, late>>
systemVars == <<vars, channelVars, totals, loopVars>>

SystemInit ==
  /\ Init /\ Channel!ChannelInit
  /\ totalQuotes = 0 /\ totalTrades = 0 /\ totalOrders = 0
  /\ shutdownRequested = FALSE /\ running = TRUE
  /\ step = "top" /\ batch = 0 /\ writable = FALSE /\ late = 0

-----------------------------------------------------------------------------
(* strncmp over the length of the configured symbol *)
Matches(symbol) == symbol # "other"
Symbols == {"configured", "longer", "other"}

(* Mutant of ValidateQuote: quantities are not tested. *)
ValidatePrices(q) == /\ q.askPrice >= 0 /\ ToInt32(q.bidPrice) >= 0
                     /\ ToInt32(q.bidPrice) <= q.askPrice

(* MessageParser, before the callback is reached *)
ValidateQuote(q) == /\ q.bidQuantity # 0 /\ q.askQuantity # 0
                    /\ q.askPrice >= 0 /\ ToInt32(q.bidPrice) >= 0
                    /\ ToInt32(q.bidPrice) <= q.askPrice
ValidateTrade(t) == t.quantity # 0 /\ t.price >= 0

Accepted == pending \cup written \cup abandoned

(* Mutant of SendOrder: an order counts when it is handed over. *)
SendOrderCounted(o) ==
  /\ IF open /\ o.quantity > 0 /\ o.price > 0
     THEN Channel!SendOrder
     ELSE calls' = calls + 1 /\ UNCHANGED <<open, pending, written, abandoned>>
  /\ totalOrders' = totalOrders + 1

(* sendOrder, and the count when it returned true *)
SendOrder(o) ==
  /\ IF open /\ o.quantity > 0 /\ o.price > 0
     THEN Channel!SendOrder
     ELSE calls' = calls + 1 /\ UNCHANGED <<open, pending, written, abandoned>>
  /\ totalOrders' = IF calls' \in Accepted' THEN totalOrders + 1 ELSE totalOrders

(* The next message of the turn *)
NextMessage ==
  /\ step = "events" /\ batch > 0
  /\ batch' = batch - 1
  /\ late' = IF shutdownRequested THEN late + 1 ELSE late
  /\ UNCHANGED <<shutdownRequested, running, step, writable>>

OnQuote(symbol, q) ==
  /\ NextMessage
  /\ IF ValidateQuote(q) /\ Matches(symbol)
     THEN /\ totalQuotes' = totalQuotes + 1
          /\ ProcessQuote(q)
          /\ IF Triggers(EngineStateAfterCheck, q, CurrentVwap)
             THEN SendOrder(BuildOrder(q))
             ELSE UNCHANGED <<channelVars, totalOrders>>
          /\ UNCHANGED totalTrades
     ELSE UNCHANGED <<vars, channelVars, totals>>

(* Every tenth trade is followed by getCurrentVwap, which finds the VWAP   *)
(* that processTrade has just computed for its own tenth trade.            *)
OnTrade(symbol, t) ==
  /\ NextMessage
  /\ IF ValidateTrade(t) /\ Matches(symbol)
     THEN /\ totalTrades' = totalTrades + 1
          /\ ProcessTrade(t)
          /\ UNCHANGED <<channelVars, totalQuotes, totalOrders>>
     ELSE UNCHANGED <<vars, channelVars, totals>>

-----------------------------------------------------------------------------
(* The start of processEvents: an order client that is not connected may   *)
(* be reconnected, and is then not polled before the next turn.            *)
StartEvents ==
  /\ step' = "events" /\ batch' = BatchLimit /\ writable' = open
  /\ Channel!Reopen \/ UNCHANGED channelVars
  /\ UNCHANGED <<shutdownRequested, running, late>>

(* Mutant of StartTurn: the signal is not looked at. *)
StartTurnRegardless ==
  /\ running /\ step = "top"
  /\ StartEvents
  /\ UNCHANGED <<vars, totals>>

StartTurn ==
  /\ running /\ step = "top" /\ ~ shutdownRequested
  /\ StartEvents
  /\ UNCHANGED <<vars, totals>>

(* The end of processEvents, and the statistics every 30 seconds *)
EndTurn ==
  /\ step = "events" /\ step' = "top"
  /\ \/ writable /\ (Channel!Flush \/ Channel!Abandon)
     \/ UNCHANGED channelVars
  /\ ReadVwap \/ UNCHANGED vars
  /\ UNCHANGED <<totals, shutdownRequested, running, batch, writable, late>>

Signal ==
  /\ ~ shutdownRequested /\ shutdownRequested' = TRUE
  /\ UNCHANGED <<vars, channelVars, totals, running, step, batch, writable, late>>

(* NetworkManager::stop; what is pending stays in the queue. *)
Stop ==
  /\ running /\ step = "top" /\ shutdownRequested
  /\ running' = FALSE /\ Channel!Close
  /\ UNCHANGED <<vars, totals, shutdownRequested, step, batch, writable, late>>

Loop == StartTurn \/ EndTurn \/ Stop

SystemNext ==
  \/ \E symbol \in Symbols, q \in Quotes : OnQuote(symbol, q)
  \/ \E symbol \in Symbols, t \in Trades : OnTrade(symbol, t)
  \/ Loop
  \/ Signal

(* The loop never blocks: select waits for at most 100 ms. *)
SystemSpec == SystemInit /\ [][SystemNext]_systemVars /\ WF_systemVars(Loop)

-----------------------------------------------------------------------------
(* No quote that reaches the engine makes an order without quantity, with  *)
(* a negative price or above the limit, on either side: validateQuote and  *)
(* calculateOrderSize together (the engine alone would).                   *)
NoEmptyOrder ==
  \A i \in DOMAIN issued : /\ issued[i].quantity \in 1 .. MaxOrderSize
                           /\ issued[i].price >= 0

(* What main reports: "Total Orders Sent" counts the orders the client     *)
(* accepted, wherever they are now; the OrderManager's own total counts    *)
(* every order it made, sent or not, and is never smaller.                 *)
ReportedTotals ==
  /\ totalOrders = Cardinality(Accepted)
  /\ totalOrdersSent = calls
  /\ Accepted \subseteq 1 .. calls
  /\ pending \cap written = {} /\ (pending \cup written) \cap abandoned = {}
  /\ totalQuotes = managerQuotes /\ totalTrades = managerTrades

(* The messages handled after the signal are at most the rest of one turn, *)
(* and none is handled once the connections are closed.                    *)
SignalEndsTrading ==
  late <= BatchLimit /\ (~ running => shutdownRequested /\ ~ open)

(* A signal ends the program, whatever arrives and whatever state the      *)
(* connections are in.                                                     *)
ShutdownCompletes == shutdownRequested ~> ~ running
=============================================================================
