---------------------------- MODULE OrderManager ----------------------------
(***************************************************************************)
(* OrderManager (include/order_manager.h, src/order_manager.cpp) owns a    *)
(* VwapCalculator and a DecisionEngine.  Trades go to the calculator,      *)
(* quotes to the engine together with the current VWAP, and orders into a  *)
(* bounded history.  Each call of processTrade or processQuote is one      *)
(* action: everything here runs on the one thread of the event loop.       *)
(*                                                                         *)
(* The variables that would clash with those of the two parts have the     *)
(* prefix manager.                                                         *)
(***************************************************************************)
EXTENDS VwapCalculator, DecisionEngine

CONSTANTS
  MAX_ORDER_HISTORY,  \* length of orderHistory (1000 in the code)
  LogInterval         \* every so many trades the VWAP is printed (10)

ASSUME OrderHistoryAssumption == MAX_ORDER_HISTORY \in Nat \ {0}
ASSUME LogIntervalAssumption == LogInterval \in Nat \ {0}

VARIABLES
  managerState,
  managerQuotes,               \* totalQuotesProcessed of the manager
  managerTrades,               \* totalTradesProcessed of the manager
  totalOrdersSent,
  vwapWindowCompleteNotified,
  orderHistory,
  \* Auxiliary: for every order, the VWAP of the trades that were in the
  \* window, recomputed, and whether the buffer had ever overwritten a trade.
  basis

managerVars == <<managerState, managerQuotes, managerTrades, totalOrdersSent,
                 vwapWindowCompleteNotified, orderHistory, basis>>
vars == <<calcVars, engineVars, managerVars>>

Init ==
  /\ VwapInit
  /\ EngineInit
  /\ managerState = "WAITING_FOR_FIRST_WINDOW"
  /\ managerQuotes = 0 /\ managerTrades = 0 /\ totalOrdersSent = 0
  /\ vwapWindowCompleteNotified = FALSE
  /\ orderHistory = << >>
  /\ basis = << >>

-----------------------------------------------------------------------------
(* checkVwapWindowComplete, given whether the calculator's window is       *)
(* complete: it acts once, while the manager still waits.                  *)
WindowCompletes(complete) ==
  managerState = "WAITING_FOR_FIRST_WINDOW" /\ complete

CheckVwapWindowComplete(complete) ==
  IF WindowCompletes(complete)
  THEN managerState' = "READY_TO_TRADE" /\ vwapWindowCompleteNotified' = TRUE
  ELSE UNCHANGED <<managerState, vwapWindowCompleteNotified>>

ProcessTrade(t) ==
  /\ managerTrades' = managerTrades + 1
  /\ IF managerTrades' % LogInterval = 0
     THEN AddTradeThenGetVwap(t) ELSE AddTrade(t)
  /\ CheckVwapWindowComplete(HasCompleteWindow')
  /\ IF WindowCompletes(HasCompleteWindow')
     THEN OnVwapWindowComplete ELSE UNCHANGED engineVars
  /\ UNCHANGED <<managerQuotes, totalOrdersSent, orderHistory, basis>>

(* The state of the engine after the check at the start of processQuote *)
EngineStateAfterCheck ==
  IF WindowCompletes(HasCompleteWindow)
  THEN "READY_TO_TRADE" ELSE engineState

WindowVwap == VwapOf(Total(PriceVolumes(tradeWindow)),
                     Total(Volumes(tradeWindow)))

(* Mutant of RecordOrder: a full history drops the new order instead of    *)
(* the oldest.                                                             *)
RecordOrderIfRoom(q) ==
  /\ orderHistory' = IF Len(orderHistory) = MAX_ORDER_HISTORY
                     THEN orderHistory ELSE Append(orderHistory, BuildOrder(q))
  /\ totalOrdersSent' = totalOrdersSent + 1
  /\ basis' = Append(basis, [vwap |-> WindowVwap, exact |-> lost.volume = 0])

(* recordOrder and the counter; no callback is registered in this program. *)
RecordOrder(q) ==
  /\ orderHistory' = PushBack(orderHistory, MAX_ORDER_HISTORY, BuildOrder(q))
  /\ totalOrdersSent' = totalOrdersSent + 1
  /\ basis' = Append(basis, [vwap |-> WindowVwap, exact |-> lost.volume = 0])

ProcessQuote(q) ==
  /\ managerQuotes' = managerQuotes + 1
  /\ CheckVwapWindowComplete(HasCompleteWindow)
  /\ GetCurrentVwap
  /\ EvaluateQuote(EngineStateAfterCheck, q, CurrentVwap)
  /\ IF Triggers(EngineStateAfterCheck, q, CurrentVwap)
     THEN RecordOrder(q)
     ELSE UNCHANGED <<orderHistory, totalOrdersSent, basis>>
  /\ UNCHANGED managerTrades

(* OrderManager::getCurrentVwap, which main calls for its statistics *)
ReadVwap == GetCurrentVwap /\ UNCHANGED <<engineVars, managerVars>>

Next == \/ \E t \in Trades : ProcessTrade(t)
        \/ \E q \in Quotes : ProcessQuote(q)
        \/ ReadVwap

Spec == Init /\ [][Next]_vars

-----------------------------------------------------------------------------
TypeOK ==
  /\ VwapTypeOK
  /\ EngineTypeOK
  /\ managerState \in {"WAITING_FOR_FIRST_WINDOW", "READY_TO_TRADE"}
  /\ managerQuotes \in Nat /\ managerTrades \in Nat /\ totalOrdersSent \in Nat
  /\ vwapWindowCompleteNotified \in BOOLEAN
  /\ orderHistory \in Seq(Orders) /\ Len(orderHistory) <= MAX_ORDER_HISTORY
  /\ basis \in Seq([vwap : Nat \X Nat, exact : BOOLEAN])

(* The three pieces of state that say "ready" agree at the end of every    *)
(* handler, and they agree with the calculator: trading starts with the    *)
(* trade that completes the window and is never switched off again.        *)
ReadinessAgrees ==
  /\ managerState = engineState
  /\ vwapWindowCompleteNotified = (managerState = "READY_TO_TRADE")
  /\ HasCompleteWindow = (managerState = "READY_TO_TRADE")

(* "Should not send order before VWAP window complete"                     *)
(* (tests/test_order_manager.cpp:75), where complete means that trades     *)
(* were accepted over the whole duration (processTrade and processQuote).  *)
(* Other tests count the time up to the quote: see OrderOnceTimeHasPassed. *)
NoOrderBeforeWindow ==
  totalOrdersSent > 0 => lastTradeTime - firstTradeTime >= WindowDuration

(* Every order was placed at a price strictly better than the average of   *)
(* the trades in the window at that moment (processQuote, with the cached  *)
(* VWAP, the incremental sums and the expiry between them), provided the   *)
(* buffer had never overwritten a trade.  A bid beyond int32_t would break *)
(* it, since buildOrder's cast makes the price negative; the quotes that   *)
(* main passes on are below that.                                          *)
OrdersBeatWindowVwap ==
  \A i \in DOMAIN issued :
    basis[i].exact => Favorable(issued[i].price, basis[i].vwap)

(* The totals of the three objects describe the same calls, and the order  *)
(* history is the tail of the orders issued (recordOrder).                 *)
TotalsAgree ==
  /\ managerTrades = totalTradesProcessed + rejectedTrades
  /\ managerQuotes = quotesProcessed
  /\ totalOrdersSent = ordersTriggered
  /\ totalOrdersSent = Len(issued) /\ Len(basis) = Len(issued)
  /\ LET n == Len(orderHistory)
     IN  /\ n = IF totalOrdersSent < MAX_ORDER_HISTORY THEN totalOrdersSent
                                                       ELSE MAX_ORDER_HISTORY
         /\ \A i \in 1 .. n :
              orderHistory[i] = issued[Len(issued) - n + i]

-----------------------------------------------------------------------------
(* A claim of the tests that the code does not meet *)

(* "Buy order should trigger when ask < VWAP"                              *)
(* (tests/test_order_triggering.cpp:54), for trades over 0.8 seconds and a *)
(* quote 1.5 seconds after the first of them, with a window of one second: *)
(* a favourable quote gives the first order when the duration has passed   *)
(* since the first trade, and not yet since the last.                      *)
OrderOnceTimeHasPassed ==
  [][\A q \in Quotes :
       /\ ProcessQuote(q) /\ totalOrdersSent = 0 /\ tradeWindow # << >>
       /\ q.timestamp - firstTradeTime >= WindowDuration
       /\ q.timestamp - lastTradeTime < WindowDuration
       /\ ShouldTriggerOrder(q, CurrentVwap)
       => totalOrdersSent' = 1]_vars
=============================================================================
