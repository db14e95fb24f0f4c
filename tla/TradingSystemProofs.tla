------------------------ MODULE TradingSystemProofs ------------------------
(***************************************************************************)
(* The invariants of OrderManager with its calculator and its engine, and  *)
(* then of the trading program around it: what main reports, what it sends *)
(* and how it stops, whatever arrives and whenever the signal comes; for   *)
(* every capacity, duration, cooldown, trade, quote and batch.             *)
(***************************************************************************)
EXTENDS TradingSystem, VwapCalculatorProofs, FiniteSetTheorems

(* Part 1.  OrderManager *)

(* The inductive invariant.  IInv is that of the calculator; the types and *)
(* the properties of the other two objects need two parts more.            *)
ManagerTypeOK ==
  /\ managerState \in {"WAITING_FOR_FIRST_WINDOW", "READY_TO_TRADE"}
  /\ managerQuotes \in Nat /\ managerTrades \in Nat /\ totalOrdersSent \in Nat
  /\ vwapWindowCompleteNotified \in BOOLEAN
  /\ orderHistory \in Seq(Orders) /\ Len(orderHistory) <= MAX_ORDER_HISTORY
  /\ basis \in Seq([vwap : Nat \X Nat, exact : BOOLEAN])

(* lastOrderTimestamp stands for all the orders: as long as the quotes are *)
(* in order it is the latest of their timestamps.                          *)
Spacing ==
  /\ issued = << >> => lastOrderTimestamp = 0
  /\ issued # << >> => lastOrderTimestamp = issued[Len(issued)].timestamp
  /\ quotesInOrder =>
       /\ lastOrderTimestamp <= lastQuoteTime
       /\ \A i \in 1 .. Len(issued) : issued[i].timestamp <= lastOrderTimestamp
  /\ OrdersSpaced

(* No order before the engine is ready *)
Waited == totalOrdersSent > 0 => managerState = "READY_TO_TRADE"

(* A record has a volume: none is overwritten without a trace in it. *)
LostTogether == lost.volume = 0 => lost.priceVolume = 0

ManagerInv ==
  /\ IInv /\ LostTogether /\ EngineTypeOK /\ ManagerTypeOK
  /\ ReadinessAgrees /\ TotalsAgree /\ DecisionsAddUp /\ Spacing /\ Waited

-----------------------------------------------------------------------------
(* The calculator *)

(* addTrade and getCurrentVwap in one handler keep the calculator's        *)
(* invariant.                                                              *)
LEMMA AddTradeThenGetStep ==
  ASSUME NEW t \in Trades, IInv, AddTradeThenGetVwap(t)
  PROVE  IInv'
<1>1. CASE RejectTrade(t) /\ FillCache
  <2>1. UNCHANGED <<windowVars, auxVars>> /\ rejectedTrades' \in Nat
    BY <1>1, RejectStep
  <2>2. /\ Shape' /\ VolumeInv' /\ PriceVolumeInv' /\ WindowSlides'
        /\ Timeline'
        /\ sumVolume' = sumVolume /\ sumPriceVolume' = sumPriceVolume
    BY <2>1, WindowUnchanged
  <2>3. CacheInv'
    BY <1>1, <2>2, FilledCache
  <2> QED BY <2>2, <2>3 DEF IInv
<1>2. CASE /\ AcceptTrade(t)
           /\ cachedVwap' = VwapOf(sumPriceVolume', sumVolume')
           /\ vwapCacheValid' = TRUE
  <2>1. /\ Shape' /\ VolumeInv' /\ PriceVolumeInv' /\ WindowSlides'
        /\ Timeline'
    BY <1>2, AcceptStep
  <2>2. VwapOf(sumPriceVolume', sumVolume') \in U64 \X Nat
    <3>1. sumPriceVolume' \in U64 /\ sumVolume' \in Nat /\ 0 \in U64
      BY <2>1, U64Assumption DEF Shape, U64
    <3> QED BY <3>1 DEF VwapOf
  <2>3. CacheInv'
    BY <1>2, <2>2 DEF CacheInv, CacheFresh
  <2> QED BY <2>1, <2>3 DEF IInv
<1> QED BY <1>1, <1>2 DEF AddTradeThenGetVwap

(* What a call of addTrade leaves, with or without a look at the VWAP: it  *)
(* is counted, and a window that was complete is still complete.           *)
TradeCounted ==
  /\ totalTradesProcessed' + rejectedTrades'
       = totalTradesProcessed + rejectedTrades + 1
  /\ HasCompleteWindow => HasCompleteWindow'

(* addTrade counts once, and keeps what was lost of the two sums together. *)
LEMMA TradeStep ==
  ASSUME NEW t \in Trades, IInv, LostTogether,
         AddTrade(t) \/ AddTradeThenGetVwap(t)
  PROVE  IInv' /\ TradeCounted /\ LostTogether'
<1>1. IInv'
  BY AddTradeStep, AddTradeThenGetStep
<1>2. totalTradesProcessed \in Nat /\ rejectedTrades \in Nat
  BY DEF IInv, Shape
<1>3. CASE RejectTrade(t)
  <2>1. /\ UNCHANGED <<totalTradesProcessed, firstWindowComplete, tradeWindow>>
        /\ rejectedTrades' = rejectedTrades + 1
    BY <1>3 DEF RejectTrade, windowVars
  <2>2. HasCompleteWindow => HasCompleteWindow'
    BY <2>1 DEF HasCompleteWindow
  <2>3. LostTogether'
    BY <1>3 DEF RejectTrade, auxVars, LostTogether
  <2> QED BY <1>1, <1>2, <2>1, <2>2, <2>3 DEF TradeCounted
<1>4. CASE AcceptTrade(t)
  <2>1. /\ totalTradesProcessed' = totalTradesProcessed + 1
        /\ rejectedTrades' = rejectedTrades
        /\ firstWindowComplete => firstWindowComplete'
    BY <1>4 DEF AcceptTrade
  <2>2. totalTradesProcessed' # 0
    BY <1>2, <2>1
  <2>3. tradeWindow' # << >>
    BY <1>1, <2>2 DEF IInv, Timeline
  <2>4. HasCompleteWindow => HasCompleteWindow'
    BY <2>1, <2>3 DEF HasCompleteWindow
  <2>5. LostTogether'
    <3>1. lost' = Overwritten
      BY <1>4 DEF AcceptTrade
    <3>2. Overwritten.volume = 0 =>
            lost.volume = 0 /\ Len(tradeWindow) < MAX_TRADES
      BY <1>4, AcceptCases, PushKeepsArrays DEF IInv, PushedArrays
    <3>3. Len(tradeWindow) < MAX_TRADES => Overwritten = lost
      BY MaxTradesAssumption DEF IInv, Shape, Overwritten
    <3> QED BY <3>1, <3>2, <3>3 DEF LostTogether
  <2> QED BY <1>1, <1>2, <2>1, <2>4, <2>5 DEF TradeCounted
<1> QED BY <1>1, <1>3, <1>4 DEF AddTrade, AddTradeThenGetVwap

-----------------------------------------------------------------------------
(* processTrade and getCurrentVwap *)

(* The engine but for its state *)
decisionVars == <<side, lastProcessedQuote, lastOrderTimestamp, decisionHistory,
                  quotesProcessed, ordersTriggered, ordersRejected, rejected,
                  issued, quotesInOrder, lastQuoteTime>>

(* What leaves the decisions alone keeps what is said of them. *)
LEMMA DecisionsKept ==
  ASSUME ManagerInv, UNCHANGED decisionVars,
         engineState' \in {"WAITING_FOR_FIRST_WINDOW", "READY_TO_TRADE"}
  PROVE  EngineTypeOK' /\ DecisionsAddUp' /\ Spacing'
<1>1. /\ UNCHANGED <<side, lastProcessedQuote, lastOrderTimestamp>>
      /\ UNCHANGED <<decisionHistory, quotesProcessed, ordersTriggered>>
      /\ UNCHANGED <<ordersRejected, rejected>>
      /\ UNCHANGED <<issued, quotesInOrder, lastQuoteTime>>
  BY DEF decisionVars
<1>2. EngineTypeOK'
  BY <1>1 DEF ManagerInv, EngineTypeOK
<1>3. DecisionsAddUp'
  BY <1>1 DEF ManagerInv, DecisionsAddUp
<1>4. Spacing'
  BY <1>1 DEF ManagerInv, Spacing, OrdersSpaced
<1> QED BY <1>2, <1>3, <1>4

(* processTrade keeps the invariant. *)
LEMMA ProcessTradeStep ==
  ASSUME ManagerInv, NEW t \in Trades, ProcessTrade(t)
  PROVE  ManagerInv'
<1>1. IInv' /\ TradeCounted /\ LostTogether'
  <2>1. AddTrade(t) \/ AddTradeThenGetVwap(t)
    BY Zenon DEF ProcessTrade
  <2> QED BY <2>1, TradeStep DEF ManagerInv
<1>2. /\ managerTrades' = managerTrades + 1
      /\ UNCHANGED <<managerQuotes, totalOrdersSent, orderHistory, basis>>
  BY Zenon DEF ProcessTrade
<1>3. /\ CheckVwapWindowComplete(HasCompleteWindow')
      /\ IF WindowCompletes(HasCompleteWindow')
         THEN OnVwapWindowComplete ELSE UNCHANGED engineVars
  BY Zenon DEF ProcessTrade
<1>4. UNCHANGED decisionVars
  BY <1>3 DEF OnVwapWindowComplete, engineVars, decisionVars
<1>5. /\ engineState' \in {"WAITING_FOR_FIRST_WINDOW", "READY_TO_TRADE"}
      /\ managerState' \in {"WAITING_FOR_FIRST_WINDOW", "READY_TO_TRADE"}
      /\ vwapWindowCompleteNotified' \in BOOLEAN
      /\ managerState = "READY_TO_TRADE" => managerState' = "READY_TO_TRADE"
      /\ ReadinessAgrees'
  <2>1. /\ managerState = engineState
        /\ vwapWindowCompleteNotified = (managerState = "READY_TO_TRADE")
        /\ HasCompleteWindow = (managerState = "READY_TO_TRADE")
        /\ managerState \in {"WAITING_FOR_FIRST_WINDOW", "READY_TO_TRADE"}
        /\ vwapWindowCompleteNotified \in BOOLEAN
    BY DEF ManagerInv, ReadinessAgrees, ManagerTypeOK
  <2>2. CASE WindowCompletes(HasCompleteWindow')
    <3>1. /\ managerState = "WAITING_FOR_FIRST_WINDOW" /\ HasCompleteWindow'
          /\ managerState' = "READY_TO_TRADE"
          /\ vwapWindowCompleteNotified' = TRUE
      BY <1>3, <2>2 DEF WindowCompletes, CheckVwapWindowComplete
    <3>2. engineState' = "READY_TO_TRADE"
      BY <1>3, <2>1, <2>2, <3>1 DEF OnVwapWindowComplete
    <3>3. HasCompleteWindow' = TRUE
      BY <3>1 DEF HasCompleteWindow
    <3> QED BY <2>1, <3>1, <3>2, <3>3 DEF ReadinessAgrees
  <2>3. CASE ~ WindowCompletes(HasCompleteWindow')
    <3>1. UNCHANGED <<managerState, vwapWindowCompleteNotified, engineState>>
      BY <1>3, <2>3 DEF CheckVwapWindowComplete, engineVars
    <3>2. HasCompleteWindow' = (managerState = "READY_TO_TRADE")
      <4>1. CASE managerState = "READY_TO_TRADE"
        BY <1>1, <2>1, <4>1 DEF TradeCounted, HasCompleteWindow
      <4>2. CASE managerState = "WAITING_FOR_FIRST_WINDOW"
        BY <2>3, <4>2 DEF WindowCompletes, HasCompleteWindow
      <4> QED BY <2>1, <4>1, <4>2
    <3> QED BY <2>1, <3>1, <3>2 DEF ReadinessAgrees
  <2> QED BY <2>2, <2>3
<1>6. EngineTypeOK' /\ DecisionsAddUp' /\ Spacing'
  BY <1>4, <1>5, DecisionsKept
<1>7. ManagerTypeOK'
  BY <1>2, <1>5 DEF ManagerInv, ManagerTypeOK
<1>8. TotalsAgree'
  <2>1. UNCHANGED <<quotesProcessed, ordersTriggered, issued>>
    BY <1>4 DEF decisionVars
  <2>2. managerTrades' = totalTradesProcessed' + rejectedTrades'
    <3>1. /\ totalTradesProcessed \in Nat /\ rejectedTrades \in Nat
          /\ managerTrades = totalTradesProcessed + rejectedTrades
      BY DEF ManagerInv, IInv, Shape, TotalsAgree
    <3> QED BY <1>1, <1>2, <3>1 DEF TradeCounted
  <2> QED BY <1>2, <2>1, <2>2 DEF ManagerInv, TotalsAgree
<1>9. Waited'
  BY <1>2, <1>5 DEF ManagerInv, Waited
<1> QED BY <1>1, <1>5, <1>6, <1>7, <1>8, <1>9 DEF ManagerInv

(* getCurrentVwap, called for the statistics, keeps the invariant. *)
LEMMA ReadVwapStep ==
  ASSUME ManagerInv, ReadVwap
  PROVE  ManagerInv'
<1>1. IInv' /\ LostTogether'
  BY GetCurrentVwapStep
  DEF ManagerInv, ReadVwap, GetCurrentVwap, auxVars, LostTogether
<1>2. /\ UNCHANGED decisionVars /\ UNCHANGED engineState
      /\ UNCHANGED <<managerState, managerQuotes, managerTrades>>
      /\ UNCHANGED <<totalOrdersSent, vwapWindowCompleteNotified>>
      /\ UNCHANGED <<orderHistory, basis>>
  BY DEF ReadVwap, engineVars, managerVars, decisionVars
<1>3. UNCHANGED <<firstWindowComplete, tradeWindow, totalTradesProcessed,
                  rejectedTrades>>
  BY DEF ReadVwap, GetCurrentVwap, windowVars
<1>4. EngineTypeOK' /\ DecisionsAddUp' /\ Spacing'
  BY <1>2, DecisionsKept DEF ManagerInv, EngineTypeOK
<1>5. ManagerTypeOK' /\ Waited'
  BY <1>2 DEF ManagerInv, ManagerTypeOK, Waited
<1>6. ReadinessAgrees'
  BY <1>2, <1>3 DEF ManagerInv, ReadinessAgrees, HasCompleteWindow
<1>7. TotalsAgree'
  BY <1>2, <1>3 DEF ManagerInv, TotalsAgree, decisionVars
<1> QED BY <1>1, <1>4, <1>5, <1>6, <1>7 DEF ManagerInv

-----------------------------------------------------------------------------
(* The bounded histories *)

(* How often x is in s *)
Places(s, x) == {i \in DOMAIN s : s[i] = x}
Times(s, x) == Cardinality(Places(s, x))

(* The places of a value in a sequence are finitely many. *)
LEMMA PlacesFinite ==
  ASSUME NEW S, NEW s \in Seq(S), NEW x
  PROVE  IsFiniteSet(Places(s, x)) /\ Times(s, x) \in Nat
<1>1. IsFiniteSet(1 .. Len(s))
  BY FS_Interval
<1>2. Places(s, x) \in SUBSET (1 .. Len(s))
  BY DEF Places
<1>3. IsFiniteSet(Places(s, x))
  BY <1>1, <1>2, FS_Subset
<1> QED BY <1>3, FS_CardinalityType DEF Times

(* A push on a bounded history shows the pushed value once more and no     *)
(* other value more often than before.                                     *)
LEMMA HistoryPush ==
  ASSUME NEW S, NEW s \in Seq(S), NEW n \in Nat \ {0}, Len(s) <= n, NEW x \in S,
         NEW y
  PROVE  /\ PushBack(s, n, x) \in Seq(S)
         /\ Len(PushBack(s, n, x)) = IF Len(s) < n THEN Len(s) + 1 ELSE n
         /\ Times(PushBack(s, n, x), y)
              <= Times(s, y) + (IF x = y THEN 1 ELSE 0)
<1> DEFINE w == PushBack(s, n, x)
           d == IF Len(s) = n THEN 1 ELSE 0
           m == Len(s) - d
<1>1. w \in Seq(S) /\ ElementsAfterPush(w, s, d, x)
  <2>1. n \in Nat /\ n > 0
    OBVIOUS
  <2>2. /\ w \in Seq(S)
        /\ Len(s) = n => ElementsAfterPush(w, s, 1, x)
        /\ Len(s) # n => ElementsAfterPush(w, s, 0, x)
    BY <2>1, PushBackElements
  <2> HIDE DEF w
  <2> QED BY <2>2
<1>2. Len(s) \in Nat /\ d \in {0, 1} /\ m \in Nat
  OBVIOUS
<1> HIDE DEF w
<1>3. Len(w) = IF Len(s) < n THEN Len(s) + 1 ELSE n
  <2>1. Len(w) = Len(s) - d + 1
    BY <1>1 DEF ElementsAfterPush
  <2>2. CASE Len(s) = n
    BY <2>1, <2>2
  <2>3. CASE Len(s) # n
    <3>1. Len(s) < n /\ d = 0
      BY <2>3
    <3> QED BY <2>1, <3>1
  <2> QED BY <2>2, <2>3
<1> HIDE DEF d
<1>4. /\ Len(w) = m + 1 /\ w[m + 1] = x
      /\ \A i \in 1 .. m : w[i] = s[i + d] /\ i + d \in 1 .. Len(s)
  BY <1>1, <1>2 DEF ElementsAfterPush
<1> HIDE DEF m
<1> DEFINE kept == {i \in 1 .. m : w[i] = y}
<1>5. IsFiniteSet(kept) /\ Cardinality(kept) <= Times(s, y)
  <2> DEFINE f == [i \in kept |-> i + d]
  <2>1. f \in Injection(kept, Places(s, y))
    <3>1. \A i \in kept : i + d \in Places(s, y)
      BY <1>4 DEF Places
    <3>2. \A i, j \in kept : i + d = j + d => i = j
      BY <1>2
    <3> QED BY <3>1, <3>2 DEF Injection, IsInjective
  <2>2. IsFiniteSet(Places(s, y))
    BY PlacesFinite
  <2> HIDE DEF f, kept
  <2> QED BY <2>1, <2>2, FS_Injection DEF Times
<1>6. Places(w, y) = IF x = y THEN kept \cup {m + 1} ELSE kept
  <2>1. DOMAIN w = 1 .. m + 1
    BY <1>1, <1>4
  <2>2. 1 .. m + 1 = (1 .. m) \cup {m + 1} /\ m + 1 \notin 1 .. m
    BY <1>2
  <2> QED BY <1>4, <2>1, <2>2 DEF Places
<1>7. Cardinality(kept) \in Nat /\ Times(s, y) \in Nat
  BY <1>5, FS_CardinalityType, PlacesFinite
<1>8. Times(w, y) <= Times(s, y) + (IF x = y THEN 1 ELSE 0)
  <2>1. CASE x = y
    <3>1. m + 1 \notin kept
      BY <1>2
    <3> HIDE DEF kept
    <3>2. Cardinality(kept \cup {m + 1}) = Cardinality(kept) + 1
      BY <1>5, <3>1, FS_AddElement
    <3> QED BY <1>5, <1>6, <1>7, <2>1, <3>2 DEF Times
  <2>2. CASE x # y
    <3> HIDE DEF kept
    <3> QED BY <1>5, <1>6, <1>7, <2>2 DEF Times
  <2> QED BY <2>1, <2>2
<1> QED BY <1>1, <1>3, <1>8 DEF w

-----------------------------------------------------------------------------
(* processQuote *)

(* What processQuote does in every case: the window is complete only if    *)
(* the manager knows already, so that the check at its start does nothing. *)
QuoteCommon(q) ==
  /\ GetCurrentVwap
  /\ UNCHANGED <<managerState, vwapWindowCompleteNotified, managerTrades, side>>
  /\ managerQuotes' = managerQuotes + 1
  /\ quotesProcessed' = quotesProcessed + 1
  /\ quotesInOrder' = (quotesInOrder /\ q.timestamp >= lastQuoteTime)
  /\ lastQuoteTime' = q.timestamp

LEMMA QuoteCases ==
  ASSUME ManagerInv, NEW q, ProcessQuote(q)
  PROVE  /\ QuoteCommon(q)
         /\ \/ /\ RejectQuote(engineState, q, CurrentVwap)
               /\ UNCHANGED <<orderHistory, totalOrdersSent, basis>>
            \/ /\ TriggerOrder(engineState, q, CurrentVwap)
               /\ RecordOrder(q)
         /\ EngineStateAfterCheck = engineState
<1>1. ~ WindowCompletes(HasCompleteWindow)
  BY DEF ManagerInv, ReadinessAgrees, WindowCompletes
<1>2. EngineStateAfterCheck = engineState
  BY <1>1 DEF EngineStateAfterCheck
<1>3. UNCHANGED <<managerState, vwapWindowCompleteNotified>>
  BY <1>1 DEF ProcessQuote, CheckVwapWindowComplete
<1>4. EvaluateQuote(engineState, q, CurrentVwap)
  BY <1>2, Zenon DEF ProcessQuote
<1>5. QuoteCommon(q)
  BY <1>3, <1>4, Zenon DEF ProcessQuote, EvaluateQuote, QuoteCommon
<1>6. IF Triggers(engineState, q, CurrentVwap)
      THEN RecordOrder(q) ELSE UNCHANGED <<orderHistory, totalOrdersSent, basis>>
  BY <1>2, Zenon DEF ProcessQuote
<1>7. \/ RejectQuote(engineState, q, CurrentVwap)
      \/ TriggerOrder(engineState, q, CurrentVwap)
  BY <1>4, Zenon DEF EvaluateQuote
<1>8. ASSUME RejectQuote(engineState, q, CurrentVwap)
      PROVE  UNCHANGED <<orderHistory, totalOrdersSent, basis>>
  BY <1>6, <1>8 DEF RejectQuote
<1>9. ASSUME TriggerOrder(engineState, q, CurrentVwap) PROVE RecordOrder(q)
  BY <1>6, <1>9 DEF TriggerOrder
<1> QED BY <1>2, <1>5, <1>7, <1>8, <1>9

(* A quote that is rejected: the counters and the history move together. *)
LEMMA RejectQuoteStep ==
  ASSUME ManagerInv, NEW q \in Quotes, NEW vwap, QuoteCommon(q),
         RejectQuote(engineState, q, vwap)
  PROVE  EngineTypeOK' /\ DecisionsAddUp' /\ Spacing'
<1> DEFINE r == RejectReason(engineState, q)
<1>1. r \in Reasons /\ r \in Decisions /\ r # "ORDER_TRIGGERED"
  BY DEF RejectReason, Reasons, Decisions
<1>2. q.timestamp \in U64
  BY QuotesAssumption
<1>3. /\ decisionHistory' = PushBack(decisionHistory, MAX_HISTORY_SIZE, r)
      /\ rejected' = [rejected EXCEPT ![r] = @ + 1]
      /\ ordersRejected' = ordersRejected + 1
      /\ UNCHANGED <<engineState, lastProcessedQuote, lastOrderTimestamp,
                     ordersTriggered, issued>>
  BY DEF RejectQuote, RecordDecision
<1>4. /\ quotesProcessed' = quotesProcessed + 1 /\ UNCHANGED side
      /\ lastQuoteTime' = q.timestamp
      /\ quotesInOrder' = (quotesInOrder /\ q.timestamp >= lastQuoteTime)
  BY DEF QuoteCommon
<1>5. EngineTypeOK /\ DecisionsAddUp /\ Spacing
  BY DEF ManagerInv
<1> HIDE DEF r
<1>6. /\ MAX_HISTORY_SIZE \in Nat \ {0} /\ decisionHistory \in Seq(Decisions)
      /\ Len(decisionHistory) = IF quotesProcessed < MAX_HISTORY_SIZE
                                THEN quotesProcessed ELSE MAX_HISTORY_SIZE
      /\ Len(decisionHistory) <= MAX_HISTORY_SIZE /\ quotesProcessed \in Nat
  BY <1>5, HistoryAssumption DEF EngineTypeOK, DecisionsAddUp
<1>7. /\ decisionHistory' \in Seq(Decisions)
      /\ Len(decisionHistory') = IF Len(decisionHistory) < MAX_HISTORY_SIZE
                                 THEN Len(decisionHistory) + 1
                                 ELSE MAX_HISTORY_SIZE
      /\ \A y : Times(decisionHistory', y)
                  <= Times(decisionHistory, y) + (IF r = y THEN 1 ELSE 0)
  <2> DEFINE h == PushBack(decisionHistory, MAX_HISTORY_SIZE, r)
  <2>1. /\ decisionHistory \in Seq(Decisions) /\ MAX_HISTORY_SIZE \in Nat \ {0}
        /\ Len(decisionHistory) <= MAX_HISTORY_SIZE /\ r \in Decisions
    BY <1>1, <1>6
  <2>2. \A y : /\ h \in Seq(Decisions)
               /\ Len(h) = IF Len(decisionHistory) < MAX_HISTORY_SIZE
                           THEN Len(decisionHistory) + 1 ELSE MAX_HISTORY_SIZE
               /\ Times(h, y) <= Times(decisionHistory, y)
                                   + (IF r = y THEN 1 ELSE 0)
    BY ONLY <2>1, HistoryPush
  <2>3. decisionHistory' = h
    BY <1>3
  <2> HIDE DEF h
  <2> QED BY ONLY <2>2, <2>3
<1>8. \A y : Times(decisionHistory, y) \in Nat /\ Times(decisionHistory', y) \in Nat
  BY <1>6, <1>7, PlacesFinite
<1>9. rejected \in [Reasons -> Nat] /\ rejected' \in [Reasons -> Nat]
  BY <1>1, <1>3, <1>5 DEF EngineTypeOK
<1>10. EngineTypeOK'
  BY <1>2, <1>3, <1>4, <1>5, <1>7, <1>9 DEF EngineTypeOK
<1>11. DecisionsAddUp'
  <2>1. quotesProcessed' = ordersTriggered' + ordersRejected'
    BY <1>3, <1>4, <1>5 DEF EngineTypeOK, DecisionsAddUp
  <2>2. ordersRejected' =
          rejected'["WAITING_WINDOW"] + rejected'["DUPLICATE"]
            + rejected'["COOLDOWN"] + rejected'["PRICE_UNFAVORABLE"]
    <3>1. /\ ordersRejected \in Nat
          /\ ordersRejected =
               rejected["WAITING_WINDOW"] + rejected["DUPLICATE"]
                 + rejected["COOLDOWN"] + rejected["PRICE_UNFAVORABLE"]
      BY <1>5 DEF EngineTypeOK, DecisionsAddUp
    <3>2. \A y \in Reasons : /\ rejected[y] \in Nat
                             /\ rejected'[y] = IF r = y THEN rejected[y] + 1
                                               ELSE rejected[y]
      BY <1>1, <1>3, <1>9
    <3>3. \/ r = "WAITING_WINDOW" \/ r = "DUPLICATE"
          \/ r = "COOLDOWN" \/ r = "PRICE_UNFAVORABLE"
      BY <1>1 DEF Reasons
    <3>4. /\ "WAITING_WINDOW" \in Reasons /\ "DUPLICATE" \in Reasons
          /\ "COOLDOWN" \in Reasons /\ "PRICE_UNFAVORABLE" \in Reasons
      BY DEF Reasons
    <3> QED BY <1>3, <3>1, <3>2, <3>3, <3>4
  <2>3. Len(decisionHistory') = IF quotesProcessed' < MAX_HISTORY_SIZE
                                THEN quotesProcessed' ELSE MAX_HISTORY_SIZE
    BY <1>4, <1>6, <1>7
  <2>4. Times(decisionHistory', "ORDER_TRIGGERED") <= ordersTriggered'
    <3>1. Times(decisionHistory, "ORDER_TRIGGERED") <= ordersTriggered
      BY <1>5 DEF DecisionsAddUp, Times, Places
    <3>2. ordersTriggered \in Nat
      BY <1>5 DEF EngineTypeOK
    <3> QED BY <1>1, <1>3, <1>7, <1>8, <3>1, <3>2
  <2>5. ASSUME NEW y \in Reasons PROVE Times(decisionHistory', y) <= rejected'[y]
    <3>1. Times(decisionHistory, y) <= rejected[y]
      BY <1>5 DEF DecisionsAddUp, Times, Places
    <3>2. rejected'[y] = rejected[y] + (IF r = y THEN 1 ELSE 0)
      BY <1>1, <1>3, <1>9
    <3>3. rejected[y] \in Nat
      BY <1>9
    <3> QED BY <1>7, <1>8, <3>1, <3>2, <3>3
  <2> QED BY <2>1, <2>2, <2>3, <2>4, <2>5 DEF DecisionsAddUp, Times, Places
<1>12. Spacing'
  <2>1. lastQuoteTime \in Nat /\ lastOrderTimestamp \in Nat /\ q.timestamp \in Nat
    BY <1>2, <1>5, U64Assumption DEF EngineTypeOK, U64
  <2>2. quotesInOrder' => quotesInOrder /\ q.timestamp >= lastQuoteTime
    BY <1>4
  <2>3. OrdersSpaced'
    BY <1>3, <1>5, <2>2 DEF Spacing, OrdersSpaced
  <2>4. quotesInOrder' => lastOrderTimestamp <= q.timestamp
    BY <1>5, <2>1, <2>2 DEF Spacing
  <2> QED BY <1>3, <1>4, <1>5, <2>2, <2>3, <2>4 DEF Spacing
<1> QED BY <1>10, <1>11, <1>12

(* The types of the order that evaluateQuote builds, and of the mark it    *)
(* leaves to recognise a duplicate.                                        *)
LEMMA OrderType ==
  ASSUME EngineTypeOK, NEW q \in Quotes
  PROVE  /\ BuildOrder(q) \in Orders
         /\ \A price \in DoubleToInt32(RelevantPrice(q)) :
              [timestamp |-> q.timestamp, price |-> price,
               quantity |-> RelevantQuantity(q)] \in QuoteIdentifiers
         /\ BuildOrder(q).timestamp = q.timestamp
         /\ BuildOrder(q).price = Price32(q)
         /\ BuildOrder(q).quantity = CalculateOrderSize(RelevantQuantity(q))
<1>1. /\ q.timestamp \in U64 /\ q.bidQuantity \in U32 /\ q.bidPrice \in U32
      /\ q.askQuantity \in U32 /\ q.askPrice \in I32
  BY QuotesAssumption
<1>2. Price32(q) \in I32
  BY <1>1, I32Assumption DEF Price32, ToInt32, U32, I32
<1>3. RelevantQuantity(q) \in U32 /\ CalculateOrderSize(RelevantQuantity(q)) \in U32
  BY <1>1, MaxOrderSizeAssumption DEF RelevantQuantity, CalculateOrderSize
<1>4. side \in {"B", "S"}
  BY DEF EngineTypeOK
<1>5. DoubleToInt32(RelevantPrice(q)) \subseteq I32
  BY <1>1, I32Assumption DEF DoubleToInt32, RelevantPrice, ToInt32, U32, I32
<1>6. \A price \in DoubleToInt32(RelevantPrice(q)) :
        [timestamp |-> q.timestamp, price |-> price,
         quantity |-> RelevantQuantity(q)] \in QuoteIdentifiers
  BY <1>1, <1>3, <1>5 DEF QuoteIdentifiers
<1> QED BY <1>1, <1>2, <1>3, <1>4, <1>6 DEF BuildOrder, Orders

(* A quote that gives an order: the counters move together, and the order  *)
(* is a cooldown away from every order before it.                          *)
LEMMA TriggerOrderStep ==
  ASSUME ManagerInv, NEW q \in Quotes, NEW vwap, QuoteCommon(q),
         TriggerOrder(engineState, q, vwap)
  PROVE  EngineTypeOK' /\ DecisionsAddUp' /\ Spacing'
<1>1. EngineTypeOK /\ DecisionsAddUp /\ Spacing
  BY DEF ManagerInv
<1>2. q.timestamp \in U64
  BY QuotesAssumption
<1> DEFINE x == "ORDER_TRIGGERED"
           o == BuildOrder(q)
           n == Len(issued)
<1>3. /\ decisionHistory' = PushBack(decisionHistory, MAX_HISTORY_SIZE, x)
      /\ engineState' = "READY_TO_TRADE" /\ lastOrderTimestamp' = q.timestamp
      /\ \E price \in DoubleToInt32(RelevantPrice(q)) :
           lastProcessedQuote' = [timestamp |-> q.timestamp, price |-> price,
                                  quantity |-> RelevantQuantity(q)]
      /\ ordersTriggered' = ordersTriggered + 1
      /\ issued' = Append(issued, o)
      /\ UNCHANGED <<ordersRejected, rejected>>
      /\ ~ IsInCooldown(q.timestamp)
  BY DEF TriggerOrder, Triggers, RecordDecision
<1>4. /\ quotesProcessed' = quotesProcessed + 1 /\ UNCHANGED side
      /\ lastQuoteTime' = q.timestamp
      /\ quotesInOrder' = (quotesInOrder /\ q.timestamp >= lastQuoteTime)
  BY DEF QuoteCommon
<1>5. o \in Orders /\ lastProcessedQuote' \in QuoteIdentifiers
      /\ o.timestamp = q.timestamp
  BY <1>1, <1>3, OrderType
<1> HIDE DEF o
<1>6. /\ MAX_HISTORY_SIZE \in Nat \ {0} /\ decisionHistory \in Seq(Decisions)
      /\ Len(decisionHistory) = IF quotesProcessed < MAX_HISTORY_SIZE
                                THEN quotesProcessed ELSE MAX_HISTORY_SIZE
      /\ Len(decisionHistory) <= MAX_HISTORY_SIZE /\ quotesProcessed \in Nat
  BY <1>1, HistoryAssumption DEF EngineTypeOK, DecisionsAddUp
<1>7. /\ decisionHistory' \in Seq(Decisions)
      /\ Len(decisionHistory') = IF Len(decisionHistory) < MAX_HISTORY_SIZE
                                 THEN Len(decisionHistory) + 1
                                 ELSE MAX_HISTORY_SIZE
      /\ \A y : Times(decisionHistory', y)
                  <= Times(decisionHistory, y) + (IF x = y THEN 1 ELSE 0)
  <2>1. x \in Decisions
    BY DEF Decisions
  <2> HIDE DEF x
  <2> QED BY <1>3, <1>6, <2>1, HistoryPush
<1>8. \A y : Times(decisionHistory, y) \in Nat /\ Times(decisionHistory', y) \in Nat
  BY <1>6, <1>7, PlacesFinite
<1>9. /\ issued \in Seq(Orders) /\ issued' \in Seq(Orders) /\ n \in Nat
      /\ Len(issued') = n + 1 /\ issued'[n + 1] = o
      /\ \A i \in 1 .. n : issued'[i] = issued[i]
  BY <1>1, <1>3, <1>5 DEF EngineTypeOK
<1>10. EngineTypeOK'
  BY <1>1, <1>2, <1>3, <1>4, <1>5, <1>7, <1>9 DEF EngineTypeOK
<1>11. DecisionsAddUp'
  <2>1. quotesProcessed' = ordersTriggered' + ordersRejected'
    BY <1>1, <1>3, <1>4 DEF EngineTypeOK, DecisionsAddUp
  <2>2. ordersRejected' =
          rejected'["WAITING_WINDOW"] + rejected'["DUPLICATE"]
            + rejected'["COOLDOWN"] + rejected'["PRICE_UNFAVORABLE"]
    BY <1>1, <1>3 DEF DecisionsAddUp
  <2>3. Len(decisionHistory') = IF quotesProcessed' < MAX_HISTORY_SIZE
                                THEN quotesProcessed' ELSE MAX_HISTORY_SIZE
    BY <1>4, <1>6, <1>7
  <2>4. Times(decisionHistory', x) <= ordersTriggered'
    <3>1. Times(decisionHistory, x) <= ordersTriggered
      BY <1>1 DEF DecisionsAddUp, Times, Places
    <3>2. ordersTriggered \in Nat
      BY <1>1 DEF EngineTypeOK
    <3> QED BY <1>3, <1>7, <1>8, <3>1, <3>2
  <2>5. ASSUME NEW y \in Reasons PROVE Times(decisionHistory', y) <= rejected'[y]
    <3>1. Times(decisionHistory, y) <= rejected[y]
      BY <1>1 DEF DecisionsAddUp, Times, Places
    <3>2. rejected[y] \in Nat
      BY <1>1 DEF EngineTypeOK
    <3>3. x # y
      BY DEF Reasons
    <3> QED BY <1>3, <1>7, <1>8, <3>1, <3>2, <3>3
  <2> QED BY <2>1, <2>2, <2>3, <2>4, <2>5 DEF DecisionsAddUp, Times, Places
<1>12. Spacing'
  <2>1. /\ lastQuoteTime \in Nat /\ lastOrderTimestamp \in Nat
        /\ q.timestamp \in Nat /\ CooldownNanos \in Nat
    BY <1>1, <1>2, U64Assumption, CooldownAssumption DEF EngineTypeOK, U64
  <2>2. quotesInOrder' => quotesInOrder /\ q.timestamp >= lastQuoteTime
    BY <1>4
  <2>3. \A i \in 1 .. n : issued[i].timestamp \in Nat
    <3>1. \A i \in 1 .. n : issued[i] \in Orders
      BY <1>9
    <3> QED BY <3>1, U64Assumption DEF Orders, U64
  <2>4. ASSUME quotesInOrder', NEW i \in 1 .. n
        PROVE  /\ issued[i].timestamp <= q.timestamp
               /\ issued[i].timestamp > 0 =>
                    q.timestamp - issued[i].timestamp >= CooldownNanos
    <3>1. /\ issued[i].timestamp <= lastOrderTimestamp
          /\ lastOrderTimestamp <= lastQuoteTime /\ lastQuoteTime <= q.timestamp
      BY <1>1, <2>2, <2>4 DEF Spacing
    <3>2. ASSUME issued[i].timestamp > 0
          PROVE  q.timestamp - lastOrderTimestamp >= CooldownNanos
      <4>1. lastOrderTimestamp # 0 /\ q.timestamp >= lastOrderTimestamp
        BY <2>1, <2>3, <3>1, <3>2
      <4>2. ~ (q.timestamp - lastOrderTimestamp < CooldownNanos)
        BY <1>3, <4>1 DEF IsInCooldown, Minus64
      <4> QED BY <2>1, <4>2
    <3> QED BY <2>1, <2>3, <3>1, <3>2
  <2>5. OrdersSpaced'
    <3> SUFFICES ASSUME quotesInOrder', NEW i \in 1 .. n + 1, NEW j \in 1 .. n + 1,
                        i < j, issued'[i].timestamp > 0
                 PROVE  issued'[j].timestamp - issued'[i].timestamp
                          >= CooldownNanos
      BY <1>9 DEF OrdersSpaced
    <3>1. i \in 1 .. n /\ issued'[i] = issued[i]
      BY <1>9
    <3>2. CASE j = n + 1
      BY <1>5, <1>9, <2>4, <3>1, <3>2
    <3>3. CASE j \in 1 .. n
      <4>1. issued'[j] = issued[j] /\ issued[i].timestamp > 0
        BY <1>9, <3>1, <3>3
      <4>2. quotesInOrder /\ i \in DOMAIN issued /\ j \in DOMAIN issued
        BY <1>9, <2>2, <3>1, <3>3
      <4> QED BY <1>1, <3>1, <4>1, <4>2 DEF Spacing, OrdersSpaced
    <3> QED BY <1>9, <3>2, <3>3
  <2>6. /\ issued' # << >>
        /\ lastOrderTimestamp' = issued'[Len(issued')].timestamp
    BY <1>3, <1>5, <1>9
  <2>7. ASSUME quotesInOrder', NEW i \in 1 .. Len(issued')
        PROVE  issued'[i].timestamp <= lastOrderTimestamp'
    <3>1. CASE i = n + 1
      BY <1>3, <1>5, <1>9, <2>1, <3>1
    <3>2. CASE i \in 1 .. n
      BY <1>3, <1>9, <2>4, <2>7, <3>2
    <3> QED BY <1>9, <3>1, <3>2
  <2>8. lastOrderTimestamp' <= lastQuoteTime'
    BY <1>3, <1>4, <2>1
  <2> QED BY <2>5, <2>6, <2>7, <2>8 DEF Spacing
<1> QED BY <1>10, <1>11, <1>12

(* The window's VWAP, recomputed, is a pair of naturals. *)
LEMMA WindowVwapType ==
  ASSUME IInv
  PROVE  WindowVwap \in Nat \X Nat
<1>1. /\ Volumes(tradeWindow) \in Seq(Nat)
      /\ PriceVolumes(tradeWindow) \in Seq(Nat)
  BY FieldsType DEF IInv, Shape
<1>2. /\ Total(Volumes(tradeWindow)) \in Nat
      /\ Total(PriceVolumes(tradeWindow)) \in Nat
  BY <1>1, TotalType
<1> QED BY <1>2 DEF WindowVwap, VwapOf

(* The order history is the tail of all the orders. *)
IsTail(history, all) ==
  /\ Len(history) = IF Len(all) < MAX_ORDER_HISTORY THEN Len(all)
                                                    ELSE MAX_ORDER_HISTORY
  /\ \A i \in 1 .. Len(history) : history[i] = all[Len(all) - Len(history) + i]

(* push_back on the bounded history keeps it the tail. *)
LEMMA TailPush ==
  ASSUME NEW all \in Seq(Orders), NEW history \in Seq(Orders),
         IsTail(history, all), NEW o \in Orders
  PROVE  /\ PushBack(history, MAX_ORDER_HISTORY, o) \in Seq(Orders)
         /\ Len(PushBack(history, MAX_ORDER_HISTORY, o)) <= MAX_ORDER_HISTORY
         /\ IsTail(PushBack(history, MAX_ORDER_HISTORY, o), Append(all, o))
<1> DEFINE w == PushBack(history, MAX_ORDER_HISTORY, o)
           a == Append(all, o)
           d == IF Len(history) = MAX_ORDER_HISTORY THEN 1 ELSE 0
           m == Len(history) - d
<1>1. /\ MAX_ORDER_HISTORY \in Nat /\ MAX_ORDER_HISTORY > 0
      /\ Len(history) \in Nat /\ Len(all) \in Nat
      /\ Len(history) <= MAX_ORDER_HISTORY /\ Len(history) <= Len(all)
  BY OrderHistoryAssumption DEF IsTail
<1>2. /\ w \in Seq(Orders)
      /\ Len(history) = MAX_ORDER_HISTORY => ElementsAfterPush(w, history, 1, o)
      /\ Len(history) # MAX_ORDER_HISTORY => ElementsAfterPush(w, history, 0, o)
  BY <1>1, PushBackElements
<1>3. /\ a \in Seq(Orders) /\ Len(a) = Len(all) + 1 /\ a[Len(all) + 1] = o
      /\ \A i \in 1 .. Len(all) : a[i] = all[i]
  OBVIOUS
<1> HIDE DEF w, a
<1>4. d \in {0, 1} /\ m \in Nat
  BY <1>1
<1>5. /\ Len(w) = m + 1 /\ w[m + 1] = o
      /\ \A i \in 1 .. m : w[i] = history[i + d]
  BY <1>2 DEF ElementsAfterPush
<1>6. Len(w) = IF Len(a) < MAX_ORDER_HISTORY THEN Len(a) ELSE MAX_ORDER_HISTORY
  <2> DEFINE h == Len(history)
             l == Len(all)
  <2>1. /\ h = IF l < MAX_ORDER_HISTORY THEN l ELSE MAX_ORDER_HISTORY
        /\ h \in Nat /\ l \in Nat
    BY <1>1 DEF IsTail
  <2>2. Len(w) = (h - d) + 1 /\ Len(a) = l + 1
    BY <1>3, <1>5
  <2>3. h = MAX_ORDER_HISTORY => d = 1
    OBVIOUS
  <2>4. h # MAX_ORDER_HISTORY => d = 0
    OBVIOUS
  <2> HIDE DEF h, l, d
  <2> QED BY <1>1, <2>1, <2>2, <2>3, <2>4
<1>7. ASSUME NEW i \in 1 .. Len(w) PROVE w[i] = a[Len(a) - Len(w) + i]
  <2> HIDE DEF d
  <2>1. CASE i = m + 1
    <3>1. Len(a) - Len(w) + i = Len(all) + 1
      BY <1>1, <1>3, <1>4, <1>5, <2>1
    <3> QED BY <1>3, <1>5, <2>1, <3>1
  <2>2. CASE i \in 1 .. m
    <3>1. i + d \in 1 .. Len(history)
      BY <1>1, <1>4, <2>2
    <3>2. history[i + d] = all[Len(all) - Len(history) + (i + d)]
      BY <3>1 DEF IsTail
    <3>3. /\ Len(all) - Len(history) + (i + d) = Len(a) - Len(w) + i
          /\ Len(all) - Len(history) + (i + d) \in 1 .. Len(all)
      <4> DEFINE h == Len(history)
                 l == Len(all)
      <4>1. /\ h \in Nat /\ l \in Nat /\ h <= l /\ i + d \in 1 .. h
            /\ i \in Nat /\ d \in Nat
        BY <1>1, <1>4, <2>2, <3>1 DEF IsTail
      <4>2. Len(a) = l + 1 /\ Len(w) = h - d + 1
        BY <1>3, <1>5
      <4> HIDE DEF h, l
      <4>3. /\ l - h + (i + d) = l + 1 - (h - d + 1) + i
            /\ l - h + (i + d) \in 1 .. l
        BY ONLY <4>1
      <4> QED BY <4>2, <4>3 DEF h, l
    <3> QED BY <1>3, <1>5, <2>2, <3>2, <3>3
  <2>3. i = m + 1 \/ i \in 1 .. m
    <3>1. Len(w) = m + 1 /\ m \in Nat
      BY <1>4, <1>5
    <3> HIDE DEF m
    <3> QED BY <3>1
  <2> QED BY <2>1, <2>2, <2>3
<1>8. Len(w) <= MAX_ORDER_HISTORY
  BY <1>1, <1>3, <1>6
<1>9. IsTail(w, a)
  BY <1>6, <1>7 DEF IsTail
<1> QED BY <1>2, <1>8, <1>9 DEF w, a

(* recordOrder keeps the history and the totals in step with the engine. *)
LEMMA RecordOrderStep ==
  ASSUME ManagerInv, NEW q \in Quotes, RecordOrder(q),
         issued' = Append(issued, BuildOrder(q))
  PROVE  /\ orderHistory' \in Seq(Orders)
         /\ Len(orderHistory') <= MAX_ORDER_HISTORY
         /\ IsTail(orderHistory', issued')
         /\ basis' \in Seq([vwap : Nat \X Nat, exact : BOOLEAN])
         /\ Len(issued') = Len(issued) + 1 /\ Len(basis') = Len(basis) + 1
<1>1. /\ orderHistory \in Seq(Orders) /\ issued \in Seq(Orders)
      /\ basis \in Seq([vwap : Nat \X Nat, exact : BOOLEAN])
      /\ BuildOrder(q) \in Orders
  BY OrderType DEF ManagerInv, ManagerTypeOK, EngineTypeOK
<1>2. IsTail(orderHistory, issued)
  BY DEF ManagerInv, TotalsAgree, IsTail
<1>3. /\ orderHistory' = PushBack(orderHistory, MAX_ORDER_HISTORY, BuildOrder(q))
      /\ basis' = Append(basis, [vwap |-> WindowVwap, exact |-> lost.volume = 0])
  BY DEF RecordOrder
<1>4. [vwap |-> WindowVwap, exact |-> lost.volume = 0]
        \in [vwap : Nat \X Nat, exact : BOOLEAN]
  BY WindowVwapType DEF ManagerInv
<1>5. /\ orderHistory' \in Seq(Orders) /\ Len(orderHistory') <= MAX_ORDER_HISTORY
      /\ IsTail(orderHistory', issued')
  BY <1>1, <1>2, <1>3, TailPush
<1> QED BY <1>1, <1>3, <1>4, <1>5

(* processQuote keeps the invariant. *)
LEMMA ProcessQuoteStep ==
  ASSUME ManagerInv, NEW q \in Quotes, ProcessQuote(q)
  PROVE  ManagerInv'
<1>1. QuoteCommon(q)
  BY QuoteCases
<1>2. IInv' /\ LostTogether'
  BY <1>1, GetCurrentVwapStep
  DEF ManagerInv, QuoteCommon, GetCurrentVwap, auxVars, LostTogether
<1>3. /\ UNCHANGED <<firstWindowComplete, tradeWindow, totalTradesProcessed,
                     rejectedTrades>>
      /\ UNCHANGED <<managerState, vwapWindowCompleteNotified, managerTrades>>
      /\ managerQuotes' = managerQuotes + 1
      /\ quotesProcessed' = quotesProcessed + 1
  BY <1>1 DEF QuoteCommon, GetCurrentVwap, windowVars
<1>4. managerQuotes' \in Nat /\ managerQuotes' = quotesProcessed'
  BY <1>3 DEF ManagerInv, ManagerTypeOK, TotalsAgree
<1>5. ReadinessAgrees' <=> engineState' = engineState
  BY <1>3 DEF ManagerInv, ReadinessAgrees, HasCompleteWindow
<1>6. CASE /\ RejectQuote(engineState, q, CurrentVwap)
           /\ UNCHANGED <<orderHistory, totalOrdersSent, basis>>
  <2>1. EngineTypeOK' /\ DecisionsAddUp' /\ Spacing'
    BY <1>1, <1>6, RejectQuoteStep
  <2>2. UNCHANGED <<engineState, ordersTriggered, issued>>
    BY <1>6 DEF RejectQuote
  <2>3. ManagerTypeOK' /\ Waited'
    BY <1>3, <1>4, <1>6 DEF ManagerInv, ManagerTypeOK, Waited
  <2>4. TotalsAgree'
    BY <1>3, <1>4, <1>6, <2>2 DEF ManagerInv, TotalsAgree
  <2> QED BY <1>2, <1>5, <2>1, <2>2, <2>3, <2>4 DEF ManagerInv
<1>7. CASE TriggerOrder(engineState, q, CurrentVwap) /\ RecordOrder(q)
  <2>1. EngineTypeOK' /\ DecisionsAddUp' /\ Spacing'
    BY <1>1, <1>7, TriggerOrderStep
  <2>2. /\ engineState # "WAITING_FOR_FIRST_WINDOW"
        /\ engineState' = "READY_TO_TRADE"
        /\ ordersTriggered' = ordersTriggered + 1
        /\ issued' = Append(issued, BuildOrder(q))
    BY <1>7 DEF TriggerOrder, Triggers
  <2>3. engineState = "READY_TO_TRADE" /\ managerState = "READY_TO_TRADE"
    BY <2>2 DEF ManagerInv, EngineTypeOK, ReadinessAgrees
  <2>4. totalOrdersSent' = totalOrdersSent + 1 /\ totalOrdersSent \in Nat
    BY <1>7 DEF RecordOrder, ManagerInv, ManagerTypeOK
  <2>5. /\ orderHistory' \in Seq(Orders)
        /\ Len(orderHistory') <= MAX_ORDER_HISTORY
        /\ IsTail(orderHistory', issued')
        /\ basis' \in Seq([vwap : Nat \X Nat, exact : BOOLEAN])
        /\ Len(issued') = Len(issued) + 1 /\ Len(basis') = Len(basis) + 1
    BY <1>7, <2>2, RecordOrderStep
  <2>6. ManagerTypeOK'
    BY <1>3, <1>4, <2>4, <2>5 DEF ManagerInv, ManagerTypeOK
  <2>7. Waited'
    BY <1>3, <2>3 DEF Waited
  <2>8. TotalsAgree'
    <3>1. /\ totalOrdersSent' = ordersTriggered'
          /\ totalOrdersSent' = Len(issued') /\ Len(basis') = Len(issued')
          /\ managerTrades' = totalTradesProcessed' + rejectedTrades'
      BY <1>3, <2>2, <2>4, <2>5 DEF ManagerInv, TotalsAgree
    <3> QED BY <1>4, <2>5, <3>1 DEF TotalsAgree, IsTail
  <2> QED BY <1>2, <1>5, <2>1, <2>2, <2>3, <2>6, <2>7, <2>8 DEF ManagerInv
<1> QED BY <1>6, <1>7, QuoteCases

-----------------------------------------------------------------------------
(* A new manager *)
LEMMA ManagerInitEstablishes == Init => ManagerInv
<1> SUFFICES ASSUME Init PROVE ManagerInv
  OBVIOUS
<1>1. IInv /\ LostTogether
  BY InitEstablishes DEF Init, VwapInit, LostTogether
<1>2. 0 \in U64 /\ 0 \in U32 /\ 0 \in I32
  BY U64Assumption, I32Assumption DEF U64, U32, I32
<1>3. EngineTypeOK
  BY <1>2 DEF Init, EngineInit, EngineTypeOK, QuoteIdentifiers
<1>4. ManagerTypeOK
  <2>1. /\ orderHistory = << >> /\ basis = << >> /\ Len(orderHistory) = 0
        /\ MAX_ORDER_HISTORY \in Nat
    BY OrderHistoryAssumption DEF Init
  <2>2. /\ orderHistory \in Seq(Orders) /\ Len(orderHistory) <= MAX_ORDER_HISTORY
        /\ basis \in Seq([vwap : Nat \X Nat, exact : BOOLEAN])
    BY <2>1
  <2> QED BY <2>2 DEF Init, ManagerTypeOK
<1>5. ReadinessAgrees
  BY DEF Init, VwapInit, EngineInit, ReadinessAgrees, HasCompleteWindow
<1>6. TotalsAgree
  BY OrderHistoryAssumption DEF Init, VwapInit, EngineInit, TotalsAgree
<1>7. DecisionsAddUp
  <2>1. decisionHistory = << >> /\ quotesProcessed = 0 /\ ordersTriggered = 0
        /\ ordersRejected = 0 /\ rejected = [r \in Reasons |-> 0]
    BY DEF Init, EngineInit
  <2>2. \A y : Times(decisionHistory, y) = 0
    <3>1. \A y : Places(decisionHistory, y) = {}
      BY <2>1 DEF Places
    <3> QED BY <3>1, FS_EmptySet DEF Times
  <2> QED BY <2>1, <2>2, HistoryAssumption
          DEF DecisionsAddUp, Times, Places, Reasons
<1>8. Spacing
  BY DEF Init, EngineInit, Spacing, OrdersSpaced
<1>9. Waited
  BY DEF Init, Waited
<1> QED BY <1>1, <1>3, <1>4, <1>5, <1>6, <1>7, <1>8, <1>9 DEF ManagerInv

(* A step that leaves the three objects alone *)
LEMMA ManagerStutter == ManagerInv /\ UNCHANGED vars => ManagerInv'
<1> SUFFICES ASSUME ManagerInv, UNCHANGED vars PROVE ManagerInv'
  OBVIOUS
<1>1. /\ UNCHANGED calcVars /\ UNCHANGED decisionVars /\ UNCHANGED engineState
      /\ UNCHANGED <<managerState, managerQuotes, managerTrades>>
      /\ UNCHANGED <<totalOrdersSent, vwapWindowCompleteNotified>>
      /\ UNCHANGED <<orderHistory, basis>>
  BY DEF vars, engineVars, managerVars, decisionVars
<1>2. IInv' /\ LostTogether'
  BY <1>1, NextPreserves DEF ManagerInv, calcVars, auxVars, LostTogether
<1>3. UNCHANGED <<firstWindowComplete, tradeWindow, totalTradesProcessed,
                  rejectedTrades>>
  BY <1>1 DEF calcVars, windowVars
<1>4. EngineTypeOK' /\ DecisionsAddUp' /\ Spacing'
  BY <1>1, DecisionsKept DEF ManagerInv, EngineTypeOK
<1>5. ManagerTypeOK' /\ Waited'
  BY <1>1 DEF ManagerInv, ManagerTypeOK, Waited
<1>6. ReadinessAgrees'
  BY <1>1, <1>3 DEF ManagerInv, ReadinessAgrees, HasCompleteWindow
<1>7. TotalsAgree'
  BY <1>1, <1>3 DEF ManagerInv, TotalsAgree, decisionVars
<1> QED BY <1>2, <1>4, <1>5, <1>6, <1>7 DEF ManagerInv

(* Every step keeps the invariant. *)
LEMMA ManagerNextPreserves == ManagerInv /\ [Next]_vars => ManagerInv'
BY ProcessTradeStep, ProcessQuoteStep, ReadVwapStep, ManagerStutter DEF Next

-----------------------------------------------------------------------------
(* The engine's average and the window *)

(* While nothing was overwritten, the VWAP that processQuote uses, cached  *)
(* or not, is that of a recomputation over the window.                     *)
LEMMA VwapIsExact ==
  ASSUME ManagerInv, lost.volume = 0
  PROVE  CurrentVwap = WindowVwap
<1>1. CurrentVwap = VwapOf(sumPriceVolume, sumVolume)
  BY DEF ManagerInv, IInv, CacheInv, CacheFresh, CurrentVwap
<1>2. /\ sumVolume = Total(Volumes(tradeWindow)) + lost.volume
      /\ sumPriceVolume = Total(PriceVolumes(tradeWindow)) + lost.priceVolume
      /\ lost.priceVolume = 0
  BY DEF ManagerInv, IInv, VolumeInv, PriceVolumeInv, ArrayInv, LostTogether
<1>3. /\ Total(Volumes(tradeWindow)) \in Nat
      /\ Total(PriceVolumes(tradeWindow)) \in Nat
  BY FieldsType, TotalType DEF ManagerInv, IInv, Shape
<1> DEFINE v == Total(Volumes(tradeWindow))
           p == Total(PriceVolumes(tradeWindow))
<1>4. v \in Nat /\ p \in Nat /\ sumVolume = v + 0 /\ sumPriceVolume = p + 0
  BY <1>2, <1>3
<1> HIDE DEF v, p
<1>5. sumVolume = v /\ sumPriceVolume = p
  BY <1>4
<1> QED BY <1>1, <1>5, Zenon DEF v, p, WindowVwap

(* A quote whose bid fits in an int32_t makes an order that is strictly    *)
(* better than the window.  Without the condition the cast of the bid in   *)
(* evaluateQuote could make the price of a sell order negative; the parser *)
(* lets no such quote through.                                             *)
LEMMA QuoteKeepsBeating ==
  ASSUME ManagerInv, OrdersBeatWindowVwap, NEW q \in Quotes, ProcessQuote(q),
         q.bidPrice <= I32Max
  PROVE  OrdersBeatWindowVwap'
<1>1. /\ issued \in Seq(Orders) /\ Len(basis) = Len(issued)
      /\ basis \in Seq([vwap : Nat \X Nat, exact : BOOLEAN])
  BY DEF ManagerInv, EngineTypeOK, ManagerTypeOK, TotalsAgree
<1>2. UNCHANGED side
  BY QuoteCases DEF QuoteCommon
<1>3. CASE /\ RejectQuote(engineState, q, CurrentVwap)
           /\ UNCHANGED <<orderHistory, totalOrdersSent, basis>>
  <2>1. UNCHANGED <<issued, basis>>
    BY <1>3 DEF RejectQuote
  <2> QED BY <1>2, <2>1 DEF OrdersBeatWindowVwap, Favorable
<1>4. CASE TriggerOrder(engineState, q, CurrentVwap) /\ RecordOrder(q)
  <2> DEFINE o == BuildOrder(q)
             b == [vwap |-> WindowVwap, exact |-> lost.volume = 0]
             n == Len(issued)
  <2>1. /\ issued' = Append(issued, o) /\ basis' = Append(basis, b)
        /\ Favorable(RelevantPrice(q), CurrentVwap)
    BY <1>4 DEF TriggerOrder, Triggers, ShouldTriggerOrder, RecordOrder
  <2>2. o.price = RelevantPrice(q)
    BY QuotesAssumption DEF BuildOrder, Price32, RelevantPrice, ToInt32
  <2>3. o \in Orders
    BY OrderType DEF ManagerInv
  <2>4. b.exact => Favorable(o.price, b.vwap)
    BY <2>1, <2>2, VwapIsExact
  <2>5. b \in [vwap : Nat \X Nat, exact : BOOLEAN]
    BY WindowVwapType DEF ManagerInv
  <2> HIDE DEF o, b
  <2>6. /\ n \in Nat /\ DOMAIN issued' = 1 .. n + 1
        /\ issued'[n + 1] = o /\ basis'[n + 1] = b
        /\ \A i \in 1 .. n : issued'[i] = issued[i] /\ basis'[i] = basis[i]
    BY <1>1, <2>1, <2>3, <2>5
  <2>7. ASSUME NEW i \in 1 .. n + 1, basis'[i].exact
        PROVE  Favorable(issued'[i].price, basis'[i].vwap)
    <3>1. CASE i = n + 1
      BY <2>4, <2>6, <2>7, <3>1
    <3>2. CASE i \in 1 .. n
      <4>1. i \in DOMAIN issued
        BY <1>1, <3>2
      <4> QED BY <2>6, <2>7, <3>2, <4>1 DEF OrdersBeatWindowVwap
    <3> QED BY <2>6, <3>1, <3>2
  <2>8. ASSUME NEW i \in DOMAIN issued', basis'[i].exact
        PROVE  Favorable(issued[i].price, basis[i].vwap)'
    BY <1>2, <2>6, <2>7, <2>8 DEF Favorable
  <2> QED BY <2>8 DEF OrdersBeatWindowVwap
<1> QED BY <1>3, <1>4, QuoteCases

(* processTrade and getCurrentVwap make no order. *)
LEMMA OthersKeepBeating ==
  ASSUME OrdersBeatWindowVwap, UNCHANGED <<side, issued, basis>>
  PROVE  OrdersBeatWindowVwap'
BY DEF OrdersBeatWindowVwap, Favorable

(* With an order sent, the manager is ready, so that the calculator's      *)
(* first window is complete and the trades span it.                        *)
LEMMA OrderMeansWindow ==
  ASSUME ManagerInv
  PROVE  NoOrderBeforeWindow
<1> SUFFICES ASSUME totalOrdersSent > 0
             PROVE  lastTradeTime - firstTradeTime >= WindowDuration
  BY DEF NoOrderBeforeWindow
<1>1. HasCompleteWindow
  BY DEF ManagerInv, Waited, ReadinessAgrees
<1> QED BY <1>1 DEF ManagerInv, IInv, Timeline, NotCompleteTooEarly,
                    HasCompleteWindow

-----------------------------------------------------------------------------
(* The inductive invariant holds. *)
THEOREM ManagerInvariance == Spec => []ManagerInv
BY ManagerInitEstablishes, ManagerNextPreserves, PTL DEF Spec

(* Every variable of the three objects keeps its type: the counters of     *)
(* uint64_t never wrap under addTrade, the histories stay within their     *)
(* bounds, and every order fits the fields of its message.                 *)
THEOREM ManagerTypeCorrect == Spec => []TypeOK
<1>1. ManagerInv => TypeOK
  BY TypesFollow DEF ManagerInv, ManagerTypeOK, TypeOK
<1> QED BY <1>1, ManagerInvariance, PTL

(* managerState, the engine's state, vwapWindowCompleteNotified and the    *)
(* calculator never disagree about readiness between two handlers.         *)
THEOREM ReadinessAlwaysAgrees == Spec => []ReadinessAgrees
<1>1. ManagerInv => ReadinessAgrees
  BY DEF ManagerInv
<1> QED BY <1>1, ManagerInvariance, PTL

(* The totals of the manager, the engine and the calculator agree, and the *)
(* bounded order history is the tail of the orders issued.                 *)
THEOREM TotalsAlwaysAgree == Spec => []TotalsAgree
<1>1. ManagerInv => TotalsAgree
  BY DEF ManagerInv
<1> QED BY <1>1, ManagerInvariance, PTL

(* Orders are a cooldown apart as long as quotes arrive in time order,     *)
(* although isInCooldown looks at the last order only.                     *)
THEOREM OrdersAlwaysSpaced == Spec => []OrdersSpaced
<1>1. ManagerInv => OrdersSpaced
  BY DEF ManagerInv, Spacing
<1> QED BY <1>1, ManagerInvariance, PTL

(* Every quote is decided once, and recordDecision's bounded history never *)
(* shows more decisions of a kind than its counter.                        *)
THEOREM DecisionsAlwaysAddUp == Spec => []DecisionsAddUp
<1>1. ManagerInv => DecisionsAddUp
  BY DEF ManagerInv
<1> QED BY <1>1, ManagerInvariance, PTL

-----------------------------------------------------------------------------
(* Part 2.  The program *)

(* The inductive invariant.  late + batch bounds what may still be handled *)
(* after a signal; before one, nothing is late.                            *)
TurnInv ==
  /\ shutdownRequested \in BOOLEAN /\ running \in BOOLEAN /\ open \in BOOLEAN
  /\ step \in {"top", "events"}
  /\ batch \in Nat /\ late \in Nat /\ late + batch <= BatchLimit
  /\ ~ shutdownRequested => late = 0
  /\ ~ running => shutdownRequested /\ ~ open /\ step = "top"

OrdersInv == OrdersBeatWindowVwap /\ NoEmptyOrder

SystemInv == ManagerInv /\ OrdersInv /\ ReportedTotals /\ TurnInv

-----------------------------------------------------------------------------
(* A quote that validateQuote lets through has prices and quantities that  *)
(* an order can carry.                                                     *)
LEMMA ValidQuote ==
  ASSUME NEW q \in Quotes, ValidateQuote(q)
  PROVE  /\ q.bidPrice <= I32Max
         /\ Price32(q) >= 0
         /\ CalculateOrderSize(RelevantQuantity(q)) \in 1 .. MaxOrderSize
<1>1. /\ q.bidQuantity \in U32 /\ q.bidPrice \in U32
      /\ q.askQuantity \in U32 /\ q.askPrice \in I32
  BY QuotesAssumption
<1>2. q.bidPrice <= I32Max
  BY <1>1, I32Assumption DEF ValidateQuote, ToInt32, U32
<1>3. Price32(q) >= 0
  BY DEF ValidateQuote, Price32
<1>4. /\ RelevantQuantity(q) \in Nat /\ RelevantQuantity(q) # 0
      /\ MaxOrderSize \in Nat /\ MaxOrderSize # 0
  BY <1>1, MaxOrderSizeAssumption, I32Assumption
  DEF ValidateQuote, RelevantQuantity, U32
<1>5. CalculateOrderSize(RelevantQuantity(q)) \in 1 .. MaxOrderSize
  BY <1>4 DEF CalculateOrderSize
<1> QED BY <1>2, <1>3, <1>5

(* onQuote keeps what is said of the orders. *)
LEMMA QuoteKeepsOrders ==
  ASSUME ManagerInv, OrdersInv, NEW q \in Quotes, ValidateQuote(q),
         ProcessQuote(q)
  PROVE  OrdersInv'
<1>1. OrdersBeatWindowVwap'
  BY ValidQuote, QuoteKeepsBeating DEF OrdersInv
<1>2. CASE RejectQuote(engineState, q, CurrentVwap)
  BY <1>1, <1>2 DEF RejectQuote, OrdersInv, NoEmptyOrder
<1>3. CASE TriggerOrder(engineState, q, CurrentVwap)
  <2> DEFINE o == BuildOrder(q)
             n == Len(issued)
  <2>1. issued' = Append(issued, o)
    BY <1>3 DEF TriggerOrder
  <2>2. o \in Orders /\ o.quantity \in 1 .. MaxOrderSize /\ o.price >= 0
    BY ValidQuote, OrderType DEF ManagerInv
  <2>3. issued \in Seq(Orders)
    BY DEF ManagerInv, EngineTypeOK
  <2> HIDE DEF o
  <2>4. /\ n \in Nat /\ DOMAIN issued' = 1 .. n + 1 /\ DOMAIN issued = 1 .. n
        /\ issued'[n + 1] = o /\ \A i \in 1 .. n : issued'[i] = issued[i]
    BY <2>1, <2>2, <2>3
  <2>5. ASSUME NEW i \in DOMAIN issued'
        PROVE  issued'[i].quantity \in 1 .. MaxOrderSize /\ issued'[i].price >= 0
    <3>1. i = n + 1 \/ i \in 1 .. n
      BY <2>4
    <3>2. CASE i = n + 1
      BY <2>2, <2>4, <3>2
    <3>3. CASE i \in 1 .. n
      BY <2>4, <3>3 DEF OrdersInv, NoEmptyOrder
    <3> QED BY <3>1, <3>2, <3>3
  <2>6. NoEmptyOrder'
    BY <2>5 DEF NoEmptyOrder
  <2> QED BY <1>1, <2>6 DEF OrdersInv
<1> QED BY <1>2, <1>3, QuoteCases

(* Everything else leaves the orders alone. *)
LEMMA OrdersKept ==
  ASSUME OrdersInv, UNCHANGED <<side, issued, basis>>
  PROVE  OrdersInv'
BY OthersKeepBeating DEF OrdersInv, NoEmptyOrder

-----------------------------------------------------------------------------
(* The accounts of the order channel *)

(* Every accepted order is in one place, and totalOrders counts them. *)
Accounts ==
  /\ calls \in Nat
  /\ totalOrders = Cardinality(Accepted)
  /\ Accepted \subseteq 1 .. calls
  /\ pending \cap written = {} /\ (pending \cup written) \cap abandoned = {}

(* The accepted orders are finitely many. *)
LEMMA AcceptedFinite ==
  ASSUME Accounts
  PROVE  IsFiniteSet(Accepted) /\ Cardinality(Accepted) \in Nat
<1>1. IsFiniteSet(1 .. calls)
  BY FS_Interval DEF Accounts
<1>2. IsFiniteSet(Accepted)
  BY <1>1, FS_Subset DEF Accounts
<1> QED BY <1>2, FS_CardinalityType

(* sendOrder: the order is counted if and only if it was accepted, now     *)
(* written or pending.                                                     *)
LEMMA SendOrderKeepsAccounts ==
  ASSUME Accounts, NEW o, SendOrder(o)
  PROVE  Accounts' /\ calls' = calls + 1
<1>1. calls \in Nat /\ Accepted \subseteq 1 .. calls /\ calls' = calls + 1
  BY DEF Accounts, SendOrder, Channel!SendOrder, Channel!NewOrder
<1>2. calls + 1 \notin Accepted /\ 1 .. calls \subseteq 1 .. calls + 1
      /\ calls + 1 \in 1 .. calls + 1
  BY <1>1
<1>3. totalOrders' = IF calls' \in Accepted' THEN totalOrders + 1 ELSE totalOrders
  BY DEF SendOrder
<1>4. CASE UNCHANGED <<pending, written, abandoned>>
  <2>1. Accepted' = Accepted
    BY <1>4 DEF Accepted
  <2>2. totalOrders' = totalOrders
    BY <1>1, <1>2, <1>3, <2>1
  <2> QED BY <1>1, <1>2, <1>4, <2>1, <2>2 DEF Accounts
<1>5. CASE \/ /\ written' = written \cup {calls + 1}
              /\ UNCHANGED <<pending, abandoned>>
           \/ /\ pending' = pending \cup {calls + 1}
              /\ UNCHANGED <<written, abandoned>>
  <2>1. Accepted' = Accepted \cup {calls + 1}
    BY <1>5 DEF Accepted
  <2>2. totalOrders' = totalOrders + 1
    BY <1>1, <1>3, <2>1
  <2>3. Cardinality(Accepted') = Cardinality(Accepted) + 1
    BY <1>2, <2>1, AcceptedFinite, FS_AddElement
  <2>4. Accepted' \subseteq 1 .. calls'
    BY <1>1, <1>2, <2>1
  <2>5. /\ pending' \cap written' = {}
        /\ (pending' \cup written') \cap abandoned' = {}
    BY <1>2, <1>5 DEF Accounts, Accepted
  <2>6. totalOrders' = Cardinality(Accepted')
    BY <2>2, <2>3 DEF Accounts
  <2>7. calls' \in Nat
    BY <1>1
  <2> QED BY <1>1, <2>4, <2>5, <2>6, <2>7 DEF Accounts
<1>6. \/ UNCHANGED <<pending, written, abandoned>>
      \/ written' = written \cup {calls + 1} /\ UNCHANGED <<pending, abandoned>>
      \/ pending' = pending \cup {calls + 1} /\ UNCHANGED <<written, abandoned>>
  BY DEF SendOrder, Channel!SendOrder, Channel!Refused, Channel!WrittenAtOnce,
         Channel!Queued, Channel!NewOrder
<1> QED BY <1>4, <1>5, <1>6

(* processSendQueue only moves orders that are pending. *)
LEMMA FlushKeepsAccounts ==
  ASSUME Accounts, Channel!Flush \/ Channel!Abandon, totalOrders' = totalOrders
  PROVE  Accounts' /\ calls' = calls
<1>1. PICK S \in SUBSET pending :
        \/ /\ pending' = pending \ S /\ written' = written \cup S
           /\ abandoned' = abandoned
        \/ /\ pending' = {} /\ written' = written \cup S
           /\ abandoned' = abandoned \cup (pending \ S)
  BY DEF Channel!Flush, Channel!Abandon, Channel!Prefixes
<1>2. calls' = calls
  BY DEF Channel!Flush, Channel!Abandon
<1>3. Accepted' = Accepted
  BY <1>1 DEF Accepted
<1>4. /\ pending' \cap written' = {}
      /\ (pending' \cup written') \cap abandoned' = {}
  BY <1>1 DEF Accounts
<1> QED BY <1>2, <1>3, <1>4 DEF Accounts

(* What neither sends nor flushes keeps the accounts. *)
LEMMA AccountsKept ==
  ASSUME Accounts, UNCHANGED <<calls, pending, written, abandoned, totalOrders>>
  PROVE  Accounts'
BY DEF Accounts, Accepted

-----------------------------------------------------------------------------
(* The steps of the program *)

(* ReportedTotals, from the accounts and the three pairs of totals *)
LEMMA TotalsFromAccounts ==
  ASSUME ManagerInv
  PROVE  ReportedTotals <=> /\ Accounts /\ totalOrdersSent = calls
                            /\ totalQuotes = managerQuotes
                            /\ totalTrades = managerTrades
BY DEF ManagerInv, ManagerTypeOK, ReportedTotals, Accounts

(* A message of the turn is one less to come, and one more after the       *)
(* signal.                                                                 *)
LEMMA MessageStep ==
  ASSUME TurnInv, NextMessage, open' \in BOOLEAN
  PROVE  TurnInv'
<1>1. running
  BY DEF TurnInv, NextMessage
<1>2. /\ batch' = batch - 1 /\ batch > 0
      /\ late' = IF shutdownRequested THEN late + 1 ELSE late
      /\ UNCHANGED <<shutdownRequested, running, step>>
  BY DEF NextMessage
<1>3. /\ batch \in Nat /\ late \in Nat /\ late + batch <= BatchLimit
      /\ BatchLimit \in Nat
  BY BatchAssumption DEF TurnInv
<1>4. batch' \in Nat /\ late' \in Nat /\ late' + batch' <= BatchLimit
  BY <1>2, <1>3
<1> QED BY <1>1, <1>2, <1>4 DEF TurnInv

(* A message for another symbol, or one that does not validate, is         *)
(* dropped: nothing but the turn moves.                                    *)
LEMMA DropStep ==
  ASSUME SystemInv, NextMessage, UNCHANGED <<vars, channelVars, totals>>
  PROVE  SystemInv'
<1>1. /\ UNCHANGED vars
      /\ UNCHANGED <<open, calls, pending, written, abandoned>>
      /\ UNCHANGED <<totalQuotes, totalTrades, totalOrders>>
  BY DEF channelVars, totals
<1>2. UNCHANGED <<side, issued, basis, totalOrdersSent, managerQuotes,
                  managerTrades>>
  BY <1>1 DEF vars, engineVars, managerVars
<1>3. ManagerInv'
  BY <1>1, ManagerStutter DEF SystemInv
<1>4. OrdersInv'
  BY <1>2, OrdersKept DEF SystemInv
<1>5. ReportedTotals'
  BY <1>1, <1>2 DEF SystemInv, ReportedTotals, Accepted
<1>6. TurnInv'
  BY <1>1, MessageStep DEF SystemInv, TurnInv
<1> QED BY <1>3, <1>4, <1>5, <1>6 DEF SystemInv

(* onQuote keeps the invariant. *)
LEMMA OnQuoteStep ==
  ASSUME SystemInv, NEW symbol, NEW q \in Quotes, OnQuote(symbol, q)
  PROVE  SystemInv'
<1>1. NextMessage
  BY Zenon DEF OnQuote
<1>2. CASE ~ (ValidateQuote(q) /\ Matches(symbol))
  BY <1>1, <1>2, DropStep DEF OnQuote
<1>3. CASE ValidateQuote(q) /\ Matches(symbol)
  <2>1. /\ ProcessQuote(q) /\ totalQuotes' = totalQuotes + 1
        /\ UNCHANGED totalTrades
        /\ IF Triggers(EngineStateAfterCheck, q, CurrentVwap)
           THEN SendOrder(BuildOrder(q))
           ELSE UNCHANGED <<channelVars, totalOrders>>
    BY <1>3, Zenon DEF OnQuote
  <2>2. ManagerInv'
    BY <2>1, ProcessQuoteStep DEF SystemInv
  <2>3. OrdersInv'
    BY <1>3, <2>1, QuoteKeepsOrders DEF SystemInv
  <2>4. /\ managerQuotes' = managerQuotes + 1 /\ UNCHANGED managerTrades
        /\ EngineStateAfterCheck = engineState
    BY <2>1, QuoteCases DEF SystemInv, QuoteCommon
  <2>5. Accounts /\ totalOrdersSent = calls
    BY TotalsFromAccounts DEF SystemInv
  <2>6. Accounts' /\ totalOrdersSent' = calls' /\ open' \in BOOLEAN
    <3>1. CASE /\ RejectQuote(engineState, q, CurrentVwap)
               /\ UNCHANGED <<orderHistory, totalOrdersSent, basis>>
      <4>1. UNCHANGED <<channelVars, totalOrders>>
        BY <2>1, <2>4, <3>1 DEF RejectQuote
      <4>2. UNCHANGED <<open, calls, pending, written, abandoned, totalOrders>>
        BY <4>1 DEF channelVars
      <4> QED BY <2>5, <3>1, <4>2, AccountsKept DEF SystemInv, TurnInv
    <3>2. CASE TriggerOrder(engineState, q, CurrentVwap) /\ RecordOrder(q)
      <4>1. SendOrder(BuildOrder(q))
        BY <2>1, <2>4, <3>2 DEF TriggerOrder
      <4>2. totalOrdersSent' = totalOrdersSent + 1
        BY <3>2 DEF RecordOrder
      <4>3. Accounts' /\ calls' = calls + 1
        BY <2>5, <4>1, SendOrderKeepsAccounts
      <4>4. open' \in BOOLEAN
        BY <4>1 DEF SystemInv, TurnInv, SendOrder, Channel!SendOrder,
                    Channel!Refused, Channel!WrittenAtOnce, Channel!Queued
      <4> QED BY <2>5, <4>2, <4>3, <4>4
    <3> QED BY <2>1, <3>1, <3>2, QuoteCases DEF SystemInv
  <2>7. totalQuotes' = managerQuotes' /\ totalTrades' = managerTrades'
    BY <2>1, <2>4 DEF SystemInv, ReportedTotals
  <2>8. ReportedTotals'
    BY <2>6, <2>7 DEF ReportedTotals, Accounts
  <2>9. TurnInv'
    BY <1>1, <2>6, MessageStep DEF SystemInv
  <2> QED BY <2>2, <2>3, <2>8, <2>9 DEF SystemInv
<1> QED BY <1>2, <1>3

(* onTrade keeps the invariant. *)
LEMMA OnTradeStep ==
  ASSUME SystemInv, NEW symbol, NEW t \in Trades, OnTrade(symbol, t)
  PROVE  SystemInv'
<1>1. NextMessage
  BY Zenon DEF OnTrade
<1>2. CASE ~ (ValidateTrade(t) /\ Matches(symbol))
  BY <1>1, <1>2, DropStep DEF OnTrade
<1>3. CASE ValidateTrade(t) /\ Matches(symbol)
  <2>1. /\ ProcessTrade(t) /\ totalTrades' = totalTrades + 1
        /\ UNCHANGED <<channelVars, totalQuotes, totalOrders>>
    BY <1>3, Zenon DEF OnTrade
  <2>2. /\ UNCHANGED <<open, calls, pending, written, abandoned>>
        /\ UNCHANGED <<totalQuotes, totalOrders>>
    BY <2>1 DEF channelVars
  <2>3. /\ managerTrades' = managerTrades + 1
        /\ UNCHANGED <<managerQuotes, totalOrdersSent, basis>>
    BY <2>1, Zenon DEF ProcessTrade
  <2>4. UNCHANGED <<side, issued>>
    <3>1. IF WindowCompletes(HasCompleteWindow')
          THEN OnVwapWindowComplete ELSE UNCHANGED engineVars
      BY <2>1, Zenon DEF ProcessTrade
    <3> QED BY <3>1 DEF OnVwapWindowComplete, engineVars
  <2>5. ManagerInv'
    BY <2>1, ProcessTradeStep DEF SystemInv
  <2>6. OrdersInv'
    BY <2>3, <2>4, OrdersKept DEF SystemInv
  <2>7. ReportedTotals'
    BY <2>1, <2>2, <2>3 DEF SystemInv, ReportedTotals, Accepted
  <2>8. TurnInv'
    BY <1>1, <2>2, MessageStep DEF SystemInv, TurnInv
  <2> QED BY <2>5, <2>6, <2>7, <2>8 DEF SystemInv
<1> QED BY <1>2, <1>3

(* What neither receives nor sends: the manager stands still or fills its  *)
(* cache, and the channel at most moves what is pending.                   *)
Quiet ==
  /\ ReadVwap \/ UNCHANGED vars
  /\ UNCHANGED totals
  /\ \/ Channel!Flush \/ Channel!Abandon
     \/ UNCHANGED <<calls, pending, written, abandoned>>

LEMMA QuietStep ==
  ASSUME SystemInv, Quiet
  PROVE  ManagerInv' /\ OrdersInv' /\ ReportedTotals'
<1>1. ManagerInv'
  BY ReadVwapStep, ManagerStutter DEF Quiet, SystemInv
<1>2. UNCHANGED <<side, issued, basis, totalOrdersSent, managerQuotes,
                  managerTrades>>
  <2>1. CASE ReadVwap
    BY <2>1 DEF ReadVwap, engineVars, managerVars
  <2>2. CASE UNCHANGED vars
    BY <2>2 DEF vars, engineVars, managerVars
  <2> QED BY <2>1, <2>2 DEF Quiet
<1>3. OrdersInv'
  BY <1>2, OrdersKept DEF SystemInv
<1>4. UNCHANGED <<totalQuotes, totalTrades, totalOrders>>
  BY DEF Quiet, totals
<1>5. Accounts
  BY TotalsFromAccounts DEF SystemInv
<1>6. Accounts' /\ calls' = calls
  <2>1. CASE Channel!Flush \/ Channel!Abandon
    BY <1>4, <1>5, <2>1, FlushKeepsAccounts
  <2>2. CASE UNCHANGED <<calls, pending, written, abandoned>>
    BY <1>4, <1>5, <2>2, AccountsKept
  <2> QED BY <2>1, <2>2 DEF Quiet
<1>7. ReportedTotals'
  BY <1>2, <1>4, <1>6 DEF SystemInv, ReportedTotals, Accounts
<1> QED BY <1>1, <1>3, <1>7

(* The loop, the signal and the end keep the invariant. *)
LEMMA LoopStep ==
  ASSUME SystemInv, StartTurn \/ EndTurn \/ Stop \/ Signal
  PROVE  SystemInv'
<1>1. CASE StartTurn
  <2>1. Quiet
    BY <1>1 DEF StartTurn, StartEvents, channelVars, Quiet, Channel!Reopen
  <2>2. /\ running /\ late = 0 /\ step' = "events" /\ batch' = BatchLimit
        /\ UNCHANGED <<shutdownRequested, running, late>>
    BY <1>1 DEF SystemInv, TurnInv, StartTurn, StartEvents
  <2>3. open' \in BOOLEAN
    BY <1>1 DEF SystemInv, TurnInv, StartTurn, StartEvents, channelVars,
                Channel!Reopen
  <2>4. BatchLimit \in Nat /\ 0 + BatchLimit <= BatchLimit
    BY BatchAssumption
  <2>5. TurnInv'
    BY <2>2, <2>3, <2>4 DEF SystemInv, TurnInv
  <2> QED BY <2>1, <2>5, QuietStep DEF SystemInv
<1>2. CASE EndTurn
  <2>1. Quiet
    BY <1>2 DEF EndTurn, channelVars, Quiet
  <2>2. TurnInv'
    BY <1>2
    DEF SystemInv, TurnInv, EndTurn, channelVars, Channel!Flush, Channel!Abandon
  <2> QED BY <2>1, <2>2, QuietStep DEF SystemInv
<1>3. CASE Stop
  <2>1. Quiet
    BY <1>3 DEF Stop, Quiet, Channel!Close
  <2>2. TurnInv'
    BY <1>3 DEF SystemInv, TurnInv, Stop, Channel!Close
  <2> QED BY <2>1, <2>2, QuietStep DEF SystemInv
<1>4. CASE Signal
  <2>1. Quiet
    BY <1>4 DEF Signal, channelVars, Quiet
  <2>2. TurnInv'
    BY <1>4 DEF SystemInv, TurnInv, Signal, channelVars
  <2> QED BY <2>1, <2>2, QuietStep DEF SystemInv
<1> QED BY <1>1, <1>2, <1>3, <1>4

(* A step of something else *)
LEMMA SystemStutter ==
  ASSUME SystemInv, UNCHANGED systemVars
  PROVE  SystemInv'
<1>1. UNCHANGED vars /\ UNCHANGED channelVars /\ UNCHANGED totals
      /\ UNCHANGED loopVars
  BY DEF systemVars
<1>2. Quiet
  BY <1>1 DEF Quiet, channelVars
<1>3. TurnInv'
  BY <1>1 DEF SystemInv, TurnInv, channelVars, loopVars
<1> QED BY <1>2, <1>3, QuietStep DEF SystemInv

LEMMA SystemNextPreserves == SystemInv /\ [SystemNext]_systemVars => SystemInv'
BY OnQuoteStep, OnTradeStep, LoopStep, SystemStutter DEF SystemNext, Loop

(* The program as it enters its loop *)
LEMMA SystemInitEstablishes == SystemInit => SystemInv
<1> SUFFICES ASSUME SystemInit PROVE SystemInv
  OBVIOUS
<1>1. ManagerInv
  BY ManagerInitEstablishes DEF SystemInit
<1>2. issued = << >> /\ totalOrdersSent = 0 /\ managerQuotes = 0
      /\ managerTrades = 0
  BY DEF SystemInit, Init, EngineInit
<1>3. OrdersInv
  BY <1>2 DEF OrdersInv, OrdersBeatWindowVwap, NoEmptyOrder
<1>4. /\ calls = 0 /\ pending = {} /\ written = {} /\ abandoned = {}
      /\ totalQuotes = 0 /\ totalTrades = 0 /\ totalOrders = 0 /\ open = TRUE
  BY DEF SystemInit, Channel!ChannelInit
<1>5. Accepted = {} /\ Cardinality({}) = 0
  BY <1>4, FS_EmptySet DEF Accepted
<1>6. ReportedTotals
  BY <1>2, <1>4, <1>5 DEF ReportedTotals
<1>7. TurnInv
  <2>1. 0 + 0 <= BatchLimit
    BY BatchAssumption
  <2> QED BY <1>4, <2>1 DEF SystemInit, TurnInv
<1> QED BY <1>1, <1>3, <1>6, <1>7 DEF SystemInv

-----------------------------------------------------------------------------
(* The inductive invariant holds. *)
THEOREM SystemInvariance == SystemSpec => []SystemInv
BY SystemInitEstablishes, SystemNextPreserves, PTL DEF SystemSpec

(* In the program, every order is strictly better than the average of the  *)
(* window it was decided on, as long as no trade was overwritten: the      *)
(* cached VWAP is never stale, and validateQuote keeps the bids away whose *)
(* cast would change their sign.                                           *)
THEOREM OrdersAlwaysBeatWindow == SystemSpec => []OrdersBeatWindowVwap
<1>1. SystemInv => OrdersBeatWindowVwap
  BY DEF SystemInv, OrdersInv
<1> QED BY <1>1, SystemInvariance, PTL

(* Nothing is sent before the trades span the duration of the window. *)
THEOREM OrdersWaitForWindow == SystemSpec => []NoOrderBeforeWindow
<1>1. SystemInv => NoOrderBeforeWindow
  BY OrderMeansWindow DEF SystemInv
<1> QED BY <1>1, SystemInvariance, PTL

(* validateQuote and calculateOrderSize together make no order without     *)
(* quantity, above the limit or with a negative price.                     *)
THEOREM OrdersNeverEmpty == SystemSpec => []NoEmptyOrder
<1>1. SystemInv => NoEmptyOrder
  BY DEF SystemInv, OrdersInv
<1> QED BY <1>1, SystemInvariance, PTL

(* What main reports at the end: its totals are those of the OrderManager, *)
(* and "Total Orders Sent" is the number of orders the client accepted,    *)
(* each of them in exactly one place.                                      *)
THEOREM TotalsAlwaysReported == SystemSpec => []ReportedTotals
<1>1. SystemInv => ReportedTotals
  BY DEF SystemInv
<1> QED BY <1>1, SystemInvariance, PTL

(* After a signal at most the rest of one turn is handled, and the program *)
(* stops with its order connection closed for good.                        *)
THEOREM SignalAlwaysEndsTrading == SystemSpec => []SignalEndsTrading
<1>1. SystemInv => SignalEndsTrading
  BY BatchAssumption DEF SystemInv, TurnInv, SignalEndsTrading
<1> QED BY <1>1, SystemInvariance, PTL
=============================================================================
