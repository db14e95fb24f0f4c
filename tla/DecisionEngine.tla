--------------------------- MODULE DecisionEngine ---------------------------
(***************************************************************************)
(* DecisionEngine (include/decision_engine.h, src/decision_engine.cpp):    *)
(* decides for every quote whether to place an order.                      *)
(*                                                                         *)
(* The VWAP is a pair <<numerator, denominator>>; comparing a price with   *)
(* it multiplies out, where the code compares doubles.  decisionHistory    *)
(* keeps the kind of each decision; the symbol, the reason text and the    *)
(* latency metric are left out.                                            *)
(***************************************************************************)
EXTENDS BoundedDeque, FiniteSets, MachineIntegers

CONSTANTS
  MaxOrderSize,
  CooldownNanos,
  MAX_HISTORY_SIZE,  \* length of decisionHistory (1000 in the code)
  Quotes             \* the quotes that may arrive

ASSUME MaxOrderSizeAssumption == MaxOrderSize \in U32 \ {0}
ASSUME CooldownAssumption == CooldownNanos \in U64
ASSUME HistoryAssumption == MAX_HISTORY_SIZE \in Nat \ {0}
ASSUME QuotesAssumption ==
  Quotes \subseteq [timestamp : U64, bidQuantity : U32, bidPrice : U32,
                    askQuantity : U32, askPrice : I32]

VARIABLES
  side,                \* "B" buys at the ask, "S" sells at the bid
  engineState,         \* currentState of the engine
  lastProcessedQuote,  \* identity of the last quote that gave an order
  lastOrderTimestamp,  \* 0: no order yet
  decisionHistory,
  quotesProcessed,
  ordersTriggered,
  ordersRejected,
  rejected,            \* rejWaitingWindow, rejPriceUnfavorable, ... by reason
  \* Auxiliary: no action of the code depends on these three.
  issued,              \* every order returned
  quotesInOrder,       \* no quote was older than the one before it
  lastQuoteTime

engineVars == <<side, engineState, lastProcessedQuote, lastOrderTimestamp,
                decisionHistory, quotesProcessed, ordersTriggered,
                ordersRejected, rejected, issued, quotesInOrder, lastQuoteTime>>

Reasons == {"WAITING_WINDOW", "DUPLICATE", "COOLDOWN", "PRICE_UNFAVORABLE"}
Decisions == Reasons \cup {"ORDER_TRIGGERED"}

-----------------------------------------------------------------------------
RelevantPrice(q) == IF side = "B" THEN q.askPrice ELSE q.bidPrice
RelevantQuantity(q) == IF side = "B" THEN q.askQuantity ELSE q.bidQuantity

(* static_cast<int32_t> of either price; askPrice is signed already. *)
Price32(q) == IF side = "B" THEN q.askPrice ELSE ToInt32(q.bidPrice)

(* static_cast<int32_t> of a double.  Out of range it is undefined: the    *)
(* least value on x86-64, the largest on AArch64, or that of the uint32_t  *)
(* when the compiler leaves out the way through double.                    *)
DoubleToInt32(x) ==
  IF x <= I32Max THEN {x} ELSE {ToInt32(x), I32Max, -(I32Max + 1)}

QuoteIdentifier(q) == [timestamp |-> q.timestamp, price |-> Price32(q),
                       quantity |-> RelevantQuantity(q)]

(* shouldTriggerOrder: strictly better than a positive VWAP *)
Favorable(price, vwap) ==
  /\ vwap[1] > 0
  /\ IF side = "B" THEN price * vwap[2] < vwap[1] ELSE price * vwap[2] > vwap[1]

ShouldTriggerOrder(q, vwap) == Favorable(RelevantPrice(q), vwap)

CalculateOrderSize(size) == IF size < MaxOrderSize THEN size ELSE MaxOrderSize

IsDuplicateQuote(q) == QuoteIdentifier(q) = lastProcessedQuote

(* Mutant of IsInCooldown: off by one *)
IsInCooldownShort(now) ==
  /\ lastOrderTimestamp # 0
  /\ Minus64(now, lastOrderTimestamp) + 1 < CooldownNanos

(* The difference is one of uint64_t: for a quote older than the last      *)
(* order it wraps around to a large number.                                *)
IsInCooldown(now) ==
  lastOrderTimestamp # 0 /\ Minus64(now, lastOrderTimestamp) < CooldownNanos

BuildOrder(q) == [timestamp |-> q.timestamp, side |-> side,
                  quantity  |-> CalculateOrderSize(RelevantQuantity(q)),
                  price     |-> Price32(q)]

(* Mutant of RecordDecision: the history is not bounded. *)
RecordDecisionForever(d) == decisionHistory' = Append(decisionHistory, d)

RecordDecision(d) ==
  decisionHistory' = PushBack(decisionHistory, MAX_HISTORY_SIZE, d)

-----------------------------------------------------------------------------
EngineInit ==
  /\ side \in {"B", "S"}
  /\ engineState = "WAITING_FOR_FIRST_WINDOW"
  /\ lastProcessedQuote = [timestamp |-> 0, price |-> 0, quantity |-> 0]
  /\ lastOrderTimestamp = 0
  /\ decisionHistory = << >>
  /\ quotesProcessed = 0 /\ ordersTriggered = 0 /\ ordersRejected = 0
  /\ rejected = [r \in Reasons |-> 0]
  /\ issued = << >> /\ quotesInOrder = TRUE /\ lastQuoteTime = 0

(* Mutant of OnVwapWindowComplete: the engine ignores the notification. *)
OnVwapWindowIgnored == UNCHANGED engineVars

OnVwapWindowComplete ==
  /\ engineState' = IF engineState = "WAITING_FOR_FIRST_WINDOW"
                    THEN "READY_TO_TRADE" ELSE engineState
  /\ UNCHANGED <<side, lastProcessedQuote, lastOrderTimestamp, decisionHistory,
                 quotesProcessed, ordersTriggered, ordersRejected, rejected,
                 issued, quotesInOrder, lastQuoteTime>>

(* The early returns of evaluateQuote, in their order.  st is the state of *)
(* the engine when the quote is evaluated.                                 *)
RejectReason(st, q) ==
  IF st = "WAITING_FOR_FIRST_WINDOW" THEN "WAITING_WINDOW"
  ELSE IF IsDuplicateQuote(q) THEN "DUPLICATE"
  ELSE IF IsInCooldown(q.timestamp) THEN "COOLDOWN"
  ELSE "PRICE_UNFAVORABLE"

(* Mutant of Triggers: no wait for the first window *)
TriggersAtOnce(st, q, vwap) ==
  /\ ~ IsDuplicateQuote(q)
  /\ ~ IsInCooldown(q.timestamp)
  /\ ShouldTriggerOrder(q, vwap)

Triggers(st, q, vwap) ==
  /\ st # "WAITING_FOR_FIRST_WINDOW"
  /\ ~ IsDuplicateQuote(q)
  /\ ~ IsInCooldown(q.timestamp)
  /\ ShouldTriggerOrder(q, vwap)

RejectQuote(st, q, vwap) ==
  /\ ~ Triggers(st, q, vwap)
  /\ RecordDecision(RejectReason(st, q))
  /\ rejected' = [rejected EXCEPT ![RejectReason(st, q)] = @ + 1]
  /\ ordersRejected' = ordersRejected + 1
  /\ engineState' = st
  /\ UNCHANGED <<lastProcessedQuote, lastOrderTimestamp, ordersTriggered,
                 issued>>

(* The state passes through ORDER_SENT, which nothing observes. *)
TriggerOrder(st, q, vwap) ==
  /\ Triggers(st, q, vwap)
  /\ engineState' = "READY_TO_TRADE"
  /\ lastOrderTimestamp' = q.timestamp
  /\ \E price \in DoubleToInt32(RelevantPrice(q)) :
       lastProcessedQuote' = [timestamp |-> q.timestamp, price |-> price,
                              quantity |-> RelevantQuantity(q)]
  /\ RecordDecision("ORDER_TRIGGERED")
  /\ ordersTriggered' = ordersTriggered + 1
  /\ issued' = Append(issued, BuildOrder(q))
  /\ UNCHANGED <<ordersRejected, rejected>>

EvaluateQuote(st, q, vwap) ==
  /\ quotesProcessed' = quotesProcessed + 1
  /\ RejectQuote(st, q, vwap) \/ TriggerOrder(st, q, vwap)
  /\ quotesInOrder' = (quotesInOrder /\ q.timestamp >= lastQuoteTime)
  /\ lastQuoteTime' = q.timestamp
  /\ UNCHANGED side

-----------------------------------------------------------------------------
Orders == [timestamp : U64, side : {"B", "S"}, quantity : U32, price : I32]
QuoteIdentifiers == [timestamp : U64, price : I32, quantity : U32]

EngineTypeOK ==
  /\ side \in {"B", "S"}
  /\ engineState \in {"WAITING_FOR_FIRST_WINDOW", "READY_TO_TRADE"}
  /\ lastProcessedQuote \in QuoteIdentifiers
  /\ lastOrderTimestamp \in U64
  /\ decisionHistory \in Seq(Decisions)
  /\ quotesProcessed \in Nat /\ ordersTriggered \in Nat
  /\ ordersRejected \in Nat /\ rejected \in [Reasons -> Nat]
  /\ issued \in Seq(Orders)
  /\ quotesInOrder \in BOOLEAN /\ lastQuoteTime \in U64

(* Orders are a cooldown apart, any two of them and not only neighbours,   *)
(* as long as the quotes arrive in time order (isInCooldown compares with  *)
(* the last order only, and with a difference that may wrap).  0 is the    *)
(* code's mark for "no order yet": an order at time 0 starts no cooldown.  *)
OrdersSpaced ==
  quotesInOrder =>
    \A i, j \in DOMAIN issued :
      i < j /\ issued[i].timestamp > 0 =>
        issued[j].timestamp - issued[i].timestamp >= CooldownNanos

(* Every quote is decided exactly once: the counters that printStatistics  *)
(* shows add up, and the bounded history is the tail of all decisions, so  *)
(* that it never shows more decisions of a kind than the counters do.      *)
DecisionsAddUp ==
  LET Recorded(d) ==
        Cardinality({i \in DOMAIN decisionHistory : decisionHistory[i] = d})
  IN  /\ quotesProcessed = ordersTriggered + ordersRejected
      /\ ordersRejected =
           rejected["WAITING_WINDOW"] + rejected["DUPLICATE"]
             + rejected["COOLDOWN"] + rejected["PRICE_UNFAVORABLE"]
      /\ Len(decisionHistory) =
           IF quotesProcessed < MAX_HISTORY_SIZE THEN quotesProcessed
                                                 ELSE MAX_HISTORY_SIZE
      /\ Recorded("ORDER_TRIGGERED") <= ordersTriggered
      /\ \A r \in Reasons : Recorded(r) <= rejected[r]
=============================================================================
