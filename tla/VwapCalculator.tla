--------------------------- MODULE VwapCalculator ---------------------------
(***************************************************************************)
(* VwapCalculator (include/vwap_calculator.h, src/vwap_calculator.cpp):    *)
(* the volume-weighted average price over a sliding time window, kept      *)
(* incrementally with running sums and prefix-sum arrays.                  *)
(*                                                                         *)
(* Arithmetic is on integers; the type invariant shows that no sum, prefix *)
(* or difference ever leaves 0..U64Max, so that the uint64_t operations of *)
(* the code never wrap.  The VWAP is kept as the pair <<numerator,         *)
(* denominator>> of the division in getCurrentVwap.                        *)
(*                                                                         *)
(* Not modelled: timeIndex and oldestIndex, which the code writes and      *)
(* never reads, and the metrics counters.                                  *)
(***************************************************************************)
EXTENDS BoundedDeque, MachineIntegers, Sums

CONSTANTS
  MAX_TRADES,      \* capacity of the trade window (10000 in the code)
  WindowDuration,  \* windowDurationNanos
  Trades           \* the trades that may arrive

ASSUME MaxTradesAssumption == MAX_TRADES \in Nat /\ MAX_TRADES > 0
ASSUME WindowAssumption == WindowDuration \in Nat /\ WindowDuration > 0
ASSUME TradesAssumption ==
  Trades \subseteq [timestamp : Nat, quantity : Nat, price : Int]

VARIABLES
  tradeWindow,          \* the records in the window, oldest first
  prefixVolume,         \* prefixVolume[i]: quantities of records 1..i
  prefixPriceVolume,    \* the same for priceVolume
  pendingRebuild,       \* the prefix arrays must be recomputed before use
  prefixGeneration,     \* number of rebuilds
  sumVolume,
  sumPriceVolume,
  cachedVwap,
  vwapCacheValid,
  windowStartTime,      \* 0: not set
  firstWindowComplete,
  lastTradeTime,        \* 0: no trade yet
  totalTradesProcessed,
  rejectedTrades,
  \* Auxiliary: no action of the code depends on these two.
  lost,                 \* volume and price volume of overwritten records
  firstTradeTime        \* timestamp of the first accepted trade

windowVars == <<tradeWindow, prefixVolume, prefixPriceVolume, pendingRebuild,
                prefixGeneration, sumVolume, sumPriceVolume, windowStartTime,
                firstWindowComplete, lastTradeTime, totalTradesProcessed>>
auxVars == <<lost, firstTradeTime>>
cacheVars == <<cachedVwap, vwapCacheValid>>
calcVars == <<windowVars, cacheVars, rejectedTrades, auxVars>>

-----------------------------------------------------------------------------
(* VwapTradeRecord: the price is only kept multiplied by the quantity. *)
TradeRecord(t) == [timestamp   |-> t.timestamp,
                   quantity    |-> t.quantity,
                   priceVolume |-> t.price * t.quantity]

Records == [timestamp : Nat, quantity : Nat, priceVolume : Nat]

Volumes(w) == [i \in DOMAIN w |-> w[i].quantity]
PriceVolumes(w) == [i \in DOMAIN w |-> w[i].priceVolume]

VwapOf(priceVolume, volume) ==
  IF volume = 0 THEN <<0, 1>> ELSE <<priceVolume, volume>>

SameVwap(x, y) == x[1] * y[2] = y[1] * x[2]

-----------------------------------------------------------------------------
VwapInit ==
  /\ tradeWindow = << >>
  /\ prefixVolume = << >> /\ prefixPriceVolume = << >>
  /\ pendingRebuild = FALSE
  /\ prefixGeneration = 0
  /\ sumVolume = 0 /\ sumPriceVolume = 0
  /\ cachedVwap = <<0, 1>> /\ vwapCacheValid = FALSE
  /\ windowStartTime = 0
  /\ firstWindowComplete = FALSE
  /\ lastTradeTime = 0
  /\ totalTradesProcessed = 0 /\ rejectedTrades = 0
  /\ lost = [volume |-> 0, priceVolume |-> 0]
  /\ firstTradeTime = 0

-----------------------------------------------------------------------------
(* Mutant of OutOfOrder: late trades are let in. *)
OutOfOrderUnchecked(t) == FALSE

(* Mutant of Overflows: only the product is checked, not the sums. *)
OverflowsProductOnly(t) == t.price * t.quantity > U64Max

(* The early returns of addTrade: bad price or quantity, a timestamp older *)
(* than the last one, a product or a sum that does not fit in 64 bits.     *)
Malformed(t) == t.price <= 0 \/ t.quantity = 0
OutOfOrder(t) == lastTradeTime # 0 /\ t.timestamp < lastTradeTime
Overflows(t) == \/ t.price * t.quantity > U64Max
                \/ sumPriceVolume + t.price * t.quantity > U64Max
                \/ sumVolume + t.quantity > U64Max

RejectTrade(t) ==
  /\ Malformed(t) \/ OutOfOrder(t) \/ Overflows(t)
  /\ rejectedTrades' = rejectedTrades + 1
  /\ UNCHANGED <<windowVars, auxVars>>

(* Mutant of MustRebuild: a full window does not ask for a rebuild. *)
MustRebuildIfPending(w) == pendingRebuild

MustRebuild(w) == pendingRebuild \/ Len(w) = MAX_TRADES

(* The binary search of removeExpiredTrades: k records are before cutoff. *)
IsLowerBound(w, cutoff, k) ==
  /\ \A i \in 1 .. k : w[i].timestamp < cutoff
  /\ \A i \in k+1 .. Len(w) : w[i].timestamp >= cutoff

(* Mutant of Cutoff: off by one *)
CutoffTooLow(ts) ==
  IF ts > WindowDuration THEN ts - WindowDuration - 1 ELSE 0

Cutoff(ts) == IF ts > WindowDuration THEN ts - WindowDuration ELSE 0

(* Mutant of StartAfter: the first trade does not start the window. *)
StartNeverSet(t) == windowStartTime

StartAfter(t) == IF windowStartTime = 0 THEN t.timestamp ELSE windowStartTime

(* removeExpiredTrades returns early: the oldest record is in the window. *)
KeepAllTrades(w, vols, pvs, t) ==
  /\ w[1].timestamp >= Cutoff(t.timestamp)
  /\ tradeWindow' = w
  /\ prefixVolume' = vols
  /\ prefixPriceVolume' = pvs
  /\ pendingRebuild' = MustRebuild(w)
  /\ sumVolume' = sumVolume + t.quantity
  /\ sumPriceVolume' = sumPriceVolume + t.price * t.quantity
  /\ windowStartTime' = StartAfter(t)
  /\ UNCHANGED prefixGeneration

(* removeExpiredTrades drops the k records before the cutoff.  The record  *)
(* just pushed is never before the cutoff, so the code's branch for a      *)
(* window that becomes empty is not reachable and k < Len(w).              *)
RemoveExpiredTrades(w, vols, pvs, t) ==
  /\ w[1].timestamp < Cutoff(t.timestamp)
  /\ LET rebuild == MustRebuild(w)
         v == IF rebuild THEN RebuildPrefix(Volumes(w)) ELSE vols
         p == IF rebuild THEN RebuildPrefix(PriceVolumes(w)) ELSE pvs
     IN  /\ prefixGeneration' = prefixGeneration + (IF rebuild THEN 1 ELSE 0)
         /\ pendingRebuild' = FALSE
         /\ \E k \in 1 .. Len(w) - 1 :
              /\ IsLowerBound(w, Cutoff(t.timestamp), k)
              /\ tradeWindow' = PopFrontN(w, k)
              /\ prefixVolume' = ShiftPrefix(v, k)
              /\ prefixPriceVolume' = ShiftPrefix(p, k)
              /\ sumVolume' = (sumVolume + t.quantity) - v[k]
              /\ sumPriceVolume' =
                   (sumPriceVolume + t.price * t.quantity) - p[k]
              /\ windowStartTime' = w[k+1].timestamp

(* What push_back overwrites, if the window is full *)
Overwritten ==
  IF Len(tradeWindow) = MAX_TRADES
  THEN [volume      |-> lost.volume + tradeWindow[1].quantity,
        priceVolume |-> lost.priceVolume + tradeWindow[1].priceVolume]
  ELSE lost

AcceptTrade(t) ==
  /\ ~ (Malformed(t) \/ OutOfOrder(t) \/ Overflows(t))
  /\ LET w == PushBack(tradeWindow, MAX_TRADES, TradeRecord(t))
         vols == AppendPrefix(prefixVolume, Len(w), t.quantity)
         pvs == AppendPrefix(prefixPriceVolume, Len(w), t.price * t.quantity)
     IN  KeepAllTrades(w, vols, pvs, t) \/ RemoveExpiredTrades(w, vols, pvs, t)
  /\ totalTradesProcessed' = totalTradesProcessed + 1
  /\ lastTradeTime' = t.timestamp
  /\ firstWindowComplete' =
       (\/ firstWindowComplete
        \/ t.timestamp - windowStartTime' >= WindowDuration)
  /\ lost' = Overwritten
  /\ firstTradeTime' =
       IF totalTradesProcessed = 0 THEN t.timestamp ELSE firstTradeTime
  /\ UNCHANGED rejectedTrades

(* Mutant of AddTrade: the cached VWAP stays valid. *)
AddTradeKeepsCache(t) ==
  (RejectTrade(t) \/ AcceptTrade(t)) /\ UNCHANGED cacheVars

(* addTrade; only an accepted trade makes the cached VWAP invalid. *)
AddTrade(t) ==
  \/ RejectTrade(t) /\ UNCHANGED cacheVars
  \/ AcceptTrade(t) /\ vwapCacheValid' = FALSE /\ UNCHANGED cachedVwap

CurrentVwap == IF vwapCacheValid THEN cachedVwap
               ELSE VwapOf(sumPriceVolume, sumVolume)

(* What getCurrentVwap does to the cache; it returns CurrentVwap. *)
FillCache == cachedVwap' = CurrentVwap /\ vwapCacheValid' = TRUE

GetCurrentVwap ==
  /\ FillCache
  /\ UNCHANGED <<windowVars, rejectedTrades, auxVars>>

(* addTrade followed by getCurrentVwap in the same handler *)
AddTradeThenGetVwap(t) ==
  \/ RejectTrade(t) /\ FillCache
  \/ /\ AcceptTrade(t)
     /\ cachedVwap' = VwapOf(sumPriceVolume', sumVolume')
     /\ vwapCacheValid' = TRUE

HasCompleteWindow == firstWindowComplete /\ tradeWindow # << >>

VwapNext == (\E t \in Trades : AddTrade(t)) \/ GetCurrentVwap

VwapSpec == VwapInit /\ [][VwapNext]_calcVars

-----------------------------------------------------------------------------
(* Types; in particular no sum and no prefix ever leaves the range of      *)
(* uint64_t, whatever was rejected, overwritten or removed before.         *)
VwapTypeOK ==
  /\ tradeWindow \in Seq(Records) /\ Len(tradeWindow) <= MAX_TRADES
  /\ prefixVolume \in Seq(U64) /\ Len(prefixVolume) = Len(tradeWindow)
  /\ prefixPriceVolume \in Seq(U64)
  /\ Len(prefixPriceVolume) = Len(tradeWindow)
  /\ pendingRebuild \in BOOLEAN /\ prefixGeneration \in Nat
  /\ sumVolume \in U64 /\ sumPriceVolume \in U64
  /\ cachedVwap \in U64 \X Nat /\ vwapCacheValid \in BOOLEAN
  /\ windowStartTime \in Nat /\ firstWindowComplete \in BOOLEAN
  /\ lastTradeTime \in Nat
  /\ totalTradesProcessed \in Nat /\ rejectedTrades \in Nat
  /\ lost \in [volume : U64, priceVolume : U64]
  /\ firstTradeTime \in Nat

(* The window slides: the records are in time order, the newest is the     *)
(* last accepted trade, and none is older than the window, whatever order  *)
(* the trades arrived in (addTrade and removeExpiredTrades together).      *)
(* This is what the search needs.  It is bought by leaving out every trade *)
(* older than the last one, which a test expects to count: see             *)
(* LateTradeCounts.                                                        *)
WindowSlides ==
  /\ \A i \in DOMAIN tradeWindow :
       /\ tradeWindow[i].timestamp >= Cutoff(lastTradeTime)
       /\ \A j \in i .. Len(tradeWindow) :
            tradeWindow[i].timestamp <= tradeWindow[j].timestamp
  /\ tradeWindow # << >> =>
       tradeWindow[Len(tradeWindow)].timestamp = lastTradeTime

(* The incremental sums are those of a recomputation over the window plus, *)
(* for ever, the records that a full buffer overwrote: push_back drops     *)
(* them without telling addTrade, which never subtracts them.              *)
SumsAccount ==
  /\ sumVolume = Total(Volumes(tradeWindow)) + lost.volume
  /\ sumPriceVolume = Total(PriceVolumes(tradeWindow)) + lost.priceVolume

(* The prefix arrays describe the window whenever they are used without a  *)
(* rebuild (removeExpiredTrades): overwriting makes them stale, and the    *)
(* stale entries must never be subtracted from the sums.                   *)
PrefixesConsistent ==
  pendingRebuild \/ /\ prefixVolume = RebuildPrefix(Volumes(tradeWindow))
                    /\ prefixPriceVolume =
                         RebuildPrefix(PriceVolumes(tradeWindow))

(* A VWAP served from the cache is the one a recomputation would give      *)
(* (getCurrentVwap against every way addTrade changes the sums).           *)
CacheFresh ==
  vwapCacheValid => cachedVwap = VwapOf(sumPriceVolume, sumVolume)

(* The first window is never declared complete before trades have been     *)
(* observed for the whole duration ("Window marked complete too early",    *)
(* tests/test_vwap.cpp:113).                                               *)
NotCompleteTooEarly ==
  firstWindowComplete => lastTradeTime - firstTradeTime >= WindowDuration

(* addTrade expires before it tests for completion, so unless a record was *)
(* overwritten the test succeeds only for a trade that arrives exactly one *)
(* window after the oldest record that is left.                            *)
CompletionExact ==
  [][firstWindowComplete' /\ ~ firstWindowComplete =>
       \/ lost'.volume > 0
       \/ lastTradeTime' - tradeWindow'[1].timestamp = WindowDuration]_calcVars

-----------------------------------------------------------------------------
(* Claims of the tests that the code does not meet *)

(* "Window not marked complete after duration" (tests/test_vwap.cpp:120):  *)
(* once the accepted trades span the window, the window is complete.       *)
CompleteAfterDuration ==
  totalTradesProcessed > 0 /\ lastTradeTime - firstTradeTime >= WindowDuration
    => HasCompleteWindow

(* "VWAP incorrect after out-of-order trade"                               *)
(* (tests/test_window_timing.cpp:207): a well-formed trade that is older   *)
(* than the last one, and not older than the window, is part of the sums.  *)
LateTradeCounts ==
  [][\A t \in Trades :
       /\ AddTrade(t) /\ ~ Malformed(t) /\ ~ Overflows(t)
       /\ Cutoff(lastTradeTime) <= t.timestamp /\ t.timestamp < lastTradeTime
       => /\ sumVolume' = sumVolume + t.quantity
          /\ sumPriceVolume' = sumPriceVolume + t.price * t.quantity]_calcVars
=============================================================================
