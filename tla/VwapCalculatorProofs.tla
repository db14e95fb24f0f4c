------------------------ MODULE VwapCalculatorProofs ------------------------
(***************************************************************************)
(* The invariants of VwapCalculator hold for every capacity, duration and  *)
(* set of trades.                                                          *)
(***************************************************************************)
EXTENDS VwapCalculator, SumTheorems

(* The volumes and price-volume products of a window of trade records are  *)
(* sequences of naturals, as long as the window.                           *)
LEMMA FieldsType ==
  ASSUME NEW w \in Seq(Records)
  PROVE  /\ Volumes(w) \in Seq(Nat) /\ Len(Volumes(w)) = Len(w)
         /\ \A i \in 1 .. Len(w) : Volumes(w)[i] = w[i].quantity
         /\ PriceVolumes(w) \in Seq(Nat) /\ Len(PriceVolumes(w)) = Len(w)
         /\ \A i \in 1 .. Len(w) : PriceVolumes(w)[i] = w[i].priceVolume
<1>1. DOMAIN w = 1 .. Len(w) /\ Len(w) \in Nat
  OBVIOUS
<1>2. \A i \in 1 .. Len(w) : w[i].quantity \in Nat /\ w[i].priceVolume \in Nat
  <2>1. \A r \in Records : r.quantity \in Nat /\ r.priceVolume \in Nat
    BY DEF Records
  <2>2. \A i \in 1 .. Len(w) : w[i] \in Records
    OBVIOUS
  <2> QED BY <2>1, <2>2
<1>3. /\ Volumes(w) \in [1 .. Len(w) -> Nat]
      /\ PriceVolumes(w) \in [1 .. Len(w) -> Nat]
  BY <1>1, <1>2, Zenon DEF Volumes, PriceVolumes
<1>4. /\ \A i \in 1 .. Len(w) : Volumes(w)[i] = w[i].quantity
      /\ \A i \in 1 .. Len(w) : PriceVolumes(w)[i] = w[i].priceVolume
  BY <1>1, Zenon DEF Volumes, PriceVolumes
<1> QED BY <1>1, <1>3, <1>4, FunctionIsSeq

(* Taking the fields of the records commutes with push_back. *)
LEMMA VolumesOfWindow ==
  ASSUME NEW w \in Seq(Records), NEW n \in Nat, n > 0, Len(w) <= n,
         NEW r \in Records
  PROVE  /\ Volumes(PushBack(w, n, r)) = PushBack(Volumes(w), n, r.quantity)
         /\ PriceVolumes(PushBack(w, n, r))
              = PushBack(PriceVolumes(w), n, r.priceVolume)
<1> DEFINE p == PushBack(w, n, r)
           d == IF Len(w) = n THEN 1 ELSE 0
           v == PushBack(Volumes(w), n, r.quantity)
           u == PushBack(PriceVolumes(w), n, r.priceVolume)
<1>1. /\ Volumes(w) \in Seq(Nat) /\ Len(Volumes(w)) = Len(w)
      /\ \A i \in 1 .. Len(w) : Volumes(w)[i] = w[i].quantity
      /\ PriceVolumes(w) \in Seq(Nat) /\ Len(PriceVolumes(w)) = Len(w)
      /\ \A i \in 1 .. Len(w) : PriceVolumes(w)[i] = w[i].priceVolume
  BY FieldsType
<1>2. r.quantity \in Nat /\ r.priceVolume \in Nat
  BY DEF Records
<1>3. /\ p \in Seq(Records) /\ Len(p) = Len(w) - d + 1
      /\ \A i \in 1 .. Len(w) - d : p[i] = w[i + d]
      /\ p[Len(w) - d + 1] = r
  <2>1. p \in Seq(Records) /\ ElementsAfterPush(p, w, d, r)
    BY PushBackElements
  <2> HIDE DEF p, d
  <2> QED BY <2>1 DEF ElementsAfterPush
<1>4. /\ v \in Seq(Nat) /\ Len(v) = Len(w) - d + 1
      /\ \A i \in 1 .. Len(w) - d : v[i] = Volumes(w)[i + d]
      /\ v[Len(w) - d + 1] = r.quantity
  <2>1. /\ Volumes(w) \in Seq(Nat) /\ Len(Volumes(w)) = Len(w)
        /\ d = IF Len(Volumes(w)) = n THEN 1 ELSE 0
    BY <1>1
  <2>2. Len(Volumes(w)) <= n
    BY <2>1
  <2>3. v \in Seq(Nat) /\ ElementsAfterPush(v, Volumes(w), d, r.quantity)
    BY <1>2, <2>1, <2>2, PushBackElements
  <2> HIDE DEF d, v
  <2> QED BY <2>1, <2>3 DEF ElementsAfterPush
<1>5. /\ u \in Seq(Nat) /\ Len(u) = Len(w) - d + 1
      /\ \A i \in 1 .. Len(w) - d : u[i] = PriceVolumes(w)[i + d]
      /\ u[Len(w) - d + 1] = r.priceVolume
  <2>1. /\ PriceVolumes(w) \in Seq(Nat) /\ Len(PriceVolumes(w)) = Len(w)
        /\ d = IF Len(PriceVolumes(w)) = n THEN 1 ELSE 0
    BY <1>1
  <2>2. Len(PriceVolumes(w)) <= n
    BY <2>1
  <2>3. u \in Seq(Nat) /\ ElementsAfterPush(u, PriceVolumes(w), d, r.priceVolume)
    BY <1>2, <2>1, <2>2, PushBackElements
  <2> HIDE DEF d, u
  <2> QED BY <2>1, <2>3 DEF ElementsAfterPush
<1>6. d \in Nat /\ d <= Len(w)
  OBVIOUS
<1> HIDE DEF p, d, v, u
<1>7. /\ Volumes(p) \in Seq(Nat) /\ Len(Volumes(p)) = Len(p)
      /\ \A i \in 1 .. Len(p) : Volumes(p)[i] = p[i].quantity
      /\ PriceVolumes(p) \in Seq(Nat) /\ Len(PriceVolumes(p)) = Len(p)
      /\ \A i \in 1 .. Len(p) : PriceVolumes(p)[i] = p[i].priceVolume
  BY <1>3, FieldsType
<1>8. ASSUME NEW i \in 1 .. Len(p)
      PROVE  Volumes(p)[i] = v[i] /\ PriceVolumes(p)[i] = u[i]
  <2>1. CASE i = Len(w) - d + 1
    BY <2>1, <1>3, <1>4, <1>5, <1>7
  <2>2. CASE i \in 1 .. Len(w) - d
    <3>1. i + d \in 1 .. Len(w)
      BY <2>2, <1>6
    <3>2. p[i] = w[i + d] /\ v[i] = Volumes(w)[i + d]
          /\ u[i] = PriceVolumes(w)[i + d]
      BY <2>2, <1>3, <1>4, <1>5
    <3> QED BY <3>1, <3>2, <1>1, <1>7
  <2>3. i = Len(w) - d + 1 \/ i \in 1 .. Len(w) - d
    <3>1. Len(p) = Len(w) - d + 1 /\ Len(w) \in Nat /\ d \in Nat
      BY <1>3, <1>6
    <3> QED BY <3>1
  <2> QED BY <2>1, <2>2, <2>3
<1>9. Volumes(p) = v
  BY <1>3, <1>4, <1>7, <1>8, SeqEqual
<1>10. PriceVolumes(p) = u
  BY <1>3, <1>5, <1>7, <1>8, SeqEqual
<1> QED BY <1>9, <1>10 DEF p, v, u

(* Taking the fields of the records commutes with popping the expired      *)
(* ones.                                                                   *)
LEMMA VolumesOfRest ==
  ASSUME NEW w \in Seq(Records), NEW k \in 1 .. Len(w)
  PROVE  /\ Volumes(PopFrontN(w, k)) = PopFrontN(Volumes(w), k)
         /\ PriceVolumes(PopFrontN(w, k)) = PopFrontN(PriceVolumes(w), k)
<1> DEFINE p == PopFrontN(w, k)
           v == PopFrontN(Volumes(w), k)
           u == PopFrontN(PriceVolumes(w), k)
<1>1. /\ Volumes(w) \in Seq(Nat) /\ Len(Volumes(w)) = Len(w)
      /\ \A i \in 1 .. Len(w) : Volumes(w)[i] = w[i].quantity
      /\ PriceVolumes(w) \in Seq(Nat) /\ Len(PriceVolumes(w)) = Len(w)
      /\ \A i \in 1 .. Len(w) : PriceVolumes(w)[i] = w[i].priceVolume
  BY FieldsType
<1>2. /\ p \in Seq(Records) /\ Len(p) = Len(w) - k
      /\ \A i \in 1 .. Len(w) - k : p[i] = w[i + k]
  BY PopFrontNElements
<1>3. /\ v \in Seq(Nat) /\ Len(v) = Len(w) - k
      /\ \A i \in 1 .. Len(w) - k : v[i] = Volumes(w)[i + k]
  BY <1>1, PopFrontNElements
<1>4. /\ u \in Seq(Nat) /\ Len(u) = Len(w) - k
      /\ \A i \in 1 .. Len(w) - k : u[i] = PriceVolumes(w)[i + k]
  BY <1>1, PopFrontNElements
<1> HIDE DEF p, v, u
<1>5. /\ Volumes(p) \in Seq(Nat) /\ Len(Volumes(p)) = Len(p)
      /\ \A i \in 1 .. Len(p) : Volumes(p)[i] = p[i].quantity
      /\ PriceVolumes(p) \in Seq(Nat) /\ Len(PriceVolumes(p)) = Len(p)
      /\ \A i \in 1 .. Len(p) : PriceVolumes(p)[i] = p[i].priceVolume
  BY <1>2, FieldsType
<1>6. ASSUME NEW i \in 1 .. Len(p)
      PROVE  Volumes(p)[i] = v[i] /\ PriceVolumes(p)[i] = u[i]
  <2>1. i + k \in 1 .. Len(w) /\ i \in 1 .. Len(w) - k
    BY <1>2
  <2> QED BY <2>1, <1>1, <1>2, <1>3, <1>4, <1>5
<1>7. Volumes(p) = v
  BY <1>2, <1>3, <1>5, <1>6, SeqEqual
<1>8. PriceVolumes(p) = u
  BY <1>2, <1>4, <1>5, <1>6, SeqEqual
<1> QED BY <1>7, <1>8 DEF p, v, u

-----------------------------------------------------------------------------
(* The inductive invariant.  VwapTypeOK alone is not inductive: that the   *)
(* subtraction in removeExpiredTrades never wraps rests on what the prefix *)
(* entries mean, and that on when a rebuild is pending.                    *)
Shape ==
  /\ tradeWindow \in Seq(Records) /\ Len(tradeWindow) <= MAX_TRADES
  /\ \A i \in 1 .. Len(tradeWindow) : tradeWindow[i].quantity > 0
  /\ pendingRebuild \in BOOLEAN /\ prefixGeneration \in Nat
  /\ sumVolume \in U64 /\ sumPriceVolume \in U64
  /\ windowStartTime \in Nat /\ firstWindowComplete \in BOOLEAN
  /\ lastTradeTime \in Nat /\ firstTradeTime \in Nat
  /\ totalTradesProcessed \in Nat /\ rejectedTrades \in Nat
  /\ lost \in [volume : Nat, priceVolume : Nat]

VolumeInv ==
  ArrayInv(Volumes(tradeWindow), prefixVolume, sumVolume, lost.volume,
           pendingRebuild)

PriceVolumeInv ==
  ArrayInv(PriceVolumes(tradeWindow), prefixPriceVolume, sumPriceVolume,
           lost.priceVolume, pendingRebuild)

CacheInv ==
  /\ cachedVwap \in U64 \X Nat /\ vwapCacheValid \in BOOLEAN
  /\ CacheFresh

(* What relates windowStartTime, where 0 means unset, to the records *)
Timeline ==
  /\ totalTradesProcessed = 0 <=> tradeWindow = << >>
  /\ totalTradesProcessed = 0 => lastTradeTime = 0 /\ windowStartTime = 0
  /\ firstTradeTime <= lastTradeTime
  /\ \A i \in 1 .. Len(tradeWindow) : firstTradeTime <= tradeWindow[i].timestamp
  /\ windowStartTime # 0 => firstTradeTime <= windowStartTime
  /\ windowStartTime # 0 /\ lost.volume = 0 /\ tradeWindow # << >> =>
       tradeWindow[1].timestamp <= windowStartTime
  /\ NotCompleteTooEarly

IInv ==
  Shape /\ VolumeInv /\ PriceVolumeInv /\ CacheInv /\ WindowSlides /\ Timeline

-----------------------------------------------------------------------------
(* The window after the push in addTrade, and its prefix arrays *)
Pushed(t) == PushBack(tradeWindow, MAX_TRADES, TradeRecord(t))
PushedVolumes(t) == AppendPrefix(prefixVolume, Len(Pushed(t)), t.quantity)
PushedPriceVolumes(t) ==
  AppendPrefix(prefixPriceVolume, Len(Pushed(t)), t.price * t.quantity)

Acceptable(t) == ~ (Malformed(t) \/ OutOfOrder(t) \/ Overflows(t))

(* What the early returns of addTrade leave of a trade it goes on with. *)
LEMMA AcceptedTrade ==
  ASSUME NEW t \in Trades, Acceptable(t), Shape
  PROVE  /\ t.timestamp \in Nat /\ t.quantity \in Nat /\ t.quantity > 0
         /\ t.price * t.quantity \in Nat
         /\ TradeRecord(t) \in Records
         /\ TradeRecord(t).timestamp = t.timestamp
         /\ TradeRecord(t).quantity = t.quantity
         /\ TradeRecord(t).priceVolume = t.price * t.quantity
         /\ sumVolume + t.quantity \in U64
         /\ sumPriceVolume + t.price * t.quantity \in U64
         /\ lastTradeTime <= t.timestamp
<1>1. t.timestamp \in Nat /\ t.quantity \in Nat /\ t.price \in Int
  BY TradesAssumption
<1>2. t.quantity > 0 /\ t.price > 0
  BY <1>1 DEF Acceptable, Malformed
<1>3. t.price * t.quantity \in Nat
  BY <1>1, <1>2
<1>4. sumVolume \in Nat /\ sumPriceVolume \in Nat /\ lastTradeTime \in Nat
  BY U64Assumption DEF Shape, U64
<1>5. sumVolume + t.quantity <= U64Max
  BY <1>1, <1>4, U64Assumption DEF Acceptable, Overflows
<1>6. sumPriceVolume + t.price * t.quantity <= U64Max
  BY <1>3, <1>4, U64Assumption DEF Acceptable, Overflows
<1>7. lastTradeTime <= t.timestamp
  BY <1>1, <1>4 DEF Acceptable, OutOfOrder
<1>8. TradeRecord(t) \in Records
  BY <1>1, <1>3 DEF TradeRecord, Records
<1>9. sumVolume + t.quantity \in U64
  BY <1>1, <1>4, <1>5, U64Assumption DEF U64
<1>10. sumPriceVolume + t.price * t.quantity \in U64
  <2> DEFINE m == t.price * t.quantity
  <2>1. m \in Nat /\ sumPriceVolume + m <= U64Max
    BY <1>3, <1>6
  <2> HIDE DEF m
  <2>2. sumPriceVolume + m \in U64
    BY <1>4, <2>1, U64Assumption DEF U64
  <2> QED BY <2>2 DEF m
<1> QED BY <1>1, <1>2, <1>3, <1>7, <1>8, <1>9, <1>10 DEF TradeRecord

(* The window after the push: types, time order, and no record before the  *)
(* first trade.                                                            *)
LEMMA PushedWindow ==
  ASSUME NEW t \in Trades, Acceptable(t), Shape, WindowSlides, Timeline
  PROVE  /\ Pushed(t) \in Seq(Records) /\ Len(Pushed(t)) \in 1 .. MAX_TRADES
         /\ \A i \in 1 .. Len(Pushed(t)) :
              /\ Pushed(t)[i].quantity > 0
              /\ Pushed(t)[i].timestamp \in Nat
              /\ Pushed(t)[i].timestamp <= t.timestamp
              /\ totalTradesProcessed # 0 =>
                   firstTradeTime <= Pushed(t)[i].timestamp
              /\ \A j \in i .. Len(Pushed(t)) :
                   Pushed(t)[i].timestamp <= Pushed(t)[j].timestamp
         /\ Pushed(t)[Len(Pushed(t))].timestamp = t.timestamp
         /\ Len(tradeWindow) < MAX_TRADES /\ tradeWindow # << >> =>
              Pushed(t)[1] = tradeWindow[1]
         /\ tradeWindow = << >> => Pushed(t)[1].timestamp = t.timestamp
<1> DEFINE r == TradeRecord(t)
           w == Pushed(t)
           d == IF Len(tradeWindow) = MAX_TRADES THEN 1 ELSE 0
<1>1. /\ t.timestamp \in Nat /\ r \in Records /\ r.timestamp = t.timestamp
      /\ r.quantity > 0 /\ lastTradeTime <= t.timestamp
  BY AcceptedTrade
<1>2. /\ tradeWindow \in Seq(Records) /\ Len(tradeWindow) <= MAX_TRADES
      /\ MAX_TRADES \in Nat /\ MAX_TRADES > 0
      /\ lastTradeTime \in Nat /\ firstTradeTime \in Nat
  BY MaxTradesAssumption DEF Shape
<1>3. w \in Seq(Records) /\ ElementsAfterPush(w, tradeWindow, d, r)
  <2> HIDE DEF r
  <2> QED BY <1>1, <1>2, PushBackElements DEF Pushed, r
<1>4. /\ d \in {0, 1} /\ Len(tradeWindow) - d \in Nat
      /\ Len(tradeWindow) \in Nat
      /\ Len(tradeWindow) - d + 1 \in 1 .. MAX_TRADES
      /\ Len(tradeWindow) < MAX_TRADES => d = 0
      /\ Len(tradeWindow) = 0 => d = 0
  BY <1>2
<1> HIDE DEF r, w, d
<1> DEFINE n == Len(tradeWindow) - d
<1>5. /\ Len(w) = n + 1 /\ n \in Nat /\ w[n + 1] = r
      /\ \A i \in 1 .. n : /\ w[i] = tradeWindow[i + d]
                           /\ i + d \in 1 .. Len(tradeWindow)
  BY <1>3, <1>4 DEF ElementsAfterPush
<1>6. \A i \in 1 .. Len(tradeWindow) :
        /\ tradeWindow[i].timestamp \in Nat
        /\ tradeWindow[i].quantity > 0
        /\ firstTradeTime <= tradeWindow[i].timestamp
        /\ tradeWindow[i].timestamp <= lastTradeTime
        /\ \A j \in i .. Len(tradeWindow) :
             tradeWindow[i].timestamp <= tradeWindow[j].timestamp
  <2>1. ASSUME NEW i \in 1 .. Len(tradeWindow)
        PROVE  /\ tradeWindow[i].timestamp \in Nat
               /\ tradeWindow[i].quantity > 0
               /\ firstTradeTime <= tradeWindow[i].timestamp
    <3>1. tradeWindow[i] \in Records
      BY <1>2
    <3> QED BY <3>1 DEF Shape, Timeline, Records
  <2>2. ASSUME NEW i \in 1 .. Len(tradeWindow)
        PROVE  \A j \in i .. Len(tradeWindow) :
                 tradeWindow[i].timestamp <= tradeWindow[j].timestamp
    BY <1>2 DEF WindowSlides
  <2>3. ASSUME NEW i \in 1 .. Len(tradeWindow)
        PROVE  tradeWindow[i].timestamp <= lastTradeTime
    <3>1. Len(tradeWindow) \in i .. Len(tradeWindow) /\ tradeWindow # << >>
      BY <1>2
    <3>2. tradeWindow[Len(tradeWindow)].timestamp = lastTradeTime
      BY <3>1 DEF WindowSlides
    <3> QED BY <2>2, <3>1, <3>2
  <2> QED BY <2>1, <2>2, <2>3
<1>7. ASSUME NEW i \in 1 .. Len(w)
      PROVE  /\ w[i].quantity > 0 /\ w[i].timestamp \in Nat
             /\ w[i].timestamp <= t.timestamp
             /\ firstTradeTime <= w[i].timestamp
             /\ \A j \in i .. Len(w) : w[i].timestamp <= w[j].timestamp
  <2>0. firstTradeTime <= lastTradeTime
    BY DEF Timeline
  <2>1. CASE i = n + 1
    <3>1. w[i] = r /\ Len(w) = i
      BY <2>1, <1>5
    <3>2. \A j \in i .. Len(w) : j = i
      BY <3>1, <1>5
    <3>3. firstTradeTime <= t.timestamp
      BY <1>1, <1>2, <2>0
    <3> QED BY <1>1, <3>1, <3>2, <3>3
  <2>2. CASE i \in 1 .. n
    <3>1. w[i] = tradeWindow[i + d] /\ i + d \in 1 .. Len(tradeWindow)
      BY <2>2, <1>5
    <3>2. /\ w[i].quantity > 0 /\ w[i].timestamp \in Nat
          /\ w[i].timestamp <= lastTradeTime
          /\ firstTradeTime <= w[i].timestamp
      BY <3>1, <1>6
    <3>3. w[i].timestamp <= t.timestamp
      BY <3>2, <1>1, <1>2
    <3>4. ASSUME NEW j \in i .. Len(w)
          PROVE  w[i].timestamp <= w[j].timestamp
      <4>1. CASE j = n + 1
        <5>1. w[j].timestamp = t.timestamp
          BY <4>1, <1>1, <1>5
        <5> QED BY <3>3, <5>1
      <4>2. CASE j \in 1 .. n
        <5>1. w[j] = tradeWindow[j + d] /\ j + d \in i + d .. Len(tradeWindow)
          <6>1. w[j] = tradeWindow[j + d] /\ j + d \in 1 .. Len(tradeWindow)
            BY <4>2, <1>5
          <6> QED BY <6>1, <1>4, <2>2
        <5> QED BY <3>1, <5>1, <1>6
      <4>3. j = n + 1 \/ j \in 1 .. n
        <5>1. Len(w) = n + 1 /\ n \in Nat
          BY <1>5
        <5> HIDE DEF n
        <5> QED BY <5>1, <2>2
      <4> QED BY <4>1, <4>2, <4>3
    <3> QED BY <3>2, <3>3, <3>4
  <2>3. i = n + 1 \/ i \in 1 .. n
    <3>1. Len(w) = n + 1 /\ n \in Nat
      BY <1>5
    <3> HIDE DEF n
    <3> QED BY <3>1
  <2> QED BY <2>1, <2>2, <2>3
<1>8. w[Len(w)].timestamp = t.timestamp
  BY <1>1, <1>5
<1>9. Len(w) \in 1 .. MAX_TRADES
  BY <1>4, <1>5
<1>10. ASSUME Len(tradeWindow) < MAX_TRADES, tradeWindow # << >>
       PROVE  w[1] = tradeWindow[1]
  <2>1. d = 0 /\ Len(tradeWindow) > 0
    BY <1>2, <1>4, <1>10
  <2>2. 1 \in 1 .. n
    BY <1>4, <2>1
  <2>3. w[1] = tradeWindow[1 + d]
    BY <1>5, <2>2
  <2> QED BY <2>1, <2>3
<1>11. ASSUME tradeWindow = << >> PROVE w[1].timestamp = t.timestamp
  <2>1. Len(tradeWindow) = 0
    BY <1>11
  <2>2. n = 0
    <3>1. d = 0
      BY <1>4, <2>1
    <3> QED BY <2>1, <3>1
  <2>3. w[n+1] = r
    BY <1>5
  <2>4. w[1] = r
    BY <2>2, <2>3
  <2> QED BY <1>1, <2>4
<1> QED BY <1>3, <1>7, <1>8, <1>9, <1>10, <1>11 DEF w

(* The prefix arrays after the push. *)
PushedArrays(t) ==
  /\ ArrayInv(Volumes(Pushed(t)), PushedVolumes(t), sumVolume + t.quantity,
              Overwritten.volume, MustRebuild(Pushed(t)))
  /\ ArrayInv(PriceVolumes(Pushed(t)), PushedPriceVolumes(t),
              sumPriceVolume + t.price * t.quantity,
              Overwritten.priceVolume, MustRebuild(Pushed(t)))
  /\ Overwritten \in [volume : Nat, priceVolume : Nat]
  /\ Overwritten.volume = 0 => lost.volume = 0 /\ Len(tradeWindow) < MAX_TRADES

(* The push of addTrade keeps both running sums and their prefix arrays    *)
(* described by ArrayInv.                                                  *)
LEMMA PushKeepsArrays ==
  ASSUME NEW t \in Trades, Acceptable(t), Shape, VolumeInv, PriceVolumeInv,
         WindowSlides, Timeline
  PROVE  PushedArrays(t)
<1> DEFINE r == TradeRecord(t)
           s == Volumes(tradeWindow)
           p == PriceVolumes(tradeWindow)
<1>1. /\ t.quantity \in Nat /\ t.price * t.quantity \in Nat /\ r \in Records
      /\ r.quantity = t.quantity /\ r.priceVolume = t.price * t.quantity
  BY AcceptedTrade
<1>2. /\ tradeWindow \in Seq(Records) /\ Len(tradeWindow) <= MAX_TRADES
      /\ MAX_TRADES \in Nat /\ MAX_TRADES > 0 /\ pendingRebuild \in BOOLEAN
      /\ lost \in [volume : Nat, priceVolume : Nat]
      /\ sumVolume \in Nat /\ sumPriceVolume \in Nat
  BY MaxTradesAssumption, U64Assumption DEF Shape, U64
<1>3. /\ s \in Seq(Nat) /\ p \in Seq(Nat)
      /\ Len(s) = Len(tradeWindow) /\ Len(p) = Len(tradeWindow)
      /\ \A i \in 1 .. Len(tradeWindow) : /\ s[i] = tradeWindow[i].quantity
                                          /\ p[i] = tradeWindow[i].priceVolume
  BY <1>2, FieldsType
<1>4. prefixVolume \in Seq(Nat) /\ prefixPriceVolume \in Seq(Nat)
  BY DEF VolumeInv, PriceVolumeInv, ArrayInv
<1>5. /\ Volumes(Pushed(t)) = PushBack(s, MAX_TRADES, t.quantity)
      /\ PriceVolumes(Pushed(t)) = PushBack(p, MAX_TRADES, t.price * t.quantity)
  <2> HIDE DEF r
  <2> QED BY <1>1, <1>2, VolumesOfWindow DEF Pushed, r
<1>6. /\ Len(PushBack(s, MAX_TRADES, t.quantity)) = Len(Pushed(t))
      /\ Len(PushBack(p, MAX_TRADES, t.price * t.quantity)) = Len(Pushed(t))
  <2>1. Pushed(t) \in Seq(Records)
    BY PushedWindow
  <2>2. /\ Len(Volumes(Pushed(t))) = Len(Pushed(t))
        /\ Len(PriceVolumes(Pushed(t))) = Len(Pushed(t))
    BY <2>1, FieldsType
  <2> QED BY <1>5, <2>2
<1>7. /\ Overwritten.volume = lost.volume + Dropped(s, MAX_TRADES)
      /\ Overwritten.priceVolume = lost.priceVolume + Dropped(p, MAX_TRADES)
      /\ Dropped(s, MAX_TRADES) \in Nat /\ Dropped(p, MAX_TRADES) \in Nat
      /\ Overwritten = [volume |-> Overwritten.volume,
                        priceVolume |-> Overwritten.priceVolume]
  <2>1. CASE Len(tradeWindow) = MAX_TRADES
    <3>1. 1 \in 1 .. Len(tradeWindow)
      BY <1>2, <2>1
    <3>2. /\ s[1] = tradeWindow[1].quantity /\ p[1] = tradeWindow[1].priceVolume
          /\ s[1] \in Nat /\ p[1] \in Nat
      BY <1>3, <3>1
    <3>3. Dropped(s, MAX_TRADES) = s[1] /\ Dropped(p, MAX_TRADES) = p[1]
      BY <1>3, <2>1 DEF Dropped
    <3>4. Overwritten = [volume |-> lost.volume + tradeWindow[1].quantity,
                         priceVolume |-> lost.priceVolume
                                           + tradeWindow[1].priceVolume]
      BY <2>1 DEF Overwritten
    <3> QED BY <3>2, <3>3, <3>4
  <2>2. CASE Len(tradeWindow) # MAX_TRADES
    <3>1. Dropped(s, MAX_TRADES) = 0 /\ Dropped(p, MAX_TRADES) = 0
      BY <1>3, <2>2 DEF Dropped
    <3>2. Overwritten = lost
      BY <2>2 DEF Overwritten
    <3> QED BY <1>2, <3>1, <3>2
  <2> QED BY <2>1, <2>2
<1>8. ASSUME Overwritten.volume = 0
      PROVE  lost.volume = 0 /\ Len(tradeWindow) < MAX_TRADES
  <2>1. lost.volume \in Nat
    BY <1>2
  <2>2. lost.volume = 0 /\ Dropped(s, MAX_TRADES) = 0
    BY <1>7, <1>8, <2>1
  <2>3. ASSUME Len(tradeWindow) = MAX_TRADES PROVE FALSE
    <3>1. 1 \in 1 .. Len(tradeWindow)
      BY <1>2, <2>3
    <3>2. s[1] = tradeWindow[1].quantity /\ tradeWindow[1].quantity > 0
      BY <1>3, <3>1 DEF Shape
    <3>3. Dropped(s, MAX_TRADES) = s[1]
      BY <1>3, <2>3 DEF Dropped
    <3> QED BY <2>2, <3>2, <3>3
  <2> QED BY <1>2, <2>2, <2>3
<1> HIDE DEF s, p
<1>9. ArrayInv(Volumes(Pushed(t)), PushedVolumes(t), sumVolume + t.quantity,
               Overwritten.volume, MustRebuild(Pushed(t)))
  <2>1. ArrayInv(s, prefixVolume, sumVolume, lost.volume, pendingRebuild)
    BY DEF VolumeInv, s
  <2>2. Len(s) <= MAX_TRADES /\ lost.volume \in Nat
    BY <1>2, <1>3
  <2>3. ArrayInv(PushBack(s, MAX_TRADES, t.quantity),
                 AppendPrefix(prefixVolume,
                              Len(PushBack(s, MAX_TRADES, t.quantity)),
                              t.quantity),
                 sumVolume + t.quantity, lost.volume + Dropped(s, MAX_TRADES),
                 pendingRebuild
                   \/ Len(PushBack(s, MAX_TRADES, t.quantity)) = MAX_TRADES)
    BY <1>1, <1>2, <1>3, <1>4, <2>1, <2>2, ArrayPush
  <2> QED BY <1>5, <1>6, <1>7, <2>3, Zenon DEF PushedVolumes, MustRebuild
<1>10. ArrayInv(PriceVolumes(Pushed(t)), PushedPriceVolumes(t),
                sumPriceVolume + t.price * t.quantity,
                Overwritten.priceVolume, MustRebuild(Pushed(t)))
  <2> DEFINE x == t.price * t.quantity
  <2>1. ArrayInv(p, prefixPriceVolume, sumPriceVolume, lost.priceVolume,
                 pendingRebuild)
    BY DEF PriceVolumeInv, p
  <2>2. Len(p) <= MAX_TRADES /\ lost.priceVolume \in Nat /\ x \in Nat
    BY <1>1, <1>2, <1>3
  <2> HIDE DEF x
  <2>3. ArrayInv(PushBack(p, MAX_TRADES, x),
                 AppendPrefix(prefixPriceVolume,
                              Len(PushBack(p, MAX_TRADES, x)), x),
                 sumPriceVolume + x,
                 lost.priceVolume + Dropped(p, MAX_TRADES),
                 pendingRebuild
                   \/ Len(PushBack(p, MAX_TRADES, x)) = MAX_TRADES)
    BY <1>2, <1>3, <1>4, <2>1, <2>2, ArrayPush
  <2> QED BY <1>5, <1>6, <1>7, <2>3, Zenon
          DEF PushedPriceVolumes, MustRebuild, x
<1>11. Overwritten \in [volume : Nat, priceVolume : Nat]
  <2>1. Overwritten.volume \in Nat /\ Overwritten.priceVolume \in Nat
    BY <1>2, <1>7
  <2> QED BY <1>7, <2>1
<1> QED BY <1>8, <1>9, <1>10, <1>11 DEF PushedArrays

-----------------------------------------------------------------------------
(* addTrade without expiry *)
LEMMA KeepStep ==
  ASSUME NEW t \in Trades, IInv, Acceptable(t), AcceptTrade(t),
         KeepAllTrades(Pushed(t), PushedVolumes(t), PushedPriceVolumes(t), t)
  PROVE  /\ Shape' /\ VolumeInv' /\ PriceVolumeInv' /\ WindowSlides'
         /\ Timeline'
<1> DEFINE w == Pushed(t)
<1>0. Shape /\ VolumeInv /\ PriceVolumeInv /\ WindowSlides /\ Timeline
  BY DEF IInv
<1>1. /\ t.timestamp \in Nat /\ t.quantity \in Nat
      /\ sumVolume + t.quantity \in U64
      /\ sumPriceVolume + t.price * t.quantity \in U64
      /\ lastTradeTime <= t.timestamp
  BY <1>0, AcceptedTrade
<1>2. /\ w \in Seq(Records) /\ Len(w) \in 1 .. MAX_TRADES
      /\ \A i \in 1 .. Len(w) :
           /\ w[i].quantity > 0 /\ w[i].timestamp \in Nat
           /\ w[i].timestamp <= t.timestamp
           /\ totalTradesProcessed # 0 => firstTradeTime <= w[i].timestamp
           /\ \A j \in i .. Len(w) : w[i].timestamp <= w[j].timestamp
      /\ w[Len(w)].timestamp = t.timestamp
      /\ Len(tradeWindow) < MAX_TRADES /\ tradeWindow # << >> =>
           w[1] = tradeWindow[1]
      /\ tradeWindow = << >> => w[1].timestamp = t.timestamp
  BY <1>0, PushedWindow
<1>3. PushedArrays(t)
  BY <1>0, PushKeepsArrays
<1>4. /\ tradeWindow' = w /\ prefixVolume' = PushedVolumes(t)
      /\ prefixPriceVolume' = PushedPriceVolumes(t)
      /\ pendingRebuild' = MustRebuild(w)
      /\ sumVolume' = sumVolume + t.quantity
      /\ sumPriceVolume' = sumPriceVolume + t.price * t.quantity
      /\ windowStartTime' = StartAfter(t)
      /\ prefixGeneration' = prefixGeneration
      /\ w[1].timestamp >= Cutoff(t.timestamp)
  BY DEF KeepAllTrades
<1>5. /\ totalTradesProcessed' = totalTradesProcessed + 1
      /\ lastTradeTime' = t.timestamp
      /\ firstWindowComplete' =
           (\/ firstWindowComplete
            \/ t.timestamp - windowStartTime' >= WindowDuration)
      /\ lost' = Overwritten
      /\ firstTradeTime' =
           (IF totalTradesProcessed = 0 THEN t.timestamp ELSE firstTradeTime)
      /\ rejectedTrades' = rejectedTrades
  BY DEF AcceptTrade
<1> HIDE DEF w
<1>6. Shape'
  <2>1. /\ tradeWindow' \in Seq(Records) /\ Len(tradeWindow') <= MAX_TRADES
        /\ \A i \in 1 .. Len(tradeWindow') : tradeWindow'[i].quantity > 0
    BY <1>2, <1>4, MaxTradesAssumption
  <2>2. pendingRebuild' \in BOOLEAN
    BY <1>4 DEF MustRebuild
  <2>3. /\ windowStartTime' \in Nat /\ firstWindowComplete' \in BOOLEAN
        /\ lastTradeTime' \in Nat /\ firstTradeTime' \in Nat
        /\ totalTradesProcessed' \in Nat /\ rejectedTrades' \in Nat
        /\ prefixGeneration' \in Nat
    BY <1>0, <1>1, <1>4, <1>5 DEF Shape, StartAfter
  <2>4. lost' \in [volume : Nat, priceVolume : Nat]
    BY <1>3, <1>5 DEF PushedArrays
  <2> QED BY <1>1, <1>4, <2>1, <2>2, <2>3, <2>4 DEF Shape
<1>7. VolumeInv' /\ PriceVolumeInv'
  BY <1>3, <1>4, <1>5, Zenon DEF VolumeInv, PriceVolumeInv, PushedArrays, w
<1>8. WindowSlides'
  <2>1. ASSUME NEW i \in 1 .. Len(w)
        PROVE  w[i].timestamp >= Cutoff(t.timestamp)
    <3>1. w[1].timestamp <= w[i].timestamp /\ w[1].timestamp \in Nat
      BY <1>2
    <3>2. Cutoff(t.timestamp) \in Nat /\ w[i].timestamp \in Nat
      BY <1>1, <1>2, WindowAssumption DEF Cutoff
    <3> QED BY <1>4, <3>1, <3>2
  <2>2. DOMAIN w = 1 .. Len(w)
    BY <1>2
  <2>3. Cutoff(lastTradeTime)' = Cutoff(t.timestamp)
    BY <1>5 DEF Cutoff
  <2> QED BY <1>2, <1>4, <1>5, <2>1, <2>2, <2>3 DEF WindowSlides
<1>9. Timeline'
  <2>0. /\ windowStartTime \in Nat /\ lastTradeTime \in Nat
        /\ firstTradeTime \in Nat /\ totalTradesProcessed \in Nat
        /\ firstWindowComplete \in BOOLEAN
        /\ WindowDuration \in Nat /\ WindowDuration > 0
    BY <1>0, WindowAssumption DEF Shape
  <2>1. /\ firstTradeTime' <= t.timestamp /\ firstTradeTime' \in Nat
        /\ windowStartTime # 0 => firstTradeTime' <= windowStartTime
    <3>1. CASE totalTradesProcessed = 0
      <4>1. firstTradeTime' = t.timestamp
        BY <1>5, <3>1
      <4>2. windowStartTime = 0
        BY <1>0, <3>1 DEF Timeline
      <4> QED BY <1>1, <4>1, <4>2
    <3>2. CASE totalTradesProcessed # 0
      BY <1>0, <1>1, <1>5, <2>0, <3>2 DEF Timeline
    <3> QED BY <3>1, <3>2
  <2>2. \A i \in 1 .. Len(w) : firstTradeTime' <= w[i].timestamp
    <3>1. CASE totalTradesProcessed = 0
      <4>1. firstTradeTime' = t.timestamp /\ w[1].timestamp = t.timestamp
        BY <1>0, <1>2, <1>5, <3>1 DEF Timeline
      <4>2. 1 \in 1 .. Len(w) /\ \A i \in 1 .. Len(w) : i \in 1 .. Len(w)
        BY <1>2
      <4> QED BY <1>2, <4>1, <4>2
    <3>2. CASE totalTradesProcessed # 0
      BY <1>2, <1>5, <3>2
    <3> QED BY <3>1, <3>2
  <2>3. windowStartTime' # 0 => firstTradeTime' <= windowStartTime'
    BY <1>4, <2>1 DEF StartAfter
  <2>4. windowStartTime' # 0 /\ lost'.volume = 0 =>
          w[1].timestamp <= windowStartTime'
    <3>1. CASE windowStartTime = 0
      <4>1. windowStartTime' = t.timestamp
        BY <1>4, <3>1 DEF StartAfter
      <4> QED BY <1>2, <4>1
    <3>2. CASE windowStartTime # 0
      <4>1. tradeWindow # << >> /\ windowStartTime' = windowStartTime
        BY <1>0, <1>4, <3>2 DEF Timeline, StartAfter
      <4>2. SUFFICES ASSUME lost'.volume = 0
                     PROVE  w[1].timestamp <= windowStartTime'
        OBVIOUS
      <4>3. lost.volume = 0 /\ Len(tradeWindow) < MAX_TRADES
        BY <1>3, <1>5, <4>2 DEF PushedArrays
      <4>4. w[1] = tradeWindow[1]
        BY <1>2, <4>1, <4>3
      <4>5. tradeWindow[1].timestamp <= windowStartTime
        BY <1>0, <3>2, <4>1, <4>3 DEF Timeline
      <4> QED BY <4>1, <4>4, <4>5
    <3> QED BY <3>1, <3>2
  <2>5. NotCompleteTooEarly'
    <3>1. SUFFICES ASSUME firstWindowComplete'
                   PROVE  t.timestamp - firstTradeTime' >= WindowDuration
      BY <1>5 DEF NotCompleteTooEarly
    <3>2. CASE firstWindowComplete
      <4>1. lastTradeTime - firstTradeTime >= WindowDuration
        BY <1>0, <3>2 DEF Timeline, NotCompleteTooEarly
      <4>2. totalTradesProcessed # 0
        BY <1>0, <2>0, <4>1 DEF Timeline
      <4> QED BY <1>1, <1>5, <2>0, <4>1, <4>2
    <3>3. CASE t.timestamp - windowStartTime' >= WindowDuration
      <4>1. CASE windowStartTime = 0
        <5>1. windowStartTime' = t.timestamp
          BY <1>4, <4>1 DEF StartAfter
        <5> QED BY <1>1, <2>0, <3>3, <5>1
      <4>2. CASE windowStartTime # 0
        <5>1. windowStartTime' = windowStartTime
          BY <1>4, <4>2 DEF StartAfter
        <5> QED BY <1>1, <2>0, <2>1, <3>3, <4>2, <5>1
      <4> QED BY <4>1, <4>2
    <3> QED BY <1>5, <3>1, <3>2, <3>3
  <2>6. totalTradesProcessed' # 0 /\ w # << >>
    <3>1. totalTradesProcessed' # 0
      BY <1>5, <2>0
    <3>2. Len(w) # 0
      BY <1>2
    <3> QED BY <3>1, <3>2
  <2> QED BY <1>4, <1>5, <2>1, <2>2, <2>3, <2>4, <2>5, <2>6 DEF Timeline
<1> QED BY <1>6, <1>7, <1>8, <1>9

(* A sum that ArrayInv describes never went below zero. *)
LEMMA SumNotNegative ==
  ASSUME NEW s, NEW prefix, NEW sum, NEW lst, NEW pending,
         ArrayInv(s, prefix, sum, lst, pending)
  PROVE  sum \in Nat /\ lst <= sum
<1>1. s \in Seq(Nat) /\ lst \in Nat /\ sum = Total(s) + lst
  BY DEF ArrayInv
<1>2. Total(s) \in Nat
  BY <1>1, TotalType
<1> QED BY <1>1, <1>2

(* addTrade with expiry *)
LEMMA RemoveStep ==
  ASSUME NEW t \in Trades, IInv, Acceptable(t), AcceptTrade(t),
         RemoveExpiredTrades(Pushed(t), PushedVolumes(t),
                             PushedPriceVolumes(t), t)
  PROVE  /\ Shape' /\ VolumeInv' /\ PriceVolumeInv' /\ WindowSlides'
         /\ Timeline'
         /\ windowStartTime' = tradeWindow'[1].timestamp
<1> DEFINE w == Pushed(t)
           v == UpToDate(Volumes(w), PushedVolumes(t), MustRebuild(w))
           u == UpToDate(PriceVolumes(w), PushedPriceVolumes(t), MustRebuild(w))
<1>0. Shape /\ VolumeInv /\ PriceVolumeInv /\ WindowSlides /\ Timeline
  BY DEF IInv
<1>1. /\ t.timestamp \in Nat /\ t.quantity \in Nat
      /\ sumVolume + t.quantity \in U64
      /\ sumPriceVolume + t.price * t.quantity \in U64
      /\ lastTradeTime <= t.timestamp
  BY <1>0, AcceptedTrade
<1>2. /\ w \in Seq(Records) /\ Len(w) \in 1 .. MAX_TRADES
      /\ \A i \in 1 .. Len(w) :
           /\ w[i].quantity > 0 /\ w[i].timestamp \in Nat
           /\ w[i].timestamp <= t.timestamp
           /\ totalTradesProcessed # 0 => firstTradeTime <= w[i].timestamp
           /\ \A j \in i .. Len(w) : w[i].timestamp <= w[j].timestamp
      /\ w[Len(w)].timestamp = t.timestamp
      /\ tradeWindow = << >> => w[1].timestamp = t.timestamp
  BY <1>0, PushedWindow
<1>3. PushedArrays(t)
  BY <1>0, PushKeepsArrays
<1>4. w[1].timestamp < Cutoff(t.timestamp)
  BY DEF RemoveExpiredTrades
<1>5. /\ prefixGeneration' =
           prefixGeneration + (IF MustRebuild(w) THEN 1 ELSE 0)
      /\ pendingRebuild' = FALSE
      /\ \E k \in 1 .. Len(w) - 1 :
           /\ IsLowerBound(w, Cutoff(t.timestamp), k)
           /\ tradeWindow' = PopFrontN(w, k)
           /\ prefixVolume' = ShiftPrefix(v, k)
           /\ prefixPriceVolume' = ShiftPrefix(u, k)
           /\ sumVolume' = (sumVolume + t.quantity) - v[k]
           /\ sumPriceVolume' = (sumPriceVolume + t.price * t.quantity) - u[k]
           /\ windowStartTime' = w[k+1].timestamp
  BY Zenon DEF RemoveExpiredTrades, UpToDate
<1>6. PICK k \in 1 .. Len(w) - 1 :
        /\ IsLowerBound(w, Cutoff(t.timestamp), k)
        /\ tradeWindow' = PopFrontN(w, k)
        /\ prefixVolume' = ShiftPrefix(v, k)
        /\ prefixPriceVolume' = ShiftPrefix(u, k)
        /\ sumVolume' = (sumVolume + t.quantity) - v[k]
        /\ sumPriceVolume' = (sumPriceVolume + t.price * t.quantity) - u[k]
        /\ windowStartTime' = w[k+1].timestamp
  BY <1>5, Zenon
<1>7. /\ totalTradesProcessed' = totalTradesProcessed + 1
      /\ lastTradeTime' = t.timestamp
      /\ firstWindowComplete' =
           (\/ firstWindowComplete
            \/ t.timestamp - windowStartTime' >= WindowDuration)
      /\ lost' = Overwritten
      /\ firstTradeTime' =
           (IF totalTradesProcessed = 0 THEN t.timestamp ELSE firstTradeTime)
      /\ rejectedTrades' = rejectedTrades
  BY DEF AcceptTrade
<1> HIDE DEF w, v, u
<1> DEFINE z == PopFrontN(w, k)
<1>8. k \in 1 .. Len(w) /\ k + 1 \in 1 .. Len(w) /\ Len(w) \in Nat
  BY <1>2
<1>9. /\ z \in Seq(Records) /\ Len(z) = Len(w) - k
      /\ \A i \in 1 .. Len(w) - k : z[i] = w[i + k]
  BY <1>2, <1>8, PopFrontNElements
<1>10. /\ ArrayInv(Volumes(z), ShiftPrefix(v, k),
                   (sumVolume + t.quantity) - v[k], Overwritten.volume, FALSE)
       /\ v[k] \in Nat
  <2>1. Len(Volumes(w)) = Len(w) /\ Volumes(z) = PopFrontN(Volumes(w), k)
    BY <1>2, <1>8, FieldsType, VolumesOfRest
  <2>2. ArrayInv(Volumes(w), PushedVolumes(t), sumVolume + t.quantity,
                 Overwritten.volume, MustRebuild(w))
    BY <1>3 DEF PushedArrays, w
  <2>3. k \in 1 .. Len(Volumes(w)) /\ MustRebuild(w) \in BOOLEAN
    BY <1>0, <1>8, <2>1 DEF MustRebuild, Shape
  <2> DEFINE b == MustRebuild(w)
             m == sumVolume + t.quantity
  <2>4. /\ ArrayInv(Volumes(w), PushedVolumes(t), m, Overwritten.volume, b)
        /\ k \in 1 .. Len(Volumes(w)) /\ b \in BOOLEAN
    BY <2>2, <2>3
  <2> HIDE DEF b, m, z
  <2>5. /\ ArrayInv(PopFrontN(Volumes(w), k),
                    ShiftPrefix(UpToDate(Volumes(w), PushedVolumes(t), b), k),
                    m - UpToDate(Volumes(w), PushedVolumes(t), b)[k],
                    Overwritten.volume, FALSE)
        /\ UpToDate(Volumes(w), PushedVolumes(t), b)[k] \in Nat
    BY <2>4, ArrayRemove
  <2> QED BY <2>1, <2>5, Zenon DEF v, b, m
<1>11. /\ ArrayInv(PriceVolumes(z), ShiftPrefix(u, k),
                   (sumPriceVolume + t.price * t.quantity) - u[k],
                   Overwritten.priceVolume, FALSE)
       /\ u[k] \in Nat
  <2>1. /\ Len(PriceVolumes(w)) = Len(w)
        /\ PriceVolumes(z) = PopFrontN(PriceVolumes(w), k)
    BY <1>2, <1>8, FieldsType, VolumesOfRest
  <2>2. ArrayInv(PriceVolumes(w), PushedPriceVolumes(t),
                 sumPriceVolume + t.price * t.quantity,
                 Overwritten.priceVolume, MustRebuild(w))
    BY <1>3 DEF PushedArrays, w
  <2>3. k \in 1 .. Len(PriceVolumes(w)) /\ MustRebuild(w) \in BOOLEAN
    BY <1>0, <1>8, <2>1 DEF MustRebuild, Shape
  <2> DEFINE b == MustRebuild(w)
             m == sumPriceVolume + t.price * t.quantity
             a == PushedPriceVolumes(t)
  <2>4. /\ ArrayInv(PriceVolumes(w), a, m, Overwritten.priceVolume, b)
        /\ k \in 1 .. Len(PriceVolumes(w)) /\ b \in BOOLEAN
    BY <2>2, <2>3
  <2> HIDE DEF a, b, m, z
  <2>5. /\ ArrayInv(PopFrontN(PriceVolumes(w), k),
                    ShiftPrefix(UpToDate(PriceVolumes(w), a, b), k),
                    m - UpToDate(PriceVolumes(w), a, b)[k],
                    Overwritten.priceVolume, FALSE)
        /\ UpToDate(PriceVolumes(w), a, b)[k] \in Nat
    BY <2>4, ArrayRemove
  <2> QED BY <2>1, <2>5, Zenon DEF u, a, b, m
<1> HIDE DEF z
<1>12. tradeWindow' = z
  BY <1>6 DEF z
<1>13. VolumeInv' /\ PriceVolumeInv'
  BY <1>5, <1>6, <1>7, <1>10, <1>11, <1>12, Zenon
     DEF VolumeInv, PriceVolumeInv
<1>14. sumVolume' \in U64 /\ sumPriceVolume' \in U64
  <2>1. sumVolume' \in Nat /\ sumPriceVolume' \in Nat
    BY <1>6, <1>10, <1>11, SumNotNegative
  <2>2. sumVolume' \in U64
    <3> DEFINE m == sumVolume + t.quantity
    <3>1. m \in U64 /\ sumVolume' = m - v[k]
      BY <1>1, <1>6, Zenon
    <3> HIDE DEF m
    <3> QED BY <1>10, <2>1, <3>1, U64Assumption DEF U64
  <2>3. sumPriceVolume' \in U64
    <3> DEFINE m == sumPriceVolume + t.price * t.quantity
    <3>1. m \in U64 /\ sumPriceVolume' = m - u[k]
      BY <1>1, <1>6, Zenon
    <3> HIDE DEF m
    <3> QED BY <1>11, <2>1, <3>1, U64Assumption DEF U64
  <2> QED BY <2>2, <2>3
<1>15. /\ \A i \in 1 .. Len(z) : i + k \in 1 .. Len(w) /\ z[i] = w[i + k]
       /\ Len(z) \in Nat /\ Len(z) > 0 /\ 1 \in 1 .. Len(z)
       /\ Len(z) + k = Len(w)
  <2>1. Len(z) = Len(w) - k /\ k \in Nat /\ k < Len(w) /\ Len(w) \in Nat
    BY <1>8, <1>9
  <2>2. Len(z) \in Nat /\ Len(z) > 0 /\ 1 \in 1 .. Len(z) /\ Len(z) + k = Len(w)
    BY <2>1
  <2>3. ASSUME NEW i \in 1 .. Len(z)
        PROVE  i + k \in 1 .. Len(w) /\ z[i] = w[i + k]
    <3>1. i + k \in 1 .. Len(w) /\ i \in 1 .. Len(w) - k
      BY <2>1
    <3> QED BY <1>9, <3>1
  <2> QED BY <2>2, <2>3
<1>16. Shape'
  <2>1. \A i \in 1 .. Len(z) : z[i].quantity > 0
    BY <1>2, <1>15
  <2>2. Len(z) <= MAX_TRADES
    BY <1>2, <1>8, <1>15, MaxTradesAssumption
  <2>3. /\ windowStartTime' \in Nat /\ firstWindowComplete' \in BOOLEAN
        /\ lastTradeTime' \in Nat /\ firstTradeTime' \in Nat
        /\ totalTradesProcessed' \in Nat /\ rejectedTrades' \in Nat
        /\ prefixGeneration' \in Nat
    BY <1>0, <1>1, <1>2, <1>5, <1>6, <1>7, <1>8 DEF Shape
  <2>4. lost' \in [volume : Nat, priceVolume : Nat]
    BY <1>3, <1>7 DEF PushedArrays
  <2> QED BY <1>5, <1>9, <1>12, <1>14, <2>1, <2>2, <2>3, <2>4 DEF Shape
<1>17. /\ \A i \in 1 .. Len(z) :
            /\ z[i].timestamp >= Cutoff(t.timestamp)
            /\ z[i].timestamp \in Nat
            /\ \A j \in i .. Len(z) : z[i].timestamp <= z[j].timestamp
       /\ z[Len(z)].timestamp = t.timestamp
       /\ z[1].timestamp = windowStartTime'
  <2>1. ASSUME NEW i \in 1 .. Len(z)
        PROVE  z[i].timestamp >= Cutoff(t.timestamp) /\ z[i].timestamp \in Nat
    <3>1. i + k \in k + 1 .. Len(w) /\ i + k \in 1 .. Len(w) /\ z[i] = w[i + k]
      BY <1>8, <1>15
    <3> QED BY <1>2, <1>6, <3>1 DEF IsLowerBound
  <2>2. ASSUME NEW i \in 1 .. Len(z), NEW j \in i .. Len(z)
        PROVE  z[i].timestamp <= z[j].timestamp
    <3>1. j \in 1 .. Len(z)
      BY <1>15
    <3>2. /\ i + k \in 1 .. Len(w) /\ z[i] = w[i + k]
          /\ j + k \in i + k .. Len(w) /\ z[j] = w[j + k]
      BY <1>8, <1>15, <3>1
    <3> QED BY <1>2, <3>2
  <2>3. z[Len(z)].timestamp = t.timestamp
    <3>1. Len(z) \in 1 .. Len(z)
      BY <1>15
    <3>2. z[Len(z)] = w[Len(w)]
      BY <1>15, <3>1
    <3> QED BY <1>2, <3>2
  <2>4. z[1].timestamp = windowStartTime'
    <3>1. z[1] = w[1 + k] /\ 1 + k = k + 1
      BY <1>8, <1>15
    <3> QED BY <1>6, <3>1
  <2> QED BY <2>1, <2>2, <2>3, <2>4
<1>18. WindowSlides'
  <2>1. DOMAIN z = 1 .. Len(z)
    BY <1>9
  <2>2. Cutoff(lastTradeTime)' = Cutoff(t.timestamp)
    BY <1>7 DEF Cutoff
  <2> QED BY <1>7, <1>12, <1>17, <2>1, <2>2 DEF WindowSlides
<1>19. Timeline'
  <2>0. /\ lastTradeTime \in Nat /\ firstTradeTime \in Nat
        /\ totalTradesProcessed \in Nat /\ firstWindowComplete \in BOOLEAN
        /\ WindowDuration \in Nat /\ WindowDuration > 0
    BY <1>0, WindowAssumption DEF Shape
  <2>1. totalTradesProcessed # 0 /\ firstTradeTime' = firstTradeTime
    <3>1. ASSUME totalTradesProcessed = 0 PROVE FALSE
      <4>1. w[1].timestamp = t.timestamp
        BY <1>0, <1>2, <3>1 DEF Timeline
      <4> QED BY <1>1, <1>4, <4>1, WindowAssumption DEF Cutoff
    <3> QED BY <1>7, <3>1
  <2>2. firstTradeTime <= t.timestamp
    BY <1>0, <1>1, <2>0 DEF Timeline
  <2>3. \A i \in 1 .. Len(z) : firstTradeTime <= z[i].timestamp
    BY <1>2, <1>15, <2>1
  <2>4. firstTradeTime <= windowStartTime' /\ windowStartTime' \in Nat
    BY <1>15, <1>17, <2>3
  <2>5. NotCompleteTooEarly'
    <3>1. SUFFICES ASSUME firstWindowComplete'
                   PROVE  t.timestamp - firstTradeTime >= WindowDuration
      BY <1>7, <2>1 DEF NotCompleteTooEarly
    <3>2. CASE firstWindowComplete
      <4>1. lastTradeTime - firstTradeTime >= WindowDuration
        BY <1>0, <3>2 DEF Timeline, NotCompleteTooEarly
      <4> QED BY <1>1, <2>0, <4>1
    <3>3. CASE t.timestamp - windowStartTime' >= WindowDuration
      BY <1>1, <2>0, <2>4, <3>3
    <3> QED BY <1>7, <3>1, <3>2, <3>3
  <2>6. totalTradesProcessed' # 0 /\ z # << >>
    <3>1. totalTradesProcessed' # 0
      BY <1>7, <2>0
    <3>2. Len(z) # 0
      BY <1>15
    <3> QED BY <3>1, <3>2
  <2>7. z[1].timestamp <= windowStartTime'
    BY <1>17, <2>4
  <2> QED BY <1>7, <1>12, <2>1, <2>2, <2>3, <2>4, <2>5, <2>6, <2>7 DEF Timeline
<1>20. windowStartTime' = tradeWindow'[1].timestamp
  BY <1>12, <1>17
<1> QED BY <1>13, <1>16, <1>18, <1>19, <1>20

(* Both ways addTrade may go on after the push *)
LEMMA AcceptCases ==
  ASSUME NEW t \in Trades, AcceptTrade(t)
  PROVE  /\ Acceptable(t)
         /\ \/ KeepAllTrades(Pushed(t), PushedVolumes(t),
                             PushedPriceVolumes(t), t)
            \/ RemoveExpiredTrades(Pushed(t), PushedVolumes(t),
                                   PushedPriceVolumes(t), t)
BY Zenon DEF AcceptTrade, Acceptable, Pushed, PushedVolumes, PushedPriceVolumes

(* addTrade of an accepted trade keeps everything but the cache. *)
LEMMA AcceptStep ==
  ASSUME NEW t \in Trades, IInv, AcceptTrade(t)
  PROVE  /\ Shape' /\ VolumeInv' /\ PriceVolumeInv' /\ WindowSlides'
         /\ Timeline'
<1>1. Acceptable(t)
  BY AcceptCases
<1>2. CASE KeepAllTrades(Pushed(t), PushedVolumes(t), PushedPriceVolumes(t), t)
  BY <1>1, <1>2, KeepStep
<1>3. CASE RemoveExpiredTrades(Pushed(t), PushedVolumes(t),
                               PushedPriceVolumes(t), t)
  BY <1>1, <1>3, RemoveStep
<1> QED BY <1>2, <1>3, AcceptCases

(* The window and the sums are left alone: everything but the cache keeps. *)
LEMMA WindowUnchanged ==
  ASSUME IInv, UNCHANGED <<windowVars, auxVars>>, rejectedTrades' \in Nat
  PROVE  /\ Shape' /\ VolumeInv' /\ PriceVolumeInv' /\ WindowSlides'
         /\ Timeline'
         /\ sumVolume' = sumVolume /\ sumPriceVolume' = sumPriceVolume
<1>1. /\ UNCHANGED <<tradeWindow, prefixVolume, prefixPriceVolume,
                     pendingRebuild, prefixGeneration>>
      /\ UNCHANGED <<sumVolume, sumPriceVolume, windowStartTime,
                     firstWindowComplete, lastTradeTime, totalTradesProcessed>>
      /\ UNCHANGED <<lost, firstTradeTime>>
  BY DEF windowVars, auxVars
<1>2. Shape'
  BY <1>1 DEF IInv, Shape
<1>3. VolumeInv' /\ PriceVolumeInv'
  BY <1>1, Zenon DEF IInv, VolumeInv, PriceVolumeInv
<1>4. WindowSlides'
  BY <1>1 DEF IInv, WindowSlides, Cutoff
<1>5. Timeline'
  BY <1>1 DEF IInv, Timeline, NotCompleteTooEarly
<1> QED BY <1>1, <1>2, <1>3, <1>4, <1>5

(* The VWAP of natural sums, with a volume above zero, is a natural. *)
LEMMA VwapOfType ==
  ASSUME Shape
  PROVE  VwapOf(sumPriceVolume, sumVolume) \in U64 \X Nat
<1>1. sumPriceVolume \in U64 /\ sumVolume \in Nat /\ 0 \in U64 /\ 1 \in Nat
  BY U64Assumption DEF Shape, U64
<1> QED BY <1>1 DEF VwapOf

(* The cache filled from the sums is fresh. *)
LEMMA FilledCache ==
  ASSUME IInv, FillCache, UNCHANGED <<sumPriceVolume, sumVolume>>
  PROVE  CacheInv'
<1>1. CurrentVwap = VwapOf(sumPriceVolume, sumVolume)
  BY DEF IInv, CacheInv, CacheFresh, CurrentVwap
<1>2. VwapOf(sumPriceVolume, sumVolume) \in U64 \X Nat
  BY VwapOfType DEF IInv
<1>3. VwapOf(sumPriceVolume', sumVolume') = VwapOf(sumPriceVolume, sumVolume)
  OBVIOUS
<1>4. cachedVwap' = VwapOf(sumPriceVolume, sumVolume) /\ vwapCacheValid' = TRUE
  BY <1>1 DEF FillCache
<1> QED BY <1>2, <1>3, <1>4 DEF CacheInv, CacheFresh

(* A cache whose sums are unchanged stays fresh. *)
LEMMA KeptCache ==
  ASSUME IInv, UNCHANGED <<sumPriceVolume, sumVolume, cachedVwap>>,
         vwapCacheValid' = vwapCacheValid
  PROVE  CacheInv'
BY DEF IInv, CacheInv, CacheFresh

(* A rejected trade changes nothing. *)
LEMMA RejectStep ==
  ASSUME NEW t \in Trades, IInv, RejectTrade(t)
  PROVE  UNCHANGED <<windowVars, auxVars>> /\ rejectedTrades' \in Nat
BY DEF RejectTrade, IInv, Shape

(* addTrade keeps the inductive invariant. *)
LEMMA AddTradeStep ==
  ASSUME NEW t \in Trades, IInv, AddTrade(t)
  PROVE  IInv'
<1>1. CASE RejectTrade(t) /\ UNCHANGED cacheVars
  <2>1. UNCHANGED <<windowVars, auxVars>> /\ rejectedTrades' \in Nat
    BY <1>1, RejectStep
  <2>2. /\ Shape' /\ VolumeInv' /\ PriceVolumeInv' /\ WindowSlides'
        /\ Timeline'
        /\ sumVolume' = sumVolume /\ sumPriceVolume' = sumPriceVolume
    BY <2>1, WindowUnchanged
  <2>3. CacheInv'
    BY <1>1, <2>2, KeptCache DEF cacheVars
  <2> QED BY <2>2, <2>3 DEF IInv
<1>2. CASE AcceptTrade(t) /\ vwapCacheValid' = FALSE /\ UNCHANGED cachedVwap
  <2>1. /\ Shape' /\ VolumeInv' /\ PriceVolumeInv' /\ WindowSlides'
        /\ Timeline'
    BY <1>2, AcceptStep
  <2>2. CacheInv'
    BY <1>2 DEF IInv, CacheInv, CacheFresh
  <2> QED BY <2>1, <2>2 DEF IInv
<1> QED BY <1>1, <1>2 DEF AddTrade

(* getCurrentVwap keeps the inductive invariant. *)
LEMMA GetCurrentVwapStep ==
  ASSUME IInv, GetCurrentVwap
  PROVE  IInv'
<1>1. UNCHANGED <<windowVars, auxVars>> /\ rejectedTrades' \in Nat
  BY DEF GetCurrentVwap, IInv, Shape
<1>2. /\ Shape' /\ VolumeInv' /\ PriceVolumeInv' /\ WindowSlides'
      /\ Timeline'
      /\ sumVolume' = sumVolume /\ sumPriceVolume' = sumPriceVolume
  BY <1>1, WindowUnchanged
<1>3. CacheInv'
  BY <1>2, FilledCache DEF GetCurrentVwap
<1> QED BY <1>2, <1>3 DEF IInv

(* The constructor establishes the inductive invariant. *)
LEMMA InitEstablishes == VwapInit => IInv
<1> SUFFICES ASSUME VwapInit PROVE IInv
  OBVIOUS
<1>1. tradeWindow \in Seq(Records) /\ Len(tradeWindow) = 0
  BY DEF VwapInit
<1>2. Shape
  <2>1. 0 \in U64
    BY U64Assumption DEF U64
  <2>2. sumVolume \in U64 /\ sumPriceVolume \in U64
    BY <2>1 DEF VwapInit
  <2>3. lost \in [volume : Nat, priceVolume : Nat]
    BY DEF VwapInit
  <2>4. /\ Len(tradeWindow) <= MAX_TRADES
        /\ \A i \in 1 .. Len(tradeWindow) : tradeWindow[i].quantity > 0
    BY <1>1, MaxTradesAssumption
  <2>5. /\ pendingRebuild \in BOOLEAN /\ prefixGeneration \in Nat
        /\ windowStartTime \in Nat /\ firstWindowComplete \in BOOLEAN
        /\ lastTradeTime \in Nat /\ firstTradeTime \in Nat
        /\ totalTradesProcessed \in Nat /\ rejectedTrades \in Nat
    BY DEF VwapInit
  <2> QED BY <1>1, <2>2, <2>3, <2>4, <2>5 DEF Shape
<1>3. /\ Volumes(tradeWindow) \in Seq(Nat) /\ Len(Volumes(tradeWindow)) = 0
      /\ PriceVolumes(tradeWindow) \in Seq(Nat)
      /\ Len(PriceVolumes(tradeWindow)) = 0
  BY <1>1, FieldsType
<1>4. ASSUME NEW s \in Seq(Nat), Len(s) = 0
      PROVE  ArrayInv(s, << >>, 0, 0, FALSE)
  <2>1. Total(s) = 0
    BY <1>4, RunningTotalZero DEF Total
  <2>2. RebuildPrefix(s) = << >>
    <3>1. RebuildPrefix(s) \in Seq(Nat) /\ Len(RebuildPrefix(s)) = 0
      BY <1>4, RebuildPrefixType
    <3> QED BY <3>1
  <2>3. << >> \in Seq(Nat) /\ Len(<< >>) = 0
    OBVIOUS
  <2> QED BY <1>4, <2>1, <2>2, <2>3 DEF ArrayInv
<1>5. VolumeInv /\ PriceVolumeInv
  <2>1. /\ prefixVolume = << >> /\ prefixPriceVolume = << >>
        /\ sumVolume = 0 /\ sumPriceVolume = 0
        /\ lost.volume = 0 /\ lost.priceVolume = 0 /\ pendingRebuild = FALSE
    BY DEF VwapInit
  <2> QED BY <1>3, <1>4, <2>1, Zenon DEF VolumeInv, PriceVolumeInv
<1>6. CacheInv
  <2>1. 0 \in U64 /\ 1 \in Nat
    BY U64Assumption DEF U64
  <2>2. cachedVwap = <<0, 1>> /\ vwapCacheValid = FALSE
    BY DEF VwapInit
  <2> QED BY <2>1, <2>2 DEF CacheInv, CacheFresh
<1>7. WindowSlides
  BY <1>1 DEF VwapInit, WindowSlides
<1>8. Timeline
  BY <1>1 DEF VwapInit, Timeline, NotCompleteTooEarly
<1> QED BY <1>2, <1>5, <1>6, <1>7, <1>8 DEF IInv

(* Every step keeps the inductive invariant. *)
LEMMA NextPreserves == IInv /\ [VwapNext]_calcVars => IInv'
<1> SUFFICES ASSUME IInv, [VwapNext]_calcVars PROVE IInv'
  OBVIOUS
<1>1. ASSUME NEW t \in Trades, AddTrade(t) PROVE IInv'
  BY <1>1, AddTradeStep
<1>2. CASE GetCurrentVwap
  BY <1>2, GetCurrentVwapStep
<1>3. CASE UNCHANGED calcVars
  <2>1. /\ UNCHANGED <<windowVars, auxVars>> /\ UNCHANGED cacheVars
        /\ UNCHANGED rejectedTrades
    BY <1>3 DEF calcVars
  <2>2. rejectedTrades' \in Nat
    BY <2>1 DEF IInv, Shape
  <2>3. /\ Shape' /\ VolumeInv' /\ PriceVolumeInv' /\ WindowSlides'
        /\ Timeline'
        /\ sumVolume' = sumVolume /\ sumPriceVolume' = sumPriceVolume
    BY <2>1, <2>2, WindowUnchanged
  <2>4. CacheInv'
    BY <2>1, <2>3, KeptCache DEF cacheVars
  <2> QED BY <2>3, <2>4 DEF IInv
<1> QED BY <1>1, <1>2, <1>3 DEF VwapNext

(* The inductive invariant holds. *)
THEOREM Invariance == VwapSpec => []IInv
BY InitEstablishes, NextPreserves, PTL DEF VwapSpec

-----------------------------------------------------------------------------
(* The inductive invariant gives the types. *)
LEMMA TypesFollow ==
  ASSUME IInv
  PROVE  VwapTypeOK
<1>1. /\ Len(Volumes(tradeWindow)) = Len(tradeWindow)
      /\ Len(PriceVolumes(tradeWindow)) = Len(tradeWindow)
  BY FieldsType DEF IInv, Shape
<1>2. sumVolume \in U64 /\ sumPriceVolume \in U64
  BY DEF IInv, Shape
<1>3. /\ prefixVolume \in Seq(U64)
      /\ Len(prefixVolume) = Len(tradeWindow)
  <2>1. /\ prefixVolume \in Seq(Nat) /\ Len(prefixVolume) = Len(tradeWindow)
        /\ \A i \in 1 .. Len(tradeWindow) : prefixVolume[i] <= sumVolume
    BY <1>1 DEF IInv, VolumeInv, ArrayInv
  <2>2. \A i \in 1 .. Len(prefixVolume) : prefixVolume[i] \in U64
    BY <1>2, <2>1, U64Assumption DEF U64
  <2> QED BY <2>1, <2>2
<1>4. /\ prefixPriceVolume \in Seq(U64)
      /\ Len(prefixPriceVolume) = Len(tradeWindow)
  <2>1. /\ prefixPriceVolume \in Seq(Nat)
        /\ Len(prefixPriceVolume) = Len(tradeWindow)
        /\ \A i \in 1 .. Len(tradeWindow) :
             prefixPriceVolume[i] <= sumPriceVolume
    BY <1>1 DEF IInv, PriceVolumeInv, ArrayInv
  <2>2. \A i \in 1 .. Len(prefixPriceVolume) : prefixPriceVolume[i] \in U64
    BY <1>2, <2>1, U64Assumption DEF U64
  <2> QED BY <2>1, <2>2
<1>5. lost \in [volume : U64, priceVolume : U64]
  <2>1. /\ lost \in [volume : Nat, priceVolume : Nat]
    BY DEF IInv, Shape
  <2>2. lost.volume <= sumVolume /\ lost.priceVolume <= sumPriceVolume
    BY SumNotNegative DEF IInv, VolumeInv, PriceVolumeInv
  <2>3. lost.volume \in U64 /\ lost.priceVolume \in U64
    BY <1>2, <2>1, <2>2, U64Assumption DEF U64
  <2> QED BY <2>1, <2>3
<1> QED BY <1>3, <1>4, <1>5 DEF IInv, Shape, CacheInv, VwapTypeOK

(* The sums, the prefix entries and the differences taken in addTrade and  *)
(* removeExpiredTrades stay in 0..U64Max for every sequence of trades: the *)
(* uint64_t arithmetic never wraps.                                        *)
THEOREM TypeCorrect == VwapSpec => []VwapTypeOK
BY Invariance, TypesFollow, PTL

(* The window is in time order and holds nothing that has expired. *)
THEOREM WindowIsSliding == VwapSpec => []WindowSlides
<1>1. IInv => WindowSlides
  BY DEF IInv
<1> QED BY <1>1, Invariance, PTL

(* The incremental sums are a recomputation over the window plus what a    *)
(* full buffer overwrote.                                                  *)
THEOREM SumsAreAccounted == VwapSpec => []SumsAccount
<1>1. IInv => SumsAccount
  BY DEF IInv, VolumeInv, PriceVolumeInv, ArrayInv, SumsAccount
<1> QED BY <1>1, Invariance, PTL

(* The prefix arrays describe the window whenever no rebuild is pending. *)
THEOREM PrefixesAreConsistent == VwapSpec => []PrefixesConsistent
<1>1. IInv => PrefixesConsistent
  BY DEF IInv, Shape, VolumeInv, PriceVolumeInv, ArrayInv, PrefixesConsistent
<1> QED BY <1>1, Invariance, PTL

(* A cached VWAP is the quotient of the current sums. *)
THEOREM CacheIsFresh == VwapSpec => []CacheFresh
<1>1. IInv => CacheFresh
  BY DEF IInv, CacheInv
<1> QED BY <1>1, Invariance, PTL

(* The first window is never complete before trades span its duration. *)
THEOREM NeverCompleteTooEarly == VwapSpec => []NotCompleteTooEarly
<1>1. IInv => NotCompleteTooEarly
  BY DEF IInv, Timeline
<1> QED BY <1>1, Invariance, PTL

(* Unless a record was overwritten, the trade that completes the first     *)
(* window arrives exactly one duration after the oldest record left.       *)
THEOREM CompletionIsExact == VwapSpec => CompletionExact
<1> DEFINE Exact ==
      firstWindowComplete' /\ ~ firstWindowComplete =>
        \/ lost'.volume > 0
        \/ lastTradeTime' - tradeWindow'[1].timestamp = WindowDuration
<1>1. ASSUME IInv, NEW t \in Trades, AcceptTrade(t) PROVE Exact
  <2>1. SUFFICES ASSUME firstWindowComplete', ~ firstWindowComplete,
                        lost'.volume = 0
                 PROVE  lastTradeTime' - tradeWindow'[1].timestamp
                          = WindowDuration
    <3>1. Shape'
      BY <1>1, AcceptStep
    <3>2. lost'.volume \in Nat
      BY <3>1 DEF Shape
    <3> QED BY <3>2
  <2>2. /\ Shape' /\ WindowSlides' /\ Timeline'
    BY <1>1, AcceptStep
  <2>3. lastTradeTime' = t.timestamp /\ t.timestamp \in Nat
    BY <1>1, TradesAssumption DEF AcceptTrade
  <2>4. t.timestamp - windowStartTime' >= WindowDuration
    BY <1>1, <2>1 DEF AcceptTrade
  <2>5. /\ windowStartTime' \in Nat /\ tradeWindow' \in Seq(Records)
        /\ WindowDuration \in Nat /\ WindowDuration > 0
    BY <2>2, WindowAssumption DEF Shape
  <2>6. tradeWindow' # << >>
    <3>1. totalTradesProcessed' # 0
      BY <1>1 DEF AcceptTrade, IInv, Shape
    <3> QED BY <2>2, <3>1 DEF Timeline
  <2>7. 1 \in DOMAIN tradeWindow' /\ tradeWindow'[1] \in Records
    BY <2>5, <2>6
  <2>8. /\ tradeWindow'[1].timestamp \in Nat
        /\ tradeWindow'[1].timestamp >= Cutoff(t.timestamp)
    BY <2>2, <2>3, <2>7 DEF WindowSlides, Cutoff, Records
  <2>9. Cutoff(t.timestamp) = t.timestamp - WindowDuration
    BY <2>3, <2>4, <2>5 DEF Cutoff
  <2>10. tradeWindow'[1].timestamp <= windowStartTime'
    <3>1. CASE windowStartTime' # 0
      BY <2>1, <2>2, <2>6, <3>1 DEF Timeline
    <3>2. CASE windowStartTime' = 0
      <4>1. CASE KeepAllTrades(Pushed(t), PushedVolumes(t),
                               PushedPriceVolumes(t), t)
        <5>1. t.timestamp = 0
          BY <1>1, <3>2, <4>1 DEF KeepAllTrades, StartAfter
        <5> QED BY <2>4, <2>5, <3>2, <5>1
      <4>2. CASE RemoveExpiredTrades(Pushed(t), PushedVolumes(t),
                                     PushedPriceVolumes(t), t)
        <5>1. windowStartTime' = tradeWindow'[1].timestamp
          BY <1>1, <4>2, RemoveStep, AcceptCases
        <5> QED BY <2>5, <5>1
      <4> QED BY <1>1, <4>1, <4>2, AcceptCases
    <3> QED BY <3>1, <3>2
  <2> QED BY <2>3, <2>4, <2>5, <2>8, <2>9, <2>10
<1>2. ASSUME IInv, [VwapNext]_calcVars PROVE [Exact]_calcVars
  <2>1. CASE \E t \in Trades : AcceptTrade(t)
    BY <1>1, <1>2, <2>1
  <2>2. CASE UNCHANGED firstWindowComplete
    BY <2>2
  <2> HIDE DEF Exact
  <2>3. (\E t \in Trades : AcceptTrade(t)) \/ UNCHANGED firstWindowComplete
    BY <1>2 DEF VwapNext, AddTrade, RejectTrade, GetCurrentVwap, calcVars,
                windowVars
  <2> QED BY <2>1, <2>2, <2>3
<1>3. VwapSpec => [][Exact]_calcVars
  <2> HIDE DEF Exact
  <2> QED BY <1>2, Invariance, PTL DEF VwapSpec
<1> QED BY <1>3 DEF CompletionExact

(* The window splits at the cutoff in exactly one place, with a record on  *)
(* either side.                                                            *)
OneSplit(w, cutoff) ==
  \E k \in 1 .. Len(w) - 1 :
    \A j \in 0 .. Len(w) : IsLowerBound(w, cutoff, j) <=> j = k

(* The binary search has one answer, in the window that addTrade has just  *)
(* pushed to, when its oldest record is expired.                           *)
ExpiryDefined ==
  \A t \in Trades :
    Acceptable(t) /\ Pushed(t)[1].timestamp < Cutoff(t.timestamp) =>
      OneSplit(Pushed(t), Cutoff(t.timestamp))

(* A sequence in time order splits in one place.  The split is before the  *)
(* first record that is not expired.                                       *)
LEMMA SortedSplit ==
  ASSUME NEW w, NEW c \in Nat, NEW n \in Nat \ {0}, Len(w) = n,
         \A i \in 1 .. n : /\ w[i].timestamp \in Nat
                           /\ \A j \in i .. n : w[i].timestamp <= w[j].timestamp,
         w[1].timestamp < c, w[n].timestamp >= c
  PROVE  OneSplit(w, c)
<1> DEFINE T == {i \in 1 .. n : w[i].timestamp >= c}
<1>1. T \subseteq Nat /\ n \in T
  OBVIOUS
<1>2. PICK m \in T : \A y \in T : m <= y
  <2> HIDE DEF T
  <2> QED BY <1>1, NatMin
<1>3. m \in 2 .. n /\ w[m].timestamp >= c
  <2>1. m \in 1 .. n /\ w[m].timestamp >= c
    BY <1>2
  <2>2. m # 1
    BY <2>1
  <2> QED BY <2>1, <2>2
<1>4. \A i \in 1 .. m - 1 : w[i].timestamp < c
  BY <1>2, <1>3
<1>5. \A i \in m .. n : w[i].timestamp >= c
  BY <1>3
<1> HIDE DEF T
<1>6. ASSUME NEW j \in 0 .. n
      PROVE  IsLowerBound(w, c, j) <=> j = m - 1
  <2>1. CASE j = m - 1
    BY <1>3, <1>4, <1>5, <2>1 DEF IsLowerBound
  <2>2. CASE j < m - 1
    <3>1. m - 1 \in j + 1 .. Len(w) /\ w[m - 1].timestamp < c
      BY <1>3, <1>4, <2>2
    <3>2. w[m - 1].timestamp \in Nat
      BY <1>3
    <3> QED BY <2>2, <3>1, <3>2 DEF IsLowerBound
  <2>3. CASE j > m - 1
    <3>1. m \in 1 .. j
      BY <1>3, <2>3
    <3>2. w[m].timestamp \in Nat
      BY <1>3
    <3> QED BY <1>3, <2>3, <3>1, <3>2 DEF IsLowerBound
  <2> QED BY <1>3, <2>1, <2>2, <2>3
<1>7. m - 1 \in 1 .. n - 1
  BY <1>3
<1> QED BY <1>6, <1>7 DEF OneSplit

(* An accepted trade always finds the one place where removeExpiredTrades  *)
(* cuts the window: the step of the model that chooses it is never stuck   *)
(* and never has a choice, and the window does not become empty.           *)
THEOREM ExpiryAlwaysDefined == VwapSpec => []ExpiryDefined
<1>1. IInv => ExpiryDefined
  <2> SUFFICES ASSUME IInv, NEW t \in Trades, Acceptable(t),
                      Pushed(t)[1].timestamp < Cutoff(t.timestamp)
               PROVE  OneSplit(Pushed(t), Cutoff(t.timestamp))
    BY DEF ExpiryDefined
  <2> DEFINE w == Pushed(t)
             c == Cutoff(t.timestamp)
  <2>1. Shape /\ WindowSlides /\ Timeline
    BY DEF IInv
  <2>2. /\ Len(w) \in Nat \ {0}
        /\ \A i \in 1 .. Len(w) :
             /\ w[i].timestamp \in Nat
             /\ \A j \in i .. Len(w) : w[i].timestamp <= w[j].timestamp
        /\ w[Len(w)].timestamp = t.timestamp
    BY <2>1, PushedWindow, MaxTradesAssumption
  <2>3. t.timestamp \in Nat
    BY TradesAssumption
  <2>4. c \in Nat /\ c <= t.timestamp
    BY <2>3, WindowAssumption DEF Cutoff
  <2>5. w[1].timestamp < c
    OBVIOUS
  <2> HIDE DEF w, c
  <2>6. w[Len(w)].timestamp >= c
    BY <2>2, <2>3, <2>4
  <2>7. OneSplit(w, c)
    BY <2>2, <2>4, <2>5, <2>6, SortedSplit
  <2> QED BY <2>7 DEF w, c
<1> QED BY <1>1, Invariance, PTL
=============================================================================
