------------------------ MODULE NetworkManagerProofs ------------------------
(***************************************************************************)
(* The reconnection policy of NetworkManager, for every backoff, delay,    *)
(* jitter and number of attempts.                                          *)
(***************************************************************************)
EXTENDS NetworkManager, SumTheorems

(* The definition of Market!LeastBackoff, as an equation *)
DoublesUpTo(f, n) ==
  f = [i \in 0 .. n |->
         IF i = 0 THEN INITIAL_BACKOFF_MS
         ELSE IF 2 * f[i-1] > MAX_BACKOFF_MS THEN MAX_BACKOFF_MS
         ELSE 2 * f[i-1]]

Backoffs == INITIAL_BACKOFF_MS .. MAX_BACKOFF_MS

(* Some function satisfies the recurrence that defines LeastBackoff. *)
LEMMA DoublingHasSolution ==
  \A n \in Nat : \E f \in [0 .. n -> Backoffs] : DoublesUpTo(f, n)
<1> DEFINE S == {n \in Nat : \E f \in [0 .. n -> Backoffs] : DoublesUpTo(f, n)}
<1>1. 0 \in S
  <2> DEFINE f == [i \in 0 .. 0 |-> INITIAL_BACKOFF_MS]
  <2>1. f \in [0 .. 0 -> Backoffs]
    BY TcpAssumption DEF Backoffs
  <2>2. DoublesUpTo(f, 0)
    BY DEF DoublesUpTo
  <2> QED BY <2>1, <2>2
<1>2. ASSUME NEW n \in Nat, n \in S PROVE n + 1 \in S
  <2>1. PICK g \in [0 .. n -> Backoffs] : DoublesUpTo(g, n)
    BY <1>2
  <2> DEFINE d == IF 2 * g[n] > MAX_BACKOFF_MS THEN MAX_BACKOFF_MS ELSE 2 * g[n]
             h == [i \in 0 .. n+1 |-> IF i = n+1 THEN d ELSE g[i]]
  <2>2. d \in Backoffs
    BY TcpAssumption DEF Backoffs
  <2> HIDE DEF d
  <2>3. h \in [0 .. n+1 -> Backoffs]
    BY <2>2
  <2>4. \A i \in 0 .. n :
          g[i] = IF i = 0 THEN INITIAL_BACKOFF_MS
                 ELSE IF 2 * g[i-1] > MAX_BACKOFF_MS THEN MAX_BACKOFF_MS
                 ELSE 2 * g[i-1]
    BY <2>1 DEF DoublesUpTo
  <2>5. ASSUME NEW i \in 0 .. n+1
        PROVE  h[i] = IF i = 0 THEN INITIAL_BACKOFF_MS
                      ELSE IF 2 * h[i-1] > MAX_BACKOFF_MS THEN MAX_BACKOFF_MS
                      ELSE 2 * h[i-1]
    <3>1. CASE i = n+1
      <4>1. h[i] = d /\ h[i-1] = g[n] /\ i # 0
        BY <3>1
      <4> QED BY <4>1 DEF d
    <3>2. CASE i \in 0 .. n
      <4>1. h[i] = g[i] /\ (i # 0 => h[i-1] = g[i-1])
        BY <3>2
      <4> QED BY <2>4, <3>2, <4>1
    <3> QED BY <3>1, <3>2
  <2>6. DoublesUpTo(h, n + 1)
    BY <2>5 DEF DoublesUpTo
  <2> QED BY <2>3, <2>6
<1> HIDE DEF S
<1>3. \A n \in Nat : n \in S
  BY <1>1, <1>2, NatInd
<1> QED BY <1>3 DEF S

(* LeastBackoff satisfies its recurrence: it starts with the initial       *)
(* backoff, and doubles up to the cap.                                     *)
LEMMA LeastBackoffDef ==
  /\ DoublesUpTo(Market!LeastBackoff, MAX_RECONNECT_ATTEMPTS)
  /\ Order!LeastBackoff = Market!LeastBackoff
<1>1. Market!LeastBackoff = CHOOSE f : DoublesUpTo(f, MAX_RECONNECT_ATTEMPTS)
  BY DEF Market!LeastBackoff, DoublesUpTo
<1>2. Order!LeastBackoff = CHOOSE f : DoublesUpTo(f, MAX_RECONNECT_ATTEMPTS)
  BY DEF Order!LeastBackoff, DoublesUpTo
<1>3. \E f : DoublesUpTo(f, MAX_RECONNECT_ATTEMPTS)
  BY DoublingHasSolution, TcpAssumption
<1> QED BY <1>1, <1>2, <1>3

(* The values of LeastBackoff, from its definition. *)
LEMMA LeastBackoffValues ==
  /\ Market!LeastBackoff[0] = INITIAL_BACKOFF_MS
  /\ \A i \in 0 .. MAX_RECONNECT_ATTEMPTS - 1 :
       Market!LeastBackoff[i+1] =
         IF 2 * Market!LeastBackoff[i] > MAX_BACKOFF_MS THEN MAX_BACKOFF_MS
         ELSE 2 * Market!LeastBackoff[i]
  /\ \A i \in 0 .. MAX_RECONNECT_ATTEMPTS : Market!LeastBackoff[i] \in Backoffs
<1> DEFINE f == Market!LeastBackoff
           m == MAX_RECONNECT_ATTEMPTS
           Doubled(i) == IF 2 * f[i-1] > MAX_BACKOFF_MS THEN MAX_BACKOFF_MS
                         ELSE 2 * f[i-1]
<1>1. DoublesUpTo(f, m) /\ m \in Nat
  BY LeastBackoffDef, TcpAssumption
<1> HIDE DEF f
<1>2. \A i \in 0 .. m :
        f[i] = IF i = 0 THEN INITIAL_BACKOFF_MS ELSE Doubled(i)
  BY <1>1 DEF DoublesUpTo
<1>3. f[0] = INITIAL_BACKOFF_MS
  <2>1. 0 \in 0 .. m
    BY <1>1
  <2> QED BY <1>2, <2>1
<1>4. ASSUME NEW i \in 0 .. m - 1 PROVE f[i+1] = Doubled(i+1) /\ (i+1) - 1 = i
  <2>1. i + 1 \in 0 .. m /\ i + 1 # 0 /\ (i+1) - 1 = i
    BY <1>1
  <2> HIDE DEF Doubled
  <2> QED BY <1>2, <2>1
<1>5. \A i \in 0 .. m : f[i] \in Backoffs
  <2> DEFINE S == {i \in Nat : i <= m => f[i] \in Backoffs}
  <2>1. 0 \in S
    BY <1>3, TcpAssumption DEF Backoffs
  <2>2. ASSUME NEW i \in Nat, i \in S PROVE i + 1 \in S
    <3>1. SUFFICES ASSUME i + 1 <= m PROVE f[i+1] \in Backoffs
      OBVIOUS
    <3>2. i \in 0 .. m - 1 /\ f[i] \in Backoffs
      BY <1>1, <2>2, <3>1
    <3>3. f[i+1] = IF 2 * f[i] > MAX_BACKOFF_MS THEN MAX_BACKOFF_MS ELSE 2 * f[i]
      BY <1>4, <3>2
    <3> QED BY <3>2, <3>3, TcpAssumption DEF Backoffs
  <2> HIDE DEF S
  <2>3. \A i \in Nat : i \in S
    BY <2>1, <2>2, NatInd
  <2> QED BY <1>1, <2>3 DEF S
<1> QED BY <1>3, <1>4, <1>5 DEF f

(* calculateBackoff keeps up with the doubling, whatever the jitter. *)
LEMMA BackoffStep ==
  ASSUME NEW i \in 0 .. MAX_RECONNECT_ATTEMPTS, i < MAX_RECONNECT_ATTEMPTS,
         NEW b \in Backoffs, b >= Market!LeastBackoff[i],
         NEW c \in Market!CalculateBackoff(b)
  PROVE  c \in Backoffs /\ c >= Market!LeastBackoff[i+1]
<1> DEFINE f == Market!LeastBackoff
<1>1. PICK jitter \in 0 .. (2 * b) \div JitterDivisor :
        c = IF 2 * b + jitter > MAX_BACKOFF_MS THEN MAX_BACKOFF_MS
            ELSE 2 * b + jitter
  BY DEF Market!CalculateBackoff
<1>2. /\ b \in Nat /\ INITIAL_BACKOFF_MS \in Nat /\ MAX_BACKOFF_MS \in Nat
      /\ INITIAL_BACKOFF_MS <= b /\ b <= MAX_BACKOFF_MS
      /\ INITIAL_BACKOFF_MS <= MAX_BACKOFF_MS
  BY TcpAssumption DEF Backoffs
<1>3. jitter \in Int /\ jitter >= 0
  OBVIOUS
<1>4. c \in Backoffs
  BY <1>1, <1>2, <1>3 DEF Backoffs
<1>5. /\ f[i] \in Nat
      /\ f[i+1] = IF 2 * f[i] > MAX_BACKOFF_MS THEN MAX_BACKOFF_MS ELSE 2 * f[i]
  <2>1. i \in 0 .. MAX_RECONNECT_ATTEMPTS - 1
    BY TcpAssumption
  <2>2. f[i] \in Backoffs
    BY LeastBackoffValues
  <2> QED BY <2>1, <2>2, <1>2, LeastBackoffValues DEF Backoffs
<1>6. b >= f[i]
  OBVIOUS
<1> HIDE DEF f
<1>7. c >= f[i+1]
  BY <1>1, <1>2, <1>3, <1>5, <1>6
<1> QED BY <1>4, <1>7 DEF f

-----------------------------------------------------------------------------
(* The inductive invariant.  Of each client: its types, that a success has *)
(* reset the attempts and the backoff, and that the backoff has kept up    *)
(* with the doubling, without which BackoffGrows is not preserved.         *)
MarketInv ==
  /\ Market!TcpTypeOK
  /\ marketState = "CONNECTED" =>
       marketAttempts = 0 /\ marketBackoff = INITIAL_BACKOFF_MS
  /\ marketBackoff >= Market!LeastBackoff[marketAttempts]

OrderInv ==
  /\ Order!TcpTypeOK
  /\ orderState = "CONNECTED" =>
       orderAttempts = 0 /\ orderBackoff = INITIAL_BACKOFF_MS
  /\ orderBackoff >= Market!LeastBackoff[orderAttempts]

LoopInv ==
  /\ reconnectDelay \in [Clients -> 0 .. LongestDelay]
  /\ sinceReconnect \in [Clients -> 0 .. LongestDelay]
  /\ running \in BOOLEAN /\ step \in {"market", "order", "io"}
  /\ polled \subseteq Clients
  /\ marketState = "CONNECTED" => reconnectDelay["market"] = InitialDelay
  /\ orderState = "CONNECTED" => reconnectDelay["order"] = InitialDelay

IInv == MarketInv /\ OrderInv /\ LoopInv

(* What a step may do to the market data client *)
MarketMoves ==
  \/ Market!ReconnectSucceeds \/ Market!ReconnectFails
  \/ Market!ConnectionLost("ERROR_STATE") \/ Market!Disconnect
  \/ Market!Elapse(1) \/ UNCHANGED marketVars

(* What a step may do to the order client *)
OrderMoves ==
  \/ Order!ReconnectSucceeds \/ Order!ReconnectFails
  \/ Order!ConnectionLost("ERROR_STATE") \/ Order!ConnectionLost("DISCONNECTED")
  \/ Order!Disconnect \/ Order!Elapse(1) \/ UNCHANGED orderVars

(* The market data client keeps its part of the invariant. *)
LEMMA MarketStep ==
  ASSUME MarketInv, MarketMoves
  PROVE  MarketInv'
<1> USE TcpAssumption
<1>1. CASE Market!ReconnectSucceeds
  BY <1>1, LeastBackoffValues DEF MarketInv, Market!TcpTypeOK, Market!ReconnectSucceeds
<1>2. CASE Market!ReconnectFails
  <2>1. /\ marketState # "CONNECTED" /\ marketAttempts < MAX_RECONNECT_ATTEMPTS
        /\ marketAttempts \in 0 .. MAX_RECONNECT_ATTEMPTS
        /\ marketState' \in {marketState, "ERROR_STATE"}
        /\ marketAttempts' = marketAttempts + 1
        /\ marketSinceAttempt' = 0
    BY <1>2 DEF MarketInv, Market!TcpTypeOK, Market!ReconnectFails, Market!MayReconnect
  <2>2. /\ marketBackoff \in Backoffs
        /\ marketBackoff >= Market!LeastBackoff[marketAttempts]
        /\ marketBackoff' \in Market!CalculateBackoff(marketBackoff)
    BY <1>2 DEF MarketInv, Market!TcpTypeOK, Market!ReconnectFails, Backoffs
  <2>3. /\ marketBackoff' \in Backoffs
        /\ marketBackoff' >= Market!LeastBackoff[marketAttempts + 1]
    BY <2>1, <2>2, BackoffStep
  <2> QED BY <2>1, <2>3 DEF MarketInv, Market!TcpTypeOK, Backoffs
<1>3. CASE Market!ConnectionLost("ERROR_STATE")
  BY <1>3 DEF MarketInv, Market!TcpTypeOK, Market!ConnectionLost
<1>4. CASE Market!Disconnect
  BY <1>4 DEF MarketInv, Market!TcpTypeOK, Market!Disconnect
<1>5. CASE Market!Elapse(1)
  BY <1>5 DEF MarketInv, Market!TcpTypeOK, Market!Elapse, Market!Older
<1>6. CASE UNCHANGED marketVars
  BY <1>6 DEF MarketInv, Market!TcpTypeOK, marketVars
<1> QED BY <1>1, <1>2, <1>3, <1>4, <1>5, <1>6 DEF MarketMoves

(* The order client keeps its part of the invariant. *)
LEMMA OrderStep ==
  ASSUME OrderInv, OrderMoves
  PROVE  OrderInv'
<1> USE TcpAssumption
<1>1. CASE Order!ReconnectSucceeds
  BY <1>1, LeastBackoffValues DEF OrderInv, Order!TcpTypeOK, Order!ReconnectSucceeds
<1>2. CASE Order!ReconnectFails
  <2>1. /\ orderState # "CONNECTED" /\ orderAttempts < MAX_RECONNECT_ATTEMPTS
        /\ orderAttempts \in 0 .. MAX_RECONNECT_ATTEMPTS
        /\ orderState' \in {orderState, "ERROR_STATE"}
        /\ orderAttempts' = orderAttempts + 1
        /\ orderSinceAttempt' = 0
    BY <1>2 DEF OrderInv, Order!TcpTypeOK, Order!ReconnectFails, Order!MayReconnect
  <2>2. /\ orderBackoff \in Backoffs
        /\ orderBackoff >= Market!LeastBackoff[orderAttempts]
        /\ orderBackoff' \in Market!CalculateBackoff(orderBackoff)
    BY <1>2 DEF OrderInv, Order!TcpTypeOK, Order!ReconnectFails, Backoffs,
                Order!CalculateBackoff, Market!CalculateBackoff
  <2>3. /\ orderBackoff' \in Backoffs
        /\ orderBackoff' >= Market!LeastBackoff[orderAttempts + 1]
    BY <2>1, <2>2, BackoffStep
  <2> QED BY <2>1, <2>3 DEF OrderInv, Order!TcpTypeOK, Backoffs
<1>3. CASE \/ Order!ConnectionLost("ERROR_STATE")
           \/ Order!ConnectionLost("DISCONNECTED")
  BY <1>3 DEF OrderInv, Order!TcpTypeOK, Order!ConnectionLost
<1>4. CASE Order!Disconnect
  BY <1>4 DEF OrderInv, Order!TcpTypeOK, Order!Disconnect
<1>5. CASE Order!Elapse(1)
  BY <1>5 DEF OrderInv, Order!TcpTypeOK, Order!Elapse, Order!Older
<1>6. CASE UNCHANGED orderVars
  BY <1>6 DEF OrderInv, Order!TcpTypeOK, orderVars
<1> QED BY <1>1, <1>2, <1>3, <1>4, <1>5, <1>6 DEF OrderMoves

-----------------------------------------------------------------------------
(* A product of naturals grows with its factors. *)
LEMMA ProductMonotonic ==
  ASSUME NEW a \in Nat, NEW b \in Nat, NEW c \in Nat, NEW d \in Nat,
         a <= c, b <= d
  PROVE  a * b <= c * d
<1>1. a * b <= c * b /\ c * b <= c * d
  OBVIOUS
<1>2. a * b \in Nat /\ c * b \in Nat /\ c * d \in Nat
  OBVIOUS
<1> QED BY <1>1, <1>2

(* The initial delay and every delay that doubling, the cap and jitter     *)
(* make are at most LongestDelay.                                          *)
LEMMA DelayBounds ==
  /\ LongestDelay \in Nat /\ InitialDelay \in 0 .. LongestDelay
  /\ \A d \in 0 .. LongestDelay : NextDelays(d) \subseteq 0 .. LongestDelay
<1> DEFINE p == MaxDelay * JitterHigh
<1>1. /\ MaxDelay \in Nat /\ JitterHigh \in Nat /\ JitterHigh >= 100
      /\ JitterLow \in 0 .. 100 /\ InitialDelay \in Nat
      /\ InitialDelay <= MaxDelay
  BY DelayAssumption, ManagerJitterAssumption
<1>2. p \in Nat /\ MaxDelay * 100 <= p
  BY <1>1, ProductMonotonic
<1> HIDE DEF p
<1>3. LongestDelay = p \div 100
  BY DEF LongestDelay, p
<1>4. LongestDelay \in Nat /\ MaxDelay <= LongestDelay
  BY <1>1, <1>2, <1>3
<1>5. ASSUME NEW d \in 0 .. LongestDelay, NEW e \in NextDelays(d)
      PROVE  e \in 0 .. LongestDelay
  <2> DEFINE doubled == IF 2 * d > MaxDelay THEN MaxDelay ELSE 2 * d
  <2>1. doubled \in Nat /\ doubled <= MaxDelay
    BY <1>1, <1>4
  <2>2. PICK pct \in JitterLow .. JitterHigh : e = (doubled * pct) \div 100
    BY DEF NextDelays
  <2>3. pct \in Nat /\ pct <= JitterHigh
    BY <1>1
  <2> HIDE DEF doubled
  <2>4. doubled * pct <= p /\ doubled * pct \in Nat
    BY <1>1, <2>1, <2>3, ProductMonotonic DEF p
  <2> DEFINE x == doubled * pct
  <2>5. x <= p /\ x \in Nat /\ e = x \div 100
    BY <2>2, <2>4
  <2> HIDE DEF x
  <2> QED BY <1>2, <1>3, <2>5
<1> QED BY <1>1, <1>4, <1>5

-----------------------------------------------------------------------------
(* Every action moves the clients as listed above. *)
LEMMA Moves == [Next]_vars => MarketMoves /\ OrderMoves
<1> SUFFICES ASSUME [Next]_vars PROVE MarketMoves /\ OrderMoves
  OBVIOUS
<1>1. CASE MarketHalf
  BY <1>1 DEF MarketHalf, TryReconnect, MarketStaysDown, MarketMoves, OrderMoves
<1>2. CASE OrderHalf
  BY <1>2 DEF OrderHalf, TryReconnect, OrderStaysDown, MarketMoves, OrderMoves
<1>3. CASE InputOutput
  BY <1>3 DEF InputOutput, MarketMoves, OrderMoves
<1>4. CASE Stop
  BY <1>4 DEF Stop, MarketMoves, OrderMoves
<1>5. CASE Tick
  BY <1>5 DEF Tick, MarketMoves, OrderMoves
<1>6. CASE UNCHANGED vars
  BY <1>6 DEF vars, MarketMoves, OrderMoves
<1> QED BY <1>1, <1>2, <1>3, <1>4, <1>5, <1>6 DEF Next, ProcessEvents

(* The loop's part of the invariant: a client that becomes connected gets  *)
(* the initial delay in the same step, and only then.                      *)
LEMMA LoopStep ==
  ASSUME IInv, [Next]_vars
  PROVE  LoopInv'
<1> USE DelayBounds DEF IInv, LoopInv
<1>1. CASE MarketHalf
  <2>1. CASE marketState # "CONNECTED" /\ Due("market")
    <3>1. TryReconnect("market", Market!ReconnectSucceeds, MarketStaysDown)
      BY <1>1, <2>1 DEF MarketHalf
    <3>2. /\ step' = "order" /\ UNCHANGED running /\ polled' \subseteq Clients
          /\ orderState' = orderState
      BY <1>1 DEF MarketHalf, orderVars, Clients
    <3>3. sinceReconnect' \in [Clients -> 0 .. LongestDelay]
      <4>1. sinceReconnect' = [sinceReconnect EXCEPT !["market"] = 0]
        BY <3>1, Zenon DEF TryReconnect
      <4>2. 0 \in 0 .. LongestDelay
        OBVIOUS
      <4> QED BY <4>1, <4>2
    <3>4. CASE /\ Market!ReconnectSucceeds
               /\ reconnectDelay' = [reconnectDelay EXCEPT !["market"] = InitialDelay]
      <4>1. reconnectDelay' \in [Clients -> 0 .. LongestDelay]
        BY <3>4
      <4> QED BY <3>2, <3>3, <3>4, <4>1 DEF Clients
    <3>5. CASE MarketStaysDown /\ \E d \in NextDelays(reconnectDelay["market"]) :
                 reconnectDelay' = [reconnectDelay EXCEPT !["market"] = d]
      <4>1. marketState' # "CONNECTED"
        BY <2>1, <3>5 DEF MarketStaysDown, Market!ReconnectFails, marketVars
      <4>2. reconnectDelay["market"] \in 0 .. LongestDelay
        BY DEF Clients
      <4>3. PICK d \in 0 .. LongestDelay :
              reconnectDelay' = [reconnectDelay EXCEPT !["market"] = d]
        BY <3>5, <4>2
      <4> QED BY <3>2, <3>3, <4>1, <4>3 DEF Clients
    <3> QED BY <3>1, <3>4, <3>5 DEF TryReconnect
  <2>2. CASE ~ (marketState # "CONNECTED" /\ Due("market"))
    BY <1>1, <2>2 DEF MarketHalf, marketVars, orderVars, Clients
  <2> QED BY <2>1, <2>2
<1>2. CASE OrderHalf
  <2>1. CASE orderState # "CONNECTED" /\ Due("order")
    <3>1. TryReconnect("order", Order!ReconnectSucceeds, OrderStaysDown)
      BY <1>2, <2>1 DEF OrderHalf
    <3>2. /\ step' = "io" /\ UNCHANGED running /\ polled' \subseteq Clients
          /\ marketState' = marketState
      BY <1>2 DEF OrderHalf, marketVars, Clients
    <3>3. sinceReconnect' \in [Clients -> 0 .. LongestDelay]
      <4>1. sinceReconnect' = [sinceReconnect EXCEPT !["order"] = 0]
        BY <3>1, Zenon DEF TryReconnect
      <4>2. 0 \in 0 .. LongestDelay
        OBVIOUS
      <4> QED BY <4>1, <4>2
    <3>4. CASE /\ Order!ReconnectSucceeds
               /\ reconnectDelay' = [reconnectDelay EXCEPT !["order"] = InitialDelay]
      <4>1. reconnectDelay' \in [Clients -> 0 .. LongestDelay]
        BY <3>4
      <4> QED BY <3>2, <3>3, <3>4, <4>1 DEF Clients
    <3>5. CASE OrderStaysDown /\ \E d \in NextDelays(reconnectDelay["order"]) :
                 reconnectDelay' = [reconnectDelay EXCEPT !["order"] = d]
      <4>1. orderState' # "CONNECTED"
        BY <2>1, <3>5 DEF OrderStaysDown, Order!ReconnectFails, orderVars
      <4>2. reconnectDelay["order"] \in 0 .. LongestDelay
        BY DEF Clients
      <4>3. PICK d \in 0 .. LongestDelay :
              reconnectDelay' = [reconnectDelay EXCEPT !["order"] = d]
        BY <3>5, <4>2
      <4> QED BY <3>2, <3>3, <4>1, <4>3 DEF Clients
    <3> QED BY <3>1, <3>4, <3>5 DEF TryReconnect
  <2>2. CASE ~ (orderState # "CONNECTED" /\ Due("order"))
    BY <1>2, <2>2 DEF OrderHalf, marketVars, orderVars, Clients
  <2> QED BY <2>1, <2>2
<1>3. CASE InputOutput
  BY <1>3 DEF InputOutput, Market!ConnectionLost, Order!ConnectionLost,
              marketVars, orderVars
<1>4. CASE Stop
  BY <1>4 DEF Stop, Market!Disconnect, Order!Disconnect
<1>5. CASE Tick
  BY <1>5 DEF Tick, Market!Elapse, Order!Elapse, Clients
<1>6. CASE UNCHANGED vars
  BY <1>6 DEF vars, marketVars, orderVars
<1> QED BY <1>1, <1>2, <1>3, <1>4, <1>5, <1>6 DEF Next, ProcessEvents

(* Both connections as initialize leaves them *)
LEMMA InitEstablishes == Init => IInv
<1> SUFFICES ASSUME Init PROVE IInv
  OBVIOUS
<1>1. MarketInv
  BY TcpAssumption, LeastBackoffValues
  DEF Init, MarketInv, Market!TcpInit, Market!TcpTypeOK
<1>2. OrderInv
  BY TcpAssumption, LeastBackoffValues
  DEF Init, OrderInv, Order!TcpInit, Order!TcpTypeOK
<1>3. LoopInv
  BY DelayBounds DEF Init, LoopInv, Clients
<1> QED BY <1>1, <1>2, <1>3 DEF IInv

(* Every step keeps the inductive invariant. *)
LEMMA NextPreserves == IInv /\ [Next]_vars => IInv'
BY Moves, MarketStep, OrderStep, LoopStep DEF IInv

(* The inductive invariant holds. *)
THEOREM Invariance == Spec => []IInv
BY InitEstablishes, NextPreserves, PTL DEF Spec

-----------------------------------------------------------------------------
(* The delays, with doubling, cap and jitter in both directions, and the   *)
(* backoff of either client stay in their ranges, and so do the attempts.  *)
THEOREM TypeCorrect == Spec => []TypeOK
<1>1. IInv => TypeOK
  BY DEF IInv, MarketInv, OrderInv, LoopInv, TypeOK
<1> QED BY <1>1, Invariance, PTL

(* A connected client has forgotten its last outage: TcpClient::reconnect  *)
(* and tryReconnect reset all of the attempts, the backoff and the delay.  *)
THEOREM OutagesStartFresh == Spec => []FreshStart
<1>1. IInv => FreshStart
  BY DEF IInv, MarketInv, OrderInv, LoopInv, FreshStart
<1> QED BY <1>1, Invariance, PTL

(* No attempt of either client comes before the initial backoff doubled    *)
(* with every failed one has passed, whatever the jitter.                  *)
THEOREM BackoffAlwaysGrows == Spec => BackoffGrows
<1>1. ASSUME IInv, [Next]_vars PROVE ~ Market!AttemptTooSoon
  <2>1. ASSUME marketAttempts' # marketAttempts
        PROVE  marketState = "CONNECTED" \/ marketSinceAttempt >= marketBackoff
    BY <1>1, <2>1, Moves
    DEF MarketMoves, Market!ReconnectSucceeds, Market!ReconnectFails,
        Market!MayReconnect, Market!ConnectionLost, Market!Disconnect,
        Market!Elapse, marketVars
  <2>2. /\ marketSinceAttempt \in Int /\ marketBackoff \in Int
        /\ Market!LeastBackoff[marketAttempts] \in Int
        /\ marketBackoff >= Market!LeastBackoff[marketAttempts]
    BY <1>1, TcpAssumption, LeastBackoffValues
    DEF IInv, MarketInv, Market!TcpTypeOK, Backoffs
  <2> QED BY <2>1, <2>2 DEF Market!AttemptTooSoon
<1>2. ASSUME IInv, [Next]_vars PROVE ~ Order!AttemptTooSoon
  <2>1. ASSUME orderAttempts' # orderAttempts
        PROVE  orderState = "CONNECTED" \/ orderSinceAttempt >= orderBackoff
    BY <1>2, <2>1, Moves
    DEF OrderMoves, Order!ReconnectSucceeds, Order!ReconnectFails,
        Order!MayReconnect, Order!ConnectionLost, Order!Disconnect,
        Order!Elapse, orderVars
  <2>2. /\ orderSinceAttempt \in Int /\ orderBackoff \in Int
        /\ Order!LeastBackoff[orderAttempts] \in Int
        /\ orderBackoff >= Order!LeastBackoff[orderAttempts]
    BY <1>2, TcpAssumption, LeastBackoffValues, LeastBackoffDef
    DEF IInv, OrderInv, Order!TcpTypeOK, Backoffs
  <2> QED BY <2>1, <2>2 DEF Order!AttemptTooSoon
<1>3. IInv /\ [Next]_vars => [~ Market!AttemptTooSoon /\ ~ Order!AttemptTooSoon]_vars
  BY <1>1, <1>2
<1> QED BY <1>3, Invariance, PTL DEF Spec, BackoffGrows

(* A client that has used up its attempts is never connected again: that  *)
(* it has given up is stable, since its attempts are counted back to 0     *)
(* only by a success and a success takes an attempt.                       *)
THEOREM GivingUpIsFinal == Spec => GivesUpForGood
<1>1. ASSUME IInv, [Next]_vars, Market!GivenUp PROVE Market!GivenUp'
  BY <1>1, Moves, TcpAssumption
  DEF MarketMoves, Market!GivenUp, Market!ReconnectSucceeds,
      Market!ReconnectFails, Market!MayReconnect, Market!ConnectionLost,
      Market!Disconnect, Market!Elapse, marketVars
<1>2. ASSUME IInv, [Next]_vars, Order!GivenUp PROVE Order!GivenUp'
  BY <1>2, Moves, TcpAssumption
  DEF OrderMoves, Order!GivenUp, Order!ReconnectSucceeds,
      Order!ReconnectFails, Order!MayReconnect, Order!ConnectionLost,
      Order!Disconnect, Order!Elapse, orderVars
<1>3. Market!GivenUp => marketState # "CONNECTED"
  BY DEF Market!GivenUp
<1>4. Order!GivenUp => orderState # "CONNECTED"
  BY DEF Order!GivenUp
<1> QED BY <1>1, <1>2, <1>3, <1>4, Invariance, PTL DEF Spec, GivesUpForGood
=============================================================================
