--------------------------- MODULE NetworkManager ---------------------------
(***************************************************************************)
(* NetworkManager (include/network_manager.h, src/network_manager.cpp):    *)
(* the event loop over the market data client and the order client, and    *)
(* the reconnection of each with a delay of its own on top of TcpClient's  *)
(* backoff.                                                                *)
(*                                                                         *)
(* A turn of processEvents is three steps: the market half, the order half *)
(* and the input and output after select.  Time passes between any two     *)
(* steps, for every client at once: connect blocks for up to 5 seconds in  *)
(* the middle of a turn.  The two clients are TcpClients; what they send   *)
(* and receive is in OrderClient and MarketDataClient.                     *)
(***************************************************************************)
EXTENDS Integers, Sequences

CONSTANTS
  INITIAL_BACKOFF_MS, MAX_BACKOFF_MS, MAX_RECONNECT_ATTEMPTS, JitterDivisor,
  InitialDelay,           \* of either client (1000)
  MaxDelay,               \* before jitter (60000)
  JitterLow, JitterHigh   \* percent (85, 115)

ASSUME TcpAssumption ==
  /\ INITIAL_BACKOFF_MS \in Nat \ {0} /\ MAX_BACKOFF_MS \in Nat
  /\ INITIAL_BACKOFF_MS <= MAX_BACKOFF_MS
  /\ MAX_RECONNECT_ATTEMPTS \in Nat /\ JitterDivisor \in Nat \ {0}
ASSUME DelayAssumption ==
  /\ InitialDelay \in Nat \ {0} /\ MaxDelay \in Nat
  /\ InitialDelay <= MaxDelay
ASSUME ManagerJitterAssumption ==
  JitterLow \in 0 .. 100 /\ JitterHigh \in Nat /\ JitterHigh >= 100

VARIABLES
  marketState, marketAttempts, marketSinceAttempt, marketBackoff,
  orderState, orderAttempts, orderSinceAttempt, orderBackoff,
  reconnectDelay,  \* marketReconnectDelay and orderReconnectDelay
  sinceReconnect,  \* ages of lastMarketReconnect and lastOrderReconnect
  running,
  step,            \* of the turn of processEvents
  polled           \* clients whose socket is in readSet or writeSet

Market == INSTANCE TcpClient WITH
  connState <- marketState, reconnectAttempts <- marketAttempts,
  sinceAttempt <- marketSinceAttempt, currentBackoffMs <- marketBackoff
Order == INSTANCE TcpClient WITH
  connState <- orderState, reconnectAttempts <- orderAttempts,
  sinceAttempt <- orderSinceAttempt, currentBackoffMs <- orderBackoff

marketVars == <<marketState, marketAttempts, marketSinceAttempt, marketBackoff>>
orderVars == <<orderState, orderAttempts, orderSinceAttempt, orderBackoff>>
vars == <<marketVars, orderVars, reconnectDelay, sinceReconnect, running,
          step, polled>>

Clients == {"market", "order"}

(* initialize has connected both; lastMarketReconnect and                  *)
(* lastOrderReconnect are the time of construction.                        *)
Init ==
  /\ Market!TcpInit /\ Order!TcpInit
  /\ reconnectDelay = [c \in Clients |-> InitialDelay]
  /\ sinceReconnect = [c \in Clients |-> 0]
  /\ running = TRUE
  /\ step = "market" /\ polled = {}

-----------------------------------------------------------------------------
(* doubling up to the cap, then jitter in both directions *)
NextDelays(delay) ==
  LET doubled == IF 2 * delay > MaxDelay THEN MaxDelay ELSE 2 * delay
  IN  {(doubled * pct) \div 100 : pct \in JitterLow .. JitterHigh}

LongestDelay == (MaxDelay * JitterHigh) \div 100

(* Mutant of TryReconnect: a success does not reset the delay. *)
TryReconnectSlow(c, succeeds, fails) ==
  /\ sinceReconnect' = [sinceReconnect EXCEPT ![c] = 0]
  /\ \/ succeeds /\ UNCHANGED reconnectDelay
     \/ fails /\ \E d \in NextDelays(reconnectDelay[c]) :
                   reconnectDelay' = [reconnectDelay EXCEPT ![c] = d]

(* tryReconnectMarket and tryReconnectOrder, when the delay has passed *)
TryReconnect(c, succeeds, fails) ==
  /\ sinceReconnect' = [sinceReconnect EXCEPT ![c] = 0]
  /\ \/ succeeds /\ reconnectDelay' = [reconnectDelay EXCEPT ![c] = InitialDelay]
     \/ fails /\ \E d \in NextDelays(reconnectDelay[c]) :
                   reconnectDelay' = [reconnectDelay EXCEPT ![c] = d]

Due(c) == sinceReconnect[c] >= reconnectDelay[c]

(* Mutant of MarketStaysDown: a refusal starts the outage afresh. *)
MarketStartsAfresh ==
  \/ Market!ReconnectFails
  \/ /\ ~ Market!MayReconnect
     /\ marketAttempts' = 0
     /\ UNCHANGED <<marketState, marketSinceAttempt, marketBackoff>>

(* reconnect returned false: an attempt failed, or none was made because   *)
(* TcpClient's own backoff has not passed or its attempts are used up.     *)
MarketStaysDown ==
  \/ Market!ReconnectFails
  \/ ~ Market!MayReconnect /\ UNCHANGED marketVars
OrderStaysDown ==
  \/ Order!ReconnectFails
  \/ ~ Order!MayReconnect /\ UNCHANGED orderVars

(* Mutant of MarketHalf: lastMarketReconnect is set before it is tested. *)
MarketHalfEager ==
  /\ running /\ step = "market" /\ step' = "order"
  /\ polled' = IF marketState = "CONNECTED" THEN {"market"} ELSE {}
  /\ IF marketState # "CONNECTED" /\ Due("market")
     THEN TryReconnect("market", Market!ReconnectSucceeds, MarketStaysDown)
     ELSE /\ UNCHANGED <<marketVars, reconnectDelay>>
          /\ sinceReconnect' = [sinceReconnect EXCEPT !["market"] = 0]
  /\ UNCHANGED <<orderVars, running>>

MarketHalf ==
  /\ running /\ step = "market" /\ step' = "order"
  /\ polled' = IF marketState = "CONNECTED" THEN {"market"} ELSE {}
  /\ IF marketState # "CONNECTED" /\ Due("market")
     THEN TryReconnect("market", Market!ReconnectSucceeds, MarketStaysDown)
     ELSE UNCHANGED <<marketVars, reconnectDelay, sinceReconnect>>
  /\ UNCHANGED <<orderVars, running>>

OrderHalf ==
  /\ running /\ step = "order" /\ step' = "io"
  /\ polled' = IF orderState = "CONNECTED" THEN polled \cup {"order"} ELSE polled
  /\ IF orderState # "CONNECTED" /\ Due("order")
     THEN TryReconnect("order", Order!ReconnectSucceeds, OrderStaysDown)
     ELSE UNCHANGED <<orderVars, reconnectDelay, sinceReconnect>>
  /\ UNCHANGED <<marketVars, running>>

(* select, processIncomingData, and processSendQueue: a connection may be  *)
(* found lost, the order client's also by a callback that sends an order.  *)
(* A client that was reconnected in this turn is not polled yet.           *)
InputOutput ==
  /\ running /\ step = "io" /\ step' = "market" /\ polled' = {}
  /\ \/ UNCHANGED marketVars
     \/ "market" \in polled /\ Market!ConnectionLost("ERROR_STATE")
  /\ \/ UNCHANGED orderVars
     \/ polled # {} /\ (\/ Order!ConnectionLost("ERROR_STATE")
                        \/ Order!ConnectionLost("DISCONNECTED"))
  /\ UNCHANGED <<reconnectDelay, sinceReconnect, running>>

(* main leaves its loop after a signal. *)
Stop ==
  /\ running /\ step = "market"
  /\ running' = FALSE
  /\ Market!Disconnect /\ Order!Disconnect
  /\ UNCHANGED <<reconnectDelay, sinceReconnect, step, polled>>

(* A millisecond passes. *)
Tick ==
  /\ Market!Elapse(1) /\ Order!Elapse(1)
  /\ sinceReconnect' = [c \in Clients |->
       IF sinceReconnect[c] < LongestDelay THEN sinceReconnect[c] + 1
                                           ELSE LongestDelay]
  /\ UNCHANGED <<reconnectDelay, running, step, polled>>

ProcessEvents == MarketHalf \/ OrderHalf \/ InputOutput

Next == ProcessEvents \/ Stop \/ Tick

(* The loop of main keeps calling processEvents, and time passes. *)
Spec == Init /\ [][Next]_vars /\ WF_vars(ProcessEvents) /\ WF_vars(Tick)

-----------------------------------------------------------------------------
TypeOK ==
  /\ Market!TcpTypeOK /\ Order!TcpTypeOK
  /\ reconnectDelay \in [Clients -> 0 .. LongestDelay]
  /\ sinceReconnect \in [Clients -> 0 .. LongestDelay]
  /\ running \in BOOLEAN /\ step \in {"market", "order", "io"}
  /\ polled \subseteq Clients

(* Jitter, and the manager's own delays on top of the backoff, never       *)
(* shorten the exponential backoff of either client (reconnect with        *)
(* calculateBackoff).                                                      *)
BackoffGrows ==
  [][~ Market!AttemptTooSoon /\ ~ Order!AttemptTooSoon]_vars

(* reconnect gives up for good: once the attempts of a client are used up, *)
(* it is down ever after.  Neither time, nor the outage or recovery of the *)
(* other client, nor a disconnect gives it another attempt, although the   *)
(* manager keeps calling reconnect.                                        *)
GivesUpForGood ==
  /\ [](Market!GivenUp => [](marketState # "CONNECTED"))
  /\ [](Order!GivenUp => [](orderState # "CONNECTED"))

(* A connected client has forgotten its last outage: the next one starts   *)
(* with the initial delay, the initial backoff and all its attempts.       *)
FreshStart ==
  /\ marketState = "CONNECTED" =>
       /\ marketAttempts = 0 /\ marketBackoff = INITIAL_BACKOFF_MS
       /\ reconnectDelay["market"] = InitialDelay
  /\ orderState = "CONNECTED" =>
       /\ orderAttempts = 0 /\ orderBackoff = INITIAL_BACKOFF_MS
       /\ reconnectDelay["order"] = InitialDelay

(* An outage ends: two delays that grow and jitter independently, and the  *)
(* outage of the other client, never keep a client from making all the     *)
(* attempts it has, one of which may succeed.                              *)
OutageEnds ==
  /\ marketState # "CONNECTED" ~>
       \/ marketState = "CONNECTED" \/ ~ running
       \/ marketAttempts = MAX_RECONNECT_ATTEMPTS
  /\ orderState # "CONNECTED" ~>
       \/ orderState = "CONNECTED" \/ ~ running
       \/ orderAttempts = MAX_RECONNECT_ATTEMPTS
=============================================================================
