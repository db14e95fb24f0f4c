----------------------------- MODULE TcpClient -----------------------------
(***************************************************************************)
(* TcpClient (include/tcp_client.h, src/tcp_client.cpp): one non-blocking  *)
(* connection, and the reconnection policy with exponential backoff.       *)
(*                                                                         *)
(* connect() blocks until the attempt is decided, so CONNECTING is never   *)
(* seen between calls.  lastConnectAttempt is modelled by its age, up to   *)
(* MAX_BACKOFF_MS: an older attempt, or none at all (lastConnectAttempt =  *)
(* 0), delays nothing.  lastError and the byte and message counters are    *)
(* only printed and are left out.                                          *)
(***************************************************************************)
EXTENDS Integers, Sequences

CONSTANTS INITIAL_BACKOFF_MS, MAX_BACKOFF_MS, MAX_RECONNECT_ATTEMPTS,
          JitterDivisor   \* jitter is up to this part of the backoff (5)

ASSUME BackoffAssumption ==
  /\ INITIAL_BACKOFF_MS \in Nat \ {0} /\ MAX_BACKOFF_MS \in Nat
  /\ INITIAL_BACKOFF_MS <= MAX_BACKOFF_MS
ASSUME AttemptsAssumption == MAX_RECONNECT_ATTEMPTS \in Nat
ASSUME JitterAssumption == JitterDivisor \in Nat \ {0}

VARIABLES
  connState,           \* state
  reconnectAttempts,   \* attempts since the last success
  sinceAttempt,        \* milliseconds since lastConnectAttempt
  currentBackoffMs

tcpVars == <<connState, reconnectAttempts, sinceAttempt, currentBackoffMs>>

(* NetworkManager::initialize has connected; otherwise main returns. *)
TcpInit ==
  /\ connState = "CONNECTED"
  /\ reconnectAttempts = 0 /\ sinceAttempt = MAX_BACKOFF_MS
  /\ currentBackoffMs = INITIAL_BACKOFF_MS

(* The clock moves on by ms. *)
Older(ms) == IF sinceAttempt + ms > MAX_BACKOFF_MS THEN MAX_BACKOFF_MS
                                                   ELSE sinceAttempt + ms
Elapse(ms) ==
  /\ sinceAttempt' = Older(ms)
  /\ UNCHANGED <<connState, reconnectAttempts, currentBackoffMs>>

-----------------------------------------------------------------------------
(* Mutant of CalculateBackoff: jitter shortens the backoff. *)
CalculateBackoffShortened(backoff) ==
  {IF 2 * backoff - jitter > MAX_BACKOFF_MS THEN MAX_BACKOFF_MS
   ELSE 2 * backoff - jitter : jitter \in 0 .. (2 * backoff) \div JitterDivisor}

(* calculateBackoff: double, up to a fifth of jitter, then the cap *)
CalculateBackoff(backoff) ==
  {IF 2 * backoff + jitter > MAX_BACKOFF_MS THEN MAX_BACKOFF_MS
   ELSE 2 * backoff + jitter : jitter \in 0 .. (2 * backoff) \div JitterDivisor}

(* The early returns of reconnect *)
MayReconnect ==
  /\ connState # "CONNECTED"
  /\ reconnectAttempts < MAX_RECONNECT_ATTEMPTS
  /\ sinceAttempt >= currentBackoffMs

ReconnectSucceeds ==
  /\ MayReconnect
  /\ sinceAttempt' = 0
  /\ connState' = "CONNECTED"
  /\ reconnectAttempts' = 0
  /\ currentBackoffMs' = INITIAL_BACKOFF_MS

(* connect() fails: before the attempt, in createSocket, resolveAddress or *)
(* setNonBlocking, which leaves the state alone, or with an error or a     *)
(* timeout of the attempt itself.                                          *)
ReconnectFails ==
  /\ MayReconnect
  /\ sinceAttempt' = 0
  /\ connState' \in {connState, "ERROR_STATE"}
  /\ reconnectAttempts' = reconnectAttempts + 1
  /\ currentBackoffMs' \in CalculateBackoff(currentBackoffMs)

(* The state a failed send or receive leaves behind *)
ConnectionLost(st) ==
  /\ connState = "CONNECTED"
  /\ connState' = st
  /\ UNCHANGED <<reconnectAttempts, sinceAttempt, currentBackoffMs>>

Disconnect ==
  /\ connState' = "DISCONNECTED"
  /\ UNCHANGED <<reconnectAttempts, sinceAttempt, currentBackoffMs>>

-----------------------------------------------------------------------------
TcpTypeOK ==
  /\ connState \in {"DISCONNECTED", "CONNECTED", "ERROR_STATE"}
  /\ reconnectAttempts \in 0 .. MAX_RECONNECT_ATTEMPTS
  /\ sinceAttempt \in 0 .. MAX_BACKOFF_MS
  /\ currentBackoffMs \in INITIAL_BACKOFF_MS .. MAX_BACKOFF_MS

(* The initial backoff doubled i times, up to the cap *)
LeastBackoff[i \in 0 .. MAX_RECONNECT_ATTEMPTS] ==
  IF i = 0 THEN INITIAL_BACKOFF_MS
  ELSE IF 2 * LeastBackoff[i-1] > MAX_BACKOFF_MS THEN MAX_BACKOFF_MS
  ELSE 2 * LeastBackoff[i-1]

(* In one outage the attempt after i failed ones comes sooner than the     *)
(* initial backoff doubled i times, up to the cap, after the last of them. *)
AttemptTooSoon ==
  /\ connState # "CONNECTED" /\ reconnectAttempts > 0
  /\ reconnectAttempts' # reconnectAttempts
  /\ sinceAttempt < LeastBackoff[reconnectAttempts]

(* A client that has used up its attempts *)
GivenUp ==
  connState # "CONNECTED" /\ reconnectAttempts = MAX_RECONNECT_ATTEMPTS
=============================================================================
