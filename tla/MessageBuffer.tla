--------------------------- MODULE MessageBuffer ---------------------------
(***************************************************************************)
(* MessageBuffer (include/message_buffer.h, src/message_buffer.cpp): the   *)
(* ring of received bytes from which messages are cut.                     *)
(*                                                                         *)
(* A byte is its value together with the message it came from and its      *)
(* position there, counted from 1; the code sees only the value.  A        *)
(* message is two bytes of header, length and type, and then the body.     *)
(* extractMessage, which no client calls, and the metrics are left out.    *)
(***************************************************************************)
EXTENDS Integers, Sequences

CONSTANTS BUFFER_SIZE,             \* 65536 in the code
          QUOTE_SIZE, TRADE_SIZE,  \* lengths of the bodies (32 and 24)
          MAX_SCAN                 \* bytes that resync looks at (256)

HEADER_SIZE == 2
QUOTE_TYPE == 1
TRADE_TYPE == 2

(* The indexes are masked with BUFFER_SIZE - 1. *)
ASSUME BufferSizeAssumption ==
  BUFFER_SIZE \in Nat /\ \E k \in 0 .. BUFFER_SIZE : BUFFER_SIZE = 2^k
ASSUME SizesAssumption ==
  /\ QUOTE_SIZE \in Nat \ {0} /\ TRADE_SIZE \in Nat \ {0}
  /\ HEADER_SIZE + QUOTE_SIZE <= BUFFER_SIZE
  /\ HEADER_SIZE + TRADE_SIZE <= BUFFER_SIZE
ASSUME ScanAssumption == MAX_SCAN \in Nat /\ MAX_SCAN >= HEADER_SIZE

VARIABLES buffer, head, tail, used
bufferVars == <<buffer, head, tail, used>>

NoByte == [val |-> 0, msg |-> 0, pos |-> 0]

BufferInit ==
  /\ buffer = [i \in 0 .. BUFFER_SIZE - 1 |-> NoByte]
  /\ head = 0 /\ tail = 0 /\ used = 0

Least(a, b) == IF a < b THEN a ELSE b

(* The byte i places after head *)
At(i) == buffer[(head + i) % BUFFER_SIZE]

(* What the buffer holds, oldest byte first *)
Held == [i \in 1 .. used |-> At(i - 1)]

-----------------------------------------------------------------------------
Fits(data) == Len(data) <= BUFFER_SIZE - used

(* Mutant of append: the second copy starts where the first one did. *)
append_unsplit(data) ==
  LET first == Least(Len(data), BUFFER_SIZE - tail)
  IN  /\ buffer' = [k \in 0 .. BUFFER_SIZE - 1 |->
                      IF k \in tail .. tail + first - 1 THEN data[k - tail + 1]
                      ELSE IF k < Len(data) - first THEN data[k + 1]
                      ELSE buffer[k]]
      /\ tail' = (tail + Len(data)) % BUFFER_SIZE
      /\ used' = used + Len(data)
      /\ UNCHANGED head

(* append, for data that fits: up to the end of the array, then from its   *)
(* start.                                                                  *)
append(data) ==
  LET first == Least(Len(data), BUFFER_SIZE - tail)
  IN  /\ buffer' = [k \in 0 .. BUFFER_SIZE - 1 |->
                      IF k \in tail .. tail + first - 1 THEN data[k - tail + 1]
                      ELSE IF k < Len(data) - first THEN data[first + k + 1]
                      ELSE buffer[k]]
      /\ tail' = (tail + Len(data)) % BUFFER_SIZE
      /\ used' = used + Len(data)
      /\ UNCHANGED head

clear == head' = 0 /\ tail' = 0 /\ used' = 0 /\ UNCHANGED buffer

-----------------------------------------------------------------------------
(* validateHeader, and the same test in resync: a known type, with its     *)
(* length                                                                  *)
ValidHeader(length, type) == \/ type = QUOTE_TYPE /\ length = QUOTE_SIZE
                             \/ type = TRADE_TYPE /\ length = TRADE_SIZE

HasHeader == used >= HEADER_SIZE
HeaderLength == At(0).val
HeaderType == At(1).val
InvalidHeader == HasHeader /\ ~ ValidHeader(HeaderLength, HeaderType)

(* peekMessage finds a whole message. *)
MessageReady == /\ HasHeader
                /\ ValidHeader(HeaderLength, HeaderType)
                /\ used >= HEADER_SIZE + HeaderLength

(* Mutant of PeekedBody: a body that wraps is read on past the end of the  *)
(* first part as if the array began with the message.                      *)
PeekedBodyUnsplit ==
  LET bodyStart == (head + HEADER_SIZE) % BUFFER_SIZE
      contiguous == Least(HeaderLength, BUFFER_SIZE - bodyStart)
  IN  [i \in 1 .. HeaderLength |->
         IF i <= contiguous THEN buffer[bodyStart + i - 1] ELSE buffer[i - 1]]

(* The body that peekMessage points at: contiguous bytes up to the end of  *)
(* the array, and the caller copies the rest from its start.               *)
PeekedBody ==
  LET bodyStart == (head + HEADER_SIZE) % BUFFER_SIZE
      contiguous == Least(HeaderLength, BUFFER_SIZE - bodyStart)
  IN  [i \in 1 .. HeaderLength |->
         IF i <= contiguous THEN buffer[bodyStart + i - 1]
                            ELSE buffer[i - contiguous - 1]]

Advance(n) == /\ head' = (head + n) % BUFFER_SIZE
              /\ used' = used - n
              /\ UNCHANGED <<buffer, tail>>

(* Mutant of consume: the head stays. *)
consume_keeps_head == /\ used' = used - (HEADER_SIZE + HeaderLength)
                      /\ UNCHANGED <<buffer, head, tail>>

consume == Advance(HEADER_SIZE + HeaderLength)

ScanLimit == Least(used, MAX_SCAN)

(* A valid header starts further on, within what resync looks at. *)
PlausibleAhead ==
  \E i \in 1 .. ScanLimit - 2 : ValidHeader(At(i).val, At(i + 1).val)

(* Mutant of resync: it moves to the header that it finds. *)
resync_skips ==
  IF used < HEADER_SIZE + 1 THEN UNCHANGED bufferVars
  ELSE IF PlausibleAhead
  THEN Advance(CHOOSE i \in 1 .. ScanLimit - 2 :
                 ValidHeader(At(i).val, At(i + 1).val))
  ELSE Advance(ScanLimit)

(* resync, for the caller that ignores what it returns: when it finds a    *)
(* plausible header it returns the offset and moves nothing.               *)
resync ==
  IF used < HEADER_SIZE + 1 \/ PlausibleAhead
  THEN UNCHANGED bufferVars
  ELSE Advance(ScanLimit)
=============================================================================
