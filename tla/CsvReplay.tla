----------------------------- MODULE CsvReplay -----------------------------
(***************************************************************************)
(* CSVReplayEngine (include/csv_reader.h, src/csv_reader.cpp): hands out   *)
(* the records of a file at the pace of their timestamps.                  *)
(*                                                                         *)
(* A record is its timestamp; prices and quantities only pass through.     *)
(* The speed is a double and scales through doubles: a double up to 2^64   *)
(* is modelled in units of 1/Significands (2^-53), since finer fractions   *)
(* cannot change what the cast back to uint64_t makes of it.  A speed that *)
(* is not a number is left out.  pause, resume and setSpeed are never      *)
(* called by the program.                                                  *)
(***************************************************************************)
EXTENDS MachineIntegers, Sequences

CONSTANTS
  Files,          \* the files that may be replayed, as sequences of timestamps
  Speeds,         \* as fractions <<n, d>>; n = 0: any speed not positive
  MIN_INTERVAL,   \* between two records
  ClockMax,       \* the longest time in microseconds that steady_clock
                  \* measures: its nanoseconds are an int64_t
  Significands,   \* how many values the significand of a double has (2^53)
  Grains          \* distances between neighbouring doubles (powers of 2)

(* What a double can hold, in units of 1/Significands *)
Limit == (U64Max + 1) * Significands
Doubles == {x \in 0 .. Limit :
              \E g \in Grains : x < g * Significands /\ x % g = 0}

ASSUME FilesAssumption == Files \subseteq Seq(U64)
ASSUME SpeedsAssumption == Speeds \subseteq Nat \X (Nat \ {0})
ASSUME IntervalAssumption == MIN_INTERVAL \in Nat
ASSUME DoublesAssumption ==
  Significands \in Nat \ {0} /\ Grains \subseteq Nat \ {0} /\ Limit \in Doubles
ASSUME ClockAssumption ==
  ClockMax \in U64 /\ (ClockMax + 1) * Significands \in Doubles

VARIABLES
  records, replaySpeed,
  currentPosition,  \* records handed out since start
  sinceStart,       \* getElapsedMicros
  sinceEmit         \* age of lastEmitTime, up to MIN_INTERVAL

replayVars == <<records, replaySpeed, currentPosition, sinceStart, sinceEmit>>

baseTimestamp == IF records = << >> THEN 0 ELSE records[1]

ReplayInit ==
  /\ records \in Files /\ replaySpeed \in Speeds
  /\ currentPosition = 0 /\ sinceStart = 0 /\ sinceEmit = 0

(* start *)
Restart ==
  /\ currentPosition' = 0 /\ sinceStart' = 0 /\ sinceEmit' = 0
  /\ UNCHANGED <<records, replaySpeed>>

-----------------------------------------------------------------------------
(* Mutant of RecordOffset: the difference is signed. *)
RecordOffsetSigned(ts) == ts - baseTimestamp

(* For a record older than the first the difference wraps around.  The     *)
(* offset is in the unit of the file, nanoseconds, and is compared with    *)
(* microseconds.                                                           *)
RecordOffset(ts) == Minus64(ts, baseTimestamp)

Distance(x, y) == IF x <= y THEN y - x ELSE x - y

(* The doubles nearest to a / b.  Of two, IEEE 754 takes the even one; the *)
(* model takes either.                                                     *)
Nearest(a, b) ==
  {x \in Doubles : \A y \in Doubles : Distance(x * b, a) <= Distance(y * b, a)}

(* The cast to uint64_t truncates.  Out of range it is undefined: builds   *)
(* for x86-64 make it 0 and, with AVX-512 or on AArch64, the largest value.*)
ToUint64(x) == IF x < Limit THEN {x \div Significands} ELSE {0, U64Max}

(* scaledOffset: the offset becomes a double, the quotient another. *)
ScaledOffsets(ts) ==
  UNION {UNION {ToUint64(y) : y \in Nearest(x * replaySpeed[2], replaySpeed[1])} :
           x \in Nearest(RecordOffset(ts) * Significands, 1)}

(* What shouldEmitNow may return *)
ShouldEmitNow(ts) ==
  IF replaySpeed[1] = 0 THEN {TRUE}
  ELSE IF sinceEmit < MIN_INTERVAL THEN {FALSE}
  ELSE {sinceStart >= offset : offset \in ScaledOffsets(ts)}

AtEnd == currentPosition >= Len(records)
NextRecord == records[currentPosition + 1]

(* getNextMessage may return true, or false before the end. *)
MayEmit == ~ AtEnd /\ TRUE \in ShouldEmitNow(NextRecord)
MayHold == ~ AtEnd /\ FALSE \in ShouldEmitNow(NextRecord)

EmitMessage ==
  /\ currentPosition' = currentPosition + 1
  /\ sinceEmit' = 0
  /\ UNCHANGED <<records, replaySpeed, sinceStart>>

(* The clock moves on, up to the end of its range. *)
ReplayTick ==
  /\ sinceStart' = IF sinceStart < ClockMax THEN sinceStart + 1 ELSE ClockMax
  /\ sinceEmit' = IF sinceEmit < MIN_INTERVAL THEN sinceEmit + 1
                                              ELSE MIN_INTERVAL
  /\ UNCHANGED <<records, replaySpeed, currentPosition>>

(* As replayFromCSV uses the engine: it is started again at the end. *)
ReplayNext == \/ MayEmit /\ EmitMessage
              \/ AtEnd /\ Restart
              \/ ReplayTick

-----------------------------------------------------------------------------
(* A record older than the first whose offset wraps to a time that the     *)
(* clock does not reach: scaled, the wrapped offset lies between doubles   *)
(* that are beyond the clock and below 2^64.  At speed 1 these are all     *)
(* records that are older by at least 2048 ns (the grain of doubles below  *)
(* 2^64) and at most 2^63 ns.                                              *)
NeverDue(ts) ==
  LET n == replaySpeed[1]
      d == replaySpeed[2]
      wrapped == (U64Max + 1 - (baseTimestamp - ts)) * Significands
  IN  /\ n > 0 /\ ts < baseTimestamp
      /\ \E low, high, top \in Doubles :
           /\ low <= wrapped /\ wrapped <= high
           /\ (ClockMax + 1) * Significands * n <= low * d
           /\ high * d <= top * n /\ top < Limit

(* Such a record stops the replay for good, wherever in the file it is and *)
(* whatever the rounding of offset and quotient (shouldEmitNow).           *)
OlderRecordBlocks ==
  [][~ AtEnd /\ NeverDue(NextRecord)
       => currentPosition' = currentPosition]_replayVars
=============================================================================
