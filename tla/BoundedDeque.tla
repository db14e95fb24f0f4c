---------------------------- MODULE BoundedDeque ----------------------------
(***************************************************************************)
(* What CircularBuffer<T, CAPACITY> (include/circular_buffer.h) promises   *)
(* its users: a sequence, oldest element first, that holds at most         *)
(* capacity elements.  A push never fails: on a full buffer it overwrites  *)
(* the oldest element.  Popping an empty buffer does nothing.              *)
(*                                                                         *)
(* VwapCalculator (the trade window) and OrderManager (the order history)  *)
(* are written with these operators; module CircularBuffer shows that the  *)
(* ring of the header implements them.                                     *)
(***************************************************************************)
EXTENDS Integers, Sequences

PushBack(s, capacity, x) ==
  Append(IF Len(s) = capacity THEN Tail(s) ELSE s, x)

PopFront(s) == IF s = << >> THEN s ELSE Tail(s)

\* count calls of pop_front in a row
PopFrontN(s, count) == SubSeq(s, count + 1, Len(s))
=============================================================================
