-------------------------- MODULE MachineIntegers --------------------------
(***************************************************************************)
(* The fixed-width integers of the code whose limits matter.  A model      *)
(* gives the largest values; the code's are 2^64 - 1 and 2^31 - 1.         *)
(***************************************************************************)
EXTENDS Integers

CONSTANTS U64Max,  \* the largest uint64_t
          I32Max   \* the largest int32_t

ASSUME U64Assumption == U64Max \in Nat
ASSUME I32Assumption == I32Max \in Nat

U64 == 0 .. U64Max
U32 == 0 .. 2 * I32Max + 1
I32 == -(I32Max + 1) .. I32Max

(* a - b on uint64_t wraps when b is the larger one. *)
Minus64(a, b) == IF a >= b THEN a - b ELSE a - b + U64Max + 1

(* static_cast<int32_t> of a uint32_t *)
ToInt32(x) == IF x <= I32Max THEN x ELSE x - 2 * (I32Max + 1)
=============================================================================
