-------------------------------- MODULE Sums --------------------------------
(* Running totals of a sequence of numbers, and the array of them that     *)
(* VwapCalculator keeps with its trade window.                             *)
EXTENDS Integers, Sequences

(* RunningTotal(s)[i] is the sum of the first i elements of s. *)
RunningTotal(s) ==
  LET total[i \in 0 .. Len(s)] == IF i = 0 THEN 0 ELSE total[i-1] + s[i]
  IN  total

Total(s) == RunningTotal(s)[Len(s)]

(* appendPrefix: n is the size of the window after the push.  When the     *)
(* push overwrote a record the arrays keep describing the old window and   *)
(* only the last entry changes.                                            *)
AppendPrefix(prefix, n, x) ==
  [i \in 1 .. n |-> IF i < n THEN prefix[i]
                    ELSE x + (IF n > 1 THEN prefix[n-1] ELSE 0)]

(* rebuildPrefixes, for one of the two arrays *)
RebuildPrefix(s) == [i \in 1 .. Len(s) |-> RunningTotal(s)[i]]

(* Mutant of ShiftPrefix: the entries are moved and not reduced. *)
ShiftPrefixMoveOnly(prefix, k) ==
  [i \in 1 .. Len(prefix) - k |-> prefix[i + k]]

(* memmove and subtract: drop the first k entries and what they summed to *)
ShiftPrefix(prefix, k) ==
  [i \in 1 .. Len(prefix) - k |-> prefix[i + k] - prefix[k]]
=============================================================================
