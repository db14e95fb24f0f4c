----------------------------- MODULE LowerBound -----------------------------
(***************************************************************************)
(* The binary search of VwapCalculator::removeExpiredTrades (and of        *)
(* lowerBoundTime) over the timestamps of the trade window: one step is    *)
(* one turn of the loop.  Indices count from 0 as in the code;             *)
(* times[i+1] is the timestamp of tradeWindow[i].                          *)
(***************************************************************************)
EXTENDS Integers, Sequences

CONSTANTS Windows,  \* the sequences of timestamps a window may hold
          Cutoffs

Sorted(s) == \A i, j \in DOMAIN s : i <= j => s[i] <= s[j]

ASSUME WindowsAssumption == \A s \in Windows : s \in Seq(Nat) /\ Sorted(s)
ASSUME CutoffsAssumption == Cutoffs \subseteq Nat

VARIABLES times, cutoff, lo, hi
searchVars == <<times, cutoff, lo, hi>>

SearchInit ==
  /\ times \in Windows
  /\ cutoff \in Cutoffs
  /\ lo = 0
  /\ hi = Len(times)

mid == (lo + hi) \div 2

(* Mutants of Search: hi skips the middle, a trade exactly at the cutoff   *)
(* counts as expired, or lo does not move past the middle.                 *)
SearchSkipsMid ==
  /\ lo < hi
  /\ IF times[mid + 1] < cutoff
     THEN lo' = mid + 1 /\ UNCHANGED hi
     ELSE hi' = mid - 1 /\ UNCHANGED lo
  /\ UNCHANGED <<times, cutoff>>

SearchUpperBound ==
  /\ lo < hi
  /\ IF times[mid + 1] <= cutoff
     THEN lo' = mid + 1 /\ UNCHANGED hi
     ELSE hi' = mid /\ UNCHANGED lo
  /\ UNCHANGED <<times, cutoff>>

SearchStuck ==
  /\ lo < hi
  /\ IF times[mid + 1] < cutoff
     THEN lo' = mid /\ UNCHANGED hi
     ELSE hi' = mid /\ UNCHANGED lo
  /\ UNCHANGED <<times, cutoff>>

Search ==
  /\ lo < hi
  /\ IF times[mid + 1] < cutoff
     THEN lo' = mid + 1 /\ UNCHANGED hi
     ELSE hi' = mid /\ UNCHANGED lo
  /\ UNCHANGED <<times, cutoff>>

SearchSpec ==
  SearchInit /\ [][Search]_searchVars /\ WF_searchVars(Search)

-----------------------------------------------------------------------------
(* The search never reads outside the window, everything below lo is       *)
(* expired and nothing from hi on is.                                      *)
SearchInvariant ==
  /\ times \in Windows /\ cutoff \in Cutoffs
  /\ lo \in 0 .. hi /\ hi \in 0 .. Len(times)
  /\ \A i \in 1 .. lo : times[i] < cutoff
  /\ \A i \in hi + 1 .. Len(times) : times[i] >= cutoff

(* When the loop ends lo is the number of expired trades, which is what    *)
(* removeExpiredTrades pops: no live trade goes and no expired one stays.  *)
SplitsAtCutoff ==
  lo >= hi => \A i \in 1 .. Len(times) : times[i] < cutoff <=> i <= lo

(* The loop ends. *)
Terminates == <>(lo >= hi)
=============================================================================
