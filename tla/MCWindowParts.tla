--------------------------- MODULE MCWindowParts ---------------------------
(* The ring and the search on small instances: every sorted window of up   *)
(* to MaxLen timestamps.                                                   *)
EXTENDS CircularBuffer, LowerBound

CONSTANTS MaxLen, MaxTime

MCWindows ==
  {s \in UNION {[1 .. n -> 0 .. MaxTime] : n \in 0 .. MaxLen} : Sorted(s)}
MCCutoffs == 0 .. MaxTime + 1

\* The two share no state, so the ring moves only beside an empty window.
MCNext ==
  \/ times = << >> /\ cutoff = 0 /\ Next /\ UNCHANGED searchVars
  \/ Search /\ UNCHANGED vars

MCInit == Init /\ SearchInit

MCSpec ==
  /\ MCInit /\ [][MCNext]_<<vars, searchVars>>
  /\ WF_searchVars(Search)
=============================================================================
