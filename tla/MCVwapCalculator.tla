-------------------------- MODULE MCVwapCalculator --------------------------
(* A small instance of VwapCalculator for TLC. *)
EXTENDS VwapCalculator

CONSTANTS MinTime,   \* timestamps are in MinTime .. MaxTime
          MaxTime,
          MaxCalls   \* calls of addTrade

Trade(ts, q, p) == [timestamp |-> ts, quantity |-> q, price |-> p]

\* Well-formed trades of three sizes at every time, and malformed ones.
MCTrades ==
  {Trade(ts, qp[1], qp[2]) :
     ts \in MinTime .. MaxTime, qp \in {<<1, 1>>, <<1, 4>>, <<3, 2>>}}
  \cup {Trade(2, 0, 1), Trade(2, 1, 0)}

MCNext ==
  \/ /\ totalTradesProcessed + rejectedTrades < MaxCalls
     /\ \E t \in Trades : AddTrade(t)
  \/ GetCurrentVwap

MCSpec == VwapInit /\ [][MCNext]_calcVars
=============================================================================
