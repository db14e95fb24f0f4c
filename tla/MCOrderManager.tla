--------------------------- MODULE MCOrderManager ---------------------------
(* A small instance of OrderManager for TLC. *)
EXTENDS OrderManager

CONSTANTS MaxTime,    \* timestamps are in 0 .. MaxTime
          MaxCalls,   \* of addTrade and processQuote
          MaxQuotes   \* calls of processQuote

Trade(ts, qty, px) == [timestamp |-> ts, quantity |-> qty, price |-> px]

\* Well-formed trades of three sizes at every time, and malformed ones
MCTrades ==
  {Trade(ts, qp[1], qp[2]) :
     ts \in 0 .. MaxTime, qp \in {<<1, 1>>, <<1, 4>>, <<3, 2>>}}
  \cup {Trade(2, 0, 1), Trade(2, 1, 0)}

Quote(ts, bq, bp, aq, ap) ==
  [timestamp |-> ts, bidQuantity |-> bq, bidPrice |-> bp,
   askQuantity |-> aq, askPrice |-> ap]

\* Two markets at every time from the first possible completion on, and one
\* with nothing offered
MCQuotes ==
  {Quote(ts, 1, m[1], 3, m[2]) :
     ts \in MaxTime - 2 .. MaxTime, m \in {<<1, 2>>, <<3, 3>>}}
  \cup {Quote(MaxTime, 0, 2, 0, 2)}

Calls == managerTrades + managerQuotes

MCNext ==
  \/ /\ Calls < MaxCalls
     /\ \E t \in Trades : ProcessTrade(t)
  \/ /\ Calls < MaxCalls /\ managerQuotes < MaxQuotes
     /\ \E q \in Quotes : ProcessQuote(q)
  \/ ReadVwap

MCSpec == Init /\ [][MCNext]_vars
=============================================================================
