-------------------------- MODULE MCTradingSystem --------------------------
(* A small instance of TradingSystem for TLC. *)
EXTENDS TradingSystem

CONSTANTS MaxTime,    \* timestamps of trades are in 1 .. MaxTime
          MaxTrades,  \* calls of processTrade
          MaxQuotes   \* calls of processQuote

Trade(ts, qty, px) == [timestamp |-> ts, quantity |-> qty, price |-> px]
Quote(ts, bq, bp, aq, ap) ==
  [timestamp |-> ts, bidQuantity |-> bq, bidPrice |-> bp,
   askQuantity |-> aq, askPrice |-> ap]

\* Trades at one price, and two that do not validate or are rejected
MCTrades == {Trade(ts, 1, 3) : ts \in 1 .. MaxTime}
            \cup {Trade(1, 0, 3), Trade(1, 1, 0)}

\* A market below and one above that price, a free offer, nothing offered,
\* and a bid above the range of int32_t
MCQuotes == {Quote(ts, 1, 1, 3, 2) : ts \in {MaxTime, MaxTime + 1}}
            \cup {Quote(MaxTime, 3, 4, 1, 4), Quote(MaxTime, 1, 0, 1, 0),
                  Quote(MaxTime, 0, 2, 0, 2), Quote(MaxTime, 1, 9, 1, 5)}

MCNext ==
  \/ /\ managerQuotes < MaxQuotes
     /\ \E symbol \in Symbols, q \in Quotes : OnQuote(symbol, q)
  \/ /\ managerTrades < MaxTrades
     /\ \E symbol \in Symbols, t \in Trades : OnTrade(symbol, t)
  \/ Loop
  \/ Signal

MCSpec == SystemInit /\ [][MCNext]_systemVars /\ WF_systemVars(Loop)
=============================================================================
