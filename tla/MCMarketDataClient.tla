------------------------- MODULE MCMarketDataClient -------------------------
(* A small instance of MarketDataClient for TLC. *)
EXTENDS MarketDataClient

CONSTANTS MaxMessages,  \* messages the server sends
          MaxInflight   \* bytes in flight when it sends one more

\* A quote whose body holds what looks like the header of a trade, a trade,
\* and a trade that does not validate.
MCMessages ==
  {[type |-> QUOTE_TYPE, body |-> <<1, 2, 2>>],
   [type |-> TRADE_TYPE, body |-> <<1, 0>>],
   [type |-> TRADE_TYPE, body |-> <<0, 0>>]}

MCNext ==
  \/ /\ Len(sent) < MaxMessages /\ Len(inflight) <= MaxInflight
     /\ \E m \in Messages : ServerSends(m)
  \/ StartProcessing
  \/ \E n \in 1 .. Least(RecvSize, Len(inflight)) : Receive(n)
  \/ ReceiveBlocks \/ ReceiveEnds
  \/ ParseMessage \/ StopParsing
  \/ ReconnectMarket \/ Wait

MCSpec == Init /\ [][MCNext]_vars
=============================================================================
