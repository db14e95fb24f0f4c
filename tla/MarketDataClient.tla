-------------------------- MODULE MarketDataClient --------------------------
(***************************************************************************)
(* MarketDataClient (include/market_data_client.h,                         *)
(* src/market_data_client.cpp): reads the market data stream into a        *)
(* MessageBuffer and hands every valid message to its callback.            *)
(*                                                                         *)
(* One step is one recv or one turn of the parsing loop of                 *)
(* processIncomingData.  The server may be the simulator of this           *)
(* repository or another program: it writes whole messages, in order, in   *)
(* the format of MessageSerializer.  The network delivers the bytes in any *)
(* pieces and loses what is in flight when the connection ends.            *)
(***************************************************************************)
EXTENDS MessageBuffer, TcpClient

CONSTANTS RecvSize,    \* size of tempBuffer (4096)
          RecvRounds,  \* calls of receive in one processIncomingData (4)
          Messages     \* [type, body] that the server may send

ASSUME MessagesAssumption ==
  \A m \in Messages :
    /\ m.type \in {QUOTE_TYPE, TRADE_TYPE}
    /\ m.body \in Seq(Nat)
    /\ Len(m.body) = IF m.type = QUOTE_TYPE THEN QUOTE_SIZE ELSE TRADE_SIZE
(* One call never receives more than an almost empty buffer has room for. *)
ASSUME RecvAssumption ==
  /\ RecvSize \in Nat \ {0} /\ RecvRounds \in Nat \ {0}
  /\ \A m \in Messages :
       RecvSize * RecvRounds + HEADER_SIZE + Len(m.body) - 1 <= BUFFER_SIZE

VARIABLES
  phase,      \* where processIncomingData is: idle, reading, parsing
  rounds,     \* calls of receive so far in this processIncomingData
  inflight,   \* bytes the server has sent and the client not yet received
  delivered,  \* messages handed to messageCallback
  \* Auxiliary: no action of the code depends on these.
  sent,       \* every message the server sent
  received,   \* bytes received and not yet consumed, dropped or cleared
  missed,     \* messages in flight when a connection ended
  cut         \* bytes were received or dropped other than message by message

marketVars == <<phase, rounds, inflight, delivered, sent, received, missed,
                cut>>
vars == <<bufferVars, tcpVars, marketVars>>

(* The header of a message: the size of its body and its type *)
Header(m) == <<Len(m.body), m.type>>

(* The bytes of a message, the n-th that is sent.  The layout of the       *)
(* fields is left out: the body is a sequence of values.                   *)
Encode(m, n) ==
  LET data == Header(m) \o m.body
  IN  [i \in DOMAIN data |-> [val |-> data[i], msg |-> n, pos |-> i]]

Init ==
  /\ BufferInit /\ TcpInit
  /\ phase = "idle" /\ rounds = 0
  /\ inflight = << >> /\ delivered = << >>
  /\ sent = << >> /\ received = << >> /\ missed = {} /\ cut = FALSE

ServerSends(m) ==
  /\ connState = "CONNECTED"
  /\ sent' = Append(sent, m)
  /\ inflight' = inflight \o Encode(m, Len(sent) + 1)
  /\ UNCHANGED <<bufferVars, tcpVars, phase, rounds, delivered, received,
                 missed, cut>>

-----------------------------------------------------------------------------
(* processEvents found the socket readable. *)
StartProcessing ==
  /\ phase = "idle" /\ connState = "CONNECTED"
  /\ phase' = "reading" /\ rounds' = 0
  /\ UNCHANGED <<bufferVars, tcpVars, inflight, delivered, sent, received,
                 missed, cut>>

(* receive returned n bytes; a buffer without room for them is emptied,    *)
(* and the bytes just received go with it.                                 *)
Receive(n) ==
  LET data == SubSeq(inflight, 1, n)
  IN  /\ phase = "reading"
      /\ rounds' = rounds + 1
      /\ inflight' = SubSeq(inflight, n + 1, Len(inflight))
      /\ IF Fits(data)
         THEN /\ append(data)
              /\ phase' = IF n < RecvSize \/ rounds' = RecvRounds
                          THEN "parsing" ELSE "reading"
              /\ received' = received \o data
              /\ UNCHANGED cut
         ELSE /\ clear
              /\ phase' = "parsing"
              /\ received' = << >>
              /\ cut' = TRUE
      /\ UNCHANGED <<tcpVars, delivered, sent, missed>>

(* EAGAIN; and EINTR, for which TcpClient::receive has set ERROR_STATE *)
ReceiveBlocks ==
  /\ phase = "reading" /\ phase' = "parsing"
  /\ UNCHANGED tcpVars \/ ConnectionLost("ERROR_STATE")
  /\ UNCHANGED <<bufferVars, rounds, inflight, delivered, sent, received,
                 missed, cut>>

(* The end of the stream or an error: processIncomingData returns without  *)
(* parsing what it has received.                                           *)
ReceiveEnds ==
  /\ phase = "reading" /\ phase' = "idle"
  /\ ConnectionLost("ERROR_STATE")
  /\ UNCHANGED <<bufferVars, rounds, inflight, delivered, sent, received,
                 missed, cut>>

-----------------------------------------------------------------------------
(* parseQuote and validateQuote, parseTrade and validateTrade: the first   *)
(* value of the body stands for the quantities and prices, 0 for one that  *)
(* the tests refuse.                                                       *)
ValidBody(body) == body[1].val # 0

ParseMessage ==
  /\ phase = "parsing" /\ MessageReady
  /\ delivered' = IF ValidBody(PeekedBody)
                  THEN Append(delivered, PeekedBody) ELSE delivered
  /\ consume
  /\ received' = SubSeq(received, HEADER_SIZE + HeaderLength + 1, Len(received))
  /\ UNCHANGED <<tcpVars, phase, rounds, inflight, sent, missed, cut>>

(* NEED_MORE_DATA ends the loop, and so does a bad header, after resync. *)
StopParsing ==
  /\ phase = "parsing" /\ ~ MessageReady
  /\ phase' = "idle"
  /\ IF InvalidHeader
     THEN /\ resync
          /\ received' = SubSeq(received, used - used' + 1, Len(received))
          /\ cut' = TRUE
     ELSE UNCHANGED <<bufferVars, received, cut>>
  /\ UNCHANGED <<tcpVars, rounds, inflight, delivered, sent, missed>>

(* A new connection.  The buffer keeps what the old one left in it.        *)
(* NetworkManager's own delay between attempts is left out: it only makes  *)
(* them rarer than TcpClient allows.                                       *)
ReconnectMarket ==
  /\ phase = "idle"
  /\ \/ /\ ReconnectSucceeds
        /\ inflight' = << >>
        /\ missed' = missed \cup {inflight[i].msg : i \in DOMAIN inflight}
        /\ cut' = (cut \/ received # << >>)
        /\ UNCHANGED <<bufferVars, phase, rounds, delivered, sent, received>>
     \/ ReconnectFails /\ UNCHANGED <<bufferVars, marketVars>>

(* The clock moves on between two calls. *)
Wait == phase = "idle" /\ Elapse(1) /\ UNCHANGED <<bufferVars, marketVars>>

Next ==
  \/ \E m \in Messages : ServerSends(m)
  \/ StartProcessing
  \/ \E n \in 1 .. Least(RecvSize, Len(inflight)) : Receive(n)
  \/ ReceiveBlocks \/ ReceiveEnds
  \/ ParseMessage \/ StopParsing
  \/ ReconnectMarket \/ Wait

Spec == Init /\ [][Next]_vars

-----------------------------------------------------------------------------
AllBytes == [val : Nat, msg : Nat, pos : Nat]

TypeOK ==
  /\ TcpTypeOK
  /\ buffer \in [0 .. BUFFER_SIZE - 1 -> AllBytes]
  /\ head \in 0 .. BUFFER_SIZE - 1 /\ tail \in 0 .. BUFFER_SIZE - 1
  /\ used \in 0 .. BUFFER_SIZE
  /\ phase \in {"idle", "reading", "parsing"} /\ rounds \in 0 .. RecvRounds
  /\ inflight \in Seq(AllBytes) /\ delivered \in Seq(Seq(AllBytes))
  /\ sent \in Seq(Messages) /\ received \in Seq(AllBytes)
  /\ missed \subseteq 1 .. Len(sent) /\ cut \in BOOLEAN

(* The ring is a queue: it holds the bytes received and not yet consumed,  *)
(* in their order, however often appends and messages wrap around the end  *)
(* of the array (append, consume, resync, clear).                          *)
RingHoldsReceived ==
  Held = received /\ tail = (head + used) % BUFFER_SIZE

(* The body of the n-th message sent, the ones that the callback should    *)
(* get, and the number of the i-th that it got                             *)
Body(n) == SubSeq(Encode(sent[n], n), HEADER_SIZE + 1,
                  HEADER_SIZE + Len(sent[n].body))
Due == {n \in 1 .. Len(sent) : n \notin missed /\ ValidBody(Body(n))}
Number(i) == delivered[i][1].msg

(* However the stream is cut into pieces, the callback gets each message   *)
(* whole, in the order sent, and misses none but the ones that do not      *)
(* validate and the ones in flight when a connection ended, provided that  *)
(* the buffer was never emptied, was empty at every reconnection, and had  *)
(* no bad header in front, after which resync drops bytes.                 *)
DeliveredIntact ==
  cut \/ /\ \A i \in DOMAIN delivered :
             Number(i) \in Due /\ delivered[i] = Body(Number(i))
         /\ \A i, j \in DOMAIN delivered : i < j => Number(i) < Number(j)
         /\ \A j \in DOMAIN delivered : \A n \in Due :
             n <= Number(j) => \E i \in DOMAIN delivered : Number(i) = n

Before(a, b) == a.msg < b.msg \/ (a.msg = b.msg /\ a.pos < b.pos)

(* Even when messages are spliced, dropped or cut off, no byte reaches the *)
(* callback twice and none out of order.                                   *)
NothingTwice ==
  \A i, j \in DOMAIN delivered :
    \A k \in DOMAIN delivered[i], l \in DOMAIN delivered[j] :
      i < j \/ (i = j /\ k < l) => Before(delivered[i][k], delivered[j][l])

(* A bad header with a plausible one in reach blocks the stream: resync    *)
(* never moves to what it finds, and nothing more is delivered until the   *)
(* buffer overflows and is emptied, whatever else happens in between.      *)
BadHeaderBlocks ==
  [][InvalidHeader /\ PlausibleAhead
       => delivered' = delivered /\ (head' = head \/ used' = 0)]_vars
=============================================================================
