----------------------- MODULE MarketDataClientProofs -----------------------
(***************************************************************************)
(* What MarketDataClient delivers, for every size of the ring, of the      *)
(* messages and of the pieces they arrive in.                              *)
(***************************************************************************)
EXTENDS MarketDataClient, SumTheorems

(* The inductive invariant *)

(* The bytes on their way to the callback: received, then in flight *)
Ahead == received \o inflight

MarketTypeOK ==
  /\ buffer \in [0 .. BUFFER_SIZE - 1 -> AllBytes]
  /\ head \in 0 .. BUFFER_SIZE - 1 /\ tail \in 0 .. BUFFER_SIZE - 1
  /\ used \in 0 .. BUFFER_SIZE
  /\ phase \in {"idle", "reading", "parsing"} /\ rounds \in 0 .. RecvRounds
  /\ phase = "reading" => rounds < RecvRounds
  /\ inflight \in Seq(AllBytes) /\ delivered \in Seq(Seq(AllBytes))
  /\ sent \in Seq(Messages) /\ received \in Seq(AllBytes)
  /\ missed \subseteq 1 .. Len(sent) /\ cut \in BOOLEAN

(* What is on its way is in the order of sending, and so is what was       *)
(* delivered before it.                                                    *)
Ascending(s) == \A i, j \in 1 .. Len(s) : i < j => Before(s[i], s[j])

OrderInv ==
  /\ Ascending(Ahead)
  /\ \A j \in 1 .. Len(Ahead) : 1 <= Ahead[j].msg /\ Ahead[j].msg <= Len(sent)
  /\ \A i \in 1 .. Len(delivered) : \A k \in 1 .. Len(delivered[i]) :
       /\ delivered[i][k].msg <= Len(sent)
       /\ \A j \in 1 .. Len(Ahead) : Before(delivered[i][k], Ahead[j])
  /\ NothingTwice

(* As long as nothing was cut, what is on its way is every byte of the     *)
(* messages from the first-th on, each message in one piece.               *)
Size(n) == HEADER_SIZE + Len(sent[n].body)

WholeFrom(first) ==
  /\ \A i \in 1 .. Len(Ahead) :
       /\ Ahead[i].msg \in first .. Len(sent)
       /\ Ahead[i].pos \in 1 .. Size(Ahead[i].msg)
       /\ Ahead[i] = Encode(sent[Ahead[i].msg], Ahead[i].msg)[Ahead[i].pos]
  /\ \A i, j \in 1 .. Len(Ahead) :
       Ahead[i].msg = Ahead[j].msg => i - Ahead[i].pos = j - Ahead[j].pos
  /\ \A n \in first .. Len(sent) : \A p \in 1 .. Size(n) :
       \E i \in 1 .. Len(Ahead) : Ahead[i].msg = n /\ Ahead[i].pos = p

(* The messages before it are delivered, missed or not valid. *)
DoneBefore(first) ==
  /\ missed \subseteq 1 .. first - 1
  /\ \A i \in 1 .. Len(delivered) :
       /\ Number(i) \in Due /\ Number(i) < first
       /\ delivered[i] = Body(Number(i))
  /\ \A n \in Due : n < first => \E i \in 1 .. Len(delivered) : Number(i) = n

StreamInv ==
  ~ cut => \E first \in 1 .. Len(sent) + 1 : WholeFrom(first) /\ DoneBefore(first)

MarketInv ==
  TcpTypeOK /\ MarketTypeOK /\ RingHoldsReceived /\ OrderInv /\ StreamInv

-----------------------------------------------------------------------------
(* The ring *)

LEMMA Sizes ==
  /\ BUFFER_SIZE \in Nat /\ BUFFER_SIZE > 0 /\ HEADER_SIZE = 2
  /\ QUOTE_SIZE \in Nat /\ QUOTE_SIZE > 0
  /\ TRADE_SIZE \in Nat /\ TRADE_SIZE > 0
  /\ MAX_SCAN \in Nat
BY BufferSizeAssumption, SizesAssumption, ScanAssumption DEF HEADER_SIZE

(* An index that went at most once past the end *)
Slot(h, i) == (h + i) % BUFFER_SIZE

LEMMA SlotValue ==
  ASSUME NEW h \in 0 .. BUFFER_SIZE - 1, NEW i \in 0 .. BUFFER_SIZE
  PROVE  /\ Slot(h, i) \in 0 .. BUFFER_SIZE - 1
         /\ h + i < BUFFER_SIZE => Slot(h, i) = h + i
         /\ h + i >= BUFFER_SIZE => Slot(h, i) = h + i - BUFFER_SIZE
<1> DEFINE B == BUFFER_SIZE
           n == h + i
           q == n \div B
<1>1. B \in Nat /\ B > 0
  BY Sizes
<1>2. n \in 0 .. 2 * B - 1
  BY <1>1
<1> HIDE DEF n
<1>3. n = B * q + (n % B) /\ n % B \in 0 .. B - 1 /\ q \in Int
  BY <1>1, <1>2
<1>4. n < B => n % B = n
  BY <1>1, <1>2
<1>5. n >= B => n % B = n - B
  BY <1>1, <1>2, <1>3
<1> QED BY <1>1, <1>2, <1>3, <1>4, <1>5 DEF Slot, n

(* Two advances are one. *)
LEMMA SlotShift ==
  ASSUME NEW h \in 0 .. BUFFER_SIZE - 1, NEW n \in 0 .. BUFFER_SIZE,
         NEW j \in Nat, n + j <= BUFFER_SIZE
  PROVE  Slot(Slot(h, n), j) = Slot(h, n + j)
<1> DEFINE B == BUFFER_SIZE
           g == Slot(h, n)
<1>1. B \in Nat /\ h \in Nat /\ n \in Nat /\ h < B
  BY Sizes
<1>2. /\ g \in 0 .. B - 1
      /\ h + n < B => g = h + n
      /\ h + n >= B => g = h + n - B
  BY SlotValue
<1> HIDE DEF g
<1>3. j \in 0 .. B /\ n + j \in 0 .. B
  BY <1>1
<1>4. /\ g + j < B => Slot(g, j) = g + j
      /\ g + j >= B => Slot(g, j) = g + j - B
  BY <1>2, <1>3, SlotValue
<1>5. /\ h + (n + j) < B => Slot(h, n + j) = h + (n + j)
      /\ h + (n + j) >= B => Slot(h, n + j) = h + (n + j) - B
  BY <1>3, SlotValue
<1> QED BY <1>1, <1>2, <1>3, <1>4, <1>5 DEF g

(* The queue of bytes in an array *)
Queue(b, h, n) == [i \in 1 .. n |-> b[Slot(h, i - 1)]]

LEMMA QueueIsSeq ==
  ASSUME NEW b \in [0 .. BUFFER_SIZE - 1 -> AllBytes],
         NEW h \in 0 .. BUFFER_SIZE - 1, NEW n \in 0 .. BUFFER_SIZE
  PROVE  /\ Queue(b, h, n) \in Seq(AllBytes) /\ Len(Queue(b, h, n)) = n
         /\ \A i \in 1 .. n : Queue(b, h, n)[i] = b[Slot(h, i - 1)]
<1>1. BUFFER_SIZE \in Nat /\ n \in Nat
  BY Sizes
<1>2. ASSUME NEW i \in 1 .. n PROVE b[Slot(h, i - 1)] \in AllBytes
  <2>1. i - 1 \in 0 .. BUFFER_SIZE
    BY <1>1
  <2>2. Slot(h, i - 1) \in 0 .. BUFFER_SIZE - 1
    BY <2>1, SlotValue
  <2> QED BY <2>2
<1>3. Queue(b, h, n) \in [1 .. n -> AllBytes]
  BY <1>2 DEF Queue
<1> QED BY <1>1, <1>3, FunctionIsSeq DEF Queue

LEMMA HeldIsQueue ==
  Held = Queue(buffer, head, used) /\ Held' = Queue(buffer', head', used')
BY DEF Held, At, Queue, Slot

(* What the ring invariant says, byte by byte *)
Ring ==
  /\ buffer \in [0 .. BUFFER_SIZE - 1 -> AllBytes]
  /\ head \in 0 .. BUFFER_SIZE - 1 /\ tail \in 0 .. BUFFER_SIZE - 1
  /\ used \in 0 .. BUFFER_SIZE
  /\ received \in Seq(AllBytes) /\ RingHoldsReceived

LEMMA RingFacts ==
  ASSUME Ring
  PROVE  /\ Len(received) = used /\ tail = Slot(head, used)
         /\ \A i \in 1 .. used : received[i] = buffer[Slot(head, i - 1)]
<1>1. received = Queue(buffer, head, used)
  BY HeldIsQueue DEF Ring, RingHoldsReceived
<1>2. tail = Slot(head, used)
  BY DEF Ring, RingHoldsReceived, Slot
<1> QED BY <1>1, <1>2, QueueIsSeq DEF Ring

(* append: the second part of the data lies at the start of the array. *)
LEMMA AppendRing ==
  ASSUME Ring, NEW data \in Seq(AllBytes), Fits(data), append(data),
         received' = received \o data
  PROVE  Ring'
<1> DEFINE B == BUFFER_SIZE
           n == Len(data)
           first == Least(n, B - tail)
<1>1. /\ B \in Nat /\ B > 0 /\ n \in Nat /\ used + n <= B
      /\ head \in 0 .. B - 1 /\ tail \in 0 .. B - 1 /\ used \in 0 .. B
      /\ \A i \in 1 .. n : data[i] \in AllBytes
  BY Sizes DEF Fits, Ring
<1>2. /\ first \in 0 .. n /\ first <= B - tail
      /\ first < n => first = B - tail
  BY <1>1 DEF Least
<1>3. /\ buffer' = [k \in 0 .. B - 1 |->
                      IF k \in tail .. tail + first - 1 THEN data[k - tail + 1]
                      ELSE IF k < n - first THEN data[first + k + 1]
                      ELSE buffer[k]]
      /\ tail' = Slot(tail, n) /\ used' = used + n /\ head' = head
  BY DEF append, Slot
<1> HIDE DEF first, n
<1>4. buffer' \in [0 .. B - 1 -> AllBytes]
  <2>1. ASSUME NEW k \in 0 .. B - 1 PROVE buffer'[k] \in AllBytes
    <3>1. CASE k \in tail .. tail + first - 1
      <4>1. k - tail + 1 \in 1 .. n
        BY <1>1, <1>2, <3>1
      <4> QED BY <1>1, <1>3, <3>1, <4>1
    <3>2. CASE k \notin tail .. tail + first - 1 /\ k < n - first
      <4>1. first + k + 1 \in 1 .. n
        BY <1>1, <1>2, <3>2
      <4> QED BY <1>1, <1>3, <3>2, <4>1
    <3>3. CASE k \notin tail .. tail + first - 1 /\ ~ (k < n - first)
      BY <1>3, <3>3 DEF Ring
    <3> QED BY <3>1, <3>2, <3>3
  <2> QED BY <1>3, <2>1
<1>5. used' \in 0 .. B /\ tail' \in 0 .. B - 1
  <2>1. n \in 0 .. B
    BY <1>1
  <2> QED BY <1>1, <1>3, <2>1, SlotValue
<1>6. /\ tail = Slot(head, used) /\ Len(received) = used
      /\ \A i \in 1 .. used : received[i] = buffer[Slot(head, i - 1)]
  BY RingFacts
<1>7. /\ head + used < B => tail = head + used
      /\ head + used >= B => tail = head + used - B
  BY <1>1, <1>6, SlotValue
<1>8. tail' = Slot(head', used')
  <2>1. n \in 0 .. B /\ used + n \in 0 .. B
    BY <1>1
  <2>2. /\ tail + n < B => tail' = tail + n
        /\ tail + n >= B => tail' = tail + n - B
        /\ head + (used + n) < B => Slot(head, used + n) = head + (used + n)
        /\ head + (used + n) >= B => Slot(head, used + n) = head + (used + n) - B
    BY <1>1, <1>3, <2>1, SlotValue
  <2>3. Slot(head, used + n) = tail'
    <3>1. /\ B \in Nat /\ n \in Nat /\ used + n <= B
          /\ head \in 0 .. B - 1 /\ tail \in 0 .. B - 1 /\ used \in 0 .. B
      BY <1>1
    <3> QED BY ONLY <3>1, <1>7, <2>2
  <2> QED BY <1>3, <2>3
<1>9. /\ received' \in Seq(AllBytes) /\ Len(received') = used + n
      /\ \A i \in 1 .. used : received'[i] = received[i]
      /\ \A i \in 1 .. n : received'[used + i] = data[i]
  <2>1. /\ received \in Seq(AllBytes) /\ data \in Seq(AllBytes)
        /\ Len(received) = used /\ Len(data) = n
    BY <1>6 DEF Ring, n
  <2>2. /\ received \o data \in Seq(AllBytes)
        /\ Len(received \o data) = Len(received) + Len(data)
        /\ \A i \in 1 .. Len(received) : (received \o data)[i] = received[i]
        /\ \A i \in 1 .. Len(data) : (received \o data)[Len(received) + i] = data[i]
    <3>1. received \in Seq(AllBytes) /\ data \in Seq(AllBytes)
      BY <2>1
    <3> QED BY ONLY <3>1, JoinElements
  <2>3. received' = received \o data
    OBVIOUS
  <2> QED BY ONLY <2>1, <2>2, <2>3
<1>10. ASSUME NEW i \in 1 .. used + n
       PROVE  received'[i] = buffer'[Slot(head, i - 1)]
  <2> DEFINE k == Slot(head, i - 1)
  <2>1. i - 1 \in 0 .. B
    BY <1>1
  <2>2. /\ k \in 0 .. B - 1
        /\ head + (i - 1) < B => k = head + (i - 1)
        /\ head + (i - 1) >= B => k = head + (i - 1) - B
    BY <1>1, <2>1, SlotValue
  <2> HIDE DEF k
  <2>3. CASE i <= used
    <3>1. k \notin tail .. tail + first - 1 /\ ~ (k < n - first)
      BY <1>1, <1>2, <1>7, <2>2, <2>3
    <3>2. buffer'[k] = buffer[k]
      BY <1>3, <2>2, <3>1
    <3> QED BY <1>1, <1>6, <1>9, <2>3, <3>2 DEF k
  <2>4. CASE i > used
    <3> DEFINE j == i - used
    <3>1. j \in 1 .. n /\ i = used + j
      BY <1>1, <2>4
    <3> HIDE DEF j
    <3>2. CASE j <= first
      <4>1. k = tail + j - 1
        BY <1>1, <1>2, <1>7, <2>2, <3>1, <3>2
      <4>2. k \in tail .. tail + first - 1 /\ k - tail + 1 = j
        BY <1>1, <1>2, <3>1, <3>2, <4>1
      <4> QED BY <1>3, <1>9, <2>2, <3>1, <4>2 DEF k
    <3>3. CASE j > first
      <4>1. k = j - first - 1
        BY <1>1, <1>2, <1>7, <2>2, <3>1, <3>3
      <4>2. /\ k \notin tail .. tail + first - 1 /\ k < n - first
            /\ first + k + 1 = j
        BY <1>1, <1>2, <1>7, <3>1, <3>3, <4>1
      <4> QED BY <1>3, <1>9, <2>2, <3>1, <4>2 DEF k
    <3>4. j <= first \/ j > first
      BY <1>1, <1>2, <3>1
    <3> QED BY <3>2, <3>3, <3>4
  <2>5. i <= used \/ i > used
    BY <1>1
  <2> QED BY <2>3, <2>4, <2>5
<1>11. Held' = received'
  <2> DEFINE q == Queue(buffer', head', used')
  <2>1. /\ q \in Seq(AllBytes) /\ Len(q) = used + n
        /\ \A i \in 1 .. used + n : q[i] = buffer'[Slot(head, i - 1)]
    <3>1. head' \in 0 .. BUFFER_SIZE - 1
      BY <1>1, <1>3
    <3>2. /\ q \in Seq(AllBytes) /\ Len(q) = used'
          /\ \A i \in 1 .. used' : q[i] = buffer'[Slot(head', i - 1)]
      BY <1>4, <1>5, <3>1, QueueIsSeq
    <3> HIDE DEF q
    <3>3. used' = used + n /\ head' = head
      BY <1>3
    <3> QED BY <3>2, <3>3
  <2> HIDE DEF q
  <2>2. q = received'
    <3>1. \A i \in 1 .. Len(q) : q[i] = received'[i]
      BY <1>10, <2>1
    <3>2. /\ q \in Seq(AllBytes) /\ received' \in Seq(AllBytes)
          /\ Len(q) = Len(received')
      BY <1>9, <2>1
    <3> QED BY ONLY <3>1, <3>2, SeqEqual
  <2> QED BY <2>2, HeldIsQueue DEF q
<1> QED BY <1>1, <1>3, <1>4, <1>5, <1>8, <1>9, <1>11
        DEF Ring, RingHoldsReceived, Slot

(* consume and resync: the first n bytes go. *)
LEMMA AdvanceRing ==
  ASSUME Ring, NEW n \in 0 .. used, Advance(n),
         received' = SubSeq(received, n + 1, Len(received))
  PROVE  Ring'
<1> DEFINE B == BUFFER_SIZE
<1>1. /\ B \in Nat /\ B > 0 /\ head \in 0 .. B - 1 /\ used \in 0 .. B
      /\ n \in 0 .. B
  BY Sizes DEF Ring
<1>2. /\ head' = Slot(head, n) /\ used' = used - n
      /\ buffer' = buffer /\ tail' = tail
  BY DEF Advance, Slot
<1>3. /\ tail = Slot(head, used) /\ Len(received) = used
      /\ \A i \in 1 .. used : received[i] = buffer[Slot(head, i - 1)]
  BY RingFacts
<1>4. /\ head' \in 0 .. B - 1 /\ used' \in 0 .. B
      /\ head + n < B => head' = head + n
      /\ head + n >= B => head' = head + n - B
  <2>1. used - n \in 0 .. B
    BY <1>1
  <2>2. /\ Slot(head, n) \in 0 .. B - 1
        /\ head + n < B => Slot(head, n) = head + n
        /\ head + n >= B => Slot(head, n) = head + n - B
    BY <1>1, SlotValue
  <2> QED BY <1>2, <2>1, <2>2
<1>5. ASSUME NEW j \in 0 .. used - n PROVE Slot(head', j) = Slot(head, n + j)
  <2>1. j \in Nat /\ n + j <= B
    BY <1>1
  <2> QED BY <1>1, <1>2, <2>1, SlotShift
<1>6. tail' = Slot(head', used')
  <2>1. used - n \in 0 .. used - n /\ n + (used - n) = used
    BY <1>1
  <2>2. Slot(head', used - n) = Slot(head, used)
    BY <1>5, <2>1
  <2> QED BY <1>2, <1>3, <2>2
<1>7. /\ received' \in Seq(AllBytes) /\ Len(received') = used - n
      /\ \A i \in 1 .. used - n : received'[i] = received[n + i]
  BY <1>3, SplitAt DEF Ring
<1>8. ASSUME NEW i \in 1 .. used - n
      PROVE  received'[i] = buffer[Slot(head', i - 1)]
  <2>1. n + i \in 1 .. used /\ i - 1 \in 0 .. used - n /\ n + (i - 1) = n + i - 1
    BY <1>1
  <2>2. Slot(head', i - 1) = Slot(head, n + i - 1)
    BY <1>5, <2>1
  <2> QED BY <1>3, <1>7, <2>1, <2>2
<1>9. Held' = received'
  <2> DEFINE q == Queue(buffer', head', used')
  <2>1. /\ q \in Seq(AllBytes) /\ Len(q) = used'
        /\ \A i \in 1 .. used' : q[i] = buffer'[Slot(head', i - 1)]
    BY <1>2, <1>4, QueueIsSeq DEF Ring
  <2> HIDE DEF q
  <2>2. \A i \in 1 .. used - n : q[i] = received'[i]
    BY <1>2, <1>8, <2>1
  <2>3. q = received'
    BY <1>2, <1>7, <2>1, <2>2, SeqEqual
  <2> QED BY <2>3, HeldIsQueue DEF q
<1> QED BY <1>2, <1>4, <1>6, <1>7, <1>9 DEF Ring, RingHoldsReceived, Slot

(* clear *)
LEMMA ClearRing ==
  ASSUME Ring, clear, received' = << >>
  PROVE  Ring'
<1>1. BUFFER_SIZE \in Nat /\ BUFFER_SIZE > 0
  BY Sizes
<1>2. head' = 0 /\ tail' = 0 /\ used' = 0 /\ buffer' = buffer
  BY DEF clear
<1>3. 0 \in 0 .. BUFFER_SIZE - 1 /\ 0 \in 0 .. BUFFER_SIZE /\ 0 + 0 < BUFFER_SIZE
  BY <1>1
<1>4. Slot(0, 0) = 0
  BY <1>3, SlotValue
<1>5. Held' = << >>
  <2>1. Queue(buffer', 0, 0) \in Seq(AllBytes) /\ Len(Queue(buffer', 0, 0)) = 0
    BY <1>2, <1>3, QueueIsSeq DEF Ring
  <2>2. Held' = Queue(buffer', 0, 0)
    BY <1>2, HeldIsQueue
  <2> QED BY <2>1, <2>2
<1> QED BY <1>2, <1>3, <1>4, <1>5 DEF Ring, RingHoldsReceived, Slot

(* peekMessage finds the length in the first byte received, and a body     *)
(* that is what was received after the header.                             *)
LEMMA PeekedIsReceived ==
  ASSUME Ring, MessageReady
  PROVE  /\ HeaderLength \in Nat /\ HeaderLength > 0
         /\ HEADER_SIZE + HeaderLength \in 0 .. used
         /\ received[1].val = HeaderLength
         /\ PeekedBody \in Seq(AllBytes) /\ Len(PeekedBody) = HeaderLength
         /\ \A i \in 1 .. HeaderLength : PeekedBody[i] = received[HEADER_SIZE + i]
<1> DEFINE B == BUFFER_SIZE
           L == HeaderLength
           start == Slot(head, 2)
           contiguous == Least(L, B - start)
<1>1. /\ B \in Nat /\ B > 0 /\ HEADER_SIZE = 2
      /\ head \in 0 .. B - 1 /\ used \in 0 .. B
  BY Sizes DEF Ring
<1>2. L \in Nat /\ L > 0 /\ used >= 2 + L
  BY <1>1, Sizes DEF MessageReady, ValidHeader
<1>3. /\ Len(received) = used
      /\ \A i \in 1 .. used : received[i] = buffer[Slot(head, i - 1)]
  BY RingFacts
<1>4. received[1].val = L
  <2>1. 1 \in 1 .. used /\ 1 - 1 = 0
    BY <1>1, <1>2
  <2>2. received[1] = buffer[Slot(head, 0)]
    BY <1>3, <2>1
  <2> QED BY <2>2 DEF HeaderLength, At, Slot
<1>5. 2 \in 0 .. B
  BY <1>1, <1>2
<1>6. /\ start \in 0 .. B - 1
      /\ head + 2 < B => start = head + 2
      /\ head + 2 >= B => start = head + 2 - B
  BY <1>1, <1>5, SlotValue
<1>7. PeekedBody = [i \in 1 .. L |-> IF i <= contiguous THEN buffer[start + i - 1]
                                     ELSE buffer[i - contiguous - 1]]
  BY <1>1 DEF PeekedBody, Slot
<1> HIDE DEF L, start
<1>8. /\ contiguous \in 0 .. L /\ contiguous <= B - start
      /\ contiguous < L => contiguous = B - start
  BY <1>1, <1>2, <1>6 DEF Least
<1> HIDE DEF contiguous
<1>9. ASSUME NEW i \in 1 .. L
      PROVE  PeekedBody[i] = received[2 + i] /\ received[2 + i] \in AllBytes
  <2> DEFINE k == Slot(head, 2 + i - 1)
  <2>1. 2 + i - 1 \in 0 .. B /\ 2 + i \in 1 .. used
    BY <1>1, <1>2
  <2>2. /\ head + (2 + i - 1) < B => k = head + (2 + i - 1)
        /\ head + (2 + i - 1) >= B => k = head + (2 + i - 1) - B
    BY <1>1, <2>1, SlotValue
  <2>3. received[2 + i] = buffer[k] /\ received[2 + i] \in AllBytes
    BY <1>3, <2>1 DEF Ring
  <2> HIDE DEF k
  <2>4. CASE i <= contiguous
    <3>1. k = start + i - 1
      BY <1>1, <1>2, <1>6, <1>8, <2>2, <2>4
    <3> QED BY <1>7, <2>3, <2>4, <3>1
  <2>5. CASE ~ (i <= contiguous)
    <3>1. k = i - contiguous - 1
      BY <1>1, <1>2, <1>6, <1>8, <2>2, <2>5
    <3> QED BY <1>7, <2>3, <2>5, <3>1
  <2> QED BY <2>4, <2>5
<1>10. PeekedBody \in [1 .. L -> AllBytes]
  BY <1>7, <1>9
<1>11. PeekedBody \in Seq(AllBytes) /\ Len(PeekedBody) = L
  BY <1>2, <1>10, FunctionIsSeq
<1>12. HEADER_SIZE + L \in 0 .. used
  BY <1>1, <1>2
<1> QED BY <1>1, <1>2, <1>4, <1>9, <1>11, <1>12 DEF L

-----------------------------------------------------------------------------
(* The bytes on their way *)

LEMMA AheadFacts ==
  ASSUME received \in Seq(AllBytes), inflight \in Seq(AllBytes)
  PROVE  /\ Ahead \in Seq(AllBytes) /\ Len(Ahead) \in Nat
         /\ Len(Ahead) = Len(received) + Len(inflight)
         /\ Len(received) \in Nat /\ Len(inflight) \in Nat
         /\ \A i \in 1 .. Len(received) : Ahead[i] = received[i]
         /\ \A i \in 1 .. Len(inflight) : Ahead[Len(received) + i] = inflight[i]
         /\ \A i \in 1 .. Len(Ahead) : Ahead[i] \in AllBytes
BY JoinElements DEF Ahead

(* The bytes of a message: its number is on each of them, and the first    *)
(* holds the length of the body.                                           *)
LEMMA EncodeFacts ==
  ASSUME NEW m \in Messages, NEW n \in Nat
  PROVE  /\ Len(m.body) \in Nat /\ Len(m.body) > 0
         /\ Encode(m, n) \in Seq(AllBytes)
         /\ Len(Encode(m, n)) = HEADER_SIZE + Len(m.body)
         /\ Encode(m, n)[1].val = Len(m.body)
         /\ \A i \in 1 .. HEADER_SIZE + Len(m.body) :
              Encode(m, n)[i].msg = n /\ Encode(m, n)[i].pos = i
<1> DEFINE h == Header(m)
           data == h \o m.body
           L == Len(m.body)
           f == Encode(m, n)
<1>1. /\ L \in Nat /\ L > 0 /\ m.body \in Seq(Nat)
      /\ m.type \in Nat /\ HEADER_SIZE = 2
  BY MessagesAssumption, Sizes DEF QUOTE_TYPE, TRADE_TYPE
<1>2. h \in Seq(Nat) /\ Len(h) = 2 /\ h[1] = L
  BY <1>1 DEF Header
<1> HIDE DEF h
<1>3. /\ data \in Seq(Nat) /\ Len(data) = 2 + L /\ DOMAIN data = 1 .. 2 + L
      /\ data[1] = L
  <2> DEFINE b == m.body
  <2>1. h \in Seq(Nat) /\ b \in Seq(Nat)
    BY <1>1, <1>2
  <2> HIDE DEF b
  <2>2. /\ h \o b \in Seq(Nat) /\ Len(h \o b) = Len(h) + Len(b)
        /\ DOMAIN (h \o b) = 1 .. Len(h) + Len(b)
        /\ \A i \in 1 .. Len(h) : (h \o b)[i] = h[i]
    BY <2>1, JoinElements
  <2>3. data = h \o b /\ L = Len(b)
    BY DEF b
  <2> HIDE DEF data, L
  <2> QED BY <1>1, <1>2, <2>2, <2>3
<1>4. f = [i \in DOMAIN data |-> [val |-> data[i], msg |-> n, pos |-> i]]
  BY DEF Encode, h
<1> HIDE DEF data, f
<1>5. \A i \in 1 .. 2 + L : data[i] \in Nat
  BY <1>3
<1>6. f \in [1 .. 2 + L -> AllBytes]
  BY <1>1, <1>3, <1>4, <1>5 DEF AllBytes
<1>7. f \in Seq(AllBytes) /\ Len(f) = 2 + L
  BY <1>1, <1>6, FunctionIsSeq
<1>8. /\ f[1].val = L
      /\ \A i \in 1 .. 2 + L : f[i].msg = n /\ f[i].pos = i
  BY <1>1, <1>3, <1>4
<1> QED BY <1>1, <1>7, <1>8 DEF f, L

(* Cutting off the first bytes of what comes first *)
LEMMA DropFront ==
  ASSUME NEW S, NEW s \in Seq(S), NEW t \in Seq(S), NEW n \in 0 .. Len(s)
  PROVE  /\ Len(SubSeq(s, n + 1, Len(s)) \o t) = Len(s) + Len(t) - n
         /\ \A i \in 1 .. Len(s) + Len(t) - n :
              /\ n + i \in 1 .. Len(s \o t)
              /\ (SubSeq(s, n + 1, Len(s)) \o t)[i] = (s \o t)[n + i]
<1> DEFINE r == SubSeq(s, n + 1, Len(s))
           u == r \o t
           w == s \o t
<1>1. /\ r \in Seq(S) /\ Len(r) = Len(s) - n /\ Len(s) \in Nat /\ Len(t) \in Nat
      /\ \A i \in 1 .. Len(s) - n : r[i] = s[n + i]
  BY SplitAt
<1> HIDE DEF r
<1>2. /\ Len(u) = Len(r) + Len(t)
      /\ \A i \in 1 .. Len(r) : u[i] = r[i]
      /\ \A i \in Len(r) + 1 .. Len(r) + Len(t) : u[i] = t[i - Len(r)]
  <2>1. r \in Seq(S) /\ t \in Seq(S)
    BY <1>1
  <2> QED BY ONLY <2>1, JoinElements
<1>3. /\ Len(w) = Len(s) + Len(t)
      /\ \A i \in 1 .. Len(s) : w[i] = s[i]
      /\ \A i \in Len(s) + 1 .. Len(s) + Len(t) : w[i] = t[i - Len(s)]
  BY JoinElements
<1> HIDE DEF u, w
<1>4. ASSUME NEW i \in 1 .. Len(s) + Len(t) - n
      PROVE  n + i \in 1 .. Len(w) /\ u[i] = w[n + i]
  <2>1. n + i \in 1 .. Len(w)
    BY <1>1, <1>3
  <2>2. CASE i <= Len(s) - n
    <3>1. i \in 1 .. Len(s) - n /\ n + i \in 1 .. Len(s) /\ i \in 1 .. Len(r)
      BY <1>1, <2>2
    <3> QED BY <1>1, <1>2, <1>3, <2>1, <3>1
  <2>3. CASE i > Len(s) - n
    <3>1. /\ i \in Len(r) + 1 .. Len(r) + Len(t)
          /\ n + i \in Len(s) + 1 .. Len(s) + Len(t)
          /\ i - Len(r) = (n + i) - Len(s)
      BY <1>1, <2>3
    <3> QED BY <1>2, <1>3, <2>1, <3>1
  <2> QED BY <1>1, <2>2, <2>3
<1>5. Len(u) = Len(s) + Len(t) - n
  BY <1>1, <1>2
<1> QED BY <1>4, <1>5 DEF u, w, r

(* Ahead' is a part of Ahead, which begins off bytes later. *)
Shifted(off) ==
  /\ off \in Nat
  /\ \A i \in 1 .. Len(Ahead') : off + i \in 1 .. Len(Ahead)
                                /\ Ahead'[i] = Ahead[off + i]

(* Losing bytes keeps the order of the others. *)
LEMMA OrderKept ==
  ASSUME OrderInv, NEW off, Shifted(off), sent' = sent, delivered' = delivered,
         Len(Ahead) \in Nat, Len(Ahead') \in Nat
  PROVE  OrderInv'
<1>1. \A i \in 1 .. Len(Ahead') : off + i \in 1 .. Len(Ahead)
                                /\ Ahead'[i] = Ahead[off + i]
  BY DEF Shifted
<1>2. Ascending(Ahead')
  <2> SUFFICES ASSUME NEW i \in 1 .. Len(Ahead'), NEW j \in 1 .. Len(Ahead'), i < j
               PROVE  Before(Ahead'[i], Ahead'[j])
    BY DEF Ascending
  <2>1. off + i < off + j
    BY DEF Shifted
  <2> QED BY <1>1, <2>1 DEF OrderInv, Ascending
<1>3. \A j \in 1 .. Len(Ahead') :
        1 <= Ahead'[j].msg /\ Ahead'[j].msg <= Len(sent')
  BY <1>1 DEF OrderInv
<1>4. \A i \in 1 .. Len(delivered) : \A k \in 1 .. Len(delivered[i]) :
        /\ delivered[i][k].msg <= Len(sent)
        /\ \A j \in 1 .. Len(Ahead') : Before(delivered[i][k], Ahead'[j])
  BY <1>1 DEF OrderInv
<1>5. NothingTwice'
  BY DEF OrderInv, NothingTwice
<1> QED BY <1>2, <1>3, <1>4, <1>5 DEF OrderInv

LEMMA JoinThree ==
  ASSUME NEW s \in Seq(AllBytes), NEW t \in Seq(AllBytes),
         NEW u \in Seq(AllBytes)
  PROVE  (s \o t) \o u = s \o (t \o u)
BY ConcatAssociative

(* Steps of the stream that add or take nothing *)
LEMMA StreamKept ==
  ASSUME StreamInv, Ahead' = Ahead, cut' = cut,
         UNCHANGED <<sent, delivered, missed>>
  PROVE  StreamInv'
<1>1. /\ \A n : Size(n)' = Size(n) /\ Body(n)' = Body(n)
      /\ \A i : Number(i)' = Number(i)
  BY DEF Size, Number, Body
<1>2. Due' = Due
  BY <1>1 DEF Due, ValidBody
<1>3. ASSUME NEW first, WholeFrom(first) PROVE WholeFrom(first)'
  BY <1>1, <1>3 DEF WholeFrom, Size
<1>4. ASSUME NEW first, DoneBefore(first) PROVE DoneBefore(first)'
  BY <1>1, <1>2, <1>4 DEF DoneBefore, Number, Body
<1> QED BY <1>3, <1>4 DEF StreamInv

-----------------------------------------------------------------------------
(* The server sends a message: its bytes come last. *)

Joined(e) ==
  /\ e \in Seq(AllBytes) /\ Len(Ahead') = Len(Ahead) + Len(e)
  /\ \A i \in 1 .. Len(Ahead) : Ahead'[i] = Ahead[i]
  /\ \A i \in 1 .. Len(e) : Ahead'[Len(Ahead) + i] = e[i]
  /\ \A i \in 1 .. Len(Ahead') :
       \/ i \in 1 .. Len(Ahead)
       \/ i - Len(Ahead) \in 1 .. Len(e) /\ Ahead'[i] = e[i - Len(Ahead)]

LEMMA ServerJoins ==
  ASSUME received \in Seq(AllBytes), inflight \in Seq(AllBytes),
         NEW e \in Seq(AllBytes), received' = received, inflight' = inflight \o e
  PROVE  Joined(e)
<1>1. Ahead' = (received \o inflight) \o e
  <2>1. received \in Seq(AllBytes) /\ inflight \in Seq(AllBytes) /\ e \in Seq(AllBytes)
    OBVIOUS
  <2>2. (received \o inflight) \o e = received \o (inflight \o e)
    BY ONLY <2>1, JoinThree, Zenon
  <2> QED BY <2>2 DEF Ahead
<1> DEFINE a == received \o inflight
<1>2. a \in Seq(AllBytes) /\ a = Ahead
  BY JoinElements DEF Ahead
<1> HIDE DEF a
<1>3. /\ Len(a \o e) = Len(a) + Len(e) /\ Len(a) \in Nat /\ Len(e) \in Nat
      /\ \A i \in 1 .. Len(a) : (a \o e)[i] = a[i]
      /\ \A i \in 1 .. Len(e) : (a \o e)[Len(a) + i] = e[i]
      /\ \A i \in Len(a) + 1 .. Len(a) + Len(e) : (a \o e)[i] = e[i - Len(a)]
  BY <1>2, JoinElements
<1>4. Ahead' = a \o e
  BY <1>1 DEF a
<1> DEFINE w == a \o e
<1> HIDE DEF w
<1>5. ASSUME NEW i \in 1 .. Len(w)
      PROVE  \/ i \in 1 .. Len(a)
             \/ i - Len(a) \in 1 .. Len(e) /\ w[i] = e[i - Len(a)]
  BY <1>3 DEF w
<1> QED BY <1>2, <1>3, <1>4, <1>5 DEF Joined, w

LEMMA OrderServer ==
  ASSUME OrderInv, NEW e, Joined(e), delivered' = delivered,
         Len(Ahead) \in Nat, Len(sent) \in Nat, Len(sent') = Len(sent) + 1,
         Len(e) \in Nat,
         \A i \in 1 .. Len(e) : e[i].msg = Len(sent) + 1 /\ e[i].pos = i,
         \A i \in 1 .. Len(Ahead) : Ahead[i].msg \in Nat,
         \A i \in 1 .. Len(delivered) : \A k \in 1 .. Len(delivered[i]) :
           delivered[i][k].msg \in Nat
  PROVE  OrderInv'
<1> DEFINE N == Len(sent) + 1
<1>1. ASSUME NEW i \in 1 .. Len(Ahead')
      PROVE  \/ /\ i \in 1 .. Len(Ahead) /\ Ahead'[i] = Ahead[i]
                /\ 1 <= Ahead[i].msg /\ Ahead[i].msg < N
             \/ /\ i > Len(Ahead) /\ Ahead'[i].msg = N
                /\ Ahead'[i].pos = i - Len(Ahead)
  <2>1. CASE i \in 1 .. Len(Ahead)
    BY <2>1 DEF Joined, OrderInv
  <2>2. CASE i - Len(Ahead) \in 1 .. Len(e) /\ Ahead'[i] = e[i - Len(Ahead)]
    BY <2>2
  <2> QED BY <2>1, <2>2 DEF Joined
<1>2. ASSUME NEW i \in 1 .. Len(Ahead'), NEW j \in 1 .. Len(Ahead'), i < j
      PROVE  Before(Ahead'[i], Ahead'[j])
  <2>1. CASE j \in 1 .. Len(Ahead) /\ Ahead'[j] = Ahead[j]
    <3>1. i \in 1 .. Len(Ahead) /\ Ahead'[i] = Ahead[i]
      BY <1>2, <2>1 DEF Joined
    <3> QED BY <1>2, <2>1, <3>1 DEF OrderInv, Ascending
  <2>2. CASE j > Len(Ahead) /\ Ahead'[j].msg = N /\ Ahead'[j].pos = j - Len(Ahead)
    <3>1. CASE Ahead'[i] = Ahead[i] /\ Ahead[i].msg < N
      BY <2>2, <3>1 DEF Before
    <3>2. CASE Ahead'[i].msg = N /\ Ahead'[i].pos = i - Len(Ahead)
      <4>1. i - Len(Ahead) < j - Len(Ahead)
        BY <1>2 DEF Joined
      <4> QED BY <2>2, <3>2, <4>1 DEF Before
    <3> QED BY <1>1, <3>1, <3>2
  <2> QED BY <1>1, <2>1, <2>2
<1>3. ASSUME NEW i \in 1 .. Len(delivered), NEW k \in 1 .. Len(delivered[i])
      PROVE  /\ delivered[i][k].msg <= N
             /\ \A j \in 1 .. Len(Ahead') : Before(delivered[i][k], Ahead'[j])
  <2>1. delivered[i][k].msg < N
    BY DEF OrderInv
  <2>2. ASSUME NEW j \in 1 .. Len(Ahead') PROVE Before(delivered[i][k], Ahead'[j])
    <3>1. CASE j \in 1 .. Len(Ahead) /\ Ahead'[j] = Ahead[j]
      BY <3>1 DEF OrderInv
    <3>2. CASE Ahead'[j].msg = N
      BY <2>1, <3>2 DEF Before
    <3> QED BY <1>1, <3>1, <3>2
  <2> QED BY <2>1, <2>2
<1>4. \A j \in 1 .. Len(Ahead') : 1 <= Ahead'[j].msg /\ Ahead'[j].msg <= N
  BY <1>1
<1>5. NothingTwice'
  BY DEF OrderInv, NothingTwice
<1> QED BY <1>2, <1>3, <1>4, <1>5 DEF OrderInv, Ascending

LEMMA StreamServer ==
  ASSUME StreamInv, NEW m \in Messages, NEW e, e = Encode(m, Len(sent) + 1),
         Joined(e), sent \in Seq(Messages), sent' = Append(sent, m),
         UNCHANGED <<delivered, missed, cut>>, Len(Ahead) \in Nat
  PROVE  StreamInv'
<1> DEFINE N == Len(sent) + 1
<1>1. /\ Len(sent) \in Nat /\ N \in Nat /\ Len(sent') = N /\ sent'[N] = m
      /\ \A n \in 1 .. Len(sent) : sent'[n] = sent[n]
  OBVIOUS
<1>2. /\ Len(e) = HEADER_SIZE + Len(m.body) /\ Len(e) \in Nat
      /\ \A i \in 1 .. Len(e) : e[i].msg = N /\ e[i].pos = i
  <2>1. /\ Len(e) = HEADER_SIZE + Len(m.body) /\ Len(m.body) \in Nat
        /\ \A i \in 1 .. HEADER_SIZE + Len(m.body) : e[i].msg = N /\ e[i].pos = i
    <3>1. m \in Messages /\ N \in Nat /\ e = Encode(m, N)
      BY <1>1
    <3> HIDE DEF N
    <3> QED BY ONLY <3>1, EncodeFacts
  <2> QED BY <2>1, Sizes
<1> SUFFICES ASSUME ~ cut
             PROVE  \E first \in 1 .. Len(sent') + 1 :
                      WholeFrom(first)' /\ DoneBefore(first)'
  BY DEF StreamInv
<1>3. PICK first \in 1 .. N : WholeFrom(first) /\ DoneBefore(first)
  BY DEF StreamInv
<1> HIDE DEF N
<1>4. /\ \A i \in 1 .. Len(Ahead) : Ahead'[i] = Ahead[i]
      /\ \A i \in 1 .. Len(e) : Ahead'[Len(Ahead) + i] = e[i]
      /\ Len(Ahead') = Len(Ahead) + Len(e)
      /\ \A i \in 1 .. Len(Ahead') :
           i \in 1 .. Len(Ahead) \/ \E p \in 1 .. Len(e) : i = Len(Ahead) + p
  BY <1>2 DEF Joined
<1> DEFINE NewSize(n) == HEADER_SIZE + Len(sent'[n].body)
<1>5. \A n \in 1 .. Len(sent) : NewSize(n) = Size(n) /\ Body(n)' = Body(n)
  BY <1>1 DEF Size, Body
<1>6. NewSize(N) = Len(e) /\ e = Encode(sent'[N], N)
  BY <1>1, <1>2 DEF N
<1> HIDE DEF NewSize
<1>7. ASSUME NEW i \in 1 .. Len(Ahead)
      PROVE  /\ i \in 1 .. Len(Ahead') /\ Ahead'[i] = Ahead[i]
             /\ Ahead[i].msg \in first .. Len(sent) /\ Ahead[i].msg # N
             /\ Ahead[i].pos \in 1 .. NewSize(Ahead[i].msg)
             /\ Ahead[i] = Encode(sent'[Ahead[i].msg], Ahead[i].msg)[Ahead[i].pos]
  <2> DEFINE n == Ahead[i].msg
  <2>1. /\ n \in first .. Len(sent) /\ Ahead[i].pos \in 1 .. Size(n)
        /\ Ahead[i] = Encode(sent[n], n)[Ahead[i].pos]
    BY <1>3 DEF WholeFrom
  <2>2. n \in 1 .. Len(sent) /\ n # N
    BY <1>1, <2>1 DEF N
  <2>3. i \in 1 .. Len(Ahead')
    BY <1>2, <1>4
  <2>4. sent'[n] = sent[n] /\ NewSize(n) = Size(n)
    BY <1>1, <1>5, <2>2
  <2> QED BY <1>4, <2>1, <2>2, <2>3, <2>4
<1>8. ASSUME NEW p \in 1 .. Len(e)
      PROVE  /\ Len(Ahead) + p \in 1 .. Len(Ahead')
             /\ Ahead'[Len(Ahead) + p] = e[p]
             /\ e[p].msg = N /\ e[p].pos = p
  <2>1. Len(Ahead) + p \in 1 .. Len(Ahead')
    BY <1>2, <1>4
  <2>2. Ahead'[Len(Ahead) + p] = e[p] /\ e[p].msg = N /\ e[p].pos = p
    BY <1>2, <1>4
  <2> QED BY <2>1, <2>2
<1>9. ASSUME NEW i \in 1 .. Len(Ahead')
      PROVE  /\ Ahead'[i].msg \in first .. N
             /\ Ahead'[i].pos \in 1 .. NewSize(Ahead'[i].msg)
             /\ Ahead'[i] = Encode(sent'[Ahead'[i].msg], Ahead'[i].msg)[Ahead'[i].pos]
  <2>1. CASE i \in 1 .. Len(Ahead)
    <3>1. first .. Len(sent) \subseteq first .. N
      BY <1>1 DEF N
    <3> QED BY <1>7, <2>1, <3>1
  <2>2. ASSUME NEW p \in 1 .. Len(e), i = Len(Ahead) + p
        PROVE  /\ Ahead'[i].msg = N /\ Ahead'[i].pos = p /\ Ahead'[i] = e[p]
    <3>1. /\ Ahead'[Len(Ahead) + p] = e[p] /\ e[p].msg = N /\ e[p].pos = p
      BY <1>8
    <3> QED BY <2>2, <3>1
  <2>3. N \in first .. N
    BY <1>1
  <2>4. CASE \E p \in 1 .. Len(e) : i = Len(Ahead) + p
    BY <1>6, <2>2, <2>3, <2>4
  <2> QED BY <1>4, <2>1, <2>4
<1>10. ASSUME NEW i \in 1 .. Len(Ahead'), NEW j \in 1 .. Len(Ahead'),
              Ahead'[i].msg = Ahead'[j].msg
       PROVE  i - Ahead'[i].pos = j - Ahead'[j].pos
  <2>1. CASE i \in 1 .. Len(Ahead) /\ j \in 1 .. Len(Ahead)
    <3>1. /\ Ahead'[i] = Ahead[i] /\ Ahead'[j] = Ahead[j]
          /\ Ahead[i].msg = Ahead[j].msg
      BY <1>4, <1>10, <2>1
    <3>2. i - Ahead[i].pos = j - Ahead[j].pos
      BY <1>3, <2>1, <3>1 DEF WholeFrom
    <3> QED BY <3>1, <3>2
  <2>2. CASE /\ \E p \in 1 .. Len(e) : i = Len(Ahead) + p
             /\ \E p \in 1 .. Len(e) : j = Len(Ahead) + p
    <3>1. PICK p \in 1 .. Len(e) : i = Len(Ahead) + p
      BY <2>2
    <3>2. PICK q \in 1 .. Len(e) : j = Len(Ahead) + q
      BY <2>2
    <3>3. Ahead'[i].pos = p /\ Ahead'[j].pos = q
      BY <1>8, <3>1, <3>2
    <3>4. i - p = Len(Ahead) /\ j - q = Len(Ahead)
      BY <1>2, <3>1, <3>2
    <3> QED BY <3>3, <3>4
  <2>3. CASE \/ /\ i \in 1 .. Len(Ahead)
                /\ \E p \in 1 .. Len(e) : j = Len(Ahead) + p
             \/ /\ j \in 1 .. Len(Ahead)
                /\ \E p \in 1 .. Len(e) : i = Len(Ahead) + p
    <3>1. ASSUME NEW k \in 1 .. Len(Ahead), NEW p \in 1 .. Len(e)
          PROVE  Ahead'[k].msg # Ahead'[Len(Ahead) + p].msg
      <4>1. Ahead'[k].msg # N
        <5>1. Ahead'[k] = Ahead[k] /\ Ahead[k].msg # N
          BY <1>7
        <5> QED BY <5>1
      <4>2. Ahead'[Len(Ahead) + p].msg = N
        <5>1. Ahead'[Len(Ahead) + p] = e[p] /\ e[p].msg = N
          BY <1>8
        <5> QED BY <5>1
      <4> QED BY <4>1, <4>2
    <3> QED BY <1>10, <2>3, <3>1
  <2> QED BY <1>4, <2>1, <2>2, <2>3
<1>11. ASSUME NEW n \in first .. N, NEW p \in 1 .. NewSize(n)
       PROVE  \E i \in 1 .. Len(Ahead') : Ahead'[i].msg = n /\ Ahead'[i].pos = p
  <2>1. CASE n = N
    <3>1. p \in 1 .. Len(e)
      BY <1>6, <2>1
    <3>2. /\ Len(Ahead) + p \in 1 .. Len(Ahead')
          /\ Ahead'[Len(Ahead) + p] = e[p] /\ e[p].msg = N /\ e[p].pos = p
      BY <1>8, <3>1
    <3> QED BY <2>1, <3>2
  <2>2. CASE n # N
    <3>1. n \in first .. Len(sent) /\ n \in 1 .. Len(sent)
      BY <1>1, <2>2 DEF N
    <3>2. p \in 1 .. Size(n)
      BY <1>5, <3>1
    <3>3. PICK i \in 1 .. Len(Ahead) : Ahead[i].msg = n /\ Ahead[i].pos = p
      <4>1. \A a \in first .. Len(sent) : \A b \in 1 .. Size(a) :
              \E i \in 1 .. Len(Ahead) : Ahead[i].msg = a /\ Ahead[i].pos = b
        BY <1>3 DEF WholeFrom
      <4> QED BY ONLY <3>1, <3>2, <4>1
    <3> QED BY <1>7, <3>3
  <2> QED BY <2>1, <2>2
<1>12. WholeFrom(first)'
  BY <1>1, <1>9, <1>10, <1>11 DEF WholeFrom, Size, NewSize
<1>13. \A n \in 1 .. Len(sent) : n \in Due' <=> n \in Due
  <2>1. 1 .. Len(sent) \subseteq 1 .. Len(sent')
    BY <1>1 DEF N
  <2>2. Due' = {n \in 1 .. Len(sent') : n \notin missed /\ ValidBody(Body(n)')}
    BY DEF Due, ValidBody
  <2> QED BY <1>5, <2>1, <2>2 DEF Due, ValidBody
<1>14. DoneBefore(first)'
  <2>1. ASSUME NEW i \in 1 .. Len(delivered)
        PROVE  /\ Number(i)' \in Due' /\ Number(i)' < first
               /\ delivered'[i] = Body(Number(i))'
    <3> DEFINE n == Number(i)
    <3>1. n \in Due /\ n < first /\ delivered[i] = Body(n)
      BY <1>3 DEF DoneBefore
    <3>2. n \in 1 .. Len(sent)
      BY <3>1 DEF Due
    <3>3. Number(i)' = n
      BY DEF Number
    <3> HIDE DEF n
    <3>4. Body(Number(i))' = Body(n)
      <4>1. Body(Number(i))' = SubSeq(Encode(sent'[n], n), HEADER_SIZE + 1,
                                      HEADER_SIZE + Len(sent'[n].body))
        BY <3>3 DEF Body
      <4> QED BY <1>1, <3>2, <4>1 DEF Body
    <3> QED BY <1>13, <3>1, <3>2, <3>3, <3>4
  <2>2. ASSUME NEW n \in Due', n < first
        PROVE  \E i \in 1 .. Len(delivered) : Number(i)' = n
    <3>1. n \in 1 .. Len(sent)
      <4>1. n \in 1 .. N
        BY <1>1 DEF Due
      <4> QED BY <1>1, <2>2, <4>1 DEF N
    <3>2. PICK i \in 1 .. Len(delivered) : Number(i) = n
      BY <1>3, <1>13, <2>2, <3>1 DEF DoneBefore
    <3> QED BY <3>2 DEF Number
  <2> QED BY <1>3, <2>1, <2>2 DEF DoneBefore
<1>15. first \in 1 .. Len(sent') + 1
  BY <1>1
<1> QED BY <1>12, <1>14, <1>15

-----------------------------------------------------------------------------
(* The parsing loop takes a message off the front. *)

(* What is delivered, and what is on its way after it *)
LEMMA ParseFacts ==
  ASSUME MarketTypeOK, RingHoldsReceived, ParseMessage
  PROVE  LET L == HeaderLength IN
         /\ L \in Nat /\ L > 0 /\ Shifted(HEADER_SIZE + L)
         /\ HEADER_SIZE + L <= Len(Ahead)
         /\ Len(Ahead') = Len(Ahead) - (HEADER_SIZE + L)
         /\ Ahead[1].val = L
         /\ PeekedBody \in Seq(AllBytes) /\ Len(PeekedBody) = L
         /\ \A k \in 1 .. L : PeekedBody[k] = Ahead[HEADER_SIZE + k]
<1> DEFINE L == HeaderLength
           n == HEADER_SIZE + L
<1>1. Ring /\ MessageReady /\ received \in Seq(AllBytes) /\ inflight \in Seq(AllBytes)
  BY DEF MarketTypeOK, Ring, ParseMessage
<1>2. /\ L \in Nat /\ L > 0 /\ n \in 0 .. used /\ received[1].val = L
      /\ PeekedBody \in Seq(AllBytes) /\ Len(PeekedBody) = L
      /\ \A k \in 1 .. L : PeekedBody[k] = received[HEADER_SIZE + k]
  BY <1>1, PeekedIsReceived
<1>3. Len(received) = used /\ HEADER_SIZE = 2
  BY <1>1, RingFacts, Sizes
<1>4. /\ received' = SubSeq(received, n + 1, Len(received))
      /\ inflight' = inflight
  BY DEF ParseMessage
<1> HIDE DEF L
<1>5. n \in 0 .. Len(received) /\ n \in Nat /\ n = 2 + L
  BY <1>2, <1>3
<1> HIDE DEF n
<1>6. /\ Len(Ahead) = Len(received) + Len(inflight)
      /\ Len(received) \in Nat /\ Len(inflight) \in Nat
      /\ \A i \in 1 .. Len(received) : Ahead[i] = received[i]
  BY <1>1, AheadFacts
<1>7. /\ Len(Ahead') = Len(received) + Len(inflight) - n
      /\ \A i \in 1 .. Len(received) + Len(inflight) - n :
           n + i \in 1 .. Len(Ahead) /\ Ahead'[i] = Ahead[n + i]
  <2> DEFINE u == SubSeq(received, n + 1, Len(received)) \o inflight
  <2>1. Ahead' = u /\ Ahead = received \o inflight
    BY <1>4 DEF Ahead
  <2>2. /\ Len(u) = Len(received) + Len(inflight) - n
        /\ \A i \in 1 .. Len(received) + Len(inflight) - n :
             /\ n + i \in 1 .. Len(received \o inflight)
             /\ u[i] = (received \o inflight)[n + i]
    <3>1. /\ received \in Seq(AllBytes) /\ inflight \in Seq(AllBytes)
          /\ n \in 0 .. Len(received)
      BY <1>1, <1>5
    <3> QED BY <3>1, DropFront
  <2> HIDE DEF u
  <2> QED BY <2>1, <2>2
<1>8. Shifted(n)
  BY <1>5, <1>7 DEF Shifted
<1>9. n <= Len(Ahead) /\ Len(Ahead') = Len(Ahead) - n
  BY <1>5, <1>6, <1>7
<1>10. 1 \in 1 .. Len(received) /\ \A k \in 1 .. L : 2 + k \in 1 .. Len(received)
  BY <1>2, <1>5, <1>6
<1>11. Ahead[1].val = L
  BY <1>2, <1>6, <1>10
<1>12. \A k \in 1 .. L : PeekedBody[k] = Ahead[HEADER_SIZE + k]
  BY <1>2, <1>3, <1>6, <1>10
<1> QED BY <1>2, <1>8, <1>9, <1>11, <1>12 DEF n, L

(* The bytes that are delivered come after those delivered before and      *)
(* ahead of those still to come.                                           *)
LEMMA OrderDeliver ==
  ASSUME OrderInv, NEW L \in Nat, NEW body, Shifted(HEADER_SIZE + L),
         delivered \in Seq(Seq(AllBytes)), body \in Seq(AllBytes),
         delivered' = Append(delivered, body), sent' = sent,
         Len(body) = L, HEADER_SIZE + L <= Len(Ahead), Len(Ahead) \in Nat,
         Len(Ahead') \in Nat,
         \A k \in 1 .. L : body[k] = Ahead[HEADER_SIZE + k]
  PROVE  OrderInv'
<1> DEFINE n == HEADER_SIZE + L
           D == Len(delivered)
<1>1. HEADER_SIZE = 2 /\ n \in Nat /\ D \in Nat
  BY Sizes
<1>2. /\ Len(delivered') = D + 1 /\ delivered'[D + 1] = body
      /\ DOMAIN delivered' = 1 .. D + 1
      /\ \A i \in 1 .. D : delivered'[i] = delivered[i] /\ i \in DOMAIN delivered
      /\ DOMAIN body = 1 .. L
      /\ \A i \in 1 .. D : DOMAIN delivered[i] = 1 .. Len(delivered[i])
  OBVIOUS
<1>3. \A i \in 1 .. Len(Ahead') : n + i \in 1 .. Len(Ahead)
                                /\ Ahead'[i] = Ahead[n + i]
  BY DEF Shifted
<1>4. \A k \in 1 .. L : 2 + k \in 1 .. Len(Ahead) /\ body[k] = Ahead[2 + k]
  BY <1>1
<1>5. Ascending(Ahead')
  <2> SUFFICES ASSUME NEW i \in 1 .. Len(Ahead'), NEW j \in 1 .. Len(Ahead'), i < j
               PROVE  Before(Ahead'[i], Ahead'[j])
    BY DEF Ascending
  <2>1. n + i < n + j
    BY <1>1
  <2> QED BY <1>3, <2>1 DEF OrderInv, Ascending
<1>6. \A j \in 1 .. Len(Ahead') :
        1 <= Ahead'[j].msg /\ Ahead'[j].msg <= Len(sent)
  BY <1>3 DEF OrderInv
<1>7. ASSUME NEW i \in 1 .. D, NEW k \in 1 .. Len(delivered[i])
      PROVE  /\ delivered[i][k].msg <= Len(sent)
             /\ \A j \in 1 .. Len(Ahead') : Before(delivered[i][k], Ahead'[j])
             /\ \A l \in 1 .. L : Before(delivered[i][k], body[l])
  BY <1>3, <1>4 DEF OrderInv
<1>8. ASSUME NEW k \in 1 .. L
      PROVE  /\ body[k].msg <= Len(sent)
             /\ \A j \in 1 .. Len(Ahead') : Before(body[k], Ahead'[j])
             /\ \A l \in 1 .. L : k < l => Before(body[k], body[l])
  <2>1. body[k].msg <= Len(sent)
    BY <1>4 DEF OrderInv
  <2>2. ASSUME NEW j \in 1 .. Len(Ahead') PROVE Before(body[k], Ahead'[j])
    <3>1. 2 + k < n + j
      BY <1>1
    <3> QED BY <1>3, <1>4, <3>1 DEF OrderInv, Ascending
  <2>3. ASSUME NEW l \in 1 .. L, k < l PROVE Before(body[k], body[l])
    <3>1. 2 + k < 2 + l
      BY <2>3
    <3> QED BY <1>4, <3>1 DEF OrderInv, Ascending
  <2> QED BY <2>1, <2>2, <2>3
<1>9. ASSUME NEW i \in 1 .. D + 1, NEW k \in 1 .. Len(delivered'[i])
      PROVE  /\ delivered'[i][k].msg <= Len(sent)
             /\ \A j \in 1 .. Len(Ahead') : Before(delivered'[i][k], Ahead'[j])
  <2>1. CASE i = D + 1
    BY <1>2, <1>8, <2>1
  <2>2. CASE i \in 1 .. D
    <3>1. delivered'[i] = delivered[i] /\ k \in 1 .. Len(delivered[i])
      BY <1>2, <2>2
    <3>2. /\ delivered[i][k].msg <= Len(sent)
          /\ \A j \in 1 .. Len(Ahead') : Before(delivered[i][k], Ahead'[j])
      BY <1>7, <2>2, <3>1
    <3> QED BY ONLY <3>1, <3>2
  <2>3. i = D + 1 \/ i \in 1 .. D
    <3>1. D \in Nat /\ i \in 1 .. D + 1
      BY <1>1
    <3> HIDE DEF D
    <3> QED BY ONLY <3>1
  <2> QED BY ONLY <2>1, <2>2, <2>3
<1>10. ASSUME NEW i \in 1 .. D + 1, NEW j \in 1 .. D + 1,
              NEW k \in DOMAIN delivered'[i], NEW l \in DOMAIN delivered'[j],
              i < j \/ (i = j /\ k < l)
       PROVE  Before(delivered'[i][k], delivered'[j][l])
  <2>1. CASE j \in 1 .. D
    <3>1. i \in 1 .. D
      BY <1>1, <1>10, <2>1
    <3>2. /\ delivered'[i] = delivered[i] /\ delivered'[j] = delivered[j]
          /\ i \in DOMAIN delivered /\ j \in DOMAIN delivered
      BY <1>2, <2>1, <3>1
    <3>3. NothingTwice
      BY DEF OrderInv
    <3> QED BY <1>10, <3>2, <3>3 DEF NothingTwice
  <2>2. CASE j = D + 1 /\ i \in 1 .. D
    <3>1. k \in 1 .. Len(delivered[i]) /\ l \in 1 .. L /\ delivered'[j] = body
          /\ delivered'[i] = delivered[i]
      BY <1>2, <2>2
    <3> QED BY <1>7, <2>2, <3>1
  <2>3. CASE j = D + 1 /\ i = D + 1
    <3>1. k \in 1 .. L /\ l \in 1 .. L /\ k < l /\ delivered'[j] = body
          /\ delivered'[i] = body
      BY <1>1, <1>2, <1>10, <2>3
    <3> QED BY <1>8, <3>1
  <2> QED BY <1>1, <2>1, <2>2, <2>3
<1>11. NothingTwice'
  <2>1. \A i, j \in DOMAIN delivered' :
          \A k \in DOMAIN delivered'[i], l \in DOMAIN delivered'[j] :
            i < j \/ (i = j /\ k < l) => Before(delivered'[i][k], delivered'[j][l])
    <3>1. DOMAIN delivered' = 1 .. D + 1
      BY <1>2
    <3> QED BY ONLY <1>10, <3>1
  <2> QED BY <2>1, Zenon DEF NothingTwice
<1> QED BY <1>2, <1>5, <1>6, <1>9, <1>11 DEF OrderInv

(* What is on its way begins with the message first, byte by byte, and     *)
(* the next one follows it.                                                *)
LEMMA FirstMessage ==
  ASSUME MarketTypeOK, OrderInv, NEW first \in 1 .. Len(sent) + 1,
         WholeFrom(first), Len(Ahead) > 0
  PROVE  /\ first \in 1 .. Len(sent) /\ sent[first] \in Messages
         /\ Size(first) \in Nat /\ Size(first) > 0
         /\ \A k \in 1 .. Size(first) :
              /\ k \in 1 .. Len(Ahead) /\ Ahead[k].msg = first
              /\ Ahead[k].pos = k /\ Ahead[k] = Encode(sent[first], first)[k]
         /\ \A k \in 1 .. Len(Ahead) :
              k > Size(first) => Ahead[k].msg \in first + 1 .. Len(sent)
<1>1. /\ Len(Ahead) \in Nat /\ Len(sent) \in Nat
      /\ \A i \in 1 .. Len(Ahead) : Ahead[i] \in AllBytes
  BY AheadFacts DEF MarketTypeOK
<1>2. \A i \in 1 .. Len(Ahead) :
        /\ Ahead[i].msg \in first .. Len(sent)
        /\ Ahead[i].pos \in 1 .. Size(Ahead[i].msg)
        /\ Ahead[i] = Encode(sent[Ahead[i].msg], Ahead[i].msg)[Ahead[i].pos]
        /\ Ahead[i].pos \in Nat
  BY <1>1 DEF WholeFrom, AllBytes
<1>3. 1 \in 1 .. Len(Ahead)
  BY <1>1
<1>4. first \in 1 .. Len(sent) /\ first \in first .. Len(sent)
  BY <1>1, <1>2, <1>3
<1>5. sent[first] \in Messages
  BY <1>4 DEF MarketTypeOK
<1>6. Size(first) \in Nat /\ Size(first) > 0
  <2>1. Len(sent[first].body) \in Nat
    BY <1>4, <1>5, EncodeFacts
  <2> QED BY <2>1, Sizes DEF Size
<1>7. ASSUME NEW p \in 1 .. Size(first)
      PROVE  \E i \in 1 .. Len(Ahead) : Ahead[i].msg = first /\ Ahead[i].pos = p
  <2>1. \A n \in first .. Len(sent) : \A k \in 1 .. Size(n) :
          \E i \in 1 .. Len(Ahead) : Ahead[i].msg = n /\ Ahead[i].pos = k
    BY DEF WholeFrom
  <2> QED BY ONLY <1>4, <2>1, p \in 1 .. Size(first)
<1>8. Ahead[1].msg = first /\ Ahead[1].pos = 1
  <2>1. 1 \in 1 .. Size(first)
    BY <1>6
  <2>2. PICK i \in 1 .. Len(Ahead) : Ahead[i].msg = first /\ Ahead[i].pos = 1
    BY <1>7, <2>1
  <2>3. CASE i = 1
    BY <2>2, <2>3
  <2>4. CASE i # 1
    <3>1. 1 < i
      BY <1>1, <2>4
    <3>2. Before(Ahead[1], Ahead[i])
      BY <1>3, <3>1 DEF OrderInv, Ascending
    <3>3. /\ Ahead[1].msg \in Nat /\ Ahead[1].msg >= first /\ Ahead[1].pos \in Nat
          /\ Ahead[1].pos >= 1
      <4>1. Ahead[1].pos \in 1 .. Size(Ahead[1].msg) /\ Ahead[1].pos \in Nat
        BY <1>2, <1>3
      <4>2. Ahead[1].pos # 0
        BY <4>1
      <4> QED BY <1>2, <1>3, <1>4, <4>1, <4>2
    <3> QED BY <1>4, <2>2, <3>2, <3>3 DEF Before
  <2> QED BY <2>3, <2>4
<1>9. ASSUME NEW k \in 1 .. Size(first)
      PROVE  /\ k \in 1 .. Len(Ahead) /\ Ahead[k].msg = first
             /\ Ahead[k].pos = k /\ Ahead[k] = Encode(sent[first], first)[k]
  <2>1. PICK i \in 1 .. Len(Ahead) : Ahead[i].msg = first /\ Ahead[i].pos = k
    BY <1>7
  <2>2. i - k = 1 - 1
    BY <1>3, <1>8, <2>1 DEF WholeFrom
  <2>3. i = k
    BY <1>1, <1>6, <2>2
  <2> QED BY <1>2, <2>1, <2>3
<1>10. ASSUME NEW k \in 1 .. Len(Ahead), k > Size(first)
       PROVE  Ahead[k].msg \in first + 1 .. Len(sent)
  <2>1. ASSUME Ahead[k].msg = first PROVE FALSE
    <3>1. k - Ahead[k].pos = 1 - 1 /\ Ahead[k].pos \in 1 .. Size(first)
      <4>1. k - Ahead[k].pos = 1 - Ahead[1].pos
        BY <1>3, <1>8, <2>1 DEF WholeFrom
      <4> QED BY <1>2, <1>8, <2>1, <4>1
    <3>2. Ahead[k].pos = k
      BY <1>1, <1>6, <3>1
    <3> QED BY <1>6, <1>10, <3>1, <3>2
  <2> QED BY <1>1, <1>2, <1>4, <2>1
<1> QED BY <1>4, <1>5, <1>6, <1>9, <1>10

(* Taking the first message off leaves the others whole. *)
LEMMA WholeNext ==
  ASSUME MarketTypeOK, OrderInv, NEW first \in 1 .. Len(sent) + 1,
         WholeFrom(first), Len(Ahead) > 0, sent' = sent,
         Shifted(Size(first)), Len(Ahead') = Len(Ahead) - Size(first)
  PROVE  WholeFrom(first + 1)'
<1> DEFINE z == Size(first)
<1>1. /\ Len(Ahead) \in Nat /\ Len(sent) \in Nat /\ z \in Nat
      /\ first \in 1 .. Len(sent)
      /\ \A k \in 1 .. z : Ahead[k].msg = first
      /\ \A k \in 1 .. Len(Ahead) : k > z => Ahead[k].msg \in first + 1 .. Len(sent)
  <2>1. Len(Ahead) \in Nat /\ Len(sent) \in Nat
    BY AheadFacts DEF MarketTypeOK
  <2> QED BY <2>1, FirstMessage
<1>2. \A i \in 1 .. Len(Ahead') : z + i \in 1 .. Len(Ahead)
                                /\ Ahead'[i] = Ahead[z + i]
  BY DEF Shifted
<1> HIDE DEF z
<1>3. ASSUME NEW i \in 1 .. Len(Ahead')
      PROVE  /\ Ahead'[i].msg \in first + 1 .. Len(sent)
             /\ Ahead'[i].pos \in 1 .. Size(Ahead'[i].msg)
             /\ Ahead'[i] = Encode(sent[Ahead'[i].msg], Ahead'[i].msg)[Ahead'[i].pos]
  <2>1. z + i \in 1 .. Len(Ahead) /\ Ahead'[i] = Ahead[z + i]
    BY <1>2
  <2>2. z + i > z
    BY <1>1
  <2>3. Ahead[z + i].msg \in first + 1 .. Len(sent)
    BY <1>1, <2>1, <2>2
  <2> QED BY <2>1, <2>3 DEF WholeFrom
<1>4. ASSUME NEW i \in 1 .. Len(Ahead'), NEW j \in 1 .. Len(Ahead'),
             Ahead'[i].msg = Ahead'[j].msg
      PROVE  i - Ahead'[i].pos = j - Ahead'[j].pos
  <2>1. /\ z + i \in 1 .. Len(Ahead) /\ Ahead'[i] = Ahead[z + i]
        /\ z + j \in 1 .. Len(Ahead) /\ Ahead'[j] = Ahead[z + j]
    BY <1>2
  <2> DEFINE a == Ahead[z + i].pos
             b == Ahead[z + j].pos
  <2>2. (z + i) - a = (z + j) - b
    <3>1. \A k, l \in 1 .. Len(Ahead) :
            Ahead[k].msg = Ahead[l].msg => k - Ahead[k].pos = l - Ahead[l].pos
      BY DEF WholeFrom
    <3>2. Ahead[z + i].msg = Ahead[z + j].msg
      BY <1>4, <2>1
    <3> QED BY ONLY <2>1, <3>1, <3>2
  <2>3. a \in Nat /\ b \in Nat
    <3>1. Ahead[z + i] \in AllBytes /\ Ahead[z + j] \in AllBytes
      BY <2>1, AheadFacts DEF MarketTypeOK
    <3> QED BY <3>1 DEF AllBytes
  <2> HIDE DEF a, b
  <2>4. i - a = j - b
    BY <1>1, <2>2, <2>3
  <2> QED BY <2>1, <2>4 DEF a, b
<1>5. ASSUME NEW n \in first + 1 .. Len(sent), NEW p \in 1 .. Size(n)
      PROVE  \E i \in 1 .. Len(Ahead') : Ahead'[i].msg = n /\ Ahead'[i].pos = p
  <2>1. n \in first .. Len(sent) /\ n # first
    BY <1>1
  <2>2. PICK i \in 1 .. Len(Ahead) : Ahead[i].msg = n /\ Ahead[i].pos = p
    BY <2>1 DEF WholeFrom
  <2>3. i > z
    BY <1>1, <2>1, <2>2
  <2>4. i - z \in 1 .. Len(Ahead') /\ z + (i - z) = i
    BY <1>1, <2>3 DEF z
  <2>5. Ahead'[i - z] = Ahead[i]
    BY <1>2, <2>4
  <2> QED BY <2>2, <2>4, <2>5
<1> QED BY <1>3, <1>4, <1>5 DEF WholeFrom, Size

(* The message that is delivered is the next one, whole. *)
LEMMA StreamDeliver ==
  ASSUME MarketTypeOK, RingHoldsReceived, OrderInv, StreamInv, ParseMessage
  PROVE  StreamInv'
<1> DEFINE L == HeaderLength
           body == PeekedBody
           D == Len(delivered)
<1>1. /\ L \in Nat /\ L > 0 /\ Shifted(HEADER_SIZE + L)
      /\ HEADER_SIZE + L <= Len(Ahead)
      /\ Len(Ahead') = Len(Ahead) - (HEADER_SIZE + L)
      /\ Ahead[1].val = L
      /\ body \in Seq(AllBytes) /\ Len(body) = L
      /\ \A k \in 1 .. L : body[k] = Ahead[HEADER_SIZE + k]
  BY ParseFacts
<1>2. /\ delivered' = IF ValidBody(body) THEN Append(delivered, body) ELSE delivered
      /\ sent' = sent /\ missed' = missed /\ cut' = cut
  BY DEF ParseMessage
<1> HIDE DEF L, body
<1> SUFFICES ASSUME ~ cut
             PROVE  \E first \in 1 .. Len(sent) + 1 :
                      WholeFrom(first)' /\ DoneBefore(first)'
  BY <1>2 DEF StreamInv
<1>3. PICK first \in 1 .. Len(sent) + 1 : WholeFrom(first) /\ DoneBefore(first)
  BY DEF StreamInv
<1> DEFINE e == Encode(sent[first], first)
<1>4. /\ Len(Ahead) \in Nat /\ Len(Ahead) > 0 /\ HEADER_SIZE = 2
      /\ Len(sent) \in Nat /\ D \in Nat
  <2>1. Len(Ahead) \in Nat
    BY AheadFacts DEF MarketTypeOK
  <2>2. Len(sent) \in Nat /\ D \in Nat
    BY DEF MarketTypeOK
  <2>3. Len(Ahead) > 0
    BY <1>1, <2>1, Sizes
  <2> QED BY <2>1, <2>2, <2>3, Sizes
<1>5. /\ first \in 1 .. Len(sent) /\ sent[first] \in Messages
      /\ Size(first) \in Nat /\ Size(first) > 0
      /\ \A k \in 1 .. Size(first) :
           /\ k \in 1 .. Len(Ahead) /\ Ahead[k].msg = first
           /\ Ahead[k].pos = k /\ Ahead[k] = e[k]
  BY <1>3, <1>4, FirstMessage
<1>6. /\ e \in Seq(AllBytes) /\ Len(e) = 2 + Len(sent[first].body)
      /\ Len(sent[first].body) \in Nat /\ e[1].val = Len(sent[first].body)
  <2>1. first \in Nat /\ sent[first] \in Messages
    BY <1>4, <1>5
  <2>2. /\ e \in Seq(AllBytes) /\ Len(e) = HEADER_SIZE + Len(sent[first].body)
        /\ Len(sent[first].body) \in Nat /\ e[1].val = Len(sent[first].body)
    BY <2>1, EncodeFacts
  <2> QED BY <1>4, <2>2
<1> HIDE DEF e
<1>7. Len(sent[first].body) = L /\ Size(first) = 2 + L
  <2>1. 1 \in 1 .. Size(first)
    BY <1>5
  <2> QED BY <1>1, <1>4, <1>5, <1>6, <2>1 DEF Size
<1>8. WholeFrom(first + 1)'
  BY <1>1, <1>2, <1>3, <1>4, <1>7, WholeNext
<1>9. body = Body(first)
  <2> DEFINE b == SubSeq(e, 2 + 1, Len(e))
  <2>1. 2 \in 0 .. Len(e) /\ Len(e) = 2 + L
    BY <1>1, <1>6, <1>7
  <2>2. /\ b \in Seq(AllBytes) /\ Len(b) = Len(e) - 2
        /\ \A i \in 1 .. Len(e) - 2 : b[i] = e[2 + i]
    BY <1>6, <2>1, SplitAt
  <2>3. b = Body(first)
    BY <1>4, <1>7, <2>1 DEF Body, e
  <2> HIDE DEF b
  <2>4. ASSUME NEW i \in 1 .. L PROVE body[i] = b[i]
    <3>1. 2 + i \in 1 .. Size(first) /\ i \in 1 .. Len(e) - 2
      BY <1>1, <1>7, <2>1
    <3>2. body[i] = Ahead[2 + i]
      BY <1>1, <1>4
    <3>3. Ahead[2 + i] = e[2 + i]
      BY <1>5, <3>1
    <3>4. b[i] = e[2 + i]
      BY <2>2, <3>1
    <3> QED BY ONLY <3>2, <3>3, <3>4
  <2>5. Len(b) = L
    BY <1>1, <2>1, <2>2
  <2>6. body = b
    BY <1>1, <2>2, <2>4, <2>5, SeqEqual
  <2> QED BY <2>3, <2>6
<1>10. body[1].msg = first
  <2>1. 1 \in 1 .. L /\ 2 + 1 \in 1 .. Size(first)
    BY <1>1, <1>7
  <2> QED BY <1>1, <1>4, <1>5, <2>1
<1>11. /\ missed \subseteq 1 .. first - 1
       /\ \A i \in 1 .. D : /\ Number(i) \in Due /\ Number(i) < first
                            /\ delivered[i] = Body(Number(i))
       /\ \A n \in Due : n < first => \E i \in 1 .. D : Number(i) = n
  BY <1>3 DEF DoneBefore
<1>12. first \in Due <=> ValidBody(body)
  <2>1. first \notin missed
    BY <1>5, <1>11
  <2> QED BY <1>5, <1>9, <2>1 DEF Due
<1>13. /\ Due' = Due
       /\ \A i : Number(i)' = delivered'[i][1].msg
       /\ \A i : Body(Number(i))' = Body(delivered'[i][1].msg)
  BY <1>2 DEF Due, Number, Body, ValidBody
<1>14. \A n \in Due : n \in 1 .. Len(sent)
  BY DEF Due
<1>15. missed' \subseteq 1 .. (first + 1) - 1
  BY <1>2, <1>5, <1>11
<1>16. CASE ValidBody(body)
  <2>1. /\ Len(delivered') = D + 1 /\ delivered'[D + 1] = body
        /\ \A i \in 1 .. D : delivered'[i] = delivered[i]
    BY <1>1, <1>2, <1>16 DEF MarketTypeOK
  <2>2. ASSUME NEW i \in 1 .. D + 1
        PROVE  /\ delivered'[i][1].msg \in Due
               /\ delivered'[i][1].msg < first + 1
               /\ delivered'[i] = Body(delivered'[i][1].msg)
    <3>1. CASE i = D + 1
      BY <1>5, <1>9, <1>10, <1>12, <1>16, <2>1, <3>1
    <3>2. CASE i \in 1 .. D
      <4>1. delivered'[i] = delivered[i] /\ delivered[i][1].msg = Number(i)
        BY <2>1, <3>2 DEF Number
      <4>2. Number(i) \in Due /\ Number(i) < first /\ delivered[i] = Body(Number(i))
        BY <1>11, <3>2
      <4>3. Number(i) < first + 1
        BY <1>5, <1>14, <4>2
      <4> QED BY <4>1, <4>2, <4>3
    <3> QED BY <1>4, <3>1, <3>2
  <2>3. ASSUME NEW n \in Due, n < first + 1
        PROVE  \E i \in 1 .. D + 1 : delivered'[i][1].msg = n
    <3>1. CASE n = first
      <4>1. D + 1 \in 1 .. D + 1
        BY <1>4
      <4> QED BY <1>10, <2>1, <3>1, <4>1
    <3>2. CASE n # first
      <4>1. n < first
        BY <1>5, <1>14, <2>3, <3>2
      <4>2. PICK i \in 1 .. D : Number(i) = n
        BY <1>11, <4>1
      <4>3. i \in 1 .. D + 1
        BY <1>4
      <4> QED BY <2>1, <4>2, <4>3 DEF Number
    <3> QED BY <3>1, <3>2
  <2>4. DoneBefore(first + 1)'
    BY <1>13, <1>15, <2>1, <2>2, <2>3 DEF DoneBefore
  <2>5. first + 1 \in 1 .. Len(sent) + 1
    BY <1>4, <1>5
  <2> QED BY <1>8, <2>4, <2>5
<1>17. CASE ~ ValidBody(body)
  <2>1. delivered' = delivered
    BY <1>2, <1>17
  <2>2. ASSUME NEW i \in 1 .. D
        PROVE  /\ delivered[i][1].msg \in Due /\ delivered[i][1].msg < first + 1
               /\ delivered[i] = Body(delivered[i][1].msg)
    <3>1. /\ Number(i) \in Due /\ Number(i) < first /\ delivered[i] = Body(Number(i))
          /\ delivered[i][1].msg = Number(i)
      BY <1>11 DEF Number
    <3>2. Number(i) < first + 1
      BY <1>5, <1>14, <3>1
    <3> QED BY <3>1, <3>2
  <2>3. ASSUME NEW n \in Due, n < first + 1
        PROVE  \E i \in 1 .. D : delivered[i][1].msg = n
    <3>1. n < first
      BY <1>5, <1>12, <1>14, <1>17, <2>3
    <3> QED BY <1>11, <3>1 DEF Number
  <2>4. DoneBefore(first + 1)'
    BY <1>13, <1>15, <2>1, <2>2, <2>3 DEF DoneBefore
  <2>5. first + 1 \in 1 .. Len(sent) + 1
    BY <1>4, <1>5
  <2> QED BY <1>8, <2>4, <2>5
<1> QED BY <1>16, <1>17

-----------------------------------------------------------------------------
(* The steps *)

(* The part of the invariant that is not about the backoff *)
StepInv == MarketTypeOK /\ RingHoldsReceived /\ OrderInv /\ StreamInv

PhaseOK ==
  /\ phase \in {"idle", "reading", "parsing"} /\ rounds \in 0 .. RecvRounds
  /\ phase = "reading" => rounds < RecvRounds

LEMMA TypeParts ==
  MarketTypeOK <=>
    /\ buffer \in [0 .. BUFFER_SIZE - 1 -> AllBytes]
    /\ head \in 0 .. BUFFER_SIZE - 1 /\ tail \in 0 .. BUFFER_SIZE - 1
    /\ used \in 0 .. BUFFER_SIZE /\ PhaseOK
    /\ inflight \in Seq(AllBytes) /\ delivered \in Seq(Seq(AllBytes))
    /\ sent \in Seq(Messages) /\ received \in Seq(AllBytes)
    /\ missed \subseteq 1 .. Len(sent) /\ cut \in BOOLEAN
BY DEF MarketTypeOK, PhaseOK

(* A step that moves no byte *)
LEMMA QuietStep ==
  ASSUME StepInv, UNCHANGED <<bufferVars, inflight, delivered, sent, received,
                              missed, cut>>, PhaseOK'
  PROVE  StepInv'
<1>1. MarketTypeOK'
  BY DEF StepInv, MarketTypeOK, PhaseOK, bufferVars
<1>2. Ahead' = Ahead
  BY DEF Ahead
<1>3. RingHoldsReceived'
  BY DEF StepInv, RingHoldsReceived, Held, At, bufferVars
<1>4. OrderInv'
  BY <1>2 DEF StepInv, OrderInv, Ascending, NothingTwice
<1>5. StreamInv'
  BY <1>2, StreamKept DEF StepInv
<1> QED BY <1>1, <1>3, <1>4, <1>5 DEF StepInv

LEMMA ServerStep ==
  ASSUME StepInv, NEW m \in Messages, ServerSends(m)
  PROVE  StepInv'
<1> DEFINE N == Len(sent) + 1
           e == Encode(m, N)
<1>1. /\ sent' = Append(sent, m) /\ inflight' = inflight \o e
      /\ UNCHANGED <<buffer, head, tail, used, phase, rounds, delivered, received,
                     missed, cut>>
  BY DEF ServerSends, bufferVars
<1>2. /\ received \in Seq(AllBytes) /\ inflight \in Seq(AllBytes)
      /\ sent \in Seq(Messages) /\ Len(sent) \in Nat /\ N \in Nat
      /\ missed \subseteq 1 .. Len(sent) /\ delivered \in Seq(Seq(AllBytes))
  BY DEF StepInv, MarketTypeOK
<1>3. /\ e \in Seq(AllBytes) /\ Len(e) \in Nat
      /\ \A i \in 1 .. Len(e) : e[i].msg = N /\ e[i].pos = i
  <2>1. /\ e \in Seq(AllBytes) /\ Len(e) = HEADER_SIZE + Len(m.body)
        /\ \A i \in 1 .. HEADER_SIZE + Len(m.body) : e[i].msg = N /\ e[i].pos = i
    BY <1>2, EncodeFacts
  <2> HIDE DEF e
  <2> QED BY <2>1
<1> HIDE DEF e
<1>4. Joined(e)
  BY <1>1, <1>2, <1>3, ServerJoins
<1>5. /\ Len(Ahead) \in Nat
      /\ \A i \in 1 .. Len(Ahead) : Ahead[i].msg \in Nat
  <2>1. Len(Ahead) \in Nat /\ \A i \in 1 .. Len(Ahead) : Ahead[i] \in AllBytes
    BY <1>2, AheadFacts
  <2> QED BY <2>1 DEF AllBytes
<1>6. ASSUME NEW i \in 1 .. Len(delivered), NEW k \in 1 .. Len(delivered[i])
      PROVE  delivered[i][k].msg \in Nat
  <2>1. delivered[i] \in Seq(AllBytes)
    BY <1>2
  <2>2. delivered[i][k] \in AllBytes
    BY <2>1
  <2> QED BY <2>2 DEF AllBytes
<1>7. Len(sent') = N /\ sent' \in Seq(Messages)
  BY <1>1, <1>2
<1>8. OrderInv'
  BY <1>1, <1>2, <1>3, <1>4, <1>5, <1>6, <1>7, OrderServer DEF StepInv
<1>9. StreamInv'
  BY <1>1, <1>2, <1>4, <1>5, StreamServer DEF StepInv, e
<1>10. MarketTypeOK'
  <2>1. inflight' \in Seq(AllBytes)
    BY <1>1, <1>2, <1>3, JoinElements
  <2>2. missed \subseteq 1 .. N
    BY <1>2
  <2> QED BY <1>1, <1>7, <2>1, <2>2 DEF StepInv, MarketTypeOK
<1>11. RingHoldsReceived'
  BY <1>1 DEF StepInv, RingHoldsReceived, Held, At
<1> QED BY <1>8, <1>9, <1>10, <1>11 DEF StepInv

LEMMA ParseStep ==
  ASSUME StepInv, ParseMessage
  PROVE  StepInv'
<1> DEFINE L == HeaderLength
           n == HEADER_SIZE + L
<1>1. /\ L \in Nat /\ L > 0 /\ Shifted(n) /\ n <= Len(Ahead)
      /\ Len(Ahead') = Len(Ahead) - n
      /\ PeekedBody \in Seq(AllBytes) /\ Len(PeekedBody) = L
      /\ \A k \in 1 .. L : PeekedBody[k] = Ahead[HEADER_SIZE + k]
  BY ParseFacts DEF StepInv
<1>2. /\ delivered' = IF ValidBody(PeekedBody) THEN Append(delivered, PeekedBody)
                      ELSE delivered
      /\ received' = SubSeq(received, n + 1, Len(received))
      /\ Advance(n)
      /\ UNCHANGED <<phase, rounds, inflight, sent, missed, cut>>
  BY DEF ParseMessage, consume
<1>3. Ring /\ MessageReady /\ delivered \in Seq(Seq(AllBytes))
  BY DEF StepInv, MarketTypeOK, Ring, ParseMessage
<1>4. n \in 0 .. used
  BY <1>3, PeekedIsReceived
<1>5. Ring'
  BY <1>2, <1>3, <1>4, AdvanceRing
<1>6. delivered' \in Seq(Seq(AllBytes))
  BY <1>1, <1>2, <1>3
<1>7. MarketTypeOK'
  BY <1>2, <1>5, <1>6 DEF StepInv, MarketTypeOK, Ring
<1>8. Len(Ahead) \in Nat /\ Len(Ahead') \in Nat
  <2>1. Len(Ahead) \in Nat
    BY AheadFacts DEF StepInv, MarketTypeOK
  <2> QED BY <1>1, <2>1, Sizes
<1> HIDE DEF L
<1>9. OrderInv'
  <2>1. CASE ValidBody(PeekedBody)
    <3>1. delivered' = Append(delivered, PeekedBody) /\ OrderInv /\ sent' = sent
      BY <1>2, <2>1 DEF StepInv
    <3> QED BY <1>1, <1>3, <1>8, <3>1, OrderDeliver
  <2>2. CASE ~ ValidBody(PeekedBody)
    BY <1>1, <1>2, <1>8, <2>2, OrderKept DEF StepInv
  <2> QED BY <2>1, <2>2
<1>10. StreamInv'
  BY StreamDeliver DEF StepInv
<1> QED BY <1>5, <1>7, <1>9, <1>10 DEF StepInv, Ring

(* Bytes that move from the network to the end of the buffer *)
LEMMA JoinMoves ==
  ASSUME NEW r \in Seq(AllBytes), NEW s \in Seq(AllBytes), NEW n \in 0 .. Len(s)
  PROVE  (r \o SubSeq(s, 1, n)) \o SubSeq(s, n + 1, Len(s)) = r \o s
<1>1. /\ SubSeq(s, 1, n) \in Seq(AllBytes)
      /\ SubSeq(s, n + 1, Len(s)) \in Seq(AllBytes)
      /\ SubSeq(s, 1, n) \o SubSeq(s, n + 1, Len(s)) = s
  BY SplitAt
<1>2. (r \o SubSeq(s, 1, n)) \o SubSeq(s, n + 1, Len(s))
        = r \o (SubSeq(s, 1, n) \o SubSeq(s, n + 1, Len(s)))
  BY <1>1, JoinThree, Zenon
<1> QED BY <1>1, <1>2, Zenon

(* Without what was received, and without the first bytes in flight *)
LEMMA JoinLoses ==
  ASSUME NEW r \in Seq(AllBytes), NEW s \in Seq(AllBytes), NEW n \in 0 .. Len(s),
         NEW b, b = SubSeq(s, n + 1, Len(s))
  PROVE  /\ Len(b) \in Nat /\ Len(r) + n \in Nat
         /\ \A i \in 1 .. Len(b) : /\ Len(r) + n + i \in 1 .. Len(r \o s)
                                  /\ b[i] = (r \o s)[Len(r) + n + i]
<1> DEFINE w == r \o s
<1>1. /\ b \in Seq(AllBytes) /\ Len(b) = Len(s) - n
      /\ \A i \in 1 .. Len(s) - n : b[i] = s[n + i]
  BY SplitAt
<1>2. /\ Len(r) \in Nat /\ Len(s) \in Nat /\ Len(w) = Len(r) + Len(s)
      /\ \A i \in 1 .. Len(s) : w[Len(r) + i] = s[i]
  BY JoinElements
<1> HIDE DEF w
<1>4. ASSUME NEW i \in 1 .. Len(b)
      PROVE  Len(r) + n + i \in 1 .. Len(w) /\ b[i] = w[Len(r) + n + i]
  <2>1. /\ n + i \in 1 .. Len(s) /\ i \in 1 .. Len(s) - n
        /\ Len(r) + (n + i) = Len(r) + n + i /\ Len(r) + n + i \in 1 .. Len(w)
    BY <1>1, <1>2
  <2>2. b[i] = s[n + i] /\ w[Len(r) + (n + i)] = s[n + i]
    BY <1>1, <1>2, <2>1
  <2> QED BY <2>1, <2>2
<1>5. Len(b) \in Nat /\ Len(r) + n \in Nat
  BY <1>1, <1>2
<1> QED BY <1>4, <1>5 DEF w

LEMMA ReceiveStep ==
  ASSUME StepInv, NEW n \in 1 .. Least(RecvSize, Len(inflight)), Receive(n)
  PROVE  StepInv'
<1> DEFINE data == SubSeq(inflight, 1, n)
<1>1. /\ received \in Seq(AllBytes) /\ inflight \in Seq(AllBytes)
      /\ Ring /\ PhaseOK /\ rounds < RecvRounds /\ phase = "reading"
  BY DEF StepInv, MarketTypeOK, Ring, PhaseOK, Receive
<1>2. Len(inflight) \in Nat /\ n \in 0 .. Len(inflight) /\ RecvRounds \in Nat
  <2>1. Len(inflight) \in Nat /\ RecvSize \in Nat /\ RecvRounds \in Nat
    BY <1>1, RecvAssumption
  <2> QED BY <2>1 DEF Least
<1>3. /\ data \in Seq(AllBytes) /\ inflight' \in Seq(AllBytes)
  <2>1. inflight' = SubSeq(inflight, n + 1, Len(inflight))
    BY DEF Receive
  <2> QED BY <1>1, <1>2, <2>1, SplitAt
<1>4. rounds' = rounds + 1 /\ UNCHANGED <<delivered, sent, missed>>
  BY DEF Receive
<1>5. PhaseOK'
  <2>1. rounds' \in 0 .. RecvRounds /\ (rounds' # RecvRounds => rounds' < RecvRounds)
    BY <1>1, <1>2, <1>4 DEF PhaseOK
  <2>2. phase' \in {"parsing", "reading"}
        /\ (phase' = "reading" => rounds' # RecvRounds)
    BY DEF Receive
  <2> QED BY <2>1, <2>2 DEF PhaseOK
<1>6. CASE Fits(data)
  <2>1. append(data) /\ received' = received \o data /\ cut' = cut
    BY <1>6 DEF Receive
  <2>2. Ring'
    BY <1>1, <1>3, <1>6, <2>1, AppendRing
  <2>3. Ahead' = Ahead
    <3>1. Ahead' = (received \o SubSeq(inflight, 1, n))
                     \o SubSeq(inflight, n + 1, Len(inflight))
      BY <2>1 DEF Ahead, Receive
    <3>2. (received \o SubSeq(inflight, 1, n))
                     \o SubSeq(inflight, n + 1, Len(inflight)) = received \o inflight
      BY <1>1, <1>2, JoinMoves
    <3> QED BY <3>1, <3>2 DEF Ahead
  <2>4. OrderInv'
    BY <1>4, <2>3 DEF StepInv, OrderInv, Ascending, NothingTwice
  <2>5. StreamInv'
    BY <1>4, <2>1, <2>3, StreamKept DEF StepInv
  <2>6. MarketTypeOK'
    BY <1>3, <1>4, <1>5, <2>1, <2>2 DEF StepInv, MarketTypeOK, Ring, PhaseOK
  <2> QED BY <2>2, <2>4, <2>5, <2>6 DEF StepInv, Ring
<1>7. CASE ~ Fits(data)
  <2>1. clear /\ received' = << >> /\ cut' = TRUE
    BY <1>7 DEF Receive
  <2>2. Ring'
    BY <1>1, <2>1, ClearRing
  <2>3. Shifted(Len(received) + n) /\ Len(Ahead) \in Nat /\ Len(Ahead') \in Nat
    <3> DEFINE b == SubSeq(inflight, n + 1, Len(inflight))
    <3>0. inflight' = b
      BY DEF Receive
    <3>1. Ahead' = b /\ Ahead = received \o inflight
      BY <1>3, <2>1, <3>0 DEF Ahead
    <3>2. /\ Len(b) \in Nat /\ Len(received) + n \in Nat
          /\ \A i \in 1 .. Len(b) :
               /\ Len(received) + n + i \in 1 .. Len(received \o inflight)
               /\ b[i] = (received \o inflight)[Len(received) + n + i]
      <4>1. /\ received \in Seq(AllBytes) /\ inflight \in Seq(AllBytes)
            /\ n \in 0 .. Len(inflight)
        BY <1>1, <1>2
      <4>2. b = SubSeq(inflight, n + 1, Len(inflight))
        OBVIOUS
      <4> HIDE DEF b
      <4> QED BY ONLY <4>1, <4>2, JoinLoses
    <3> HIDE DEF b
    <3>3. Len(Ahead) \in Nat
      BY <1>1, AheadFacts
    <3> QED BY <3>1, <3>2, <3>3 DEF Shifted
  <2>4. OrderInv'
    BY <1>4, <2>3, OrderKept DEF StepInv
  <2>5. StreamInv'
    BY <2>1 DEF StreamInv
  <2>6. MarketTypeOK'
    BY <1>3, <1>4, <1>5, <2>1, <2>2 DEF StepInv, MarketTypeOK, Ring, PhaseOK
  <2> QED BY <2>2, <2>4, <2>5, <2>6 DEF StepInv, Ring
<1> QED BY <1>6, <1>7

(* The first n bytes of the buffer go. *)
LEMMA DropShifts ==
  ASSUME received \in Seq(AllBytes), inflight \in Seq(AllBytes),
         NEW n \in 0 .. Len(received),
         received' = SubSeq(received, n + 1, Len(received)), inflight' = inflight
  PROVE  Shifted(n) /\ Len(Ahead) \in Nat /\ Len(Ahead') \in Nat
<1> DEFINE u == SubSeq(received, n + 1, Len(received)) \o inflight
<1>1. Ahead' = u /\ Ahead = received \o inflight
  BY DEF Ahead
<1>2. /\ Len(u) = Len(received) + Len(inflight) - n
      /\ \A i \in 1 .. Len(received) + Len(inflight) - n :
           /\ n + i \in 1 .. Len(received \o inflight)
           /\ u[i] = (received \o inflight)[n + i]
  <2>1. /\ received \in Seq(AllBytes) /\ inflight \in Seq(AllBytes)
        /\ n \in 0 .. Len(received)
    OBVIOUS
  <2> QED BY ONLY <2>1, DropFront
<1> HIDE DEF u
<1>3. Len(received) \in Nat /\ Len(inflight) \in Nat /\ Len(Ahead) \in Nat
  BY AheadFacts
<1>4. n \in Nat /\ Len(u) \in Nat
  BY <1>2, <1>3
<1> QED BY <1>1, <1>2, <1>3, <1>4 DEF Shifted

LEMMA StopStep ==
  ASSUME StepInv, StopParsing
  PROVE  StepInv'
<1>1. /\ received \in Seq(AllBytes) /\ inflight \in Seq(AllBytes) /\ Ring
      /\ phase' = "idle" /\ UNCHANGED <<rounds, inflight, delivered, sent, missed>>
  BY DEF StepInv, MarketTypeOK, Ring, StopParsing
<1>2. PhaseOK'
  BY <1>1 DEF StepInv, MarketTypeOK, PhaseOK
<1>3. CASE ~ InvalidHeader
  <2>1. UNCHANGED <<bufferVars, inflight, delivered, sent, received, missed, cut>>
    BY <1>1, <1>3 DEF StopParsing
  <2> QED BY <1>2, <2>1, QuietStep
<1>4. CASE InvalidHeader
  <2>1. /\ resync /\ cut' = TRUE
        /\ received' = SubSeq(received, used - used' + 1, Len(received))
    BY <1>4 DEF StopParsing
  <2>2. used \in Nat /\ Len(received) = used /\ MAX_SCAN \in Nat
    BY <1>1, RingFacts, Sizes DEF Ring
  <2>3. PICK n \in 0 .. used : /\ received' = SubSeq(received, n + 1, Len(received))
                              /\ Ring'
    <3>1. CASE UNCHANGED bufferVars
      <4>1. used - used' = 0 /\ 0 \in 0 .. used
        BY <2>2, <3>1 DEF bufferVars
      <4>2. received' = SubSeq(received, 0 + 1, Len(received))
        BY <2>1, <4>1
      <4>3. received' = received
        BY <1>1, <4>2
      <4>4. Ring'
        BY <1>1, <3>1, <4>3 DEF Ring, RingHoldsReceived, Held, At, bufferVars
      <4> QED BY <4>1, <4>2, <4>4
    <3>2. CASE Advance(ScanLimit)
      <4>1. ScanLimit \in 0 .. used
        BY <2>2 DEF ScanLimit, Least
      <4>2. used - used' = ScanLimit
        BY <2>2, <3>2, <4>1 DEF Advance
      <4>3. received' = SubSeq(received, ScanLimit + 1, Len(received))
        BY <2>1, <4>2
      <4>4. Ring'
        BY <1>1, <3>2, <4>1, <4>3, AdvanceRing
      <4> QED BY <4>1, <4>3, <4>4
    <3> QED BY <2>1, <3>1, <3>2 DEF resync
  <2>4. Shifted(n) /\ Len(Ahead) \in Nat /\ Len(Ahead') \in Nat
    BY <1>1, <2>2, <2>3, DropShifts
  <2>5. OrderInv'
    BY <1>1, <2>4, OrderKept DEF StepInv
  <2>6. StreamInv'
    BY <2>1 DEF StreamInv
  <2>7. MarketTypeOK'
    BY <1>1, <1>2, <2>1, <2>3 DEF StepInv, MarketTypeOK, Ring, PhaseOK
  <2> QED BY <2>3, <2>5, <2>6, <2>7 DEF StepInv, Ring
<1> QED BY <1>3, <1>4

(* A new connection: what was in flight is missed, and the stream starts   *)
(* again with the next message that is sent.                               *)
LEMMA StreamRestarts ==
  ASSUME MarketTypeOK, StreamInv, inflight' = << >>, received' = received,
         missed' = missed \cup {inflight[i].msg : i \in DOMAIN inflight},
         cut' = (cut \/ received # << >>), UNCHANGED <<delivered, sent>>
  PROVE  StreamInv'
<1> SUFFICES ASSUME ~ cut, received = << >> PROVE StreamInv'
  BY DEF StreamInv, MarketTypeOK
<1> DEFINE N == Len(sent) + 1
           D == Len(delivered)
<1>1. /\ Len(Ahead) = Len(inflight) /\ Len(Ahead) \in Nat
      /\ DOMAIN inflight = 1 .. Len(inflight)
      /\ \A i \in 1 .. Len(Ahead) : Ahead[i] = inflight[i]
      /\ Len(sent) \in Nat /\ N \in Nat /\ sent \in Seq(Messages)
  <2>1. /\ Len(Ahead) = 0 + Len(inflight) /\ Len(Ahead) \in Nat
        /\ Len(inflight) \in Nat /\ DOMAIN inflight = 1 .. Len(inflight)
        /\ \A i \in 1 .. Len(inflight) : Ahead[0 + i] = inflight[i]
    BY AheadFacts DEF MarketTypeOK
  <2>2. sent \in Seq(Messages) /\ Len(sent) \in Nat
    BY DEF MarketTypeOK
  <2>3. Len(Ahead) = Len(inflight) /\ \A i \in 1 .. Len(inflight) : 0 + i = i
    BY ONLY <2>1
  <2> QED BY ONLY <2>1, <2>2, <2>3
<1>2. Len(Ahead') = 0
  BY DEF Ahead
<1>3. PICK first \in 1 .. Len(sent) + 1 : WholeFrom(first) /\ DoneBefore(first)
  BY DEF StreamInv
<1>4. \A i \in 1 .. Len(Ahead) : Ahead[i].msg \in first .. Len(sent)
  BY <1>3 DEF WholeFrom
<1>5. /\ missed \subseteq 1 .. first - 1
      /\ \A i \in 1 .. D : /\ Number(i) \in Due /\ Number(i) < first
                           /\ delivered[i] = Body(Number(i))
      /\ \A n \in Due : n < first => \E i \in 1 .. D : Number(i) = n
  BY <1>3 DEF DoneBefore
<1>6. WholeFrom(N)'
  BY <1>1, <1>2 DEF WholeFrom
<1>7. missed' \subseteq 1 .. N - 1
  <2>1. ASSUME NEW n \in missed PROVE n \in 1 .. N - 1
    BY <1>1, <1>3, <1>5
  <2>2. ASSUME NEW i \in DOMAIN inflight PROVE inflight[i].msg \in 1 .. N - 1
    <3>1. inflight[i].msg \in first .. Len(sent)
      BY <1>1, <1>4
    <3> QED BY <1>1, <1>3, <3>1
  <2> QED BY <2>1, <2>2
<1>8. ASSUME NEW n \in first .. Len(sent) PROVE n \in missed'
  <2>1. 1 \in 1 .. Size(n)
    <3>1. sent[n] \in Messages /\ n \in Nat
      BY <1>1, <1>3
    <3>2. Len(sent[n].body) \in Nat
      BY <3>1, EncodeFacts
    <3> QED BY <3>2, Sizes DEF Size
  <2>2. PICK i \in 1 .. Len(Ahead) : Ahead[i].msg = n /\ Ahead[i].pos = 1
    BY <1>3, <2>1 DEF WholeFrom
  <2> QED BY <1>1, <2>2
<1>9. /\ Due' = {n \in Due : n \notin missed'}
      /\ \A i : Number(i)' = Number(i)
      /\ \A n : Body(n)' = Body(n)
  BY DEF Due, Number, Body, ValidBody
<1>10. \A n \in Due : n \in 1 .. Len(sent) /\ n \notin missed
  BY DEF Due
<1>11. ASSUME NEW i \in 1 .. D PROVE Number(i) \in Due' /\ Number(i) < N
  <2>1. Number(i) \in Due /\ Number(i) < first
    BY <1>5
  <2>2. Number(i) \notin missed'
    BY <1>1, <1>3, <1>4, <1>10, <2>1
  <2> QED BY <1>1, <1>9, <1>10, <2>1, <2>2
<1>12. ASSUME NEW n \in Due' PROVE \E i \in 1 .. D : Number(i) = n
  <2>1. n \in Due /\ n \notin missed' /\ n \in 1 .. Len(sent)
    BY <1>9, <1>10
  <2>2. n < first
    BY <1>1, <1>3, <1>8, <2>1
  <2> QED BY <1>5, <2>1, <2>2
<1>13. DoneBefore(N)'
  <2>1. ASSUME NEW i \in 1 .. D PROVE delivered'[i] = Body(Number(i))
    BY <1>5
  <2> QED BY <1>7, <1>9, <1>11, <1>12, <2>1 DEF DoneBefore
<1>14. N \in 1 .. Len(sent') + 1
  BY <1>1
<1> QED BY <1>6, <1>13, <1>14 DEF StreamInv

LEMMA ReconnectStep ==
  ASSUME StepInv, ReconnectMarket
  PROVE  StepInv'
<1>1. CASE ReconnectFails /\ UNCHANGED <<bufferVars, marketVars>>
  <2>1. PhaseOK'
    BY <1>1 DEF StepInv, MarketTypeOK, PhaseOK, marketVars
  <2> QED BY <1>1, <2>1, QuietStep DEF marketVars
<1>2. CASE /\ inflight' = << >>
           /\ missed' = missed \cup {inflight[i].msg : i \in DOMAIN inflight}
           /\ cut' = (cut \/ received # << >>)
           /\ UNCHANGED <<bufferVars, phase, rounds, delivered, sent, received>>
  <2>1. /\ received \in Seq(AllBytes) /\ inflight \in Seq(AllBytes)
        /\ DOMAIN inflight = 1 .. Len(inflight) /\ Len(sent) \in Nat
        /\ missed \subseteq 1 .. Len(sent)
    BY DEF StepInv, MarketTypeOK
  <2>2. /\ Len(Ahead) = Len(received) + Len(inflight) /\ Len(Ahead) \in Nat
        /\ Len(received) \in Nat /\ Len(inflight) \in Nat
        /\ \A i \in 1 .. Len(received) : Ahead[i] = received[i]
        /\ \A i \in 1 .. Len(inflight) : Ahead[Len(received) + i] = inflight[i]
        /\ \A i \in 1 .. Len(Ahead) : Ahead[i] \in AllBytes
    BY <2>1, AheadFacts
  <2>3. Ahead' = received
    BY <1>2, <2>1 DEF Ahead
  <2>4. Shifted(0) /\ Len(Ahead') \in Nat
    <3>1. \A i \in 1 .. Len(received) : i \in 1 .. Len(Ahead) /\ 0 + i = i
      BY <2>2
    <3> QED BY <2>2, <2>3, <3>1 DEF Shifted
  <2>5. OrderInv'
    BY <1>2, <2>2, <2>4, OrderKept DEF StepInv
  <2>6. StreamInv'
    BY <1>2, StreamRestarts DEF StepInv
  <2>7. missed' \subseteq 1 .. Len(sent)
    <3>1. ASSUME NEW i \in 1 .. Len(inflight)
          PROVE  inflight[i].msg \in 1 .. Len(sent)
      <4>1. Len(received) + i \in 1 .. Len(Ahead)
        BY <2>2
      <4>2. inflight[i] \in AllBytes
        BY <2>1
      <4>3. 1 <= inflight[i].msg /\ inflight[i].msg <= Len(sent)
        BY <2>2, <4>1 DEF StepInv, OrderInv
      <4> QED BY <2>1, <4>2, <4>3 DEF AllBytes
    <3> QED BY <1>2, <2>1, <3>1
  <2>8. MarketTypeOK'
    BY <1>2, <2>7 DEF StepInv, MarketTypeOK, bufferVars
  <2>9. RingHoldsReceived'
    BY <1>2 DEF StepInv, RingHoldsReceived, Held, At, bufferVars
  <2> QED BY <2>5, <2>6, <2>8, <2>9 DEF StepInv
<1> QED BY <1>1, <1>2 DEF ReconnectMarket

-----------------------------------------------------------------------------
(* calculateBackoff stays between the initial backoff and the cap. *)
LEMMA BackoffStays ==
  ASSUME NEW backoff \in INITIAL_BACKOFF_MS .. MAX_BACKOFF_MS
  PROVE  CalculateBackoff(backoff) \subseteq INITIAL_BACKOFF_MS .. MAX_BACKOFF_MS
<1>1. /\ INITIAL_BACKOFF_MS \in Nat /\ MAX_BACKOFF_MS \in Nat
      /\ INITIAL_BACKOFF_MS <= MAX_BACKOFF_MS
      /\ JitterDivisor \in Nat /\ JitterDivisor > 0
  BY BackoffAssumption, JitterAssumption
<1>2. (2 * backoff) \div JitterDivisor \in Int
  BY <1>1
<1> QED BY <1>1, <1>2 DEF CalculateBackoff

(* The variables of TcpClient keep their types. *)
LEMMA TcpStep ==
  ASSUME TcpTypeOK, [Next]_vars
  PROVE  TcpTypeOK'
<1>1. /\ INITIAL_BACKOFF_MS \in Nat /\ MAX_BACKOFF_MS \in Nat
      /\ INITIAL_BACKOFF_MS <= MAX_BACKOFF_MS /\ MAX_RECONNECT_ATTEMPTS \in Nat
  BY BackoffAssumption, AttemptsAssumption
<1>2. CASE UNCHANGED tcpVars
  BY <1>2 DEF tcpVars, TcpTypeOK
<1>3. CASE ConnectionLost("ERROR_STATE")
  BY <1>3 DEF ConnectionLost, TcpTypeOK
<1>4. CASE ReconnectSucceeds
  BY <1>1, <1>4 DEF ReconnectSucceeds, TcpTypeOK
<1>5. CASE ReconnectFails
  <2>1. currentBackoffMs' \in INITIAL_BACKOFF_MS .. MAX_BACKOFF_MS
    BY <1>5, BackoffStays DEF ReconnectFails, TcpTypeOK
  <2> QED BY <1>1, <1>5, <2>1 DEF ReconnectFails, MayReconnect, TcpTypeOK
<1>6. CASE Elapse(1)
  BY <1>1, <1>6 DEF Elapse, Older, TcpTypeOK
<1> QED BY <1>2, <1>3, <1>4, <1>5, <1>6
        DEF Next, ServerSends, StartProcessing, Receive, ReceiveBlocks,
            ReceiveEnds, ParseMessage, StopParsing, ReconnectMarket, Wait, vars

(* Before the first message there is nothing to hold. *)
LEMMA InitInv ==
  ASSUME Init
  PROVE  MarketInv
<1>1. /\ buffer = [i \in 0 .. BUFFER_SIZE - 1 |-> NoByte]
      /\ head = 0 /\ tail = 0 /\ used = 0 /\ phase = "idle" /\ rounds = 0
      /\ inflight = << >> /\ delivered = << >> /\ sent = << >>
      /\ received = << >> /\ missed = {} /\ cut = FALSE
  BY DEF Init, BufferInit
<1>2. /\ BUFFER_SIZE \in Nat /\ BUFFER_SIZE > 0
      /\ RecvRounds \in Nat /\ RecvRounds > 0
  BY Sizes, RecvAssumption
<1>3. TcpTypeOK
  BY BackoffAssumption, AttemptsAssumption DEF Init, TcpInit, TcpTypeOK
<1>4. MarketTypeOK
  <2>1. NoByte \in AllBytes
    BY DEF NoByte, AllBytes
  <2>2. buffer \in [0 .. BUFFER_SIZE - 1 -> AllBytes]
    BY <1>1, <2>1
  <2>3. /\ head \in 0 .. BUFFER_SIZE - 1 /\ tail \in 0 .. BUFFER_SIZE - 1
        /\ used \in 0 .. BUFFER_SIZE
        /\ rounds \in 0 .. RecvRounds /\ rounds < RecvRounds
    BY <1>1, <1>2
  <2>4. /\ inflight \in Seq(AllBytes) /\ received \in Seq(AllBytes)
        /\ delivered \in Seq(Seq(AllBytes)) /\ sent \in Seq(Messages)
    BY <1>1
  <2> QED BY <1>1, <2>2, <2>3, <2>4 DEF MarketTypeOK
<1>5. RingHoldsReceived
  <2>1. 0 \in 0 .. BUFFER_SIZE - 1 /\ 0 \in 0 .. BUFFER_SIZE /\ 0 + 0 < BUFFER_SIZE
    BY <1>2
  <2>2. Slot(0, 0) = 0
    BY <2>1, SlotValue
  <2>3. Queue(buffer, 0, 0) \in Seq(AllBytes) /\ Len(Queue(buffer, 0, 0)) = 0
    BY <1>4, <2>1, QueueIsSeq DEF MarketTypeOK
  <2>4. Held = << >>
    <3>1. Held = Queue(buffer, 0, 0)
      BY <1>1, HeldIsQueue
    <3> QED BY <2>3, <3>1
  <2> QED BY <1>1, <2>2, <2>4 DEF RingHoldsReceived, Slot
<1>6. Len(Ahead) = 0 /\ Len(delivered) = 0 /\ Len(sent) = 0
      /\ DOMAIN delivered = {}
  BY <1>1 DEF Ahead
<1>7. OrderInv
  BY <1>6 DEF OrderInv, Ascending, NothingTwice
<1>8. WholeFrom(1) /\ DoneBefore(1)
  BY <1>1, <1>6 DEF WholeFrom, DoneBefore, Due
<1>9. StreamInv
  BY <1>6, <1>8 DEF StreamInv
<1> QED BY <1>3, <1>4, <1>5, <1>7, <1>9 DEF MarketInv

(* Every step keeps the part of the invariant that is about the stream. *)
LEMMA StreamStep ==
  ASSUME StepInv, [Next]_vars
  PROVE  StepInv'
<1>1. PhaseOK /\ RecvRounds \in Nat /\ RecvRounds > 0
  BY RecvAssumption DEF StepInv, MarketTypeOK, PhaseOK
<1>2. ASSUME NEW m \in Messages, ServerSends(m) PROVE StepInv'
  BY <1>2, ServerStep
<1>3. CASE StartProcessing
  <2>1. PhaseOK'
    BY <1>1, <1>3 DEF StartProcessing, PhaseOK
  <2> QED BY <1>3, <2>1, QuietStep DEF StartProcessing
<1>4. ASSUME NEW n \in 1 .. Least(RecvSize, Len(inflight)), Receive(n)
      PROVE  StepInv'
  BY <1>4, ReceiveStep
<1>5. CASE ReceiveBlocks \/ ReceiveEnds
  <2>1. PhaseOK'
    BY <1>1, <1>5 DEF ReceiveBlocks, ReceiveEnds, PhaseOK
  <2> QED BY <1>5, <2>1, QuietStep DEF ReceiveBlocks, ReceiveEnds
<1>6. CASE ParseMessage
  BY <1>6, ParseStep
<1>7. CASE StopParsing
  BY <1>7, StopStep
<1>8. CASE ReconnectMarket
  BY <1>8, ReconnectStep
<1>9. CASE Wait \/ UNCHANGED vars
  <2>1. UNCHANGED <<bufferVars, marketVars>>
    BY <1>9 DEF Wait, vars
  <2>2. PhaseOK'
    BY <1>1, <2>1 DEF marketVars, PhaseOK
  <2> QED BY <2>1, <2>2, QuietStep DEF marketVars
<1> QED BY <1>2, <1>3, <1>4, <1>5, <1>6, <1>7, <1>8, <1>9 DEF Next

-----------------------------------------------------------------------------
(* The theorems *)

(* The inductive invariant holds in every state that processIncomingData,  *)
(* the server and the network reach.                                       *)
THEOREM MarketInvariance == Spec => []MarketInv
<1>1. Init => MarketInv
  BY InitInv
<1>2. MarketInv /\ [Next]_vars => MarketInv'
  <2> SUFFICES ASSUME MarketInv, [Next]_vars PROVE MarketInv'
    OBVIOUS
  <2>1. TcpTypeOK'
    BY TcpStep DEF MarketInv
  <2>2. StepInv'
    BY StreamStep DEF MarketInv, StepInv
  <2> QED BY <2>1, <2>2 DEF MarketInv, StepInv
<1> QED BY <1>1, <1>2, PTL DEF Spec

(* Every variable of the client keeps its type: head and tail stay within  *)
(* the array, and one call never reads more than RecvRounds times.         *)
THEOREM MarketTypeCorrect == Spec => []TypeOK
<1>1. MarketInv => TypeOK
  BY DEF MarketInv, MarketTypeOK, TypeOK
<1> QED BY <1>1, MarketInvariance, PTL

(* The ring of message_buffer.cpp is a queue, wherever appends, messages   *)
(* and skipped bytes wrap around the end of the array.                     *)
THEOREM RingAlwaysHolds == Spec => []RingHoldsReceived
<1>1. MarketInv => RingHoldsReceived
  BY DEF MarketInv
<1> QED BY <1>1, MarketInvariance, PTL

(* No byte of the stream reaches messageCallback twice or out of order,    *)
(* across overflows, bad headers and reconnections.                        *)
THEOREM NothingEverTwice == Spec => []NothingTwice
<1>1. MarketInv => NothingTwice
  BY DEF MarketInv, OrderInv
<1> QED BY <1>1, MarketInvariance, PTL

(* The first byte of a body *)
LEMMA BodyStarts ==
  ASSUME sent \in Seq(Messages), NEW n \in 1 .. Len(sent)
  PROVE  1 \in DOMAIN Body(n) /\ Body(n)[1].pos = 3
<1> DEFINE e == Encode(sent[n], n)
           L == Len(sent[n].body)
           b == SubSeq(e, 2 + 1, Len(e))
<1>1. sent[n] \in Messages /\ n \in Nat
  OBVIOUS
<1>2. /\ L \in Nat /\ L > 0 /\ e \in Seq(AllBytes) /\ Len(e) = 2 + L
      /\ \A i \in 1 .. 2 + L : e[i].pos = i
  <2>1. /\ L \in Nat /\ L > 0 /\ e \in Seq(AllBytes) /\ Len(e) = HEADER_SIZE + L
        /\ \A i \in 1 .. HEADER_SIZE + L : e[i].pos = i
    BY <1>1, EncodeFacts
  <2> HIDE DEF e, L
  <2> QED BY <2>1, Sizes
<1>3. b = Body(n)
  BY <1>2, Sizes DEF Body
<1> HIDE DEF e, L
<1>4. 2 \in 0 .. Len(e) /\ 3 \in 1 .. 2 + L /\ 1 \in 1 .. Len(e) - 2
  BY <1>2
<1>5. /\ b \in Seq(AllBytes) /\ Len(b) = Len(e) - 2
      /\ \A i \in 1 .. Len(e) - 2 : b[i] = e[2 + i]
  BY <1>2, <1>4, SplitAt
<1> HIDE DEF b
<1>6. DOMAIN b = 1 .. Len(e) - 2 /\ b[1] = e[3]
  <2>1. b[1] = e[2 + 1]
    BY <1>4, <1>5
  <2> QED BY <1>5, <2>1
<1> QED BY <1>2, <1>3, <1>4, <1>6

(* As long as the buffer was never emptied and was empty at every          *)
(* reconnection, messageCallback gets every valid message that was not in  *)
(* flight when a connection ended, whole and in the order of sending,      *)
(* however recv cuts the stream.                                           *)
THEOREM DeliveredAlwaysIntact == Spec => []DeliveredIntact
<1>1. MarketInv => DeliveredIntact
  <2> SUFFICES ASSUME MarketInv, ~ cut PROVE DeliveredIntact
    BY DEF DeliveredIntact
  <2>1. /\ DOMAIN delivered = 1 .. Len(delivered) /\ sent \in Seq(Messages)
        /\ Len(sent) \in Nat
    BY DEF MarketInv, MarketTypeOK
  <2>2. PICK first \in 1 .. Len(sent) + 1 : DoneBefore(first)
    BY DEF MarketInv, StreamInv
  <2>3. /\ \A i \in DOMAIN delivered :
             /\ Number(i) \in Due /\ Number(i) < first
             /\ delivered[i] = Body(Number(i))
        /\ \A n \in Due : n < first =>
             \E i \in DOMAIN delivered : Number(i) = n
    BY <2>1, <2>2 DEF DoneBefore
  <2>4. \A n \in Due : n \in 1 .. Len(sent)
    BY DEF Due
  <2>5. ASSUME NEW i \in DOMAIN delivered, NEW j \in DOMAIN delivered, i < j
        PROVE  Number(i) < Number(j)
    <3>1. /\ 1 \in DOMAIN delivered[i] /\ delivered[i][1].pos = 3
          /\ 1 \in DOMAIN delivered[j] /\ delivered[j][1].pos = 3
      BY <2>1, <2>3, <2>4, BodyStarts
    <3>2. Before(delivered[i][1], delivered[j][1])
      BY <2>5, <3>1 DEF MarketInv, OrderInv, NothingTwice
    <3> QED BY <3>1, <3>2 DEF Before, Number
  <2>6. ASSUME NEW j \in DOMAIN delivered, NEW n \in Due, n <= Number(j)
        PROVE  \E i \in DOMAIN delivered : Number(i) = n
    <3>1. Number(j) \in Due /\ Number(j) < first
      BY <2>3
    <3>2. n < first
      BY <2>1, <2>4, <2>6, <3>1
    <3> QED BY <2>3, <3>2
  <2> QED BY <2>3, <2>5, <2>6 DEF DeliveredIntact
<1> QED BY <1>1, MarketInvariance, PTL

(* resync does not move to the header it finds: no step of the client or   *)
(* of the network gets past a bad header with a plausible one in reach,    *)
(* other than an overflow that empties the buffer.                         *)
THEOREM BadHeaderAlwaysBlocks == Spec => BadHeaderBlocks
<1>1. ASSUME [Next]_vars, InvalidHeader, PlausibleAhead
      PROVE  delivered' = delivered /\ (head' = head \/ used' = 0)
  <2>1. CASE UNCHANGED <<bufferVars, delivered>>
    BY <2>1 DEF bufferVars
  <2>2. ASSUME NEW n \in 1 .. Least(RecvSize, Len(inflight)), Receive(n)
        PROVE  delivered' = delivered /\ (head' = head \/ used' = 0)
    BY <2>2 DEF Receive, append, clear
  <2>3. CASE StopParsing
    BY <1>1, <2>3 DEF StopParsing, resync, bufferVars
  <2>4. ~ ParseMessage
    BY <1>1 DEF ParseMessage, MessageReady, InvalidHeader
  <2> QED BY <1>1, <2>1, <2>2, <2>3, <2>4
          DEF Next, ServerSends, StartProcessing, ReceiveBlocks, ReceiveEnds,
              ReconnectMarket, Wait, vars, marketVars
<1>2. [Next]_vars =>
        [InvalidHeader /\ PlausibleAhead
           => delivered' = delivered /\ (head' = head \/ used' = 0)]_vars
  BY <1>1
<1> QED BY <1>2, PTL DEF Spec, BadHeaderBlocks
=============================================================================
