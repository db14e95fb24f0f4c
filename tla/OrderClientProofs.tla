------------------------- MODULE OrderClientProofs -------------------------
(***************************************************************************)
(* What OrderClient guarantees for every size of an order, capacity of the *)
(* queue and number of orders, whatever the kernel takes of a write and    *)
(* wherever it fails; and that it implements OrderChannel.                 *)
(***************************************************************************)
EXTENDS OrderClient, SumTheorems, FiniteSetTheorems

(* The inductive invariant *)

ClientTypeOK ==
  /\ queue \in Seq(AllBytes) /\ wire \in Seq(AllBytes)
  /\ calls \in Nat /\ accepted \subseteq 1 .. calls
  /\ past \subseteq AllBytes /\ discarded \subseteq AllBytes
  /\ broken \in BOOLEAN
  /\ Entries(queue) <= QUEUE_CAPACITY

(* Only orders that sendOrder was called for have bytes anywhere. *)
Known ==
  \A b \in BytesOf(queue) \cup BytesOf(wire) \cup past \cup discarded :
    b.order <= calls

(* The queue is a sequence of rests of accepted orders, in the order of    *)
(* the calls: no byte is missing between the first of a rest and the last  *)
(* of the order.                                                           *)
Earlier(a, b) == a.order < b.order \/ (a.order = b.order /\ a.pos < b.pos)
Continues(a, b) == a.pos < OrderSize => b = Byte(a.order, a.pos + 1)

Rests(s) ==
  /\ \A i, j \in 1 .. Len(s) : i < j => Earlier(s[i], s[j])
  /\ \A i, j \in 1 .. Len(s) : j = i + 1 => Continues(s[i], s[j])
  /\ Len(s) > 0 => s[Len(s)].pos = OrderSize

(* What waits was accepted, and is not of an order that was thrown away. *)
QueueInv ==
  /\ Rests(queue)
  /\ \A b \in BytesOf(queue) :
       b.order \in accepted /\ \A d \in discarded : d.order # b.order

(* A stream of orders without a gap, the last of them perhaps incomplete; *)
(* Whole says that it is complete.                                         *)
Stream(s) ==
  \A i, j \in 1 .. Len(s) :
    /\ i = 1 => s[i].pos = 1
    /\ j = i + 1 => IF s[i].pos < OrderSize THEN s[j] = Byte(s[i].order, s[i].pos + 1)
                                            ELSE s[j].pos = 1
Whole(s) == Len(s) > 0 => s[Len(s)].pos = OrderSize

(* While the framing is not at risk the queue continues the stream of the  *)
(* connection, to the end of an order.                                     *)
StreamInv ==
  ~ broken =>
    /\ Stream(wire)
    /\ connState = "CONNECTED" => Stream(wire \o queue) /\ Whole(wire \o queue)

ClientInv ==
  /\ TcpTypeOK /\ ClientTypeOK /\ Known /\ QueueInv /\ StreamInv
  /\ AtMostOnce /\ AcceptedAccountedFor

-----------------------------------------------------------------------------
(* Bytes *)

LEMMA JoinThree ==
  ASSUME NEW s \in Seq(AllBytes), NEW t \in Seq(AllBytes),
         NEW u \in Seq(AllBytes)
  PROVE  (s \o t) \o u = s \o (t \o u)
BY ConcatAssociative

(* The bytes of a sequence that is put together, and of its two parts *)
LEMMA BytesOfJoin ==
  ASSUME NEW S, NEW s \in Seq(S), NEW t \in Seq(S)
  PROVE  BytesOf(s \o t) = BytesOf(s) \cup BytesOf(t)
<1>1. /\ \A i \in 1 .. Len(s) : (s \o t)[i] = s[i]
      /\ \A i \in 1 .. Len(t) : (s \o t)[Len(s) + i] = t[i]
      /\ Len(s) \in Nat /\ Len(t) \in Nat
      /\ DOMAIN s = 1 .. Len(s) /\ DOMAIN t = 1 .. Len(t)
      /\ DOMAIN (s \o t) = 1 .. Len(s) + Len(t)
  BY JoinElements
<1> DEFINE u == s \o t
<1> HIDE DEF u
<1>2. ASSUME NEW i \in DOMAIN u PROVE u[i] \in BytesOf(s) \cup BytesOf(t)
  <2>1. CASE i \in 1 .. Len(s)
    BY <1>1, <2>1 DEF u, BytesOf
  <2>2. CASE i \notin 1 .. Len(s)
    <3>1. i - Len(s) \in 1 .. Len(t) /\ i = Len(s) + (i - Len(s))
      BY <1>1, <2>2 DEF u
    <3>2. u[i] = t[i - Len(s)]
      BY <1>1, <3>1 DEF u
    <3> QED BY <1>1, <3>1, <3>2 DEF BytesOf
  <2> QED BY <2>1, <2>2
<1>3. ASSUME NEW i \in DOMAIN s PROVE s[i] \in BytesOf(u)
  <2>1. i \in DOMAIN u /\ u[i] = s[i]
    BY <1>1 DEF u
  <2> QED BY <2>1 DEF BytesOf
<1>4. ASSUME NEW i \in DOMAIN t PROVE t[i] \in BytesOf(u)
  <2>1. Len(s) + i \in DOMAIN u /\ u[Len(s) + i] = t[i]
    BY <1>1 DEF u
  <2> QED BY <2>1 DEF BytesOf
<1>5. BytesOf(u) \subseteq BytesOf(s) \cup BytesOf(t)
  BY <1>2 DEF BytesOf
<1>6. BytesOf(s) \subseteq BytesOf(u) /\ BytesOf(t) \subseteq BytesOf(u)
  BY <1>3, <1>4 DEF BytesOf
<1> QED BY <1>5, <1>6 DEF u

(* The fields of a byte of a sequence *)
LEMMA ByteFields ==
  ASSUME NEW s \in Seq(AllBytes), NEW i \in 1 .. Len(s)
  PROVE  /\ s[i] \in AllBytes /\ s[i] \in BytesOf(s)
         /\ s[i].pos \in 1 .. OrderSize /\ s[i].order \in Nat /\ s[i].order # 0
         /\ s[i] = Byte(s[i].order, s[i].pos)
<1>1. s[i] \in AllBytes /\ s[i] \in BytesOf(s)
  BY DEF BytesOf
<1> QED BY <1>1 DEF AllBytes, Byte

(* The rest of an order, from the byte first on *)
LEMMA BytesType ==
  ASSUME NEW o \in Nat, o # 0, NEW first \in 1 .. OrderSize + 1
  PROVE  /\ Bytes(o, first) \in Seq(AllBytes)
         /\ Len(Bytes(o, first)) = OrderSize - first + 1
         /\ \A i \in 1 .. OrderSize - first + 1 :
              /\ Bytes(o, first)[i] = Byte(o, first + i - 1)
              /\ Bytes(o, first)[i].order = o
              /\ Bytes(o, first)[i].pos = first + i - 1
         /\ BytesOf(Bytes(o, first)) = {Byte(o, p) : p \in first .. OrderSize}
<1> DEFINE n == OrderSize - first + 1
           f == Bytes(o, first)
<1>1. n \in Nat /\ OrderSize \in Nat
  BY OrderSizeAssumption
<1>2. f = [i \in 1 .. n |-> Byte(o, first + i - 1)]
  BY DEF Bytes
<1>3. \A i \in 1 .. n : /\ first + i - 1 \in 1 .. OrderSize
                        /\ Byte(o, first + i - 1) \in AllBytes
  BY <1>1 DEF Byte, AllBytes
<1> HIDE DEF f
<1>4. f \in [1 .. n -> AllBytes]
  BY <1>2, <1>3
<1>5. f \in Seq(AllBytes) /\ Len(f) = n
  BY <1>1, <1>4, FunctionIsSeq
<1>6. \A i \in 1 .. n : /\ f[i] = Byte(o, first + i - 1) /\ f[i].order = o
                        /\ f[i].pos = first + i - 1
  BY <1>2 DEF Byte
<1>7. BytesOf(f) = {Byte(o, p) : p \in first .. OrderSize}
  <2>1. ASSUME NEW i \in 1 .. n
        PROVE  f[i] \in {Byte(o, p) : p \in first .. OrderSize}
    <3>1. first + i - 1 \in first .. OrderSize
      BY <1>1
    <3> QED BY <1>6, <3>1
  <2>2. ASSUME NEW p \in first .. OrderSize PROVE Byte(o, p) \in BytesOf(f)
    <3>1. p - first + 1 \in 1 .. n /\ first + (p - first + 1) - 1 = p
      BY <1>1
    <3>2. f[p - first + 1] = Byte(o, p)
      BY <1>6, <3>1
    <3> QED BY <1>4, <3>1, <3>2 DEF BytesOf
  <2>3. DOMAIN f = 1 .. n
    BY <1>4
  <2> QED BY <2>1, <2>2, <2>3 DEF BytesOf
<1> QED BY <1>5, <1>6, <1>7 DEF f

-----------------------------------------------------------------------------
(* The queue *)

(* A new order goes to the end of the queue. *)
LEMMA RestsAppend ==
  ASSUME NEW s \in Seq(AllBytes), Rests(s), NEW o \in Nat, o # 0,
         \A i \in 1 .. Len(s) : s[i].order < o, NEW first \in 1 .. OrderSize
  PROVE  Rests(s \o Bytes(o, first))
<1> DEFINE t == Bytes(o, first)
           u == s \o t
           n == Len(s)
           m == OrderSize - first + 1
<1>0. /\ OrderSize \in Nat /\ n \in Nat /\ m \in Nat /\ m > 0
      /\ first \in 1 .. OrderSize + 1 /\ m = OrderSize - first + 1
  BY OrderSizeAssumption
<1>1. /\ t \in Seq(AllBytes) /\ Len(t) = m
      /\ \A i \in 1 .. m : t[i] = Byte(o, first + i - 1) /\ t[i].order = o
                           /\ t[i].pos = first + i - 1
      /\ OrderSize \in Nat /\ n \in Nat /\ m \in Nat /\ m > 0
      /\ m = OrderSize - first + 1
  BY <1>0, BytesType
<1> HIDE DEF t, m
<1>2. /\ u \in Seq(AllBytes) /\ Len(u) = n + m
      /\ \A i \in 1 .. n : u[i] = s[i]
      /\ \A i \in n + 1 .. n + m : u[i] = t[i - n]
  <2>1. /\ u \in Seq(AllBytes) /\ Len(u) = Len(s) + Len(t)
        /\ \A i \in 1 .. Len(s) : u[i] = s[i]
        /\ \A i \in Len(s) + 1 .. Len(s) + Len(t) : u[i] = t[i - Len(s)]
    <3>1. s \in Seq(AllBytes) /\ t \in Seq(AllBytes)
      BY <1>1
    <3> QED BY ONLY <3>1, JoinElements
  <2> HIDE DEF u
  <2> QED BY <1>1, <2>1
<1> HIDE DEF u
<1>3. \A i \in n + 1 .. n + m :
        /\ u[i] = Byte(o, first + (i - n) - 1) /\ u[i].order = o
        /\ u[i].pos = first + (i - n) - 1
  <2> SUFFICES ASSUME NEW i \in n + 1 .. n + m
               PROVE  /\ u[i] = Byte(o, first + (i - n) - 1) /\ u[i].order = o
                      /\ u[i].pos = first + (i - n) - 1
    OBVIOUS
  <2>1. i - n \in 1 .. m
    BY <1>1
  <2> QED BY <1>1, <1>2, <2>1
<1>4. ASSUME NEW i \in 1 .. Len(u), NEW j \in 1 .. Len(u), i < j
      PROVE  Earlier(u[i], u[j])
  <2>1. CASE j <= n
    <3>1. i \in 1 .. n /\ j \in 1 .. n
      BY <1>1, <1>2, <1>4, <2>1
    <3> QED BY <1>2, <1>4, <3>1 DEF Rests
  <2>2. CASE i <= n /\ j > n
    <3>0. i \in 1 .. n /\ j \in n + 1 .. n + m
      BY <1>1, <1>2, <2>2
    <3>1. u[i].order < o /\ u[j].order = o
      BY <1>2, <1>3, <3>0
    <3> QED BY <3>1 DEF Earlier
  <2>3. CASE i > n
    <3>1. /\ u[i].order = o /\ u[j].order = o
          /\ u[i].pos = first + (i - n) - 1 /\ u[j].pos = first + (j - n) - 1
      BY <1>1, <1>2, <1>3, <1>4, <2>3
    <3> QED BY <1>1, <1>2, <1>4, <3>1 DEF Earlier
  <2> QED BY <1>1, <1>2, <2>1, <2>2, <2>3
<1>5. ASSUME NEW i \in 1 .. Len(u), NEW j \in 1 .. Len(u), j = i + 1
      PROVE  Continues(u[i], u[j])
  <2>1. CASE j <= n
    <3>1. i \in 1 .. n /\ j \in 1 .. n
      BY <1>1, <1>2, <1>5, <2>1
    <3>2. Continues(s[i], s[j])
      BY <1>5, <3>1 DEF Rests
    <3> QED BY <1>2, <3>1, <3>2
  <2>2. CASE i = n
    <3>1. u[i].pos = OrderSize
      BY <1>1, <1>2, <2>2 DEF Rests
    <3> QED BY <1>1, <3>1 DEF Continues
  <2>3. CASE i > n
    <3>1. /\ u[i].order = o /\ u[i].pos = first + (i - n) - 1
          /\ u[j] = Byte(o, first + (i + 1 - n) - 1)
      BY <1>1, <1>2, <1>3, <1>5, <2>3
    <3>2. first + (i + 1 - n) - 1 = u[i].pos + 1
      <4>1. /\ n \in Nat /\ i \in Int /\ first \in Int
            /\ u[i].pos = first + (i - n) - 1
        BY <1>0, <1>2, <3>1
      <4> HIDE DEF n
      <4> QED BY ONLY <4>1
    <3> QED BY <3>1, <3>2 DEF Continues
  <2> QED BY <1>1, <1>2, <1>5, <2>1, <2>2, <2>3
<1>6. u[Len(u)].pos = OrderSize
  <2> DEFINE k == Len(u)
  <2>0. k = n + m /\ n \in Nat /\ m \in Nat /\ m > 0 /\ OrderSize \in Nat
        /\ m = OrderSize - first + 1 /\ first \in 1 .. OrderSize
    BY <1>0, <1>2
  <2> HIDE DEF k, n
  <2>1. k \in n + 1 .. n + m /\ first + (k - n) - 1 = OrderSize
    BY ONLY <2>0
  <2>2. u[k].pos = first + (k - n) - 1
    BY <1>3, <2>1
  <2> QED BY <2>1, <2>2 DEF k
<1> QED BY <1>4, <1>5, <1>6 DEF Rests, u, t

(* What is left when the first n bytes have been written *)
LEMMA RestsDrop ==
  ASSUME NEW s \in Seq(AllBytes), Rests(s), NEW n \in 0 .. Len(s)
  PROVE  Rests(SubSeq(s, n + 1, Len(s)))
<1> DEFINE t == SubSeq(s, n + 1, Len(s))
<1>1. /\ t \in Seq(AllBytes) /\ Len(t) = Len(s) - n /\ Len(s) \in Nat
      /\ \A i \in 1 .. Len(s) - n : t[i] = s[n + i]
  BY SplitAt
<1> HIDE DEF t
<1>2. ASSUME NEW i \in 1 .. Len(t), NEW j \in 1 .. Len(t)
      PROVE  /\ i < j => Earlier(t[i], t[j])
             /\ j = i + 1 => Continues(t[i], t[j])
  <2>1. /\ n + i \in 1 .. Len(s) /\ n + j \in 1 .. Len(s)
        /\ t[i] = s[n + i] /\ t[j] = s[n + j]
        /\ i < j => n + i < n + j
        /\ j = i + 1 => n + j = (n + i) + 1
    BY <1>1
  <2> QED BY <2>1 DEF Rests
<1>3. Len(t) > 0 => t[Len(t)].pos = OrderSize
  BY <1>1 DEF Rests
<1> QED BY <1>2, <1>3 DEF Rests, t

(* No byte waits twice. *)
LEMMA RestsNoRepeat ==
  ASSUME NEW s \in Seq(AllBytes), Rests(s)
  PROVE  NoRepeat(s)
<1> SUFFICES ASSUME NEW i \in DOMAIN s, NEW j \in DOMAIN s, s[i] = s[j], i < j
             PROVE  FALSE
  BY DEF NoRepeat
<1>1. i \in 1 .. Len(s) /\ j \in 1 .. Len(s)
  OBVIOUS
<1>2. s[i] \in AllBytes /\ Earlier(s[i], s[i])
  BY <1>1 DEF Rests
<1> QED BY <1>2, OrderSizeAssumption DEF Earlier, AllBytes

-----------------------------------------------------------------------------
(* Streams *)

(* A stream that ends with a whole order can be continued with another. *)
LEMMA StreamJoin ==
  ASSUME NEW s \in Seq(AllBytes), NEW t \in Seq(AllBytes),
         Stream(s), Whole(s), Stream(t)
  PROVE  /\ Stream(s \o t)
         /\ Whole(t) => Whole(s \o t)
<1> DEFINE u == s \o t
           n == Len(s)
           m == Len(t)
<1>1. /\ u \in Seq(AllBytes) /\ Len(u) = n + m /\ n \in Nat /\ m \in Nat
      /\ \A i \in 1 .. n : u[i] = s[i]
      /\ \A i \in n + 1 .. n + m : u[i] = t[i - n]
  BY JoinElements
<1> HIDE DEF u
<1>2. ASSUME NEW i \in 1 .. Len(u), NEW j \in 1 .. Len(u)
      PROVE  /\ i = 1 => u[i].pos = 1
             /\ j = i + 1 => IF u[i].pos < OrderSize
                             THEN u[j] = Byte(u[i].order, u[i].pos + 1)
                             ELSE u[j].pos = 1
  <2>1. i = 1 => u[i].pos = 1
    <3>1. CASE i = 1 /\ n > 0
      <4>1. 1 \in 1 .. n
        BY <1>1, <3>1
      <4>2. u[1] = s[1]
        BY <1>1, <4>1
      <4>3. s[1].pos = 1
        BY <4>1 DEF Stream
      <4> QED BY <3>1, <4>2, <4>3
    <3>2. CASE i = 1 /\ n = 0
      <4>1. 1 \in 1 .. m /\ 1 \in n + 1 .. n + m /\ 1 - n = 1
        BY <1>1, <3>2
      <4>2. u[1] = t[1]
        BY <1>1, <4>1
      <4>3. t[1].pos = 1
        BY <4>1 DEF Stream
      <4> QED BY <3>2, <4>2, <4>3
    <3> QED BY <1>1, <3>1, <3>2
  <2>2. ASSUME j = i + 1
        PROVE  IF u[i].pos < OrderSize
               THEN u[j] = Byte(u[i].order, u[i].pos + 1) ELSE u[j].pos = 1
    <3>1. CASE j <= n
      <4>1. i \in 1 .. n /\ j \in 1 .. n
        BY <1>1, <2>2, <3>1
      <4> QED BY <1>1, <2>2, <4>1 DEF Stream
    <3>2. CASE i = n
      <4>1. u[i].pos = OrderSize
        BY <1>1, <3>2 DEF Whole
      <4>2. u[j] = t[1] /\ 1 \in 1 .. m
        BY <1>1, <2>2, <3>2
      <4> QED BY <4>1, <4>2, OrderSizeAssumption DEF Stream
    <3>3. CASE i > n
      <4>1. /\ i - n \in 1 .. m /\ j - n \in 1 .. m /\ j - n = (i - n) + 1
            /\ u[i] = t[i - n] /\ u[j] = t[j - n]
        <5>1. i \in n + 1 .. n + m /\ j \in n + 1 .. n + m
          BY <1>1, <2>2, <3>3
        <5>2. n \in Nat /\ m \in Nat /\ j = i + 1
          BY <1>1, <2>2
        <5>3. /\ i - n \in 1 .. m /\ j - n \in 1 .. m /\ j - n = (i - n) + 1
          BY ONLY <5>1, <5>2
        <5> QED BY <1>1, <5>1, <5>3
      <4>2. IF t[i - n].pos < OrderSize
            THEN t[j - n] = Byte(t[i - n].order, t[i - n].pos + 1)
            ELSE t[j - n].pos = 1
        BY <4>1 DEF Stream
      <4> QED BY <4>1, <4>2
    <3> QED BY <1>1, <2>2, <3>1, <3>2, <3>3
  <2> QED BY <2>1, <2>2
<1>3. ASSUME Whole(t), Len(u) > 0 PROVE u[Len(u)].pos = OrderSize
  <2>1. CASE m = 0
    BY <1>1, <1>3, <2>1 DEF Whole
  <2>2. CASE m > 0
    <3>1. Len(u) \in n + 1 .. n + m /\ Len(u) - n = m
      BY <1>1, <2>2
    <3>2. u[Len(u)] = t[m]
      BY <1>1, <3>1
    <3> QED BY <1>3, <2>2, <3>2 DEF Whole
  <2> QED BY <1>1, <2>1, <2>2
<1> QED BY <1>2, <1>3 DEF Stream, Whole, u

(* The first part of a stream is a stream; when the second part begins     *)
(* with an order or is missing, the first ends with one.                   *)
LEMMA StreamSplit ==
  ASSUME NEW s \in Seq(AllBytes), NEW t \in Seq(AllBytes), Stream(s \o t)
  PROVE  /\ Stream(s)
         /\ Len(t) > 0 /\ t[1].pos = 1 => Whole(s)
         /\ Len(t) = 0 /\ Whole(s \o t) => Whole(s)
<1> DEFINE u == s \o t
           n == Len(s)
           m == Len(t)
<1>1. /\ u \in Seq(AllBytes) /\ Len(u) = n + m /\ n \in Nat /\ m \in Nat
      /\ \A i \in 1 .. n : u[i] = s[i]
      /\ \A i \in n + 1 .. n + m : u[i] = t[i - n]
  BY JoinElements
<1>2. Stream(u)
  OBVIOUS
<1> HIDE DEF u
<1>3. Stream(s)
  <2> SUFFICES ASSUME NEW i \in 1 .. n, NEW j \in 1 .. n
               PROVE  /\ i = 1 => s[i].pos = 1
                      /\ j = i + 1 => IF s[i].pos < OrderSize
                                      THEN s[j] = Byte(s[i].order, s[i].pos + 1)
                                      ELSE s[j].pos = 1
    BY DEF Stream
  <2>1. /\ i \in 1 .. Len(u) /\ j \in 1 .. Len(u)
        /\ u[i] = s[i] /\ u[j] = s[j]
    BY <1>1
  <2> QED BY <1>2, <2>1 DEF Stream
<1>4. ASSUME m > 0, t[1].pos = 1, n > 0 PROVE s[n].pos = OrderSize
  <2> DEFINE k == n + 1
  <2>1. /\ n \in 1 .. Len(u) /\ k \in 1 .. Len(u) /\ u[n] = s[n]
        /\ k \in n + 1 .. n + m /\ k - n = 1 /\ k = n + 1 /\ n \in 1 .. n
    <3>1. /\ n \in Nat /\ m \in Nat /\ Len(u) = n + m /\ m > 0 /\ n > 0
      BY <1>1, <1>4
    <3>2. /\ n \in 1 .. n + m /\ k \in 1 .. n + m
          /\ k \in n + 1 .. n + m /\ k - n = 1 /\ n \in 1 .. n
      BY ONLY <3>1
    <3> QED BY <1>1, <3>1, <3>2
  <2> HIDE DEF k
  <2>2. u[k].pos = 1
    BY <1>1, <1>4, <2>1
  <2>3. s[n].pos \in 1 .. OrderSize
    BY <2>1, ByteFields
  <2>4. ~ (u[n].pos < OrderSize)
    <3> SUFFICES ASSUME u[n].pos < OrderSize PROVE FALSE
      OBVIOUS
    <3>1. u[k] = Byte(u[n].order, u[n].pos + 1)
      BY <1>2, <2>1 DEF Stream
    <3>2. u[k].pos = u[n].pos + 1
      BY <3>1 DEF Byte
    <3> QED BY <2>1, <2>2, <2>3, <3>2, OrderSizeAssumption
  <2> QED BY <2>1, <2>3, <2>4, OrderSizeAssumption
<1>5. ASSUME m = 0, Whole(u), n > 0 PROVE s[n].pos = OrderSize
  BY <1>1, <1>5 DEF Whole
<1> QED BY <1>3, <1>4, <1>5 DEF Whole, u

(* One order *)
LEMMA StreamOfOrder ==
  ASSUME NEW o \in Nat, o # 0
  PROVE  Stream(Bytes(o, 1)) /\ Whole(Bytes(o, 1))
<1> DEFINE t == Bytes(o, 1)
<1>1. OrderSize \in Nat /\ OrderSize > 0 /\ 1 \in 1 .. OrderSize + 1
      /\ OrderSize - 1 + 1 = OrderSize
  BY OrderSizeAssumption
<1>2. /\ t \in Seq(AllBytes) /\ Len(t) = OrderSize
      /\ \A i \in 1 .. OrderSize : t[i] = Byte(o, 1 + i - 1)
                                   /\ t[i].order = o /\ t[i].pos = 1 + i - 1
  <2>1. /\ t \in Seq(AllBytes) /\ Len(t) = OrderSize - 1 + 1
        /\ \A i \in 1 .. OrderSize - 1 + 1 :
             t[i] = Byte(o, 1 + i - 1) /\ t[i].order = o /\ t[i].pos = 1 + i - 1
    BY <1>1, BytesType
  <2> QED BY <1>1, <2>1
<1> HIDE DEF t
<1>3. \A i \in 1 .. OrderSize : t[i] = Byte(o, i) /\ t[i].order = o /\ t[i].pos = i
  <2> SUFFICES ASSUME NEW i \in 1 .. OrderSize
               PROVE  t[i] = Byte(o, i) /\ t[i].order = o /\ t[i].pos = i
    OBVIOUS
  <2>1. 1 + i - 1 = i
    OBVIOUS
  <2> QED BY <1>2, <2>1
<1>4. Stream(t)
  BY <1>1, <1>2, <1>3 DEF Stream
<1>5. Whole(t)
  BY <1>1, <1>2, <1>3 DEF Whole
<1> QED BY <1>4, <1>5 DEF t

(* A queue without the rest of an order is a stream. *)
LEMMA QueueStream ==
  ASSUME queue \in Seq(AllBytes), Rests(queue), ~ PartialPending
  PROVE  Stream(queue) /\ Whole(queue)
<1>1. Whole(queue)
  BY DEF Rests, Whole
<1>2. OrderSize \in Nat
  BY OrderSizeAssumption
<1>3. ASSUME NEW i \in 1 .. Len(queue), queue[i].pos # 1
      PROVE  i # 1 /\ queue[i-1].order = queue[i].order
  <2>1. queue[i] \in BytesOf(queue) /\ queue[i].pos \in 1 .. OrderSize
        /\ queue[i].order \in Nat
    BY ByteFields
  <2>2. PICK j \in 1 .. Len(queue) : queue[j] = Byte(queue[i].order, 1)
    BY <2>1 DEF PartialPending, BytesOf
  <2>3. queue[j].order = queue[i].order /\ queue[j].pos = 1
    BY <2>2 DEF Byte
  <2>4. ~ (i < j)
    BY <1>2, <1>3, <2>1, <2>3 DEF Rests, Earlier
  <2>5. i # j
    BY <1>3, <2>3
  <2>6. j < i /\ i - 1 \in 1 .. Len(queue) /\ i - 1 < i /\ j <= i - 1
    BY <2>4, <2>5
  <2>7. queue[i-1].order \in Nat
    BY <2>6, ByteFields
  <2>8. queue[i-1].order <= queue[i].order
    <3>1. Earlier(queue[i-1], queue[i])
      BY <2>6 DEF Rests
    <3> QED BY <2>1, <2>7, <3>1 DEF Earlier
  <2>9. queue[j].order <= queue[i-1].order
    <3>1. CASE j = i - 1
      BY <2>7, <3>1
    <3>2. CASE j < i - 1
      <4>1. Earlier(queue[j], queue[i-1])
        BY <2>6, <3>2 DEF Rests
      <4> QED BY <2>1, <2>3, <2>7, <4>1 DEF Earlier
    <3> QED BY <2>6, <3>1, <3>2
  <2> QED BY <2>1, <2>3, <2>6, <2>7, <2>8, <2>9
<1>4. ASSUME NEW i \in 1 .. Len(queue), NEW j \in 1 .. Len(queue), j = i + 1
      PROVE  IF queue[i].pos < OrderSize
             THEN queue[j] = Byte(queue[i].order, queue[i].pos + 1)
             ELSE queue[j].pos = 1
  <2>1. CASE queue[i].pos < OrderSize
    BY <1>4, <2>1 DEF Rests, Continues
  <2>2. CASE ~ (queue[i].pos < OrderSize)
    <3> SUFFICES ASSUME queue[j].pos # 1 PROVE FALSE
      BY <2>2
    <3>1. queue[j-1].order = queue[j].order /\ j - 1 = i
      BY <1>3, <1>4
    <3>2. queue[i].pos \in 1 .. OrderSize /\ queue[j].pos \in 1 .. OrderSize
          /\ queue[i].order \in Nat
      BY ByteFields
    <3>3. Earlier(queue[i], queue[j])
      BY <1>4 DEF Rests
    <3> QED BY <1>2, <2>2, <3>1, <3>2, <3>3 DEF Earlier
  <2> QED BY <2>1, <2>2
<1>5. Stream(queue)
  BY <1>3, <1>4 DEF Stream
<1> QED BY <1>1, <1>5

(* Counting modulo K *)
LEMMA NextModulo ==
  ASSUME NEW K \in Nat, K > 0, NEW a \in Nat
  PROVE  (a + 1) % K = IF (a % K) + 1 < K THEN (a % K) + 1 ELSE 0
<1> DEFINE p == a \div K
           q == (a + 1) \div K
           r == a % K
           w == (a + 1) % K
<1>1. /\ a = K * p + r /\ r \in 0 .. K - 1 /\ p \in Int
      /\ a + 1 = K * q + w /\ w \in 0 .. K - 1 /\ q \in Int
  OBVIOUS
<1> HIDE DEF p, q, r, w
<1> DEFINE d == q - p
<1>2. d \in Int /\ K * d = r + 1 - w
  BY <1>1
<1>3. d < 2
  <2> SUFFICES ASSUME d >= 2 PROVE FALSE
    BY <1>2
  <2>1. K * d >= K * 2
    BY <1>2
  <2> QED BY <1>1, <1>2, <2>1
<1>4. d > -1
  <2> SUFFICES ASSUME d <= -1 PROVE FALSE
    BY <1>2
  <2>1. K * d <= K * (-1)
    BY <1>2
  <2> QED BY <1>1, <1>2, <2>1
<1>5. d = 0 \/ d = 1
  BY <1>2, <1>3, <1>4
<1>6. w = IF r + 1 < K THEN r + 1 ELSE 0
  <2>1. CASE d = 0
    BY <1>1, <1>2, <2>1
  <2>2. CASE d = 1
    BY <1>1, <1>2, <2>2
  <2> QED BY <1>5, <2>1, <2>2
<1> QED BY <1>6 DEF r, w

(* In a stream, every block of OrderSize bytes is one order. *)
LEMMA StreamFramed ==
  ASSUME NEW s \in Seq(AllBytes), Stream(s)
  PROVE  Framed(s)
<1>1. OrderSize \in Nat /\ OrderSize > 0 /\ Len(s) \in Nat
  BY OrderSizeAssumption
<1> DEFINE S == {n \in Nat : n + 1 <= Len(s) =>
                               s[n + 1].pos = (n % OrderSize) + 1}
<1>2. 0 \in S
  <2>1. 0 % OrderSize = 0
    BY <1>1
  <2>2. 1 <= Len(s) => s[1].pos = 1
    BY <1>1 DEF Stream
  <2> QED BY <2>1, <2>2
<1>3. ASSUME NEW n \in Nat, n \in S PROVE n + 1 \in S
  <2> DEFINE i == n + 1
             j == n + 2
  <2> SUFFICES ASSUME j <= Len(s) PROVE s[j].pos = (i % OrderSize) + 1
    OBVIOUS
  <2>1. /\ i \in 1 .. Len(s) /\ j \in 1 .. Len(s) /\ j = i + 1
        /\ s[i].pos = (n % OrderSize) + 1
    BY <1>1, <1>3
  <2>2. i % OrderSize = IF (n % OrderSize) + 1 < OrderSize
                        THEN (n % OrderSize) + 1 ELSE 0
    BY <1>1, NextModulo
  <2>3. n % OrderSize \in 0 .. OrderSize - 1
    BY <1>1
  <2> HIDE DEF i, j
  <2>4. CASE s[i].pos < OrderSize
    <3>1. s[j] = Byte(s[i].order, s[i].pos + 1)
      BY <2>1, <2>4 DEF Stream
    <3>2. s[j].pos = s[i].pos + 1
      BY <3>1 DEF Byte
    <3> QED BY <1>1, <2>1, <2>2, <2>3, <2>4, <3>2
  <2>5. CASE ~ (s[i].pos < OrderSize)
    <3>1. s[j].pos = 1
      BY <2>1, <2>5 DEF Stream
    <3> QED BY <1>1, <2>1, <2>2, <2>3, <2>5, <3>1
  <2> QED BY <2>4, <2>5
<1> HIDE DEF S
<1>4. \A n \in Nat : n \in S
  BY <1>2, <1>3, NatInd
<1>5. ASSUME NEW i \in DOMAIN s
      PROVE  /\ s[i].pos = ((i - 1) % OrderSize) + 1
             /\ s[i].pos > 1 => s[i-1].order = s[i].order
  <2>1. i \in 1 .. Len(s) /\ i - 1 \in Nat /\ (i - 1) + 1 = i
    OBVIOUS
  <2>2. s[i].pos = ((i - 1) % OrderSize) + 1
    <3>1. i - 1 \in S
      BY <1>4, <2>1
    <3> QED BY <2>1, <3>1 DEF S
  <2>3. ASSUME s[i].pos > 1 PROVE s[i-1].order = s[i].order
    <3>1. i - 1 \in 1 .. Len(s)
      BY <2>1, <2>3 DEF Stream
    <3>2. s[i-1].pos < OrderSize
      BY <2>1, <2>3, <3>1 DEF Stream
    <3>3. s[i] = Byte(s[i-1].order, s[i-1].pos + 1)
      BY <2>1, <3>1, <3>2 DEF Stream
    <3> QED BY <3>3 DEF Byte
  <2> QED BY <2>2, <2>3
<1> QED BY <1>5 DEF Framed

-----------------------------------------------------------------------------
(* Nothing twice *)

(* Two sequences without repetition that share nothing *)
LEMMA NoRepeatJoin ==
  ASSUME NEW S, NEW s \in Seq(S), NEW t \in Seq(S), NoRepeat(s), NoRepeat(t),
         BytesOf(s) \cap BytesOf(t) = {}
  PROVE  NoRepeat(s \o t)
<1> DEFINE u == s \o t
           n == Len(s)
           m == Len(t)
<1>1. /\ DOMAIN u = 1 .. n + m /\ n \in Nat /\ m \in Nat
      /\ \A i \in 1 .. n : u[i] = s[i]
      /\ \A i \in n + 1 .. n + m : u[i] = t[i - n]
      /\ DOMAIN s = 1 .. n /\ DOMAIN t = 1 .. m
  BY JoinElements
<1> HIDE DEF u, n, m
<1>2. \A i \in n + 1 .. n + m : i - n \in 1 .. m
  BY <1>1
<1> SUFFICES ASSUME NEW i \in 1 .. n + m, NEW j \in 1 .. n + m, u[i] = u[j]
             PROVE  i = j
  BY <1>1 DEF NoRepeat, u
<1>3. CASE i \in 1 .. n /\ j \in 1 .. n
  BY <1>1, <1>3 DEF NoRepeat
<1>4. CASE i \in n + 1 .. n + m /\ j \in n + 1 .. n + m
  <2>1. i - n \in DOMAIN t /\ j - n \in DOMAIN t /\ t[i - n] = t[j - n]
    BY <1>1, <1>2, <1>4
  <2>2. i - n = j - n
    BY <2>1 DEF NoRepeat
  <2> QED BY <1>1, <2>2
<1>5. CASE i \in 1 .. n /\ j \in n + 1 .. n + m
  <2>1. u[i] \in BytesOf(s) /\ u[j] \in BytesOf(t)
    BY <1>1, <1>2, <1>5 DEF BytesOf
  <2> QED BY <2>1
<1>6. CASE j \in 1 .. n /\ i \in n + 1 .. n + m
  <2>1. u[j] \in BytesOf(s) /\ u[i] \in BytesOf(t)
    BY <1>1, <1>2, <1>6 DEF BytesOf
  <2> QED BY <2>1
<1> QED BY <1>1, <1>3, <1>4, <1>5, <1>6

(* The two parts of a sequence without repetition *)
LEMMA NoRepeatSplit ==
  ASSUME NEW S, NEW s \in Seq(S), NEW t \in Seq(S), NoRepeat(s \o t)
  PROVE  NoRepeat(s) /\ NoRepeat(t) /\ BytesOf(s) \cap BytesOf(t) = {}
<1> DEFINE u == s \o t
           n == Len(s)
           m == Len(t)
<1>1. /\ DOMAIN u = 1 .. n + m /\ n \in Nat /\ m \in Nat
      /\ \A i \in 1 .. n : u[i] = s[i]
      /\ \A i \in 1 .. m : u[n + i] = t[i]
      /\ DOMAIN s = 1 .. n /\ DOMAIN t = 1 .. m
  BY JoinElements
<1>2. NoRepeat(u)
  OBVIOUS
<1> HIDE DEF u, n, m
<1>3. ASSUME NEW i \in 1 .. n, NEW j \in 1 .. n, s[i] = s[j] PROVE i = j
  <2>1. i \in DOMAIN u /\ j \in DOMAIN u /\ u[i] = u[j]
    BY <1>1, <1>3
  <2> QED BY <1>2, <2>1 DEF NoRepeat
<1>4. ASSUME NEW i \in 1 .. m, NEW j \in 1 .. m, t[i] = t[j] PROVE i = j
  <2>1. n + i \in DOMAIN u /\ n + j \in DOMAIN u /\ u[n + i] = u[n + j]
    BY <1>1, <1>4
  <2>2. n + i = n + j
    BY <1>2, <2>1 DEF NoRepeat
  <2> QED BY <1>1, <2>2
<1>5. ASSUME NEW i \in 1 .. n, NEW j \in 1 .. m, s[i] = t[j] PROVE FALSE
  <2>1. i \in DOMAIN u /\ n + j \in DOMAIN u /\ u[i] = u[n + j]
    BY <1>1, <1>5
  <2>2. i = n + j
    BY <1>2, <2>1 DEF NoRepeat
  <2> QED BY <1>1, <2>2
<1> QED BY <1>1, <1>3, <1>4, <1>5 DEF NoRepeat, BytesOf

(* The bytes of a new order, of which the first sent are written: they are *)
(* nowhere yet.                                                            *)
NewBytes(head, rest, sent) ==
  /\ head \in Seq(AllBytes) /\ Len(head) = sent
  /\ rest \in Seq(AllBytes) /\ Len(rest) = OrderSize - sent
  /\ head \o rest = Bytes(NewOrder, 1)
  /\ BytesOf(Bytes(NewOrder, 1)) = BytesOf(head) \cup BytesOf(rest)
  /\ BytesOf(head) \cap BytesOf(rest) = {}
  /\ NoRepeat(head)
  /\ \A b \in BytesOf(head) \cup BytesOf(rest) : b.order = NewOrder

LEMMA NewBytesFacts ==
  ASSUME calls \in Nat, NEW sent \in 0 .. OrderSize
  PROVE  NewBytes(SubSeq(Bytes(NewOrder, 1), 1, sent), Bytes(NewOrder, sent + 1),
                  sent)
<1> DEFINE o == NewOrder
           t == Bytes(o, 1)
           head == SubSeq(t, 1, sent)
           rest == Bytes(o, sent + 1)
<1>0. o \in Nat /\ o # 0
  BY DEF NewOrder
<1>1. OrderSize \in Nat /\ 1 \in 1 .. OrderSize + 1
      /\ sent + 1 \in 1 .. OrderSize + 1 /\ sent \in Nat
      /\ OrderSize - 1 + 1 = OrderSize
      /\ OrderSize - (sent + 1) + 1 = OrderSize - sent
  BY OrderSizeAssumption
<1> HIDE DEF o
<1>2. /\ t \in Seq(AllBytes) /\ Len(t) = OrderSize
      /\ \A i \in 1 .. OrderSize : t[i] = Byte(o, i) /\ t[i].pos = i
                                   /\ t[i].order = o
  <2>1. /\ t \in Seq(AllBytes) /\ Len(t) = OrderSize - 1 + 1
        /\ \A i \in 1 .. OrderSize - 1 + 1 :
             t[i] = Byte(o, 1 + i - 1) /\ t[i].order = o /\ t[i].pos = 1 + i - 1
    BY <1>0, <1>1, BytesType
  <2>2. \A i \in 1 .. OrderSize : 1 + i - 1 = i
    BY <1>1
  <2> HIDE DEF t
  <2> QED BY <1>1, <2>1, <2>2
<1>3. /\ rest \in Seq(AllBytes) /\ Len(rest) = OrderSize - sent
      /\ \A i \in 1 .. OrderSize - sent :
           rest[i] = Byte(o, sent + i) /\ rest[i].order = o
  <2>1. /\ rest \in Seq(AllBytes) /\ Len(rest) = OrderSize - (sent + 1) + 1
        /\ \A i \in 1 .. OrderSize - (sent + 1) + 1 :
             rest[i] = Byte(o, (sent + 1) + i - 1) /\ rest[i].order = o
    BY <1>0, <1>1, BytesType
  <2>2. \A i \in 1 .. OrderSize - sent : (sent + 1) + i - 1 = sent + i
    BY <1>1
  <2> HIDE DEF rest
  <2> QED BY <1>1, <2>1, <2>2
<1> HIDE DEF t, rest
<1>4. /\ head \in Seq(AllBytes) /\ Len(head) = sent
      /\ SubSeq(t, sent + 1, OrderSize) \in Seq(AllBytes)
      /\ Len(SubSeq(t, sent + 1, OrderSize)) = OrderSize - sent
      /\ \A i \in 1 .. sent : head[i] = t[i]
      /\ \A i \in 1 .. OrderSize - sent :
           SubSeq(t, sent + 1, OrderSize)[i] = t[sent + i]
      /\ head \o SubSeq(t, sent + 1, OrderSize) = t
  <2>1. t \in Seq(AllBytes) /\ Len(t) = OrderSize /\ sent \in 0 .. Len(t)
    BY <1>2
  <2> QED BY ONLY <2>1, SplitAt
<1>5. SubSeq(t, sent + 1, OrderSize) = rest
  <2>1. ASSUME NEW i \in 1 .. OrderSize - sent
        PROVE  SubSeq(t, sent + 1, OrderSize)[i] = rest[i]
    <3>1. sent + i \in 1 .. OrderSize
      BY <1>1
    <3> QED BY <1>2, <1>3, <1>4, <3>1
  <2> QED BY <1>3, <1>4, <2>1, SeqEqual
<1>6. head \o rest = t
  BY <1>4, <1>5
<1> HIDE DEF head
<1>7. BytesOf(t) = BytesOf(head) \cup BytesOf(rest)
  <2>1. BytesOf(head \o rest) = BytesOf(head) \cup BytesOf(rest)
    BY <1>3, <1>4, BytesOfJoin
  <2> QED BY <1>6, <2>1
<1>8. NoRepeat(t)
  BY <1>2 DEF NoRepeat
<1>9. BytesOf(head) \cap BytesOf(rest) = {} /\ NoRepeat(head)
  BY <1>3, <1>4, <1>6, <1>8, NoRepeatSplit
<1>10. \A b \in BytesOf(head) \cup BytesOf(rest) : b.order = o
  <2>1. DOMAIN t = 1 .. OrderSize
    BY <1>2
  <2>2. \A b \in BytesOf(t) : b.order = o
    BY <1>2, <2>1 DEF BytesOf
  <2> QED BY <1>7, <2>2
<1> QED BY <1>3, <1>4, <1>6, <1>7, <1>9, <1>10 DEF NewBytes, head, rest, t, o

-----------------------------------------------------------------------------
(* sendOrder *)

OrdersIn(s) == {b.order : b \in BytesOf(s)}

(* The orders in the queue are finitely many. *)
LEMMA EntriesFinite ==
  ASSUME ClientTypeOK, Known
  PROVE  /\ OrdersIn(queue) \subseteq 1 .. calls
         /\ IsFiniteSet(OrdersIn(queue)) /\ Entries(queue) \in Nat
<1>1. ASSUME NEW b \in BytesOf(queue) PROVE b.order \in 1 .. calls
  <2>1. b \in AllBytes /\ b.order <= calls /\ calls \in Nat
    BY DEF ClientTypeOK, Known, BytesOf
  <2> QED BY <2>1 DEF AllBytes
<1>2. OrdersIn(queue) \subseteq 1 .. calls
  BY <1>1 DEF OrdersIn
<1>3. IsFiniteSet(1 .. calls)
  BY FS_Interval DEF ClientTypeOK
<1>4. IsFiniteSet(OrdersIn(queue))
  BY <1>2, <1>3, FS_Subset
<1> QED BY <1>2, <1>4, FS_CardinalityType DEF Entries, OrdersIn

(* Every way through sendOrder: head is written, and the order is queued   *)
(* with the rest, complete, or refused, perhaps after a part of it.        *)
SendMove(head, rest, sent) ==
  /\ calls' = calls + 1
  /\ wire' = wire \o head
  /\ UNCHANGED <<past, discarded>>
  /\ \/ /\ sent < OrderSize /\ Entries(queue) < QUEUE_CAPACITY
        /\ queue' = queue \o rest /\ accepted' = accepted \cup {NewOrder}
     \/ /\ sent = OrderSize
        /\ queue' = queue /\ accepted' = accepted \cup {NewOrder}
     \/ queue' = queue /\ accepted' = accepted

(* Where the bytes are after sendOrder: the new ones were nowhere. *)
LEMMA SendBytes ==
  ASSUME ClientInv, NEW sent \in 0 .. OrderSize, NEW head, NEW rest,
         NewBytes(head, rest, sent), SendMove(head, rest, sent)
  PROVE  /\ wire' \in Seq(AllBytes) /\ queue' \in Seq(AllBytes)
         /\ BytesOf(wire') = BytesOf(wire) \cup BytesOf(head)
         /\ BytesOf(queue') = BytesOf(queue)
              \/ BytesOf(queue') = BytesOf(queue) \cup BytesOf(rest)
         /\ NewOrder \in Nat /\ NewOrder = calls + 1
         /\ \A b \in BytesOf(queue) \cup BytesOf(wire) \cup past \cup discarded :
              b.order # NewOrder /\ b.order \in 1 .. calls
         /\ NewOrder \notin accepted
<1>1. /\ wire \in Seq(AllBytes) /\ queue \in Seq(AllBytes)
      /\ head \in Seq(AllBytes) /\ rest \in Seq(AllBytes)
      /\ calls \in Nat /\ accepted \subseteq 1 .. calls
      /\ past \subseteq AllBytes /\ discarded \subseteq AllBytes
  BY DEF ClientInv, ClientTypeOK, NewBytes
<1>2. /\ wire \o head \in Seq(AllBytes) /\ queue \o rest \in Seq(AllBytes)
      /\ BytesOf(wire \o head) = BytesOf(wire) \cup BytesOf(head)
      /\ BytesOf(queue \o rest) = BytesOf(queue) \cup BytesOf(rest)
  BY <1>1, BytesOfJoin, JoinElements
<1>3. NewOrder \in Nat /\ NewOrder = calls + 1 /\ NewOrder \notin accepted
  BY <1>1 DEF NewOrder
<1>4. ASSUME NEW b \in BytesOf(queue) \cup BytesOf(wire) \cup past \cup discarded
      PROVE  b.order # NewOrder /\ b.order \in 1 .. calls
  <2>1. b \in AllBytes
    BY <1>1 DEF BytesOf
  <2>2. b.order <= calls
    BY DEF ClientInv, Known
  <2> QED BY <1>1, <1>3, <2>1, <2>2 DEF AllBytes
<1> QED BY <1>1, <1>2, <1>3, <1>4 DEF SendMove

(* sendOrder keeps everything but the framing. *)
LEMMA SendKeeps ==
  ASSUME ClientInv, NEW sent \in 0 .. OrderSize, NEW head, NEW rest,
         NewBytes(head, rest, sent), SendMove(head, rest, sent),
         rest = Bytes(NewOrder, sent + 1), broken' \in BOOLEAN
  PROVE  /\ ClientTypeOK' /\ Known' /\ QueueInv'
         /\ AtMostOnce' /\ AcceptedAccountedFor'
<1>1. /\ wire' \in Seq(AllBytes) /\ queue' \in Seq(AllBytes)
      /\ BytesOf(wire') = BytesOf(wire) \cup BytesOf(head)
      /\ BytesOf(queue') = BytesOf(queue)
           \/ BytesOf(queue') = BytesOf(queue) \cup BytesOf(rest)
      /\ NewOrder \in Nat /\ NewOrder = calls + 1
      /\ \A b \in BytesOf(queue) \cup BytesOf(wire) \cup past \cup discarded :
           b.order # NewOrder /\ b.order \in 1 .. calls
      /\ NewOrder \notin accepted
  BY SendBytes
<1>2. /\ wire \in Seq(AllBytes) /\ queue \in Seq(AllBytes)
      /\ calls \in Nat /\ accepted \subseteq 1 .. calls
      /\ past \subseteq AllBytes /\ discarded \subseteq AllBytes
      /\ Entries(queue) <= QUEUE_CAPACITY
  BY DEF ClientInv, ClientTypeOK
<1>3. /\ calls' = calls + 1 /\ past' = past /\ discarded' = discarded
      /\ wire' = wire \o head
  BY DEF SendMove
<1>4. /\ BytesOf(Bytes(NewOrder, 1)) = BytesOf(head) \cup BytesOf(rest)
      /\ BytesOf(head) \cap BytesOf(rest) = {}
      /\ NoRepeat(head) /\ head \in Seq(AllBytes)
      /\ \A b \in BytesOf(head) \cup BytesOf(rest) : b.order = NewOrder
  BY DEF NewBytes
<1>5. CASE queue' = queue
  <2>1. accepted' \subseteq 1 .. calls'
    <3>1. accepted' \subseteq accepted \cup {NewOrder}
      BY DEF SendMove
    <3> QED BY <1>1, <1>2, <1>3, <3>1
  <2>2. ClientTypeOK'
    BY <1>1, <1>2, <1>3, <1>5, <2>1 DEF ClientTypeOK, Entries
  <2>3. Known'
    BY <1>1, <1>2, <1>3, <1>4, <1>5 DEF Known
  <2>4. QueueInv'
    <3>1. accepted \subseteq accepted'
      BY DEF SendMove
    <3> QED BY <1>3, <1>5, <3>1 DEF ClientInv, QueueInv
  <2>5. AtMostOnce'
    <3>1. NoRepeat(wire')
      <4>1. BytesOf(wire) \cap BytesOf(head) = {}
        BY <1>1, <1>4
      <4> QED BY <1>2, <1>3, <1>4, <4>1, NoRepeatJoin DEF ClientInv, AtMostOnce
    <3>2. /\ BytesOf(wire') \cap past' = {}
          /\ BytesOf(queue') \cap Written' = {}
      BY <1>1, <1>3, <1>4, <1>5 DEF ClientInv, AtMostOnce, Written
    <3> QED BY <1>5, <3>1, <3>2 DEF ClientInv, AtMostOnce
  <2>6. AcceptedAccountedFor'
    <3>1. ASSUME NEW o \in accepted
          PROVE  BytesOf(Bytes(o, 1)) \subseteq
                   Written' \cup BytesOf(queue') \cup discarded'
      BY <1>1, <1>3, <1>5 DEF ClientInv, AcceptedAccountedFor, Written
    <3>2. ASSUME sent = OrderSize
          PROVE  BytesOf(Bytes(NewOrder, 1)) \subseteq Written'
      <4>1. Len(rest) = 0
        BY <3>2, OrderSizeAssumption DEF NewBytes
      <4>2. BytesOf(rest) = {}
        BY <4>1 DEF BytesOf, NewBytes
      <4> QED BY <1>1, <1>4, <4>2 DEF Written
    <3>3. \/ accepted' = accepted
          \/ accepted' = accepted \cup {NewOrder} /\ sent = OrderSize
          \/ sent < OrderSize /\ queue' = queue \o rest
      BY Zenon DEF SendMove
    <3>4. ~ (sent < OrderSize /\ queue' = queue \o rest)
      <4> SUFFICES ASSUME sent < OrderSize, queue' = queue \o rest PROVE FALSE
        OBVIOUS
      <4>1. rest \in Seq(AllBytes) /\ Len(rest) = OrderSize - sent
        BY DEF NewBytes
      <4>2. Len(rest) > 0
        BY <4>1, OrderSizeAssumption
      <4>3. Len(queue \o rest) = Len(queue) + Len(rest)
            /\ Len(queue) \in Nat /\ Len(rest) \in Nat
        BY <1>2, <4>1, JoinElements
      <4>4. Len(queue') = Len(queue) /\ Len(queue') = Len(queue \o rest)
        BY <1>5
      <4> QED BY <4>2, <4>3, <4>4
    <3> QED BY <3>1, <3>2, <3>3, <3>4 DEF AcceptedAccountedFor
  <2> QED BY <2>2, <2>3, <2>4, <2>5, <2>6
<1>6. CASE /\ sent < OrderSize /\ Entries(queue) < QUEUE_CAPACITY
           /\ queue' = queue \o rest /\ accepted' = accepted \cup {NewOrder}
  <2>0. BytesOf(queue') = BytesOf(queue) \cup BytesOf(rest)
    BY <1>2, <1>6, BytesOfJoin DEF NewBytes
  <2>1. accepted' \subseteq 1 .. calls'
    BY <1>1, <1>2, <1>3, <1>6
  <2>2. Entries(queue') <= QUEUE_CAPACITY
    <3>1. /\ IsFiniteSet(OrdersIn(queue)) /\ Entries(queue) \in Nat
          /\ Entries(queue) = Cardinality(OrdersIn(queue))
      BY EntriesFinite DEF ClientInv, Entries, OrdersIn
    <3>2. OrdersIn(queue') \subseteq OrdersIn(queue) \cup {NewOrder}
      BY <1>4, <2>0 DEF OrdersIn
    <3>3. /\ IsFiniteSet(OrdersIn(queue) \cup {NewOrder})
          /\ Cardinality(OrdersIn(queue) \cup {NewOrder}) <= Entries(queue) + 1
      <4> DEFINE S == OrdersIn(queue)
                 T == S \cup {NewOrder}
      <4>1. IsFiniteSet(S) /\ Entries(queue) = Cardinality(S) /\ Cardinality(S) \in Nat
        BY <3>1
      <4> HIDE DEF S
      <4>2. /\ IsFiniteSet(T)
            /\ Cardinality(T) = Cardinality(S) \/ Cardinality(T) = Cardinality(S) + 1
        BY ONLY <4>1, FS_AddElement
      <4> HIDE DEF T
      <4>3. Cardinality(T) <= Entries(queue) + 1
        BY ONLY <4>1, <4>2
      <4> QED BY <4>2, <4>3 DEF S, T
    <3>4. Cardinality(OrdersIn(queue')) <= Entries(queue) + 1
      <4>1. /\ Cardinality(OrdersIn(queue'))
                 <= Cardinality(OrdersIn(queue) \cup {NewOrder})
            /\ Cardinality(OrdersIn(queue')) \in Nat
            /\ Cardinality(OrdersIn(queue) \cup {NewOrder}) \in Nat
        BY <3>2, <3>3, FS_Subset, FS_CardinalityType
      <4> QED BY <3>1, <3>3, <4>1
    <3>5. Cardinality(OrdersIn(queue')) \in Nat
      BY <3>2, <3>3, FS_Subset, FS_CardinalityType
    <3> QED BY <1>6, <3>1, <3>4, <3>5, QueueCapacityAssumption
            DEF Entries, OrdersIn
  <2>3. ClientTypeOK'
    BY <1>1, <1>2, <1>3, <2>1, <2>2 DEF ClientTypeOK
  <2>4. Known'
    BY <1>1, <1>2, <1>3, <1>4, <2>0 DEF Known
  <2>5. QueueInv'
    <3>1. Rests(queue')
      <4>1. \A i \in 1 .. Len(queue) : queue[i].order < NewOrder
        <5> SUFFICES ASSUME NEW i \in 1 .. Len(queue)
                     PROVE  queue[i].order < NewOrder
          OBVIOUS
        <5>1. queue[i].order \in 1 .. calls
          BY <1>1, <1>2, ByteFields
        <5> QED BY <1>1, <1>2, <5>1
      <4>2. sent + 1 \in 1 .. OrderSize /\ NewOrder # 0
        BY <1>1, <1>2, <1>6, OrderSizeAssumption
      <4> QED BY <1>1, <1>2, <1>6, <4>1, <4>2, RestsAppend
              DEF ClientInv, QueueInv
    <3>2. ASSUME NEW b \in BytesOf(queue')
          PROVE  b.order \in accepted' /\ \A d \in discarded' : d.order # b.order
      BY <1>1, <1>3, <1>4, <1>6, <2>0 DEF ClientInv, QueueInv
    <3> QED BY <3>1, <3>2 DEF QueueInv
  <2>6. AtMostOnce'
    <3>1. NoRepeat(wire')
      <4>1. BytesOf(wire) \cap BytesOf(head) = {}
        BY <1>1, <1>4
      <4> QED BY <1>2, <1>3, <1>4, <4>1, NoRepeatJoin DEF ClientInv, AtMostOnce
    <3>2. NoRepeat(queue')
      BY <1>1, <2>5, RestsNoRepeat DEF QueueInv
    <3>3. BytesOf(wire') \cap past' = {}
      BY <1>1, <1>3, <1>4 DEF ClientInv, AtMostOnce
    <3>4. BytesOf(queue') \cap Written' = {}
      BY <1>1, <1>3, <1>4, <2>0 DEF ClientInv, AtMostOnce, Written
    <3> QED BY <3>1, <3>2, <3>3, <3>4 DEF AtMostOnce
  <2>7. AcceptedAccountedFor'
    <3>1. ASSUME NEW o \in accepted
          PROVE  BytesOf(Bytes(o, 1)) \subseteq
                   Written' \cup BytesOf(queue') \cup discarded'
      BY <1>1, <1>3, <2>0 DEF ClientInv, AcceptedAccountedFor, Written
    <3>2. BytesOf(Bytes(NewOrder, 1)) \subseteq Written' \cup BytesOf(queue')
      BY <1>1, <1>4, <2>0 DEF Written
    <3> QED BY <1>6, <3>1, <3>2 DEF AcceptedAccountedFor
  <2> QED BY <2>3, <2>4, <2>5, <2>6, <2>7
<1> QED BY <1>5, <1>6 DEF SendMove

(* The ways through sendOrder, and what they do to the connection *)
LEMMA SendCases ==
  ASSUME ClientInv, SendOrder
  PROVE  \E sent \in 0 .. OrderSize :
           /\ SendMove(SubSeq(Bytes(NewOrder, 1), 1, sent),
                       Bytes(NewOrder, sent + 1), sent)
           /\ \/ /\ sent > 0 /\ WriteOrder(sent) /\ connState = "CONNECTED"
              \/ /\ sent = 0 /\ UNCHANGED <<wire, broken>>
                 /\ \/ queue' = queue /\ accepted' = accepted
                    \/ SendBlocks /\ connState = "CONNECTED"
                 /\ connState' = "CONNECTED" => connState = "CONNECTED"
<1>1. OrderSize \in Nat /\ OrderSize > 0 /\ 0 \in 0 .. OrderSize /\ calls \in Nat
  BY OrderSizeAssumption DEF ClientInv, ClientTypeOK
<1>2. calls' = calls + 1
  BY DEF SendOrder
<1> DEFINE Taken(sent) == SubSeq(Bytes(NewOrder, 1), 1, sent)
           Rest(sent) == Bytes(NewOrder, sent + 1)
<1>3. wire \o Taken(0) = wire
  <2>1. NewBytes(Taken(0), Rest(0), 0)
    BY <1>1, NewBytesFacts
  <2> HIDE DEF Taken, Rest
  <2>2. Taken(0) \in Seq(AllBytes) /\ Len(Taken(0)) = 0 /\ wire \in Seq(AllBytes)
    BY <2>1 DEF NewBytes, ClientInv, ClientTypeOK
  <2>3. Taken(0) = << >>
    BY <2>2
  <2> QED BY <2>2, <2>3
<1> HIDE DEF Taken, Rest
<1>4. CASE RefuseOrder
  <2>1. SendMove(Taken(0), Rest(0), 0)
    BY <1>2, <1>3, <1>4 DEF RefuseOrder, SendMove
  <2> QED BY <1>1, <1>4, <2>1 DEF RefuseOrder, tcpVars, Taken, Rest
<1>5. ASSUME NEW sent \in 1 .. OrderSize, WriteOrder(sent)
      PROVE  SendMove(Taken(sent), Rest(sent), sent)
  <2>1. wire' = wire \o Taken(sent) /\ UNCHANGED <<past, discarded>>
    BY <1>5 DEF WriteOrder, Taken
  <2>2. CASE sent = OrderSize
    BY <1>2, <1>5, <2>1, <2>2 DEF WriteOrder, SendMove
  <2>3. CASE sent # OrderSize
    <3>1. EnqueueRest(sent) /\ sent < OrderSize
      BY <1>1, <1>5, <2>3 DEF WriteOrder
    <3> QED BY <1>2, <2>1, <3>1 DEF EnqueueRest, SendMove, Rest
  <2> QED BY <2>2, <2>3
<1>6. CASE SendBlocks /\ connState = "CONNECTED"
  <2>1. EnqueueRest(0) /\ UNCHANGED <<wire, past, discarded, broken>>
    BY <1>6 DEF SendBlocks
  <2>2. SendMove(Taken(0), Rest(0), 0)
    BY <1>1, <1>2, <1>3, <2>1 DEF EnqueueRest, SendMove, Rest
  <2>3. connState' = "CONNECTED" => connState = "CONNECTED"
    BY <1>6 DEF SendBlocks, tcpVars, ConnectionLost
  <2> QED BY <1>1, <1>6, <2>1, <2>2, <2>3 DEF Taken, Rest
<1>7. CASE SendFails
  <2>1. SendMove(Taken(0), Rest(0), 0)
    BY <1>2, <1>3, <1>7 DEF SendFails, SendMove
  <2>2. connState' = "CONNECTED" => connState = "CONNECTED"
    BY <1>7 DEF SendFails, ConnectionLost
  <2> QED BY <1>1, <1>7, <2>1, <2>2 DEF SendFails, Taken, Rest
<1>8. ASSUME NEW sent \in 1 .. OrderSize, WriteOrder(sent),
             connState = "CONNECTED"
      PROVE  sent \in 0 .. OrderSize /\ sent > 0
             /\ SendMove(Taken(sent), Rest(sent), sent)
  BY <1>1, <1>5, <1>8
<1> QED BY <1>4, <1>6, <1>7, <1>8 DEF SendOrder, Taken, Rest

(* sendOrder keeps the framing, or says that it is at risk. *)
LEMMA SendKeepsStream ==
  ASSUME ClientInv, SendOrder
  PROVE  StreamInv' /\ broken' \in BOOLEAN
<1> DEFINE t == Bytes(NewOrder, 1)
<1>1. /\ wire \in Seq(AllBytes) /\ queue \in Seq(AllBytes)
      /\ calls \in Nat /\ broken \in BOOLEAN /\ NewOrder \in Nat /\ NewOrder # 0
      /\ OrderSize \in Nat /\ OrderSize > 0
  BY OrderSizeAssumption DEF ClientInv, ClientTypeOK, NewOrder
<1>2. t \in Seq(AllBytes) /\ Len(t) = OrderSize /\ Stream(t) /\ Whole(t)
  <2>1. 1 \in 1 .. OrderSize + 1 /\ OrderSize - 1 + 1 = OrderSize
    BY <1>1
  <2>2. t \in Seq(AllBytes) /\ Len(t) = OrderSize - 1 + 1
    BY <1>1, <2>1, BytesType
  <2> QED BY <1>1, <2>1, <2>2, StreamOfOrder
<1> HIDE DEF t
<1>3. PICK sent \in 0 .. OrderSize :
        \/ sent > 0 /\ WriteOrder(sent) /\ connState = "CONNECTED"
        \/ /\ sent = 0 /\ UNCHANGED <<wire, broken>>
           /\ queue' = queue \/ SendBlocks
           /\ connState' = "CONNECTED" => connState = "CONNECTED"
  BY SendCases
<1>4. CASE /\ UNCHANGED <<wire, broken>>
           /\ queue' = queue \/ SendBlocks
           /\ connState' = "CONNECTED" => connState = "CONNECTED"
  <2>1. queue' = queue \/ queue' = queue \o t
    <3>1. 0 + 1 = 1
      OBVIOUS
    <3> QED BY <1>4, <3>1 DEF SendBlocks, EnqueueRest, t
  <2> SUFFICES ASSUME ~ broken, connState' = "CONNECTED"
               PROVE  Stream(wire \o queue') /\ Whole(wire \o queue')
    BY <1>1, <1>4 DEF ClientInv, StreamInv
  <2>2. Stream(wire \o queue) /\ Whole(wire \o queue)
    BY <1>4 DEF ClientInv, StreamInv
  <2>3. wire \o (queue \o t) = (wire \o queue) \o t
    BY <1>1, <1>2, JoinThree
  <2>4. wire \o queue \in Seq(AllBytes)
    BY <1>1
  <2>5. Stream((wire \o queue) \o t) /\ Whole((wire \o queue) \o t)
    BY <1>2, <2>2, <2>4, StreamJoin
  <2> QED BY <2>1, <2>2, <2>3, <2>5
<1>5. CASE sent > 0 /\ WriteOrder(sent) /\ connState = "CONNECTED"
  <2>1. broken' = (broken \/ PartialPending \/ (sent < OrderSize /\ queue # << >>))
    BY <1>5 DEF WriteOrder
  <2>2. broken' \in BOOLEAN
    BY <2>1
  <2> SUFFICES ASSUME ~ broken'
               PROVE  /\ Stream(wire')
                      /\ Stream(wire' \o queue') /\ Whole(wire' \o queue')
    BY <2>2 DEF StreamInv
  <2>3. /\ ~ broken /\ ~ PartialPending
        /\ sent = OrderSize \/ (sent < OrderSize /\ queue = << >>)
    <3>1. ~ broken /\ ~ PartialPending /\ ~ (sent < OrderSize /\ queue # << >>)
      BY <2>1, Zenon
    <3> QED BY <1>1, <3>1
  <2>4. Stream(wire \o queue) /\ Whole(wire \o queue)
    BY <1>5, <2>3 DEF ClientInv, StreamInv
  <2>5. Stream(queue) /\ Whole(queue)
    BY <1>1, <2>3, QueueStream DEF ClientInv, QueueInv
  <2>6. Stream(wire) /\ Whole(wire)
    <3>1. Len(queue) > 0 => queue[1].pos = 1
      BY <1>1, <2>5 DEF Stream
    <3>2. Len(queue) > 0 \/ Len(queue) = 0
      BY <1>1
    <3> QED BY <1>1, <2>4, <3>1, <3>2, StreamSplit
  <2>7. wire \o t \in Seq(AllBytes) /\ Stream(wire \o t) /\ Whole(wire \o t)
    BY <1>1, <1>2, <2>6, StreamJoin
  <2> DEFINE head == SubSeq(t, 1, sent)
             rest == Bytes(NewOrder, sent + 1)
  <2>8. /\ head \in Seq(AllBytes) /\ Len(head) = sent
        /\ rest \in Seq(AllBytes) /\ Len(rest) = OrderSize - sent
        /\ head \o rest = t
    BY <1>1, NewBytesFacts DEF NewBytes, t
  <2>9. wire' = wire \o head
    BY <1>5 DEF WriteOrder, t
  <2> HIDE DEF head, rest
  <2>10. CASE sent = OrderSize
    <3>1. queue' = queue
      BY <1>5, <2>10 DEF WriteOrder
    <3>2. rest = << >>
      BY <1>1, <2>8, <2>10
    <3>3. head = t
      BY <2>8, <3>2
    <3>4. Stream((wire \o t) \o queue) /\ Whole((wire \o t) \o queue)
      BY <1>1, <2>5, <2>7, StreamJoin
    <3> QED BY <2>7, <2>9, <3>1, <3>3, <3>4
  <2>11. CASE sent < OrderSize /\ queue = << >>
    <3>1. Entries(queue) < QUEUE_CAPACITY
      <4>1. {b.order : b \in BytesOf(queue)} = {}
        BY <2>11 DEF BytesOf
      <4> QED BY <4>1, FS_EmptySet, QueueCapacityAssumption DEF Entries
    <3>2. queue' = queue \o rest
      BY <1>1, <1>5, <2>11, <3>1 DEF WriteOrder, EnqueueRest, rest
    <3>3. queue' = rest
      BY <2>8, <2>11, <3>2
    <3>4. (wire \o head) \o rest = wire \o (head \o rest)
      <4>1. wire \in Seq(AllBytes) /\ head \in Seq(AllBytes)
            /\ rest \in Seq(AllBytes)
        BY <1>1, <2>8
      <4> QED BY <4>1, JoinThree
    <3>5. wire' \o queue' = wire \o t
      BY <2>8, <2>9, <3>3, <3>4
    <3>6. wire' \in Seq(AllBytes) /\ queue' \in Seq(AllBytes)
      BY <1>1, <2>8, <2>9, <3>3
    <3>7. Stream(wire')
      BY <2>7, <3>5, <3>6, StreamSplit
    <3> QED BY <2>7, <3>5, <3>7
  <2> QED BY <2>3, <2>10, <2>11
<1> QED BY <1>3, <1>4, <1>5

-----------------------------------------------------------------------------
(* processSendQueue *)

(* The queue in two parts, of which the first is written; the other stays  *)
(* or is thrown away.                                                      *)
TwoParts(head, rest) ==
  /\ head \in Seq(AllBytes) /\ rest \in Seq(AllBytes)
  /\ queue = head \o rest
  /\ BytesOf(queue) = BytesOf(head) \cup BytesOf(rest)
  /\ BytesOf(head) \cap BytesOf(rest) = {}
  /\ NoRepeat(head) /\ NoRepeat(rest) /\ Rests(rest)

LEMMA QueueParts ==
  ASSUME ClientInv, NEW sent \in 0 .. Len(queue)
  PROVE  TwoParts(SubSeq(queue, 1, sent), SubSeq(queue, sent + 1, Len(queue)))
<1> DEFINE head == SubSeq(queue, 1, sent)
           rest == SubSeq(queue, sent + 1, Len(queue))
<1>1. queue \in Seq(AllBytes) /\ Rests(queue) /\ NoRepeat(queue)
  BY DEF ClientInv, ClientTypeOK, QueueInv, AtMostOnce
<1>2. /\ head \in Seq(AllBytes) /\ rest \in Seq(AllBytes)
      /\ head \o rest = queue
  BY <1>1, SplitAt
<1>3. Rests(rest)
  BY <1>1, RestsDrop
<1> HIDE DEF head, rest
<1>4. BytesOf(head \o rest) = BytesOf(head) \cup BytesOf(rest)
  <2>1. head \in Seq(AllBytes) /\ rest \in Seq(AllBytes)
    BY <1>2
  <2> QED BY ONLY <2>1, BytesOfJoin
<1>5. NoRepeat(head \o rest)
  BY <1>1, <1>2
<1>6. /\ NoRepeat(head) /\ NoRepeat(rest) /\ BytesOf(head) \cap BytesOf(rest) = {}
  BY <1>2, <1>5, NoRepeatSplit
<1> QED BY <1>2, <1>3, <1>4, <1>6 DEF TwoParts, head, rest

(* The three ways through processSendQueue *)
FlushMove(head, rest) ==
  /\ wire' = wire \o head
  /\ UNCHANGED <<calls, accepted, past, broken>>
  /\ \/ queue' = rest /\ discarded' = discarded
     \/ /\ queue' = << >> /\ discarded' = discarded \cup BytesOf(rest)
        /\ rest # << >> /\ connState' # "CONNECTED"

LEMMA FlushCases ==
  ASSUME ClientInv, ProcessSendQueue
  PROVE  /\ connState = "CONNECTED" /\ queue # << >>
         /\ \E sent \in 0 .. Len(queue) :
              FlushMove(SubSeq(queue, 1, sent), SubSeq(queue, sent + 1, Len(queue)))
<1>1. /\ connState = "CONNECTED" /\ queue # << >>
      /\ UNCHANGED <<calls, accepted, past, broken>>
  BY DEF ProcessSendQueue
<1>2. queue \in Seq(AllBytes) /\ Len(queue) \in Nat
  BY DEF ClientInv, ClientTypeOK
<1>3. ASSUME NEW sent \in 0 .. Len(queue), FlushQueue(sent)
      PROVE  FlushMove(SubSeq(queue, 1, sent), SubSeq(queue, sent + 1, Len(queue)))
  BY <1>1, <1>3 DEF FlushQueue, FlushMove
<1>4. ASSUME NEW sent \in 0 .. Len(queue) - 1, AbandonQueue(sent),
             connState' # "CONNECTED"
      PROVE  /\ sent \in 0 .. Len(queue)
             /\ FlushMove(SubSeq(queue, 1, sent),
                          SubSeq(queue, sent + 1, Len(queue)))
  <2>1. sent \in 0 .. Len(queue) /\ Len(queue) - sent > 0
    BY <1>2
  <2> DEFINE rest == SubSeq(queue, sent + 1, Len(queue))
  <2>2. Len(rest) = Len(queue) - sent
    BY <1>2, <2>1, SplitAt
  <2> HIDE DEF rest
  <2>3. rest # << >>
    BY <2>1, <2>2
  <2> USE DEF rest
  <2> QED BY <1>1, <1>4, <2>1, <2>3 DEF AbandonQueue, FlushMove
<1>5. CASE \E sent \in 0 .. Len(queue) : FlushQueue(sent)
  BY <1>1, <1>3, <1>5
<1>6. CASE /\ \E sent \in 0 .. Len(queue) - 1 : AbandonQueue(sent)
           /\ ConnectionLost("DISCONNECTED") \/ ConnectionLost("ERROR_STATE")
  <2>1. connState' # "CONNECTED"
    BY <1>6 DEF ConnectionLost
  <2> QED BY <1>1, <1>4, <1>6, <2>1
<1>7. 0 .. Len(queue) - 1 \subseteq 0 .. Len(queue)
  BY <1>2
<1> QED BY <1>5, <1>6, <1>7 DEF ProcessSendQueue

(* processSendQueue keeps the invariant. *)
LEMMA FlushStep ==
  ASSUME ClientInv, ProcessSendQueue
  PROVE  /\ ClientTypeOK' /\ Known' /\ QueueInv' /\ StreamInv'
         /\ AtMostOnce' /\ AcceptedAccountedFor'
<1>1. /\ wire \in Seq(AllBytes) /\ queue \in Seq(AllBytes)
      /\ calls \in Nat /\ accepted \subseteq 1 .. calls
      /\ past \subseteq AllBytes /\ discarded \subseteq AllBytes
      /\ broken \in BOOLEAN /\ Entries(queue) <= QUEUE_CAPACITY
  BY DEF ClientInv, ClientTypeOK
<1>2. PICK sent \in 0 .. Len(queue) :
        FlushMove(SubSeq(queue, 1, sent), SubSeq(queue, sent + 1, Len(queue)))
  BY FlushCases
<1> DEFINE head == SubSeq(queue, 1, sent)
           rest == SubSeq(queue, sent + 1, Len(queue))
<1>3. TwoParts(head, rest) /\ FlushMove(head, rest)
  BY <1>2, QueueParts
<1> HIDE DEF head, rest
<1>4. /\ head \in Seq(AllBytes) /\ rest \in Seq(AllBytes)
      /\ queue = head \o rest
      /\ BytesOf(queue) = BytesOf(head) \cup BytesOf(rest)
      /\ BytesOf(head) \cap BytesOf(rest) = {}
      /\ NoRepeat(head) /\ NoRepeat(rest) /\ Rests(rest)
  BY <1>3 DEF TwoParts
<1>5. /\ wire' = wire \o head
      /\ UNCHANGED <<calls, accepted, past, broken>>
      /\ \/ queue' = rest /\ discarded' = discarded
         \/ /\ queue' = << >> /\ discarded' = discarded \cup BytesOf(rest)
            /\ connState' # "CONNECTED"
  BY <1>3 DEF FlushMove
<1>6. /\ wire' \in Seq(AllBytes)
      /\ BytesOf(wire') = BytesOf(wire) \cup BytesOf(head)
  BY <1>1, <1>4, <1>5, BytesOfJoin, JoinElements
<1>7. BytesOf(<< >>) = {}
  BY DEF BytesOf
<1>8. /\ queue' \in Seq(AllBytes) /\ discarded' \subseteq AllBytes
      /\ BytesOf(queue') \subseteq BytesOf(rest)
      /\ BytesOf(queue') \cup discarded' = BytesOf(rest) \cup discarded
      /\ discarded' = discarded \/ BytesOf(queue') = {}
  <2>1. BytesOf(rest) \subseteq AllBytes
    BY <1>4 DEF BytesOf
  <2>2. << >> \in Seq(AllBytes)
    OBVIOUS
  <2> QED BY <1>1, <1>4, <1>5, <1>7, <2>1, <2>2
<1>9. Entries(queue') <= QUEUE_CAPACITY
  <2>1. /\ IsFiniteSet(OrdersIn(queue)) /\ Entries(queue) \in Nat
        /\ Entries(queue) = Cardinality(OrdersIn(queue))
    BY EntriesFinite DEF ClientInv, Entries, OrdersIn
  <2>2. OrdersIn(queue') \subseteq OrdersIn(queue)
    BY <1>4, <1>8 DEF OrdersIn
  <2>3. /\ Cardinality(OrdersIn(queue')) <= Entries(queue)
        /\ Cardinality(OrdersIn(queue')) \in Nat
    BY <2>1, <2>2, FS_Subset, FS_CardinalityType
  <2>4. Entries(queue') = Cardinality(OrdersIn(queue'))
    BY DEF Entries, OrdersIn
  <2> QED BY <1>1, <2>1, <2>3, <2>4, QueueCapacityAssumption
<1>10. ClientTypeOK'
  BY <1>1, <1>5, <1>6, <1>8, <1>9 DEF ClientTypeOK
<1>11. Known'
  BY <1>4, <1>5, <1>6, <1>8 DEF ClientInv, Known
<1>12. Rests(queue') /\ NoRepeat(queue')
  BY <1>4, <1>5 DEF Rests, NoRepeat
<1>13. QueueInv'
  <2>1. ASSUME NEW b \in BytesOf(queue')
        PROVE  b.order \in accepted' /\ \A d \in discarded' : d.order # b.order
    <3>1. b \in BytesOf(queue) /\ discarded' = discarded
      BY <1>4, <1>8, <2>1
    <3> QED BY <1>5, <3>1 DEF ClientInv, QueueInv
  <2> QED BY <1>12, <2>1 DEF QueueInv
<1>14. StreamInv'
  <2> SUFFICES ASSUME ~ broken
               PROVE  /\ Stream(wire')
                      /\ connState' = "CONNECTED" =>
                           Stream(wire' \o queue') /\ Whole(wire' \o queue')
    BY <1>5 DEF StreamInv
  <2>1. Stream(wire \o queue) /\ Whole(wire \o queue)
    BY FlushCases DEF ClientInv, StreamInv
  <2>2. (wire \o head) \o rest = wire \o (head \o rest)
    <3>1. wire \in Seq(AllBytes) /\ head \in Seq(AllBytes)
          /\ rest \in Seq(AllBytes)
      BY <1>1, <1>4
    <3> QED BY <3>1, JoinThree
  <2>3. wire' \o rest = wire \o queue
    BY <1>4, <1>5, <2>2
  <2>4. Stream(wire')
    BY <1>4, <1>6, <2>1, <2>3, StreamSplit
  <2>5. connState' = "CONNECTED" => queue' = rest
    BY <1>5
  <2> QED BY <2>1, <2>3, <2>4, <2>5
<1>15. AtMostOnce'
  <2>1. NoRepeat(wire')
    <3>1. BytesOf(wire) \cap BytesOf(head) = {} /\ NoRepeat(wire)
      BY <1>4 DEF ClientInv, AtMostOnce, Written
    <3> QED BY <1>1, <1>4, <1>5, <3>1, NoRepeatJoin
  <2>2. BytesOf(wire') \cap past' = {}
    BY <1>4, <1>5, <1>6 DEF ClientInv, AtMostOnce, Written
  <2>3. BytesOf(queue') \cap Written' = {}
    BY <1>4, <1>5, <1>6, <1>8 DEF ClientInv, AtMostOnce, Written
  <2> QED BY <1>12, <2>1, <2>2, <2>3 DEF AtMostOnce
<1>16. AcceptedAccountedFor'
  <2>1. Written' \cup BytesOf(queue') \cup discarded'
          = Written \cup BytesOf(queue) \cup discarded
    BY <1>4, <1>5, <1>6, <1>8 DEF Written
  <2>2. ASSUME NEW o \in accepted
        PROVE  BytesOf(Bytes(o, 1)) \subseteq
                 Written' \cup BytesOf(queue') \cup discarded'
    BY <2>1 DEF ClientInv, AcceptedAccountedFor
  <2> QED BY <1>5, <2>2 DEF AcceptedAccountedFor
<1> QED BY <1>10, <1>11, <1>13, <1>14, <1>15, <1>16

-----------------------------------------------------------------------------
(* The other steps *)

(* calculateBackoff stays between the initial backoff and the cap. *)
LEMMA BackoffStays ==
  ASSUME NEW backoff \in INITIAL_BACKOFF_MS .. MAX_BACKOFF_MS
  PROVE  CalculateBackoff(backoff) \subseteq INITIAL_BACKOFF_MS .. MAX_BACKOFF_MS
<1>1. /\ INITIAL_BACKOFF_MS \in Nat /\ MAX_BACKOFF_MS \in Nat
      /\ INITIAL_BACKOFF_MS <= MAX_BACKOFF_MS
      /\ JitterDivisor \in Nat /\ JitterDivisor > 0
  BY BackoffAssumption, JitterAssumption
<1>2. (2 * backoff) \div JitterDivisor \in Int
  BY <1>1
<1> QED BY <1>1, <1>2 DEF CalculateBackoff

(* The variables of TcpClient keep their types. *)
LEMMA TcpStep ==
  ASSUME TcpTypeOK, [Next]_vars
  PROVE  TcpTypeOK'
<1>1. /\ INITIAL_BACKOFF_MS \in Nat /\ MAX_BACKOFF_MS \in Nat
      /\ INITIAL_BACKOFF_MS <= MAX_BACKOFF_MS /\ MAX_RECONNECT_ATTEMPTS \in Nat
  BY BackoffAssumption, AttemptsAssumption
<1>2. CASE UNCHANGED tcpVars
  BY <1>2 DEF tcpVars, TcpTypeOK
<1>3. CASE ConnectionLost("ERROR_STATE") \/ ConnectionLost("DISCONNECTED")
           \/ Disconnect
  BY <1>3 DEF ConnectionLost, Disconnect, TcpTypeOK
<1>4. CASE ReconnectSucceeds
  BY <1>1, <1>4 DEF ReconnectSucceeds, TcpTypeOK
<1>5. CASE ReconnectFails
  <2>1. currentBackoffMs' \in INITIAL_BACKOFF_MS .. MAX_BACKOFF_MS
    BY <1>5, BackoffStays DEF ReconnectFails, TcpTypeOK
  <2> QED BY <1>1, <1>5, <2>1 DEF ReconnectFails, MayReconnect, TcpTypeOK
<1>6. CASE Elapse(1)
  BY <1>1, <1>6 DEF Elapse, Older, TcpTypeOK
<1>7. CASE SendOrder
  BY <1>2, <1>3, <1>7
  DEF SendOrder, RefuseOrder, WriteOrder, SendBlocks, SendFails
<1>8. CASE ProcessSendQueue
  BY <1>2, <1>3, <1>8 DEF ProcessSendQueue
<1> QED BY <1>2, <1>3, <1>4, <1>5, <1>6, <1>7, <1>8
        DEF Next, ReconnectClient, DisconnectClient, vars

(* sendOrder keeps the invariant. *)
LEMMA SendStep ==
  ASSUME ClientInv, SendOrder
  PROVE  /\ ClientTypeOK' /\ Known' /\ QueueInv' /\ StreamInv'
         /\ AtMostOnce' /\ AcceptedAccountedFor'
<1>1. StreamInv' /\ broken' \in BOOLEAN
  BY SendKeepsStream
<1>2. PICK sent \in 0 .. OrderSize :
        SendMove(SubSeq(Bytes(NewOrder, 1), 1, sent), Bytes(NewOrder, sent + 1),
                 sent)
  BY SendCases
<1>3. NewBytes(SubSeq(Bytes(NewOrder, 1), 1, sent), Bytes(NewOrder, sent + 1),
               sent)
  BY NewBytesFacts DEF ClientInv, ClientTypeOK
<1> QED BY <1>1, <1>2, <1>3, SendKeeps

(* A new connection starts an empty stream, which the queue continues      *)
(* unless it holds the rest of an order.                                   *)
LEMMA ReconnectStep ==
  ASSUME ClientInv, ReconnectClient
  PROVE  /\ ClientTypeOK' /\ Known' /\ QueueInv' /\ StreamInv'
         /\ AtMostOnce' /\ AcceptedAccountedFor'
<1>1. CASE /\ ReconnectSucceeds /\ wire' = << >> /\ past' = Written
           /\ broken' = PartialPending
           /\ UNCHANGED <<queue, calls, accepted, discarded>>
  <2>1. BytesOf(<< >>) = {} /\ << >> \in Seq(AllBytes)
    BY DEF BytesOf
  <2>2. Written' = Written /\ BytesOf(wire') = {}
    BY <1>1, <2>1 DEF Written
  <2>3. /\ wire \in Seq(AllBytes) /\ queue \in Seq(AllBytes)
        /\ past \subseteq AllBytes
    BY DEF ClientInv, ClientTypeOK
  <2>4. Written \subseteq AllBytes
    BY <2>3 DEF Written, BytesOf
  <2>5. PartialPending \in BOOLEAN
    BY DEF PartialPending
  <2>6. ClientTypeOK'
    BY <1>1, <2>1, <2>4, <2>5 DEF ClientInv, ClientTypeOK, Entries
  <2>7. Known'
    BY <1>1, <2>2 DEF ClientInv, Known, Written
  <2>8. QueueInv'
    BY <1>1 DEF ClientInv, QueueInv
  <2>9. StreamInv'
    <3> SUFFICES ASSUME ~ PartialPending
                 PROVE  /\ Stream(<< >>)
                        /\ Stream(<< >> \o queue) /\ Whole(<< >> \o queue)
      BY <1>1 DEF StreamInv
    <3>1. << >> \o queue = queue
      BY <2>3
    <3>2. Stream(queue) /\ Whole(queue)
      BY <2>3, QueueStream DEF ClientInv, QueueInv
    <3>3. Stream(<< >>)
      BY DEF Stream
    <3> QED BY <3>1, <3>2, <3>3
  <2>10. AtMostOnce'
    BY <1>1, <2>2 DEF ClientInv, AtMostOnce, NoRepeat
  <2>11. AcceptedAccountedFor'
    BY <1>1, <2>2 DEF ClientInv, AcceptedAccountedFor
  <2> QED BY <2>6, <2>7, <2>8, <2>9, <2>10, <2>11
<1>2. CASE ReconnectFails /\ UNCHANGED clientVars
  <2>1. /\ UNCHANGED <<queue, calls, wire, accepted, past, discarded, broken>>
        /\ connState' # "CONNECTED"
    BY <1>2 DEF clientVars, ReconnectFails, MayReconnect
  <2> QED BY <2>1 DEF ClientInv, ClientTypeOK, Known, QueueInv, StreamInv,
                      AtMostOnce, AcceptedAccountedFor, Written, Entries
<1> QED BY <1>1, <1>2 DEF ReconnectClient

(* Steps that leave the bytes alone and connect nothing *)
LEMMA OtherStep ==
  ASSUME ClientInv, UNCHANGED clientVars,
         connState' = "CONNECTED" => connState = "CONNECTED"
  PROVE  /\ ClientTypeOK' /\ Known' /\ QueueInv' /\ StreamInv'
         /\ AtMostOnce' /\ AcceptedAccountedFor'
<1>1. UNCHANGED <<queue, calls, wire, accepted, past, discarded, broken>>
  BY DEF clientVars
<1> QED BY <1>1 DEF ClientInv, ClientTypeOK, Known, QueueInv, StreamInv,
                    AtMostOnce, AcceptedAccountedFor, Written, Entries

LEMMA ClientInitEstablishes == Init => ClientInv
<1> SUFFICES ASSUME Init PROVE ClientInv
  OBVIOUS
<1>1. TcpTypeOK
  BY BackoffAssumption, AttemptsAssumption DEF Init, TcpInit, TcpTypeOK
<1>2. /\ queue = << >> /\ wire = << >> /\ calls = 0 /\ accepted = {}
      /\ past = {} /\ discarded = {} /\ broken = FALSE
  BY DEF Init
<1>3. BytesOf(<< >>) = {} /\ << >> \in Seq(AllBytes)
      /\ << >> \o << >> = << >>
  BY DEF BytesOf
<1>4. Entries(queue) = 0
  BY <1>2, <1>3, FS_EmptySet DEF Entries
<1>5. ClientTypeOK
  <2>1. Entries(queue) <= QUEUE_CAPACITY
    BY <1>4, QueueCapacityAssumption
  <2> QED BY <1>2, <1>3, <2>1 DEF ClientTypeOK
<1>6. Known /\ AcceptedAccountedFor
  BY <1>2, <1>3 DEF Known, AcceptedAccountedFor
<1>7. QueueInv
  BY <1>2, <1>3 DEF QueueInv, Rests
<1>8. StreamInv
  BY <1>2, <1>3 DEF StreamInv, Stream, Whole
<1>9. AtMostOnce
  BY <1>2, <1>3 DEF AtMostOnce, NoRepeat, Written
<1> QED BY <1>1, <1>5, <1>6, <1>7, <1>8, <1>9 DEF ClientInv

(* Every step keeps the invariant. *)
LEMMA ClientNextPreserves == ClientInv /\ [Next]_vars => ClientInv'
<1> SUFFICES ASSUME ClientInv, [Next]_vars PROVE ClientInv'
  OBVIOUS
<1>1. TcpTypeOK'
  BY TcpStep DEF ClientInv
<1>2. CASE SendOrder
  BY <1>1, <1>2, SendStep DEF ClientInv
<1>3. CASE ProcessSendQueue
  BY <1>1, <1>3, FlushStep DEF ClientInv
<1>4. CASE ReconnectClient
  BY <1>1, <1>4, ReconnectStep DEF ClientInv
<1>5. CASE \/ DisconnectClient \/ UNCHANGED vars
           \/ Elapse(1) /\ UNCHANGED clientVars
  <2>1. /\ UNCHANGED clientVars
        /\ connState' = "CONNECTED" => connState = "CONNECTED"
    BY <1>5 DEF DisconnectClient, Disconnect, Elapse, vars, tcpVars
  <2> QED BY <1>1, <2>1, OtherStep DEF ClientInv
<1> QED BY <1>2, <1>3, <1>4, <1>5 DEF Next

-----------------------------------------------------------------------------
(* The inductive invariant holds. *)
THEOREM ClientInvariance == Spec => []ClientInv
BY ClientInitEstablishes, ClientNextPreserves, PTL DEF Spec

(* Every variable of the client keeps its type: at most QUEUE_CAPACITY     *)
(* orders wait.                                                            *)
THEOREM ClientTypeCorrect == Spec => []TypeOK
<1>1. ClientInv => TypeOK
  BY DEF ClientInv, ClientTypeOK, TypeOK
<1> QED BY <1>1, ClientInvariance, PTL

(* No byte of an order is written twice, over partial writes, errors and   *)
(* reconnections.                                                          *)
THEOREM BytesAtMostOnce == Spec => []AtMostOnce
<1>1. ClientInv => AtMostOnce
  BY DEF ClientInv
<1> QED BY <1>1, ClientInvariance, PTL

(* Every byte of an order for which sendOrder returned true is written,    *)
(* waiting, or was thrown away by processSendQueue after an error.         *)
THEOREM AcceptedNeverForgotten == Spec => []AcceptedAccountedFor
<1>1. ClientInv => AcceptedAccountedFor
  BY DEF ClientInv
<1> QED BY <1>1, ClientInvariance, PTL

(* The stream of a connection is framed, unless sendOrder wrote past or    *)
(* cut short what was queued, or the connection began with the rest of an  *)
(* order.                                                                  *)
THEOREM StreamFramedUnlessBroken == Spec => []FramedUnlessBroken
<1>1. ClientInv => FramedUnlessBroken
  BY StreamFramed DEF ClientInv, ClientTypeOK, StreamInv, FramedUnlessBroken
<1> QED BY <1>1, ClientInvariance, PTL

-----------------------------------------------------------------------------
(* The abstract channel *)

WrittenOrders == {o \in accepted : BytesOf(Bytes(o, 1)) \subseteq Written}
ThrownAway == {b.order : b \in discarded}

(* The bytes of an order that was accepted carry its number. *)
LEMMA OwnBytes ==
  ASSUME ClientInv, NEW o \in accepted
  PROVE  /\ \A b \in BytesOf(Bytes(o, 1)) : b.order = o
         /\ o \in Nat /\ o # 0 /\ o # NewOrder
<1>1. o \in Nat /\ o # 0 /\ o # NewOrder
  BY DEF ClientInv, ClientTypeOK, NewOrder
<1>2. 1 \in 1 .. OrderSize + 1
  BY OrderSizeAssumption
<1>3. BytesOf(Bytes(o, 1)) = {Byte(o, p) : p \in 1 .. OrderSize}
  BY <1>1, <1>2, BytesType
<1> QED BY <1>1, <1>3 DEF Byte

(* sendOrder changes nothing about the orders before it. *)
LEMMA SendKeepsWritten ==
  ASSUME ClientInv, NEW head \in Seq(AllBytes), wire' = wire \o head, past' = past,
         \A b \in BytesOf(head) : b.order = NewOrder, NEW o \in accepted
  PROVE  BytesOf(Bytes(o, 1)) \subseteq Written' <=>
         BytesOf(Bytes(o, 1)) \subseteq Written
<1>1. BytesOf(wire') = BytesOf(wire) \cup BytesOf(head)
  BY BytesOfJoin DEF ClientInv, ClientTypeOK
<1>2. Written' = Written \cup BytesOf(head)
  BY <1>1 DEF Written
<1> QED BY <1>2, OwnBytes

(* The number of entries, as the channel counts them *)
LEMMA SameCount == \A S : Channel!Cardinality(S) = Cardinality(S)
BY DEF Channel!Cardinality, Cardinality

(* sendOrder implements the channel's. *)
LEMMA SendRefines ==
  ASSUME ClientInv, ClientInv', SendOrder
  PROVE  Channel!SendOrder
<1>1. PICK sent \in 0 .. OrderSize :
        /\ SendMove(SubSeq(Bytes(NewOrder, 1), 1, sent),
                    Bytes(NewOrder, sent + 1), sent)
        /\ \/ /\ sent > 0 /\ WriteOrder(sent) /\ connState = "CONNECTED"
           \/ /\ sent = 0 /\ UNCHANGED <<wire, broken>>
              /\ \/ queue' = queue /\ accepted' = accepted
                 \/ SendBlocks /\ connState = "CONNECTED"
              /\ connState' = "CONNECTED" => connState = "CONNECTED"
  BY SendCases
<1> DEFINE head == SubSeq(Bytes(NewOrder, 1), 1, sent)
           rest == Bytes(NewOrder, sent + 1)
<1>2. NewBytes(head, rest, sent) /\ SendMove(head, rest, sent)
  BY <1>1, NewBytesFacts DEF ClientInv, ClientTypeOK
<1> HIDE DEF head, rest
<1>3. /\ head \in Seq(AllBytes) /\ rest \in Seq(AllBytes)
      /\ Len(rest) = OrderSize - sent
      /\ BytesOf(Bytes(NewOrder, 1)) = BytesOf(head) \cup BytesOf(rest)
      /\ \A b \in BytesOf(head) \cup BytesOf(rest) : b.order = NewOrder
  BY <1>2 DEF NewBytes
<1>4. /\ calls' = calls + 1 /\ wire' = wire \o head /\ past' = past
      /\ discarded' = discarded
  BY <1>2 DEF SendMove
<1>5. /\ wire \in Seq(AllBytes) /\ queue \in Seq(AllBytes)
      /\ NewOrder \notin accepted
  BY DEF ClientInv, ClientTypeOK, NewOrder
<1>6. \A o \in accepted : BytesOf(Bytes(o, 1)) \subseteq Written' <=>
                          BytesOf(Bytes(o, 1)) \subseteq Written
  <2>1. /\ head \in Seq(AllBytes) /\ wire' = wire \o head /\ past' = past
        /\ \A b \in BytesOf(head) : b.order = NewOrder
    BY <1>3, <1>4
  <2> QED BY <2>1, SendKeepsWritten
<1>7. ThrownAway' = ThrownAway
  BY <1>4 DEF ThrownAway
<1>8. connState' = "CONNECTED" => connState = "CONNECTED"
  BY <1>1 DEF WriteOrder, tcpVars
<1>9. CASE /\ sent < OrderSize /\ Entries(queue) < QUEUE_CAPACITY
           /\ queue' = queue \o rest /\ accepted' = accepted \cup {NewOrder}
  <2>1. connState = "CONNECTED"
    BY <1>1, <1>5, <1>9
  <2>2. BytesOf(queue') = BytesOf(queue) \cup BytesOf(rest)
    BY <1>3, <1>5, <1>9, BytesOfJoin
  <2>3. PICK b : b \in BytesOf(rest)
    <3>1. 1 \in DOMAIN rest
      BY <1>3, <1>9, OrderSizeAssumption
    <3> QED BY <3>1 DEF BytesOf
  <2>4. OrdersIn(queue') = OrdersIn(queue) \cup {NewOrder}
    BY <1>3, <2>2, <2>3 DEF OrdersIn
  <2>5. b \notin Written'
    BY <2>2, <2>3 DEF ClientInv, AtMostOnce
  <2>6. ~ (BytesOf(Bytes(NewOrder, 1)) \subseteq Written')
    BY <1>3, <2>3, <2>5
  <2>7. WrittenOrders' = WrittenOrders
    BY <1>6, <1>9, <2>6 DEF WrittenOrders
  <2>8. Channel!Cardinality(OrdersIn(queue)) < QUEUE_CAPACITY
    BY <1>9, SameCount DEF Entries, OrdersIn
  <2> QED BY <1>4, <1>7, <1>9, <2>1, <2>4, <2>7, <2>8
          DEF Channel!SendOrder, Channel!Queued, Channel!NewOrder, NewOrder,
              Entries, OrdersIn, WrittenOrders, ThrownAway
<1>10. CASE /\ sent = OrderSize
            /\ queue' = queue /\ accepted' = accepted \cup {NewOrder}
  <2>1. connState = "CONNECTED" /\ connState' = "CONNECTED"
    BY <1>1, <1>5, <1>10, OrderSizeAssumption DEF WriteOrder, tcpVars
  <2>2. OrdersIn(queue') = OrdersIn(queue)
    BY <1>10
  <2>3. BytesOf(Bytes(NewOrder, 1)) \subseteq Written'
    <3>1. rest = << >>
      BY <1>3, <1>10, OrderSizeAssumption
    <3>2. BytesOf(rest) = {}
      BY <3>1 DEF BytesOf
    <3>3. BytesOf(wire') = BytesOf(wire) \cup BytesOf(head)
      BY <1>3, <1>4, <1>5, BytesOfJoin
    <3> QED BY <1>3, <3>2, <3>3 DEF Written
  <2>4. WrittenOrders' = WrittenOrders \cup {NewOrder}
    BY <1>6, <1>10, <2>3 DEF WrittenOrders
  <2> QED BY <1>4, <1>7, <2>1, <2>2, <2>4
          DEF Channel!SendOrder, Channel!WrittenAtOnce, Channel!NewOrder, NewOrder,
              OrdersIn, WrittenOrders, ThrownAway
<1>11. CASE queue' = queue /\ accepted' = accepted
  <2>1. OrdersIn(queue') = OrdersIn(queue) /\ WrittenOrders' = WrittenOrders
    BY <1>6, <1>11 DEF WrittenOrders
  <2> QED BY <1>4, <1>7, <1>8, <2>1
          DEF Channel!SendOrder, Channel!Refused, Channel!NewOrder,
              OrdersIn, WrittenOrders, ThrownAway
<1> QED BY <1>2, <1>9, <1>10, <1>11 DEF SendMove

(* What is in front in the queue is of no later order than what follows. *)
LEMMA FrontIsEarlier ==
  ASSUME ClientInv, NEW sent \in 0 .. Len(queue),
         NEW x \in BytesOf(SubSeq(queue, 1, sent)),
         NEW y \in BytesOf(SubSeq(queue, sent + 1, Len(queue)))
  PROVE  x.order <= y.order /\ x.order \in Nat /\ y.order \in Nat
<1> DEFINE head == SubSeq(queue, 1, sent)
           rest == SubSeq(queue, sent + 1, Len(queue))
<1>1. queue \in Seq(AllBytes) /\ Rests(queue) /\ Len(queue) \in Nat
  BY DEF ClientInv, ClientTypeOK, QueueInv
<1>2. /\ head \in Seq(AllBytes) /\ Len(head) = sent
      /\ rest \in Seq(AllBytes) /\ Len(rest) = Len(queue) - sent
      /\ \A i \in 1 .. sent : head[i] = queue[i]
      /\ \A i \in 1 .. Len(queue) - sent : rest[i] = queue[sent + i]
  BY <1>1, SplitAt
<1>3. x \in BytesOf(head) /\ y \in BytesOf(rest)
  OBVIOUS
<1> HIDE DEF head, rest
<1>4. PICK i \in 1 .. sent : x = queue[i]
  BY <1>2, <1>3 DEF BytesOf
<1>5. PICK j \in 1 .. Len(queue) - sent : y = queue[sent + j]
  <2>1. DOMAIN rest = 1 .. Len(queue) - sent
    BY <1>2
  <2>2. PICK j \in DOMAIN rest : y = rest[j]
    BY <1>3 DEF BytesOf
  <2> QED BY <1>2, <2>1, <2>2
<1>6. /\ i \in 1 .. Len(queue) /\ sent + j \in 1 .. Len(queue) /\ i < sent + j
  BY <1>1
<1>7. Earlier(queue[i], queue[sent + j])
  BY <1>1, <1>6 DEF Rests
<1>8. x \in AllBytes /\ y \in AllBytes
  BY <1>1, <1>4, <1>5, <1>6
<1>9. x.order \in Nat /\ y.order \in Nat
  BY <1>8 DEF AllBytes
<1> QED BY <1>4, <1>5, <1>7, <1>9 DEF Earlier

(* A byte is one of its order's. *)
LEMMA ByteOfOrder ==
  ASSUME NEW b \in AllBytes
  PROVE  b \in BytesOf(Bytes(b.order, 1))
<1>1. /\ b.order \in Nat /\ b.order # 0 /\ b.pos \in 1 .. OrderSize
      /\ b = Byte(b.order, b.pos)
  BY DEF AllBytes, Byte
<1>2. 1 \in 1 .. OrderSize + 1
  BY OrderSizeAssumption
<1>3. BytesOf(Bytes(b.order, 1)) = {Byte(b.order, p) : p \in 1 .. OrderSize}
  BY <1>1, <1>2, BytesType
<1> QED BY <1>1, <1>3

(* processSendQueue implements the channel's Flush or Abandon: the orders  *)
(* it completes are the ones that have nothing left in the queue.          *)
LEMMA FlushRefines ==
  ASSUME ClientInv, ClientInv', ProcessSendQueue
  PROVE  Channel!Flush \/ Channel!Abandon
<1>1. connState = "CONNECTED" /\ queue # << >>
  BY FlushCases
<1>2. PICK sent \in 0 .. Len(queue) :
        FlushMove(SubSeq(queue, 1, sent), SubSeq(queue, sent + 1, Len(queue)))
  BY FlushCases
<1> DEFINE head == SubSeq(queue, 1, sent)
           rest == SubSeq(queue, sent + 1, Len(queue))
           S == OrdersIn(queue) \ OrdersIn(rest)
<1>3. /\ TwoParts(head, rest) /\ FlushMove(head, rest)
      /\ \A x \in BytesOf(head), y \in BytesOf(rest) :
           x.order <= y.order /\ x.order \in Nat /\ y.order \in Nat
  BY <1>2, QueueParts, FrontIsEarlier
<1> HIDE DEF head, rest
<1>4. /\ head \in Seq(AllBytes) /\ rest \in Seq(AllBytes)
      /\ BytesOf(queue) = BytesOf(head) \cup BytesOf(rest)
      /\ BytesOf(head) \cap BytesOf(rest) = {}
  BY <1>3 DEF TwoParts
<1>5. /\ wire' = wire \o head /\ calls' = calls
      /\ accepted' = accepted /\ past' = past
      /\ \/ queue' = rest /\ discarded' = discarded
         \/ /\ queue' = << >> /\ discarded' = discarded \cup BytesOf(rest)
            /\ rest # << >> /\ connState' # "CONNECTED"
  BY <1>3 DEF FlushMove
<1>6. /\ wire \in Seq(AllBytes) /\ queue \in Seq(AllBytes)
      /\ BytesOf(queue) \cap Written = {}
      /\ \A b \in BytesOf(queue) :
           b.order \in accepted /\ \A d \in discarded : d.order # b.order
  BY DEF ClientInv, ClientTypeOK, AtMostOnce, QueueInv
<1>7. Written' = Written \cup BytesOf(head)
  <2>1. BytesOf(wire') = BytesOf(wire) \cup BytesOf(head)
    BY <1>4, <1>5, <1>6, BytesOfJoin
  <2> QED BY <1>5, <2>1 DEF Written
<1>8. OrdersIn(queue) \ S = OrdersIn(rest)
  BY <1>4 DEF OrdersIn
<1>9. \A a \in S, b \in OrdersIn(queue) \ S : a < b
  <2> SUFFICES ASSUME NEW a \in S, NEW b \in OrdersIn(rest) PROVE a < b
    BY <1>8
  <2>1. PICK x \in BytesOf(queue) : a = x.order
    BY DEF OrdersIn
  <2>2. x \in BytesOf(head)
    BY <1>4, <2>1 DEF OrdersIn
  <2>3. PICK y \in BytesOf(rest) : b = y.order
    BY DEF OrdersIn
  <2>4. a <= b /\ a \in Nat /\ b \in Nat
    BY <1>3, <2>1, <2>2, <2>3
  <2>5. a # b
    OBVIOUS
  <2> QED BY <2>4, <2>5
<1>10. WrittenOrders' = WrittenOrders \cup S
  <2>1. ASSUME NEW o \in S
        PROVE  o \in accepted /\ BytesOf(Bytes(o, 1)) \subseteq Written'
    <3>1. PICK x \in BytesOf(queue) : o = x.order
      BY DEF OrdersIn
    <3>2. o \in accepted /\ \A d \in discarded : d.order # o
      BY <1>6, <3>1
    <3>3. \A b \in BytesOf(Bytes(o, 1)) : b.order = o
      BY <3>2, OwnBytes
    <3>4. BytesOf(Bytes(o, 1)) \subseteq Written \cup BytesOf(queue) \cup discarded
      BY <3>2 DEF ClientInv, AcceptedAccountedFor
    <3>5. \A b \in BytesOf(rest) : b.order # o
      BY DEF OrdersIn
    <3> QED BY <1>4, <1>7, <3>2, <3>3, <3>4, <3>5
  <2>2. ASSUME NEW o \in accepted, BytesOf(Bytes(o, 1)) \subseteq Written',
               ~ (BytesOf(Bytes(o, 1)) \subseteq Written)
        PROVE  o \in S
    <3>1. PICK x \in BytesOf(Bytes(o, 1)) : x \in BytesOf(head)
      BY <1>7, <2>2
    <3>2. x.order = o
      BY <3>1, OwnBytes
    <3>3. o \in OrdersIn(queue)
      BY <1>4, <3>1, <3>2 DEF OrdersIn
    <3>4. ASSUME NEW y \in BytesOf(rest) PROVE y.order # o
      <4>1. y \in AllBytes
        BY <1>4 DEF BytesOf
      <4>2. y \in BytesOf(Bytes(y.order, 1))
        BY <4>1, ByteOfOrder
      <4>3. y \notin Written'
        BY <1>4, <1>6, <1>7
      <4> QED BY <2>2, <4>2, <4>3
    <3> QED BY <3>3, <3>4 DEF OrdersIn
  <2>3. WrittenOrders' = {o \in accepted : BytesOf(Bytes(o, 1)) \subseteq Written'}
    BY <1>5 DEF WrittenOrders
  <2> HIDE DEF S
  <2> QED BY <1>7, <2>1, <2>2, <2>3 DEF WrittenOrders
<1>11. OrdersIn(queue) # {}
  <2>1. 1 \in DOMAIN queue
    BY <1>1, <1>6
  <2> QED BY <2>1 DEF OrdersIn, BytesOf
<1>12. S \in Channel!Prefixes
  <2>1. Channel!Prefixes = {T \in SUBSET OrdersIn(queue) :
                              \A a \in T, b \in OrdersIn(queue) \ T : a < b}
    BY DEF Channel!Prefixes, OrdersIn
  <2>2. S \subseteq OrdersIn(queue)
    OBVIOUS
  <2> HIDE DEF S
  <2> QED BY <1>9, <2>1, <2>2
<1> HIDE DEF S
<1>13. CASE queue' = rest /\ discarded' = discarded
  <2>1. OrdersIn(queue') = OrdersIn(queue) \ S /\ ThrownAway' = ThrownAway
    BY <1>8, <1>13 DEF ThrownAway
  <2>2. Channel!Flush
    BY <1>1, <1>5, <1>10, <1>11, <1>12, <2>1
    DEF Channel!Flush, OrdersIn, WrittenOrders, ThrownAway
  <2> QED BY <2>2
<1>14. CASE /\ queue' = << >> /\ discarded' = discarded \cup BytesOf(rest)
            /\ rest # << >> /\ connState' # "CONNECTED"
  <2>1. OrdersIn(queue') = {}
    BY <1>14 DEF OrdersIn, BytesOf
  <2>2. ThrownAway' = ThrownAway \cup (OrdersIn(queue) \ S)
    BY <1>8, <1>14 DEF ThrownAway, OrdersIn
  <2>3. S # OrdersIn(queue)
    <3>1. 1 \in DOMAIN rest
      BY <1>4, <1>14
    <3>2. OrdersIn(rest) # {}
      BY <3>1 DEF OrdersIn, BytesOf
    <3> QED BY <1>8, <3>2
  <2>4. Channel!Abandon
    BY <1>1, <1>5, <1>10, <1>11, <1>12, <1>14, <2>1, <2>2, <2>3
    DEF Channel!Abandon, OrdersIn, WrittenOrders, ThrownAway
  <2> QED BY <2>4
<1> QED BY <1>5, <1>13, <1>14

(* A step that changes no byte and no answer of sendOrder is seen only in  *)
(* the state of the connection.                                            *)
LEMMA ConnectionRefines ==
  ASSUME Written' = Written,
         UNCHANGED <<queue, calls, accepted, discarded>>,
         connState \in {"DISCONNECTED", "CONNECTED", "ERROR_STATE"}
  PROVE  /\ UNCHANGED <<calls, OrdersIn(queue), WrittenOrders, ThrownAway>>
         /\ connState' = connState => UNCHANGED Channel!channelVars
         /\ connState' # "CONNECTED" => Channel!Close
         /\ connState # "CONNECTED" /\ connState' = "CONNECTED" => Channel!Reopen
<1>1. UNCHANGED <<calls, OrdersIn(queue), WrittenOrders, ThrownAway>>
  BY DEF OrdersIn, WrittenOrders, ThrownAway
<1>2. connState' = connState => UNCHANGED Channel!channelVars
  BY <1>1 DEF Channel!channelVars, OrdersIn, WrittenOrders, ThrownAway
<1>3. connState' # "CONNECTED" => Channel!Close
  BY <1>1 DEF Channel!Close, OrdersIn, WrittenOrders, ThrownAway
<1>4. connState # "CONNECTED" /\ connState' = "CONNECTED" => Channel!Reopen
  BY <1>1 DEF Channel!Reopen, OrdersIn, WrittenOrders, ThrownAway
<1> QED BY <1>1, <1>2, <1>3, <1>4

(* The client implements the abstract channel: an accepted order leaves    *)
(* the queue only when its last byte is written, no order within the queue *)
(* overtakes another, and what an error throws away is thrown away with    *)
(* the connection.                                                         *)
THEOREM ClientImplementsChannel == Spec => ImplementsChannel
<1>1. Init => Channel!ChannelInit
  <2> SUFFICES ASSUME Init PROVE Channel!ChannelInit
    OBVIOUS
  <2>1. /\ connState = "CONNECTED" /\ queue = << >> /\ calls = 0
        /\ accepted = {} /\ discarded = {}
    BY DEF Init, TcpInit
  <2>2. BytesOf(queue) = {}
    BY <2>1 DEF BytesOf
  <2> QED BY <2>1, <2>2 DEF Channel!ChannelInit
<1>2. ClientInv /\ ClientInv' /\ [Next]_vars =>
        [Channel!ChannelNext]_(Channel!channelVars)
  <2> SUFFICES ASSUME ClientInv, ClientInv', [Next]_vars
               PROVE  [Channel!ChannelNext]_(Channel!channelVars)
    OBVIOUS
  <2>1. connState \in {"DISCONNECTED", "CONNECTED", "ERROR_STATE"}
    BY DEF ClientInv, TcpTypeOK
  <2>2. CASE SendOrder
    BY <2>2, SendRefines DEF Channel!ChannelNext
  <2>3. CASE ProcessSendQueue
    BY <2>3, FlushRefines DEF Channel!ChannelNext
  <2>4. CASE ReconnectSucceeds /\ ReconnectClient /\ past' = Written /\ wire' = << >>
             /\ UNCHANGED <<queue, calls, accepted, discarded>>
    <3>1. BytesOf(wire') = {}
      BY <2>4 DEF BytesOf
    <3>2. Written' = Written
      BY <2>4, <3>1 DEF Written
    <3>3. connState # "CONNECTED" /\ connState' = "CONNECTED"
      BY <2>4 DEF ReconnectSucceeds, MayReconnect
    <3> QED BY <2>1, <2>4, <3>2, <3>3, ConnectionRefines DEF Channel!ChannelNext
  <2>5. CASE /\ UNCHANGED clientVars
             /\ connState' # "CONNECTED" \/ connState' = connState
    <3>1. /\ UNCHANGED <<queue, calls, accepted, discarded>> /\ Written' = Written
      BY <2>5 DEF clientVars, Written
    <3> QED BY <2>1, <2>5, <3>1, ConnectionRefines DEF Channel!ChannelNext
  <2>6. CASE ReconnectClient
    <3>1. CASE ReconnectFails /\ UNCHANGED clientVars
      <4>1. connState' # "CONNECTED"
        BY <3>1 DEF ReconnectFails, MayReconnect
      <4> QED BY <2>5, <3>1, <4>1
    <3> QED BY <2>4, <2>6, <3>1 DEF ReconnectClient
  <2>7. CASE \/ DisconnectClient \/ UNCHANGED vars
             \/ Elapse(1) /\ UNCHANGED clientVars
    <3>1. /\ UNCHANGED clientVars
          /\ connState' # "CONNECTED" \/ connState' = connState
      BY <2>7 DEF DisconnectClient, Disconnect, Elapse, vars, tcpVars
    <3> QED BY <2>5, <3>1
  <2> QED BY <2>2, <2>3, <2>6, <2>7 DEF Next
<1>3. Spec => Channel!ChannelSpec
  BY <1>1, <1>2, ClientInvariance, PTL DEF Spec, Channel!ChannelSpec
<1> QED BY <1>3 DEF ImplementsChannel
=============================================================================
