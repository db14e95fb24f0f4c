------------------------- MODULE WindowPartsProofs -------------------------
(***************************************************************************)
(* The two parts that the trade window of VwapCalculator rests on.         *)
(*                                                                         *)
(* The ring of CircularBuffer implements the bounded sequence DequeSpec    *)
(* for every capacity: the two facts about indices modulo the capacity are *)
(* proved first, then each operation is a step of the sequence.  And the   *)
(* binary search of removeExpiredTrades is correct for every window.       *)
(***************************************************************************)
EXTENDS CircularBuffer, LowerBound, SequenceTheorems, TLAPS

-----------------------------------------------------------------------------
(* CircularBuffer *)

(* An index that went at most once past the end. *)
LEMMA Wraps ==
  ASSUME NEW i \in 0 .. 2 * CAPACITY - 1
  PROVE  i % CAPACITY = IF i < CAPACITY THEN i ELSE i - CAPACITY
<1> DEFINE C == CAPACITY
           q == i \div C
<1>1. C \in Nat /\ C > 0
  BY CapacityAssumption
<1>2. i = C * q + (i % C) /\ i % C \in 0 .. C - 1 /\ q \in Int
  BY <1>1
<1>3. CASE i < C
  BY <1>1, <1>3
<1>4. CASE i >= C
  BY <1>1, <1>2, <1>4
<1> QED BY <1>1, <1>3, <1>4

(* The slot of the element i places after slot h *)
Slot(h, i) == (h + i) % CAPACITY

SlotRule(h, i, k) ==
  /\ k \in 0 .. CAPACITY - 1
  /\ h + i < CAPACITY => k = h + i
  /\ h + i >= CAPACITY => k = (h + i) - CAPACITY

(* A slot of a ring whose indexes are in range holds an element. *)
LEMMA SlotValue ==
  ASSUME NEW h \in 0 .. CAPACITY - 1, NEW i \in 0 .. CAPACITY
  PROVE  SlotRule(h, i, Slot(h, i))
<1>1. CAPACITY \in Nat /\ CAPACITY > 0
  BY CapacityAssumption
<1> DEFINE j == h + i
<1>2. j \in 0 .. 2 * CAPACITY - 1
  BY <1>1
<1> HIDE DEF j
<1>3. j % CAPACITY = IF j < CAPACITY THEN j ELSE j - CAPACITY
  BY <1>2, Wraps
<1>4. Slot(h, i) = IF h + i < CAPACITY THEN h + i ELSE (h + i) - CAPACITY
  BY <1>3 DEF Slot, j
<1> QED BY <1>1, <1>4 DEF SlotRule

(* What iteration sees, from the head on *)
Listing(b, h, n) == [i \in 1 .. n |-> b[Slot(h, i - 1)]]

(* The listing of a ring from its head is a sequence of count elements. *)
LEMMA ListingIsSeq ==
  ASSUME NEW b \in [0 .. CAPACITY - 1 -> Items], NEW h \in 0 .. CAPACITY - 1,
         NEW n \in 0 .. CAPACITY
  PROVE  /\ Listing(b, h, n) \in Seq(Items) /\ Len(Listing(b, h, n)) = n
         /\ \A i \in 1 .. n : Listing(b, h, n)[i] = b[Slot(h, i - 1)]
<1>1. CAPACITY \in Nat /\ CAPACITY > 0
  BY CapacityAssumption
<1>2. ASSUME NEW i \in 1 .. n PROVE b[Slot(h, i - 1)] \in Items
  <2>1. i - 1 \in 0 .. CAPACITY
    BY <1>1
  <2>2. SlotRule(h, i - 1, Slot(h, i - 1))
    BY <2>1, SlotValue
  <2>3. Slot(h, i - 1) \in 0 .. CAPACITY - 1
    BY <2>2 DEF SlotRule
  <2> QED BY <2>3
<1> QED BY <1>1, <1>2 DEF Listing

RingInv == TypeOK /\ TailFollowsHead

(* The parts of the ring invariant, to cite by name. *)
LEMMA RingFacts ==
  ASSUME RingInv
  PROVE  /\ CAPACITY \in Nat /\ CAPACITY > 0
         /\ head \in 0 .. CAPACITY - 1 /\ tail \in 0 .. CAPACITY - 1
         /\ count \in 0 .. CAPACITY /\ tail = Slot(head, count)
         /\ buffer \in [0 .. CAPACITY - 1 -> Items]
         /\ Succ(head) = Slot(head, 1) /\ Succ(tail) = Slot(tail, 1)
BY CapacityAssumption DEF RingInv, TypeOK, TailFollowsHead, Slot, Succ

(* Contents, what iteration sees, is the listing from the head. *)
LEMMA ContentsIsListing ==
  /\ Contents = Listing(buffer, head, count)
  /\ Contents' = Listing(buffer', head', count')
BY DEF Contents, At, Listing, Slot

-----------------------------------------------------------------------------
(* push_back on a ring with room: the new element comes last. *)
LEMMA PushWithRoom ==
  ASSUME NEW b \in [0 .. CAPACITY - 1 -> Items], NEW h \in 0 .. CAPACITY - 1,
         NEW n \in 0 .. CAPACITY - 1, NEW x \in Items
  PROVE  /\ Listing([b EXCEPT ![Slot(h, n)] = x], h, n + 1)
              = Append(Listing(b, h, n), x)
         /\ Slot(Slot(h, n), 1) = Slot(h, n + 1)
<1> DEFINE k == Slot(h, n)
           c == [b EXCEPT ![k] = x]
           l == Listing(b, h, n)
           m == Listing(c, h, n + 1)
<1>1. /\ CAPACITY \in Nat /\ CAPACITY > 0 /\ n \in 0 .. CAPACITY
      /\ n + 1 \in 0 .. CAPACITY /\ 1 \in 0 .. CAPACITY
  BY CapacityAssumption
<1>2. SlotRule(h, n, k)
  BY <1>1, SlotValue
<1>3. k \in 0 .. CAPACITY - 1
  BY <1>2 DEF SlotRule
<1> HIDE DEF k
<1>4. c \in [0 .. CAPACITY - 1 -> Items]
  OBVIOUS
<1>5. /\ l \in Seq(Items) /\ Len(l) = n
      /\ \A i \in 1 .. n : l[i] = b[Slot(h, i - 1)]
  BY <1>1, ListingIsSeq
<1>6. /\ m \in Seq(Items) /\ Len(m) = n + 1
      /\ \A i \in 1 .. n + 1 : m[i] = c[Slot(h, i - 1)]
  <2> HIDE DEF c
  <2> QED BY <1>1, <1>4, ListingIsSeq
<1> HIDE DEF l, m
<1>7. ASSUME NEW i \in 1 .. n + 1 PROVE m[i] = Append(l, x)[i]
  <2>1. i - 1 \in 0 .. CAPACITY
    BY <1>1
  <2>2. SlotRule(h, i - 1, Slot(h, i - 1))
    BY <2>1, SlotValue
  <2>3. CASE i = n + 1
    <3>1. i - 1 = n
      BY <1>1, <2>3
    <3>2. m[i] = c[k]
      BY <1>6, <3>1 DEF k
    <3>3. c[k] = x
      BY <1>3
    <3> QED BY <1>5, <2>3, <3>2, <3>3
  <2>4. CASE i \in 1 .. n
    <3>1. Slot(h, i - 1) # k /\ Slot(h, i - 1) \in 0 .. CAPACITY - 1
      BY <1>1, <1>2, <2>2, <2>4 DEF SlotRule
    <3>2. c[Slot(h, i - 1)] = b[Slot(h, i - 1)]
      BY <3>1
    <3> QED BY <1>5, <1>6, <2>4, <3>2
  <2>5. i = n + 1 \/ i \in 1 .. n
    BY <1>1
  <2> QED BY <2>3, <2>4, <2>5
<1>8. Append(l, x) \in Seq(Items) /\ Len(Append(l, x)) = n + 1
  BY <1>5
<1>9. m = Append(l, x)
  BY <1>6, <1>7, <1>8, SeqEqual
<1>10. Slot(k, 1) = Slot(h, n + 1)
  <2>1. SlotRule(k, 1, Slot(k, 1)) /\ SlotRule(h, n + 1, Slot(h, n + 1))
    BY <1>1, <1>3, SlotValue
  <2> QED BY <1>1, <1>2, <1>3, <2>1 DEF SlotRule
<1> QED BY <1>9, <1>10 DEF k, l, m

(* Removing the first element, as pop_front and an overwriting push do *)
LEMMA DropFirst ==
  ASSUME NEW b \in [0 .. CAPACITY - 1 -> Items], NEW h \in 0 .. CAPACITY - 1,
         NEW n \in 1 .. CAPACITY
  PROVE  /\ Listing(b, Slot(h, 1), n - 1) = Tail(Listing(b, h, n))
         /\ Slot(Slot(h, 1), n - 1) = Slot(h, n)
         /\ Slot(h, 1) \in 0 .. CAPACITY - 1
<1> DEFINE k == Slot(h, 1)
           l == Listing(b, h, n)
           m == Listing(b, k, n - 1)
<1>1. /\ CAPACITY \in Nat /\ CAPACITY > 0 /\ n - 1 \in 0 .. CAPACITY
      /\ 1 \in 0 .. CAPACITY /\ n \in 0 .. CAPACITY
  BY CapacityAssumption
<1>2. SlotRule(h, 1, k) /\ k \in 0 .. CAPACITY - 1
  BY <1>1, SlotValue DEF SlotRule
<1> HIDE DEF k
<1>3. /\ l \in Seq(Items) /\ Len(l) = n
      /\ \A i \in 1 .. n : l[i] = b[Slot(h, i - 1)]
  BY <1>1, ListingIsSeq
<1>4. /\ m \in Seq(Items) /\ Len(m) = n - 1
      /\ \A i \in 1 .. n - 1 : m[i] = b[Slot(k, i - 1)]
  BY <1>1, <1>2, ListingIsSeq
<1> HIDE DEF l, m
<1>5. ASSUME NEW i \in 0 .. n - 1 PROVE Slot(k, i) = Slot(h, i + 1)
  <2>1. i \in 0 .. CAPACITY /\ i + 1 \in 0 .. CAPACITY
    BY <1>1
  <2>2. SlotRule(k, i, Slot(k, i)) /\ SlotRule(h, i + 1, Slot(h, i + 1))
    BY <1>2, <2>1, SlotValue
  <2> QED BY <1>1, <1>2, <2>1, <2>2 DEF SlotRule
<1>6. /\ Tail(l) \in Seq(Items) /\ Len(Tail(l)) = n - 1
      /\ \A i \in 1 .. n - 1 : Tail(l)[i] = l[i + 1]
  BY <1>3
<1>7. ASSUME NEW i \in 1 .. n - 1 PROVE m[i] = Tail(l)[i]
  <2>1. /\ i - 1 \in 0 .. n - 1 /\ (i - 1) + 1 = i /\ i + 1 \in 1 .. n
        /\ (i + 1) - 1 = i
    BY <1>1
  <2>2. m[i] = b[Slot(h, i)]
    BY <1>4, <1>5, <2>1
  <2>3. l[i + 1] = b[Slot(h, i)]
    BY <1>3, <2>1
  <2> QED BY <1>6, <2>2, <2>3
<1>8. m = Tail(l)
  BY <1>4, <1>6, <1>7, SeqEqual
<1>9. Slot(k, n - 1) = Slot(h, n)
  <2>1. n - 1 \in 0 .. n - 1 /\ (n - 1) + 1 = n
    BY <1>1
  <2> QED BY <1>5, <2>1
<1> QED BY <1>2, <1>8, <1>9 DEF k, l, m

-----------------------------------------------------------------------------
(* push_back keeps the ring invariant and is the push of a bounded deque. *)
LEMMA PushStep ==
  ASSUME RingInv, NEW x \in Items, push_back(x)
  PROVE  RingInv' /\ Contents' = PushBack(Contents, CAPACITY, x)
<1> DEFINE C == CAPACITY
<1>1. /\ C \in Nat /\ C > 0 /\ head \in 0 .. C - 1 /\ tail \in 0 .. C - 1
      /\ count \in 0 .. C /\ tail = Slot(head, count)
      /\ buffer \in [0 .. C - 1 -> Items]
      /\ Succ(head) = Slot(head, 1) /\ Succ(tail) = Slot(tail, 1)
  BY RingFacts
<1>2. /\ buffer' = [buffer EXCEPT ![tail] = x] /\ tail' = Slot(tail, 1)
      /\ count = C => head' = Slot(head, 1) /\ count' = count
      /\ count # C => head' = head /\ count' = count + 1
  BY <1>1 DEF push_back
<1>3. buffer' \in [0 .. C - 1 -> Items]
  BY <1>1, <1>2
<1>4. Contents \in Seq(Items) /\ Len(Contents) = count
  BY <1>1, ListingIsSeq, ContentsIsListing
<1>5. CASE count # C
  <2>1. count \in 0 .. C - 1
    BY <1>1, <1>5
  <2>2. /\ Listing([buffer EXCEPT ![Slot(head, count)] = x], head, count + 1)
             = Append(Listing(buffer, head, count), x)
        /\ Slot(Slot(head, count), 1) = Slot(head, count + 1)
    BY <1>1, <2>1, PushWithRoom
  <2>3. Contents' = Append(Contents, x)
    BY <1>1, <1>2, <1>5, <2>2, ContentsIsListing
  <2>4. tail' = Slot(head', count')
    BY <1>1, <1>2, <1>5, <2>2
  <2>5. tail' \in 0 .. C - 1
    <3>1. SlotRule(tail, 1, Slot(tail, 1))
      BY <1>1, SlotValue
    <3> QED BY <1>2, <3>1 DEF SlotRule
  <2>6. head' \in 0 .. C - 1 /\ count' \in 0 .. C
    BY <1>1, <1>2, <1>5, <2>1
  <2>7. RingInv'
    BY <1>3, <2>4, <2>5, <2>6 DEF RingInv, TypeOK, TailFollowsHead, Slot
  <2> QED BY <1>4, <1>5, <2>3, <2>7 DEF PushBack
<1>6. CASE count = C
  <2> DEFINE k == Slot(head, 1)
  <2>1. /\ C \in 0 .. C /\ C \in 1 .. C /\ C - 1 \in 0 .. C - 1
        /\ (C - 1) + 1 = C
    BY <1>1
  <2>2. /\ Listing(buffer, k, C - 1) = Tail(Listing(buffer, head, C))
        /\ Slot(k, C - 1) = Slot(head, C) /\ k \in 0 .. C - 1
    BY <1>1, <2>1, DropFirst
  <2> HIDE DEF k
  <2>3. Slot(head, C) = head /\ Slot(k, C) = k
    <3>1. SlotRule(head, C, Slot(head, C)) /\ SlotRule(k, C, Slot(k, C))
      BY <1>1, <2>1, <2>2, SlotValue
    <3> QED BY <1>1, <2>2, <3>1 DEF SlotRule
  <2>4. Listing([buffer EXCEPT ![Slot(k, C - 1)] = x], k, (C - 1) + 1)
          = Append(Listing(buffer, k, C - 1), x)
    BY <1>1, <2>1, <2>2, PushWithRoom
  <2>5. /\ tail = head /\ tail' = k /\ head' = k /\ count' = C
        /\ buffer' = [buffer EXCEPT ![Slot(k, C - 1)] = x]
    BY <1>1, <1>2, <1>6, <2>2, <2>3 DEF k
  <2>6. Contents' = Append(Tail(Contents), x)
    BY <1>6, <2>1, <2>2, <2>4, <2>5, ContentsIsListing
  <2>7. RingInv'
    <3>1. tail' = Slot(head', count')
      BY <2>3, <2>5
    <3> QED BY <1>1, <1>3, <2>2, <2>5, <3>1
            DEF RingInv, TypeOK, TailFollowsHead, Slot
  <2> QED BY <1>4, <1>6, <2>6, <2>7 DEF PushBack
<1> QED BY <1>5, <1>6

(* pop_front keeps the ring invariant and removes the first element. *)
LEMMA PopStep ==
  ASSUME RingInv, pop_front
  PROVE  RingInv' /\ Contents' = PopFront(Contents)
<1>1. /\ CAPACITY \in Nat /\ head \in 0 .. CAPACITY - 1
      /\ tail \in 0 .. CAPACITY - 1 /\ count \in 0 .. CAPACITY
      /\ tail = Slot(head, count) /\ buffer \in [0 .. CAPACITY - 1 -> Items]
      /\ Succ(head) = Slot(head, 1)
  BY RingFacts
<1>2. /\ count \in 1 .. CAPACITY /\ head' = Slot(head, 1)
      /\ count' = count - 1 /\ buffer' = buffer /\ tail' = tail
  BY <1>1 DEF pop_front
<1>3. /\ Listing(buffer, Slot(head, 1), count - 1)
           = Tail(Listing(buffer, head, count))
      /\ Slot(Slot(head, 1), count - 1) = Slot(head, count)
      /\ Slot(head, 1) \in 0 .. CAPACITY - 1
  BY <1>1, <1>2, DropFirst
<1>4. Contents' = Tail(Contents)
  BY <1>2, <1>3, ContentsIsListing
<1>5. Contents \in Seq(Items) /\ Len(Contents) = count
  BY <1>1, ListingIsSeq, ContentsIsListing
<1>6. Contents # << >>
  BY <1>2, <1>5
<1>7. RingInv'
  <2>1. tail' = Slot(head', count') /\ count' \in 0 .. CAPACITY
    BY <1>1, <1>2, <1>3
  <2> QED BY <1>1, <1>2, <1>3, <2>1 DEF RingInv, TypeOK, TailFollowsHead, Slot
<1> QED BY <1>4, <1>6, <1>7 DEF PopFront

(* clear keeps the ring invariant and empties the contents. *)
LEMMA ClearStep ==
  ASSUME RingInv, clear
  PROVE  RingInv' /\ Contents' = << >>
<1>1. /\ CAPACITY \in Nat /\ CAPACITY > 0
      /\ buffer' \in [0 .. CAPACITY - 1 -> Items]
  BY RingFacts DEF clear
<1>2. /\ head' \in 0 .. CAPACITY - 1 /\ tail' = 0 /\ head' = 0 /\ count' = 0
      /\ 0 \in 0 .. CAPACITY
  BY <1>1 DEF clear
<1>3. Slot(0, 0) = 0
  <2>1. SlotRule(0, 0, Slot(0, 0))
    BY <1>1, SlotValue
  <2> QED BY <1>1, <2>1 DEF SlotRule
<1>4. RingInv'
  BY <1>1, <1>2, <1>3 DEF RingInv, TypeOK, TailFollowsHead, Slot
<1>5. Contents' \in Seq(Items) /\ Len(Contents') = 0
  BY <1>1, <1>2, ListingIsSeq, ContentsIsListing
<1> QED BY <1>4, <1>5

(* The constructor establishes the ring invariant with nothing stored. *)
LEMMA InitIsRing == Init => RingInv /\ Contents = << >>
<1> SUFFICES ASSUME Init PROVE RingInv /\ Contents = << >>
  OBVIOUS
<1>1. /\ CAPACITY \in Nat /\ CAPACITY > 0 /\ 0 \in 0 .. CAPACITY
      /\ 0 \in 0 .. CAPACITY - 1
  BY CapacityAssumption
<1>2. buffer \in [0 .. CAPACITY - 1 -> Items]
  BY DefaultAssumption DEF Init
<1>3. Slot(0, 0) = 0
  <2>1. SlotRule(0, 0, Slot(0, 0))
    BY <1>1, SlotValue
  <2> QED BY <1>1, <2>1 DEF SlotRule
<1>4. RingInv
  BY <1>1, <1>2, <1>3 DEF Init, RingInv, TypeOK, TailFollowsHead, Slot
<1>5. Contents \in Seq(Items) /\ Len(Contents) = 0
  BY <1>1, <1>2, ListingIsSeq, ContentsIsListing DEF Init
<1> QED BY <1>4, <1>5

-----------------------------------------------------------------------------
(* Every operation keeps head, tail and count in step. *)
LEMMA RingStep == RingInv /\ [Next]_vars => RingInv'
<1> SUFFICES ASSUME RingInv, [Next]_vars PROVE RingInv'
  OBVIOUS
<1>1. ASSUME NEW x \in Items, push_back(x) PROVE RingInv'
  BY <1>1, PushStep
<1>2. CASE pop_front
  BY <1>2, PopStep
<1>3. CASE clear
  BY <1>3, ClearStep
<1>4. CASE UNCHANGED vars
  BY <1>4 DEF vars, RingInv, TypeOK, TailFollowsHead
<1> QED BY <1>1, <1>2, <1>3, <1>4 DEF Next

(* The head, tail and count of the buffer stay in step forever: tail is    *)
(* count places after head, for every capacity and every sequence of       *)
(* push_back, pop_front and clear.                                         *)
THEOREM RingIsInvariant == Spec => []RingInv
<1>1. Init => RingInv
  BY InitIsRing
<1> QED BY <1>1, RingStep, PTL DEF Spec

(* front() and back() are the ends of what iteration sees. *)
THEOREM EndsAlwaysAgree == Spec => []EndsAgree
<1>1. RingInv => EndsAgree
  <2> SUFFICES ASSUME RingInv, count > 0
               PROVE  Front = Contents[1] /\ Back = Contents[count]
    BY DEF EndsAgree
  <2>1. /\ CAPACITY \in Nat /\ CAPACITY > 0 /\ head \in 0 .. CAPACITY - 1
        /\ tail \in 0 .. CAPACITY - 1 /\ count \in 1 .. CAPACITY
        /\ tail = Slot(head, count) /\ buffer \in [0 .. CAPACITY - 1 -> Items]
    BY RingFacts
  <2>2. \A i \in 1 .. count : Contents[i] = buffer[Slot(head, i - 1)]
    BY ContentsIsListing DEF Listing
  <2>3. SlotRule(head, 0, Slot(head, 0))
    BY <2>1, SlotValue
  <2>4. Front = Contents[1]
    BY <2>1, <2>2, <2>3 DEF Front, SlotRule
  <2>5. /\ SlotRule(head, count - 1, Slot(head, count - 1))
        /\ SlotRule(head, count, tail)
        /\ SlotRule(tail, CAPACITY - 1, Slot(tail, CAPACITY - 1))
    BY <2>1, SlotValue
  <2>6. Slot(tail, CAPACITY - 1) = Slot(head, count - 1)
    BY <2>1, <2>5 DEF SlotRule
  <2>7. tail + CAPACITY - 1 = tail + (CAPACITY - 1)
    BY <2>1
  <2>8. Back = buffer[Slot(tail, CAPACITY - 1)]
    BY <2>7 DEF Back, Slot
  <2>9. Contents[count] = buffer[Slot(head, count - 1)]
    BY <2>1, <2>2
  <2> QED BY <2>4, <2>6, <2>8, <2>9
<1> QED BY <1>1, RingIsInvariant, PTL

(* The ring implements the bounded sequence that overwrites its oldest     *)
(* element, for every capacity: each operation of CircularBuffer is the    *)
(* operation of the same name on Contents.                                 *)
THEOREM RingRefinesDeque == Spec => RefinesDeque
<1>1. Init => Deque!Init
  BY InitIsRing DEF Deque!Init
<1>2. RingInv /\ [Next]_vars => [Deque!Next]_Contents
  <2> SUFFICES ASSUME RingInv, [Next]_vars PROVE [Deque!Next]_Contents
    OBVIOUS
  <2>1. ASSUME NEW x \in Items, push_back(x) PROVE Deque!Next
    <3>1. Contents' = PushBack(Contents, CAPACITY, x)
      BY <2>1, PushStep
    <3> QED BY <3>1 DEF Deque!Next, Deque!PushBack, PushBack
  <2>2. CASE pop_front
    <3>1. Contents' = PopFront(Contents)
      BY <2>2, PopStep
    <3> QED BY <3>1 DEF Deque!Next, Deque!PopFront, PopFront
  <2>3. CASE clear
    BY <2>3, ClearStep DEF Deque!Next
  <2>4. CASE UNCHANGED vars
    <3>1. Contents' = Contents
      BY <2>4 DEF vars, Contents, At
    <3> QED BY <3>1
  <2> QED BY <2>1, <2>2, <2>3, <2>4 DEF Next
<1>3. Spec => Deque!Spec
  BY <1>1, <1>2, RingIsInvariant, PTL DEF Spec, Deque!Spec
<1> QED BY <1>3 DEF RefinesDeque

-----------------------------------------------------------------------------
(* LowerBound *)

(* What a turn of the loop knows: the middle is inside the window. *)
LEMMA MidInRange ==
  ASSUME SearchInvariant, lo < hi
  PROVE  /\ lo \in Nat /\ hi \in Nat /\ Len(times) \in Nat
         /\ mid \in lo .. hi - 1 /\ mid + 1 \in 1 .. Len(times)
<1>1. times \in Seq(Nat)
  BY WindowsAssumption DEF SearchInvariant
<1>2. lo \in Nat /\ hi \in Nat /\ Len(times) \in Nat /\ hi <= Len(times)
  BY <1>1 DEF SearchInvariant
<1>3. mid \in lo .. hi - 1
  BY <1>2 DEF mid
<1> QED BY <1>2, <1>3

(* In a sorted window everything up to an expired trade is expired, and    *)
(* everything from a live one on is live.                                  *)
LEMMA SortedSplits ==
  ASSUME times \in Windows, cutoff \in Cutoffs, NEW m \in 1 .. Len(times)
  PROVE  /\ times[m] < cutoff => \A i \in 1 .. m : times[i] < cutoff
         /\ ~ (times[m] < cutoff) =>
              \A i \in m .. Len(times) : times[i] >= cutoff
<1>1. times \in Seq(Nat) /\ Sorted(times) /\ cutoff \in Nat
  BY WindowsAssumption, CutoffsAssumption
<1>2. /\ \A i \in 1 .. m : times[i] <= times[m] /\ times[i] \in Nat
      /\ \A i \in m .. Len(times) : times[m] <= times[i] /\ times[i] \in Nat
  BY <1>1 DEF Sorted
<1> QED BY <1>1, <1>2

(* A turn of the loop keeps every trade left of the range expired and      *)
(* every trade right of it live.                                           *)
LEMMA SearchStep ==
  ASSUME SearchInvariant, Search
  PROVE  SearchInvariant'
<1>1. /\ lo \in Nat /\ hi \in Nat /\ Len(times) \in Nat
      /\ mid \in lo .. hi - 1 /\ mid + 1 \in 1 .. Len(times)
  BY MidInRange DEF Search
<1>2. /\ times[mid+1] < cutoff => \A i \in 1 .. mid+1 : times[i] < cutoff
      /\ ~ (times[mid+1] < cutoff) =>
           \A i \in mid+1 .. Len(times) : times[i] >= cutoff
  BY <1>1, SortedSplits DEF SearchInvariant
<1>3. CASE times[mid+1] < cutoff
  BY <1>1, <1>2, <1>3 DEF Search, SearchInvariant
<1>4. CASE ~ (times[mid+1] < cutoff)
  BY <1>1, <1>2, <1>4 DEF Search, SearchInvariant
<1> QED BY <1>3, <1>4

(* The search stays inside the window, and what it has ruled out is ruled  *)
(* out rightly, for a window of any length and any cutoff.                 *)
THEOREM SearchIsSafe == SearchSpec => []SearchInvariant
<1>1. SearchInit => SearchInvariant
  BY WindowsAssumption DEF SearchInit, SearchInvariant
<1>2. SearchInvariant /\ [Search]_searchVars => SearchInvariant'
  <2>1. SearchInvariant /\ UNCHANGED searchVars => SearchInvariant'
    BY DEF SearchInvariant, searchVars
  <2> QED BY <2>1, SearchStep
<1> QED BY <1>1, <1>2, PTL DEF SearchSpec

(* When the loop ends, lo is the number of expired trades: that is what    *)
(* removeExpiredTrades pops off the window.                                *)
THEOREM SearchSplits == SearchSpec => []SplitsAtCutoff
<1>1. SearchInvariant => SplitsAtCutoff
  <2> SUFFICES ASSUME SearchInvariant, lo >= hi
               PROVE  \A i \in 1 .. Len(times) : times[i] < cutoff <=> i <= lo
    BY DEF SplitsAtCutoff
  <2>1. times \in Seq(Nat) /\ cutoff \in Nat
    BY WindowsAssumption, CutoffsAssumption DEF SearchInvariant
  <2>2. lo = hi /\ lo \in Nat
    BY <2>1 DEF SearchInvariant
  <2> QED BY <2>1, <2>2 DEF SearchInvariant
<1> QED BY <1>1, SearchIsSafe, PTL

(* Every turn of the loop narrows the range and never turns it around: it  *)
(* ends after at most as many turns as the window has trades, as soon as   *)
(* the thread runs at all.                                                 *)
THEOREM SearchNarrows ==
  SearchSpec => [][hi' - lo' \in 0 .. hi - lo - 1]_searchVars
<1>1. SearchInvariant /\ [Search]_searchVars
        => [hi' - lo' \in 0 .. hi - lo - 1]_searchVars
  <2> SUFFICES ASSUME SearchInvariant, Search
               PROVE  hi' - lo' \in 0 .. hi - lo - 1
    OBVIOUS
  <2>1. lo \in Nat /\ hi \in Nat /\ mid \in lo .. hi - 1
    BY MidInRange DEF Search
  <2>2. \/ lo' = mid + 1 /\ hi' = hi
        \/ lo' = lo /\ hi' = mid
    BY DEF Search
  <2> QED BY <2>1, <2>2
<1> QED BY <1>1, SearchIsSafe, PTL DEF SearchSpec
=============================================================================
