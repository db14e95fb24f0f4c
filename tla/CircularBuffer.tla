--------------------------- MODULE CircularBuffer ---------------------------
(***************************************************************************)
(* CircularBuffer<T, CAPACITY> (include/circular_buffer.h): a ring with    *)
(* head, tail and count.  The three ways to push (copy, move, emplace)     *)
(* have the same effect.  Default is the value-initialised T.              *)
(***************************************************************************)
EXTENDS BoundedDeque

CONSTANTS CAPACITY, Items, Default

ASSUME CapacityAssumption == CAPACITY \in Nat \ {0}
ASSUME DefaultAssumption == Default \in Items

VARIABLES buffer, head, tail, count
vars == <<buffer, head, tail, count>>

Init == /\ buffer = [i \in 0 .. CAPACITY - 1 |-> Default]
        /\ head = 0 /\ tail = 0 /\ count = 0

Succ(i) == (i + 1) % CAPACITY

push_back(x) ==
  /\ buffer' = [buffer EXCEPT ![tail] = x]
  /\ tail' = Succ(tail)
  /\ IF count = CAPACITY
     THEN head' = Succ(head) /\ UNCHANGED count
     ELSE count' = count + 1 /\ UNCHANGED head

pop_front ==
  /\ count > 0
  /\ head' = Succ(head)
  /\ count' = count - 1
  /\ UNCHANGED <<buffer, tail>>

(* Mutant of clear: the count is not reset. *)
clear_keeps_count ==
  /\ head' = 0 /\ tail' = 0
  /\ UNCHANGED <<buffer, count>>

clear ==
  /\ head' = 0 /\ tail' = 0 /\ count' = 0
  /\ UNCHANGED buffer

Next == (\E x \in Items : push_back(x)) \/ pop_front \/ clear

Spec == Init /\ [][Next]_vars

-----------------------------------------------------------------------------
(* Mutant of Back: the slot that is written next *)
BackAtTail == buffer[tail]

(* operator[], counted from 0, front and back *)
At(i) == buffer[(head + i) % CAPACITY]
Front == buffer[head]
Back == buffer[(tail + CAPACITY - 1) % CAPACITY]

(* What iteration from begin() to end() sees *)
Contents == [i \in 1 .. count |-> At(i - 1)]

TypeOK == /\ buffer \in [0 .. CAPACITY - 1 -> Items]
          /\ head \in 0 .. CAPACITY - 1 /\ tail \in 0 .. CAPACITY - 1
          /\ count \in 0 .. CAPACITY

(* head, tail and count agree after any number of wraps: tail is count     *)
(* places after head, so that the next push writes a free slot, or the     *)
(* oldest one when the ring is full.                                       *)
TailFollowsHead == tail = (head + count) % CAPACITY

(* front and back are the ends of what iteration sees. *)
EndsAgree ==
  count > 0 => Front = Contents[1] /\ Back = Contents[count]

(* The ring behaves as the bounded sequence that overwrites its oldest     *)
(* element when it is full (push_back, pop_front, clear).                  *)
Deque == INSTANCE DequeSpec WITH items <- Contents
RefinesDeque == Deque!Spec
=============================================================================
