----------------------------- MODULE DequeSpec -----------------------------
(* The abstract behaviour of a CircularBuffer: see BoundedDeque. *)
EXTENDS BoundedDeque

CONSTANTS CAPACITY, Items
VARIABLE items

Init == items = << >>

Next == \/ \E x \in Items : items' = PushBack(items, CAPACITY, x)
        \/ items' = PopFront(items)
        \/ items' = << >>

Spec == Init /\ [][Next]_items
=============================================================================
