---------------------------- MODULE BoundedFifo ----------------------------
(***************************************************************************)
(* A first-in first-out queue that holds a limited number of items.        *)
(***************************************************************************)
EXTENDS Naturals, Sequences

CONSTANTS Item, bound

VARIABLE q

Init == q = << >>

Put(item) == Len(q) < bound /\ q' = Append(q, item)

Take == q # << >> /\ q' = Tail(q)

Next == Take \/ \E item \in Item : Put(item)

Spec == Init /\ [][Next]_q
=============================================================================
