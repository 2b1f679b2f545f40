---------------------------- MODULE BoundedFifo ----------------------------
(***************************************************************************)
(* What a receiver with a small on-chip buffer promises: items come out in *)
(* the order they went in, none twice, and none appears that was not put   *)
(* in.  An item that is turned away leaves no trace: nothing here says     *)
(* that everything that arrives is put in.                                 *)
(***************************************************************************)
EXTENDS Naturals, Sequences

CONSTANTS
    Item,       (* what can be stored *)
    Depth       (* how many items fit *)

VARIABLE queue

Init == queue = << >>

Enqueue(x) ==
    /\ Len(queue) < Depth
    /\ queue' = Append(queue, x)

Dequeue ==
    /\ queue # << >>
    /\ queue' = Tail(queue)

Next == Dequeue \/ \E x \in Item : Enqueue(x)

Spec == Init /\ [][Next]_queue

=============================================================================
