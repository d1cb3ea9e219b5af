---------------------------- MODULE BoundedFifo ----------------------------
(***************************************************************************)
(* What a frame queue of the driver promises, whatever its layout: a       *)
(* bounded first-in first-out buffer.  An item that was accepted is handed *)
(* over exactly once, whole, and in the order of acceptance; and it is     *)
(* handed over eventually.  A producer that finds the queue full is turned *)
(* away, which changes nothing.                                            *)
(***************************************************************************)
EXTENDS Naturals, Sequences

CONSTANTS Items,      \* what can be queued
          Capacity    \* how many items the queue can hold

VARIABLES queue,      \* accepted and not yet handed over, oldest first
          last        \* the item handed over most recently

vars == <<queue, last>>

Init == /\ queue = << >>
        /\ last \notin Items

Put(x) == /\ Len(queue) < Capacity
          /\ queue' = Append(queue, x)
          /\ UNCHANGED last

Take == /\ queue # << >>
        /\ last' = Head(queue)
        /\ queue' = Tail(queue)

Next == Take \/ \E x \in Items : Put(x)

Safe == Init /\ [][Next]_vars

Served == WF_vars(Take)

Spec == Safe /\ Served
=============================================================================
