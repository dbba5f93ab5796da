------------------------------- MODULE MCHeap -------------------------------
(***************************************************************************)
(* Model checking of Heap with a small, a large and an aligned request     *)
(* (page directories are aligned to more than their header's size).        *)
(***************************************************************************)
EXTENDS Heap

MCRequest == {[size |-> 2, align |-> 1], [size |-> 5, align |-> 1], [size |-> 2, align |-> 4]}
=============================================================================
