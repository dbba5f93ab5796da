-------------------------- MODULE MCLinkedRunQueue --------------------------
(***************************************************************************)
(* Model checking of LinkedRunQueue with a handful of processes.           *)
(***************************************************************************)
EXTENDS LinkedRunQueue

=============================================================================
