------------------------------- MODULE MCFat32 -------------------------------
(***************************************************************************)
(* Model checking of Fat32 with one name without an extension, which files *)
(* and directories can have, and one with.                                 *)
(***************************************************************************)
EXTENDS Fat32, TLC

MCName == {[base |-> "a", ext |-> ""], [base |-> "a", ext |-> "t"]}

(* Two descriptors differ in nothing but their names. *)
HandleSymmetry == Permutations(Handle)
=============================================================================
