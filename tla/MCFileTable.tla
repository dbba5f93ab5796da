----------------------------- MODULE MCFileTable -----------------------------
(***************************************************************************)
(* Model checking of FileTable: nothing depends on which pid is which.     *)
(***************************************************************************)
EXTENDS FileTable, TLC

ProcessSymmetry == Permutations(Process)
=============================================================================
