----------------------------- MODULE Selections -----------------------------
(***************************************************************************)
(* Sequences made of others and of sets: the elements of a sequence at     *)
(* some of its indices, in their order, and the elements of a set in some  *)
(* order.                                                                  *)
(***************************************************************************)
EXTENDS Integers, SequencesExt

Ascending(indices) ==
    [k \in 1..Cardinality(indices) |->
        CHOOSE i \in indices : Cardinality({j \in indices : j <= i}) = k]

Selected(s, indices) == [k \in 1..Cardinality(indices) |-> s[Ascending(indices)[k]]]

InSomeOrder(set) == FoldSet(LAMBDA x, s : Append(s, x), <<>>, set)
=============================================================================
