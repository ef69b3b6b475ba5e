---------------------------- MODULE Subsequence ----------------------------
(***************************************************************************)
(* What the code writes as a comprehension with a condition, a filter, or  *)
(* a query ordered by its key.  SelectSeq and the community's sorts say    *)
(* the same, but by recursion or by TLC's own code; these say it by        *)
(* cardinality, which the provers can follow.                              *)
(***************************************************************************)
EXTENDS Naturals, Sequences, FiniteSets

(* The members of a finite set of numbers, in order. *)
InOrder(I) ==
    [k \in 1..Cardinality(I) |-> CHOOSE i \in I : Cardinality({j \in I : j < i}) = k - 1]

(* What sequence s has at the positions I, in order. *)
Picked(s, I) == [k \in 1..Cardinality(I) |-> s[InOrder(I)[k]]]
=============================================================================
