-------------------------- MODULE MC_MessageQueue --------------------------
(* Instances of MessageQueue for TLC. *)
EXTENDS MessageQueue, TLC

CONSTANT m1

\* The operators of Subsequence against the standard module's, on short lists.
ASSUME PickedIsSelection ==
    \A s \in UNION {[1..n -> 0..2] : n \in 0..4}, keep \in SUBSET (0..2) :
        Picked(s, {k \in DOMAIN s : s[k] \in keep}) = SelectSeq(s, LAMBDA x : x \in keep)

OneStored == <<m1>>

Symmetry == Permutations(Ops)
=============================================================================
