----------------------------- MODULE MC_ChatTurn -----------------------------
(* Instances of ChatTurn for TLC.  Turns, messages and requests are
   interchangeable, so the safety runs use their permutations. *)
EXTENDS ChatTurn

Symmetry == Permutations(Turns) \cup Permutations(Msgs) \cup Permutations(Reqs)

(* For the run about send-now when nothing goes wrong: no start is given up and
   no turn ends by an exception. *)
NothingFails ==
    /\ \A a \in Actors : next[a] # NoTurn /\ next'[a] = NoTurn
                         => phase'[next[a]] # "unused"
    /\ \A t \in Turns : phase'[t] # "finalizing"

SmoothSpec == Init /\ [][Next /\ NothingFails]_vars
=============================================================================
