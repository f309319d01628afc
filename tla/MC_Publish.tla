----------------------------- MODULE MC_Publish -----------------------------
(* Instances of Publish for TLC. *)
EXTENDS Publish, TLC

\* A private publish, a public one, and a public one confirmed non-commercial.
MCOptions == {[public |-> FALSE, confirmed |-> FALSE],
              [public |-> TRUE, confirmed |-> FALSE],
              [public |-> TRUE, confirmed |-> TRUE]}
LocalOptions == {[public |-> FALSE, confirmed |-> FALSE], [public |-> FALSE, confirmed |-> TRUE]}

Symmetry == Permutations(Requests) \cup Permutations(Operators)
=============================================================================
