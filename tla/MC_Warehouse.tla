---------------------------- MODULE MC_Warehouse ----------------------------
(* Instances of Warehouse for TLC. *)
EXTENDS Warehouse, TLC

\* Snapshot ids are random, and readers, holds and passes are interchangeable.
Symmetry ==
    Permutations(Snapshots) \cup Permutations(Collectors)
        \cup Permutations(Readers) \cup Permutations(Holds)
=============================================================================
