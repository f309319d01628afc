---------------------------- MODULE MC_BuildJobs ----------------------------
(* Instances of BuildJobs for TLC. *)
EXTENDS BuildJobs, TLC

\* Workers and cancel threads are interchangeable in every safety property.
Symmetry == Permutations(Workers) \cup Permutations(Requests) \cup Permutations(Runs)
=============================================================================
