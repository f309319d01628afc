---------------------------- MODULE MC_Pipeline ----------------------------
(***************************************************************************)
(* Instances of Pipeline: a source that fetches a grid of combinations and *)
(* a plain one, which a composition may join.                              *)
(***************************************************************************)
EXTENDS Pipeline

MCSources == {"grid", "plain"}
MCGrid == {"grid"}
MCVersions == {1, 2}
=============================================================================
