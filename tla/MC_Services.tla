---------------------------- MODULE MC_Services ---------------------------
(***************************************************************************)
(* The service's components beside the build jobs, each checked alone on a *)
(* small instance: the first state picks the component that runs, and the  *)
(* others stay in their initial state.  Each module states its own         *)
(* properties.                                                             *)
(***************************************************************************)
EXTENDS QueryReads, UploadStore, Revisions, Analyses, RunIndex, Gateway, Access, Backup

\* Deployments: one slot and no budget, and two slots that share one query's memory.
MCLimits == {[slots |-> 1, budget |-> 0, cap |-> 1], [slots |-> 2, budget |-> 2, cap |-> 0]}

VARIABLE which

Components == {"query", "upload", "revise", "analyse", "index", "gate", "guard", "backup"}

vars == <<which, readVars, uploadVars, revisionVars, analysisVars, indexVars, gateVars,
          accessVars, backupVars>>

Init ==
    /\ which \in Components
    /\ ReadsInit /\ UploadsInit /\ RevisionsInit /\ AnalysesInit /\ IndexInit /\ GateInit
    /\ AccessInit /\ BackupInit
    /\ which # "query" => limit = CHOOSE l \in Limits : TRUE
    /\ which # "guard" => enforce

\* Only the chosen component moves.
Frozen(c) ==
    /\ which' = which
    /\ IF c = "query" THEN TRUE ELSE UNCHANGED readVars
    /\ IF c = "upload" THEN TRUE ELSE UNCHANGED uploadVars
    /\ IF c = "revise" THEN TRUE ELSE UNCHANGED revisionVars
    /\ IF c = "analyse" THEN TRUE ELSE UNCHANGED analysisVars
    /\ IF c = "index" THEN TRUE ELSE UNCHANGED indexVars
    /\ IF c = "gate" THEN TRUE ELSE UNCHANGED gateVars
    /\ IF c = "guard" THEN TRUE ELSE UNCHANGED accessVars
    /\ IF c = "backup" THEN TRUE ELSE UNCHANGED backupVars

Next ==
    \/ which = "query" /\ ReadStep /\ Frozen("query")
    \/ which = "upload" /\ UploadStep /\ Frozen("upload")
    \/ which = "revise" /\ RevisionStep /\ Frozen("revise")
    \/ which = "analyse" /\ AnalysisStep /\ Frozen("analyse")
    \/ which = "index" /\ IndexStep /\ Frozen("index")
    \/ which = "gate" /\ GateStep /\ Frozen("gate")
    \/ which = "guard" /\ AccessStep /\ Frozen("guard")
    \/ which = "backup" /\ BackupStep /\ Frozen("backup")

\* Threads that serve a request or a connection run on, and time passes.
FairSpec ==
    /\ Init /\ [][Next]_vars
    /\ WF_vars(which = "query" /\ Tick /\ Frozen("query"))
    /\ \A r \in Requests : WF_vars(which = "query" /\ Serve(r) /\ Frozen("query"))
    /\ \A c \in Conns : WF_vars(which = "gate" /\ Handle(c) /\ Frozen("gate"))

----------------------------------------------------------------------------
\* Whoever asks is served: every read is answered whatever its child does, and every
\* connection gives its place back (query/engine.py, service/http.py).
Served == Answered /\ PlacesReturned
=============================================================================
