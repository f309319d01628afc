----------------------------- MODULE RunIndex -----------------------------
(***************************************************************************)
(* The build index, its rebuild from the manifests on disk and the pruning *)
(* of cancelled runs.  The index is one SQLite file, the manifests are the *)
(* truth; the service keeps its connection to the file it opened, the      *)
(* rebuild and the pruning are commands of other processes.                *)
(***************************************************************************)
EXTENDS Naturals, FiniteSets

CONSTANTS Runs,        \* run ids
          MaxFiles,    \* bound on index files ever created
          MaxIndexFaults  \* bound on crashes, swallowed inserts and failed renames

ASSUME FilesAssumption == MaxFiles \in Nat

Files == 1..MaxFiles

VARIABLES manifest,    \* what a run's directory holds: "none", "ok" or "cancelled"
          path,        \* the file under the index's name, 0 when there is none
          db,          \* the runs each index file lists
          made,        \* how many index files have been created
          opened,      \* the file the service has open, 0 while it is down
          rebuild,     \* the rebuild command
          prune,       \* the pruning command's candidates, and what it deleted
          known,       \* ghost: runs the index has listed and that were not pruned
          beside,      \* ghost: runs that ended beside a rebuild, or in a file it had replaced
          indexFaults

indexVars == <<manifest, path, db, made, opened, rebuild, prune, known, beside, indexFaults>>

\* "during" is a ghost: the runs that ended since this rebuild began.
NoRebuild == [pc |-> "idle", todo |-> {}, tmp |-> 0, bak |-> 0, during |-> {}]

IndexInit ==
    /\ manifest = [r \in Runs |-> "none"]
    /\ path = 0 /\ db = [f \in Files |-> {}] /\ made = 0 /\ opened = 0
    /\ rebuild = NoRebuild
    /\ prune = [todo |-> {}, wrong |-> {}]
    /\ known = {} /\ beside = {} /\ indexFaults = 0

IndexFault == indexFaults < MaxIndexFaults /\ indexFaults' = indexFaults + 1

Listed == IF path = 0 THEN {} ELSE db[path]

\* The service opens the index, or creates an empty one where there is none, the window
\* between the two renames of a rebuild included.
StartService ==
    /\ opened = 0
    /\ IF path = 0
       THEN made < MaxFiles /\ made' = made + 1 /\ path' = made + 1 /\ opened' = made + 1
       ELSE opened' = path /\ UNCHANGED <<made, path>>
    /\ UNCHANGED <<manifest, db, rebuild, prune, known, beside, indexFaults>>

StopService ==
    /\ opened # 0 /\ opened' = 0
    /\ UNCHANGED <<manifest, path, db, made, rebuild, prune, known, beside, indexFaults>>

\* A build the service runs ends: manifest first, then the index entry in the file it has
\* open, whose failure is ignored.  A run id the index lists is refused at submission.
FinishBuild(r, s) ==
    /\ opened # 0 /\ r \notin db[opened]
    /\ manifest' = [manifest EXCEPT ![r] = s]
    /\ beside' = IF rebuild.pc = "idle" /\ opened = path THEN beside ELSE beside \cup {r}
    /\ rebuild' = IF rebuild.pc = "idle" THEN rebuild ELSE [rebuild EXCEPT !.during = @ \cup {r}]
    /\ \/ /\ db' = [db EXCEPT ![opened] = @ \cup {r}]
          /\ known' = IF opened = path THEN known \cup {r} ELSE known
          /\ UNCHANGED indexFaults
       \/ UNCHANGED <<db, known>> /\ IndexFault
    /\ UNCHANGED <<path, made, opened, prune>>

\* rebuild-index, which may run beside the service: a fresh temporary file ...
StartRebuild ==
    /\ rebuild.pc = "idle" /\ made < MaxFiles
    /\ made' = made + 1
    /\ rebuild' = [pc |-> "scan", todo |-> {r \in Runs : manifest[r] # "none"},
                   tmp |-> made + 1, bak |-> 0, during |-> {}]
    /\ UNCHANGED <<manifest, path, db, opened, prune, known, beside, indexFaults>>

\* ... filled from every run directory that still has a manifest ...
ScanRun(r) ==
    /\ rebuild.pc = "scan" /\ r \in rebuild.todo
    /\ rebuild' = [rebuild EXCEPT !.todo = @ \ {r}]
    /\ db' = IF manifest[r] = "none" THEN db ELSE [db EXCEPT ![rebuild.tmp] = @ \cup {r}]
    /\ UNCHANGED <<manifest, path, made, opened, prune, known, beside, indexFaults>>

\* Mutant: the old index is moved away before the scan is complete.
MoveAwayEarly ==
    /\ rebuild.pc = "scan"
    /\ rebuild' = [rebuild EXCEPT !.pc = "swap", !.bak = path]
    /\ path' = 0
    /\ UNCHANGED <<manifest, db, made, opened, prune, known, beside, indexFaults>>

\* ... the old index renamed to .bak ...
MoveAway ==
    /\ rebuild.pc = "scan" /\ rebuild.todo = {}
    /\ rebuild' = [rebuild EXCEPT !.pc = "swap", !.bak = path]
    /\ path' = 0
    /\ UNCHANGED <<manifest, db, made, opened, prune, known, beside, indexFaults>>

\* ... and the temporary file renamed to the index, over whatever is there; a failed rename
\* restores .bak if there was an index.
Swap ==
    /\ rebuild.pc = "swap"
    /\ \/ path' = rebuild.tmp /\ UNCHANGED indexFaults
       \/ path' = (IF rebuild.bak = 0 THEN path ELSE rebuild.bak) /\ IndexFault
    /\ rebuild' = NoRebuild
    /\ UNCHANGED <<manifest, db, made, opened, prune, known, beside>>

\* prune-cancelled --apply: the runs whose manifest says cancelled and whose time is up,
\* then their directories one by one.  Index rows stay.
FindCancelled ==
    /\ prune.todo = {}
    /\ \E c \in SUBSET {r \in Runs : manifest[r] = "cancelled"} :
         c # {} /\ prune' = [prune EXCEPT !.todo = c]
    /\ UNCHANGED <<manifest, path, db, made, opened, rebuild, known, beside, indexFaults>>

RemoveRun(r) ==
    /\ r \in prune.todo
    /\ prune' = [todo |-> prune.todo \ {r},
                 wrong |-> IF manifest[r] = "ok" THEN prune.wrong \cup {r} ELSE prune.wrong]
    /\ manifest' = [manifest EXCEPT ![r] = "none"]
    /\ known' = known \ {r}
    /\ UNCHANGED <<path, db, made, opened, rebuild, beside, indexFaults>>

CrashRebuild ==
    /\ rebuild.pc # "idle" /\ IndexFault
    /\ rebuild' = NoRebuild
    /\ UNCHANGED <<manifest, path, db, made, opened, prune, known, beside>>

IndexStep ==
    \/ StartService \/ StopService \/ StartRebuild \/ MoveAway \/ Swap \/ CrashRebuild
    \/ FindCancelled
    \/ \E r \in Runs :
         \/ ScanRun(r) \/ RemoveRun(r)
         \/ \E s \in {"ok", "cancelled"} : FinishBuild(r, s)

IndexSpec == IndexInit /\ [][IndexStep]_indexVars

----------------------------------------------------------------------------
IndexTypes ==
    /\ manifest \in [Runs -> {"none", "ok", "cancelled"}]
    /\ made \in 0..MaxFiles /\ path \in 0..made /\ opened \in 0..made
    /\ db \in [Files -> SUBSET Runs]
    /\ rebuild \in [pc : {"idle", "scan", "swap"}, todo : SUBSET Runs, tmp : 0..made,
                    bak : 0..made, during : SUBSET Runs]
    /\ prune \in [todo : SUBSET Runs, wrong : SUBSET Runs]
    /\ known \subseteq Runs /\ beside \subseteq Runs /\ indexFaults \in Nat

(***************************************************************************)
(* The index keeps what it listed: outside the two renames of a rebuild,   *)
(* and while nothing failed, every run it has listed and that was not      *)
(* pruned is listed ("existing index survives if scan fails",              *)
(* store/build_index.py).  A run that ended beside a rebuild may be in the *)
(* file that was replaced.                                                 *)
(***************************************************************************)
IndexSurvives == indexFaults = 0 /\ rebuild.pc # "swap" => known \ beside \subseteq Listed

(***************************************************************************)
(* A rebuild repairs what failed inserts left out: when it puts its file   *)
(* in place, every manifest on disk is listed, but for the runs that ended *)
(* since it began.                                                         *)
(***************************************************************************)
RebuildComplete ==
    [][rebuild.pc = "swap" /\ rebuild'.pc = "idle" /\ path' = rebuild.tmp =>
          {r \in Runs : manifest[r] # "none"} \ rebuild.during \subseteq db'[path']]_indexVars

(***************************************************************************)
(* Pruning deletes cancelled runs only: between the scan and the deletion  *)
(* a run id cannot be built again, because the index still lists it.  (An  *)
(* index entry lost to a fault or to a rebuild beside the service lets the *)
(* id be used again.)                                                      *)
(***************************************************************************)
PrunesCancelled == indexFaults = 0 => prune.wrong \subseteq beside

\* The index keeps the runs it listed, a rebuilt one lists every manifest on disk, and
\* pruning removes cancelled runs only (store/build_index.py, retention.py).
IndexKept == [](IndexTypes /\ IndexSurvives /\ PrunesCancelled) /\ RebuildComplete
=============================================================================
