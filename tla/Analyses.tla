----------------------------- MODULE Analyses -----------------------------
(***************************************************************************)
(* Saved analyses and the catalog's holds.  Creating one runs its query on *)
(* a pinned snapshot, places a hold while it is pinned and then stores the *)
(* row in another database; deleting one removes the row and then releases *)
(* the hold.  The two databases share no transaction.                      *)
(***************************************************************************)
EXTENDS Naturals, FiniteSets

CONSTANTS Ids,         \* analysis ids, drawn at random and used once
          MaxAnalysisFaults \* bound on crashes and failed database calls

Snapshots == {1, 2}

VARIABLES current, present, pinned, holds, saved, step, reruns, analysisFaults

analysisVars == <<current, present, pinned, holds, saved, step, reruns, analysisFaults>>

AnalysesInit ==
    /\ current = 1 /\ present = {1}
    /\ pinned = {}                            \* <<id, snapshot>> pinned by a create or a rerun
    /\ holds = {}                            \* <<id, snapshot>>
    /\ saved = [a \in Ids |-> 0]              \* the snapshot a stored analysis names
    /\ step = [a \in Ids |-> [pc |-> "new", snap |-> 0]]
    /\ reruns = [a \in Ids |-> "none"]
    /\ analysisFaults = 0

AnalysisFault == analysisFaults < MaxAnalysisFaults /\ analysisFaults' = analysisFaults + 1

Advance(a, pc) == step' = [step EXCEPT ![a].pc = pc]

\* create: pin a snapshot and run the query, which may fail.
RunQuery(a) ==
    /\ step[a].pc = "new"
    /\ \E s \in present :
         /\ pinned' = pinned \cup {<<a, s>>}
         /\ step' = [step EXCEPT ![a] = [pc |-> "hold", snap |-> s]]
    /\ UNCHANGED <<current, present, holds, saved, reruns, analysisFaults>>

\* Mutant: the hold is placed after the lease was given back.
PlaceHoldLate(a) ==
    \/ /\ step[a].pc = "hold"
       /\ pinned' = pinned \ {<<a, step[a].snap>>}
       /\ Advance(a, "late")
       /\ UNCHANGED <<current, present, holds, saved, reruns, analysisFaults>>
    \/ /\ step[a].pc = "late"
       /\ holds' = holds \cup {<<a, step[a].snap>>}
       /\ Advance(a, "store")
       /\ UNCHANGED <<current, present, pinned, saved, reruns, analysisFaults>>

\* The hold, while the snapshot is pinned; or the query or the hold failed.  Either way
\* the lease is released.
PlaceHold(a) ==
    /\ step[a].pc = "hold"
    /\ pinned' = pinned \ {<<a, step[a].snap>>}
    /\ \/ holds' = holds \cup {<<a, step[a].snap>>} /\ Advance(a, "store") /\ UNCHANGED analysisFaults
       \/ UNCHANGED holds /\ Advance(a, "done") /\ AnalysisFault
    /\ UNCHANGED <<current, present, saved, reruns>>

\* The row; a failed insert releases the hold.
Store(a) ==
    /\ step[a].pc = "store"
    /\ \/ saved' = [saved EXCEPT ![a] = step[a].snap] /\ Advance(a, "done") /\ UNCHANGED analysisFaults
       \/ UNCHANGED saved /\ Advance(a, "release") /\ AnalysisFault
    /\ UNCHANGED <<current, present, pinned, holds, reruns>>

Delete(a) ==
    /\ saved[a] # 0 /\ step[a].pc = "done"
    /\ saved' = [saved EXCEPT ![a] = 0]
    /\ Advance(a, "release")
    /\ UNCHANGED <<current, present, pinned, holds, reruns, analysisFaults>>

\* _release: an error is swallowed and the hold stays.
Release(a) ==
    /\ step[a].pc = "release"
    /\ \/ holds' = holds \ {<<a, step[a].snap>>} /\ UNCHANGED analysisFaults
       \/ UNCHANGED holds /\ AnalysisFault
    /\ Advance(a, "over")
    /\ UNCHANGED <<current, present, pinned, saved, reruns>>

\* run: the stored analysis against its own snapshot, pinned again; once the row has been
\* read the analysis may be deleted.
ReadRow(a) ==
    /\ saved[a] # 0 /\ reruns[a] = "none"
    /\ reruns' = [reruns EXCEPT ![a] = "pin"]
    /\ UNCHANGED <<current, present, pinned, holds, saved, step, analysisFaults>>

Rerun(a) ==
    /\ reruns[a] = "pin"
    /\ reruns' = [reruns EXCEPT ![a] = IF step[a].snap \in present THEN "ok" ELSE "gone"]
    /\ UNCHANGED <<current, present, pinned, holds, saved, step, analysisFaults>>

\* A build commits; a collection removes a snapshot that is neither current, pinned nor
\* held.
Commit ==
    /\ current = 1 /\ current' = 2 /\ present' = present \cup {2}
    /\ UNCHANGED <<pinned, holds, saved, step, reruns, analysisFaults>>

Collect ==
    /\ \E s \in present \ {current} :
         /\ \A x \in pinned \cup holds : x[2] # s
         /\ present' = present \ {s}
    /\ UNCHANGED <<current, pinned, holds, saved, step, reruns, analysisFaults>>

\* The process dies; leases expire, holds and rows are on disk.
CrashAnalyses ==
    /\ AnalysisFault
    /\ pinned' = {}
    /\ step' = [a \in Ids |-> IF step[a].pc \in {"hold", "store", "release"}
                              THEN [step[a] EXCEPT !.pc = "lost"] ELSE step[a]]
    /\ reruns' = [a \in Ids |-> IF reruns[a] = "pin" THEN "none" ELSE reruns[a]]
    /\ UNCHANGED <<current, present, holds, saved>>

AnalysisStep ==
    \/ \E a \in Ids :
         \/ RunQuery(a) \/ PlaceHold(a) \/ Store(a) \/ Delete(a) \/ Release(a)
         \/ ReadRow(a) \/ Rerun(a)
    \/ Commit \/ Collect \/ CrashAnalyses

AnalysesSpec == AnalysesInit /\ [][AnalysisStep]_analysisVars

----------------------------------------------------------------------------
AnalysisTypes ==
    /\ current \in Snapshots /\ present \subseteq Snapshots
    /\ pinned \subseteq Ids \X Snapshots /\ holds \subseteq Ids \X Snapshots
    /\ saved \in [Ids -> 0..2]

(***************************************************************************)
(* A stored analysis can be run again: its snapshot is held and its files  *)
(* are there, whatever failed on the way and whatever is collected.        *)
(***************************************************************************)
AnalysisHeld ==
    \A a \in Ids : saved[a] # 0 => <<a, saved[a]>> \in holds /\ saved[a] \in present

(***************************************************************************)
(* A snapshot is kept for an analysis that is stored or being stored or    *)
(* deleted; only a crash or a failed call leaves a hold nobody owns.       *)
(***************************************************************************)
NoOrphanHold ==
    analysisFaults = 0 => \A x \in holds :
        saved[x[1]] = x[2] \/ step[x[1]].pc \in {"store", "release"}

(***************************************************************************)
(* A rerun misses its snapshot only when the analysis was deleted          *)
(* meanwhile.                                                              *)
(***************************************************************************)
RerunFinds == \A a \in Ids : reruns[a] = "gone" => saved[a] = 0

(***************************************************************************)
(* A stored analysis's snapshot is held and there, without faults every    *)
(* hold belongs to an analysis, and a rerun misses its snapshot only if    *)
(* the analysis was deleted (service/analyses_api.py).                     *)
(***************************************************************************)
AnalysesHeld == AnalysisTypes /\ AnalysisHeld /\ NoOrphanHold /\ RerunFinds
=============================================================================
