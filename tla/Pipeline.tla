------------------------------ MODULE Pipeline ------------------------------
(***************************************************************************)
(* One run of the build pipeline, attempt after attempt: run_build and     *)
(* _run_source_pipeline (pipeline/orchestrator.py), the Bronze stage with  *)
(* its checkpoints (stages/bronze), the event recorder, and the manifest.  *)
(*                                                                         *)
(* A run id may be built again: after a crash, or after a manifest was     *)
(* written.  What an attempt leaves on disk is what the next one finds.    *)
(* Records are abstracted to where they came from: the attempt that        *)
(* fetched them and the parameters (spec version) they were fetched with.  *)
(* Sources run in parallel; each has its own directories, so they share    *)
(* only the cancellation request, the event log and the table revisions.   *)
(***************************************************************************)
EXTENDS Naturals, Sequences, FiniteSets, SequencesExt

CONSTANTS
    Sources,      \* output keys of the specification's sources
    Grid,         \* the sources that declare a param_grid
    NCombos,      \* how many combinations a param_grid expands to
    Joined,       \* the two aliases a composition joins, or {} for none
    Declared,     \* the sources whose Silver holds a declared PII column
    MaxAttempts,  \* bound: how often the run id is built
    Versions,     \* bound: the parameter versions the specification takes
    MaxDrops,     \* bound: how many event appends of an attempt fail
    Incidents     \* bound: how many failures, and commits of other builds, happen

ASSUME PipelineAssumption ==
    /\ Grid \subseteq Sources /\ Declared \subseteq Sources
    /\ Joined \subseteq Sources /\ Cardinality(Joined) \in {0, 2}
    /\ NCombos \in Nat \ {0} /\ MaxAttempts \in Nat \ {0}
    /\ Versions \subseteq Nat /\ Versions # {}
    /\ MaxDrops \in Nat /\ Incidents \in Nat

VARIABLES
    run,       \* the attempt in progress: phase, attempt, version, status...
    src,       \* each source's progress within the attempt (memory)
    ckpt,      \* each source's checkpoint directory: fragments and index
    disk,      \* each source's stage directories and staging directory
    composed,  \* the composed Gold this attempt wrote
    table,     \* each source's warehouse table: commits since the attempt began
    manifest,  \* the manifest this attempt wrote; an earlier attempt's stays on
               \* disk until it is replaced, and no step here reads it
    log,       \* the event store: this attempt's events of each source
    budget     \* how many incidents are left

vars == <<run, src, ckpt, disk, composed, table, manifest, log, budget>>

NoRun == 0   \* no attempt: an absent directory, manifest or snapshot
Stages == <<"bronze", "silver", "gold">>

\* The parameters combination c is fetched with under version v of the spec.
Params(c, v) == <<c, v>>
\* A combination's records: the attempt that fetched them, and with what.
Rec(a, c, v) == [att |-> a, params |-> Params(c, v)]
\* A plain source makes one call, which no checkpoint keeps.
Calls(s) == IF s \in Grid THEN 1 .. NCombos ELSE {1}

-----------------------------------------------------------------------------
(* Checkpoints: a fragment per combination, and an index appended to.      *)

NoFrags == [c \in 1 .. NCombos |-> <<>>]
NoCkpt == [frags |-> NoFrags, index |-> <<>>]

\* finish: the line goes at the end of the file.  A last line without its
\* newline (a crash cut it short) takes the new one, and neither can be read.
AppendLine(index, line) ==
    IF index # <<>> /\ Last(index).open
    THEN Append(Front(index), [Last(index) EXCEPT !.readable = FALSE, !.open = FALSE])
    ELSE Append(index, line)

\* load: the readable lines before the first unreadable one.
KnownLines(index) ==
    {index[i] : i \in {j \in DOMAIN index : \A h \in 1 .. j : index[h].readable}}

\* load: a line is reused only if its parameters are the ones the spec now
\* expands to and its fragment is still there.
Matches(k, l, v) == l.params = Params(l.c, v) /\ k.frags[l.c] # <<>>
LoadOk(k, v) == \A l \in KnownLines(k.index) : Matches(k, l, v)
\* Mutant: load trusts every line it can read.
LoadTrusting(k, v) == [ckpt |-> k, done |-> {l.c : l \in KnownLines(k.index)}]

\* load: one mismatch discards the whole checkpoint.
Load(k, v) ==
    IF LoadOk(k, v)
    THEN [ckpt |-> k, done |-> {l.c : l \in KnownLines(k.index)}]
    ELSE [ckpt |-> NoCkpt, done |-> {}]

-----------------------------------------------------------------------------
NoSource == [pc |-> "idle", k |-> 1, resumed |-> {}, staged |-> <<>>,
             completed |-> <<>>, fetched |-> FALSE, exporting |-> FALSE,
             status |-> "running", silver |-> NoRun, declared |-> FALSE,
             kept |-> {}]
NoDisk == [staging |-> FALSE, bronze |-> <<>>, silver |-> NoRun,
           gold |-> NoRun, export |-> NoRun]
NoManifest == [att |-> NoRun, status |-> "none", ok |-> {}, resumed |-> {},
               warnings |-> {}, conflicts |-> {}, stages |-> [s \in Sources |-> <<>>]]
IdleRun == [phase |-> "idle", att |-> 0, ver |-> 0, cancel |-> FALSE,
            cancelled |-> FALSE, status |-> "none", comp |-> "none",
            revs |-> [s \in Sources |-> 0], todo |-> {}, conflicts |-> {},
            dropped |-> {}]

NoComposed == [att |-> NoRun, unmasked |-> {}]
NoCommit == [s \in Sources |-> [rev |-> 0, by |-> NoRun]]
NoEvents == [s \in Sources |-> {}]

Init ==
    /\ run = IdleRun
    /\ src = [s \in Sources |-> NoSource]
    /\ ckpt = [s \in Sources |-> NoCkpt]
    /\ disk = [s \in Sources |-> NoDisk]
    /\ composed = NoComposed
    /\ table = NoCommit
    /\ manifest = NoManifest
    /\ log = NoEvents
    /\ budget = Incidents

-----------------------------------------------------------------------------
(* Events.  BuildEventRecorder._record absorbs an append that fails and     *)
(* keeps its name for the manifest's warnings; the build goes on.  Of a    *)
(* stage's events the ones that say how it ended are modelled.             *)

Record(s, events) ==
    \/ /\ log' = [log EXCEPT ![s] = @ \cup events]
       /\ UNCHANGED run
    \/ /\ Cardinality(run.dropped) < MaxDrops
       /\ \E lost \in events :
            /\ log' = [log EXCEPT ![s] = @ \cup (events \ {lost})]
            /\ run' = [run EXCEPT !.dropped = @ \cup {<<s, lost>>}]

Ev(kind, stage) == <<kind, stage>>
InRun(s) == run.phase = "sources" /\ src[s].status = "running"

\* The finally clause: the source's connection is closed and its own staging
\* entry removed, however the source ended.
Ended(s, result) ==
    /\ src' = [src EXCEPT ![s] = [result EXCEPT !.pc = "ended"]]
    /\ disk' = [disk EXCEPT ![s].staging = FALSE]

\* A boundary of the pipeline: BuildCancelled ends the source as cancelled,
\* with what it completed, and no failure event.
CancelAt(s) ==
    /\ run.cancel
    /\ Ended(s, [src[s] EXCEPT !.status = "cancelled"])
    /\ UNCHANGED <<run, ckpt, composed, table, manifest, log, budget>>

\* Mutant: the except clause charges the stage that completed last.
FailedStagesLast(r) ==
    IF r.completed = <<>> THEN {"bronze"}
    ELSE IF r.exporting THEN {"export"} ELSE {Last(r.completed)}

\* The stage the except clause charges: the first one not completed.
FailedStages(r) ==
    IF Len(r.completed) < Len(Stages) THEN {Stages[Len(r.completed) + 1]}
    ELSE IF r.exporting THEN {"export"} ELSE {}

\* The except clause: any exception ends the source as failed.  The result of
\* a failed source does not carry the declared PII columns; it carries Silver.
FailEvents(r) ==
    {Ev("failed", stage) : stage \in FailedStages(r)}
        \cup (IF r.completed = <<>> /\ ~r.fetched THEN {Ev("failed", "fetch")} ELSE {})

Fail(s) ==
    /\ InRun(s) /\ src[s].pc \notin {"idle", "persisted", "golded"}
    /\ budget > 0
    /\ Ended(s, [src[s] EXCEPT !.status = "failed"])
    /\ Record(s, FailEvents(src[s]))
    /\ budget' = budget - 1
    /\ UNCHANGED <<ckpt, composed, table, manifest>>

-----------------------------------------------------------------------------
(* run_build: the beginning of an attempt.                                 *)

\* Nothing of an earlier attempt but its files is there to be read.
Forget ==
    /\ src' = [s \in Sources |-> [NoSource EXCEPT !.kept = src[s].kept]]
    /\ composed' = NoComposed /\ table' = NoCommit
    /\ manifest' = NoManifest /\ log' = NoEvents

\* validate_spec passed; the snapshot of the specification is written, the
\* tables' revisions are read, the spill directories cleared.
StartRun ==
    /\ run.phase \in {"idle", "done"} /\ run.att < MaxAttempts
    /\ \E v \in Versions :
         run' = [IdleRun EXCEPT !.phase = "sources", !.att = run.att + 1, !.ver = v,
                                !.revs = [s \in Sources |-> 0]]
    /\ Forget
    /\ UNCHANGED <<ckpt, disk, budget>>

\* A cancellation request is taken until commit() locks it out.
Cancel ==
    /\ run.phase = "sources" /\ ~run.cancel
    /\ run' = [run EXCEPT !.cancel = TRUE]
    /\ UNCHANGED <<src, ckpt, disk, composed, table, manifest, log, budget>>

-----------------------------------------------------------------------------
(* Bronze: boundary 0, the fetch, the persisted artifact.                  *)

\* What a crashed attempt left in staging is removed, the checkpoint loaded,
\* the writer opened.
BeginFetch(s) ==
    LET loaded == IF s \in Grid THEN Load(ckpt[s], run.ver)
                                ELSE [ckpt |-> ckpt[s], done |-> {}]
    IN  /\ InRun(s) /\ src[s].pc = "idle"
        /\ \/ CancelAt(s)
           \/ /\ ~run.cancel
              /\ ckpt' = [ckpt EXCEPT ![s] = loaded.ckpt]
              /\ disk' = [disk EXCEPT ![s].staging = TRUE]
              /\ src' = [src EXCEPT ![s].pc = "fetch", ![s].resumed = loaded.done,
                            ![s].kept = IF loaded.ckpt = ckpt[s] THEN @ ELSE {}]
              /\ UNCHANGED <<run, composed, table, manifest, log, budget>>

\* The records one call puts into the working copy: a resumed combination's
\* fragment, or what the provider answers now.
CallRec(s) ==
    LET c == src[s].k
    IN  IF c \in src[s].resumed THEN ckpt[s].frags[c][1] ELSE Rec(run.att, c, run.ver)

\* Where the fetch stands after a call: the next combination, or all staged.
AfterCall(s) ==
    [src[s] EXCEPT !.staged = Append(@, CallRec(s)),
                   !.k = @ + 1,
                   !.pc = IF src[s].k = Cardinality(Calls(s)) THEN "fetched" ELSE "fetch",
                   !.fetched = (src[s].k = Cardinality(Calls(s))),
                   !.kept = IF s \in Grid THEN @ \cup {Params(src[s].k, run.ver)} ELSE @]

\* A combination taken from the checkpoint is not fetched again.  A fetched
\* one of a grid has its fragment on disk first, then its index line.
Checkpointed(s) ==
    LET c == src[s].k
        line == [c |-> c, params |-> Params(c, run.ver), readable |-> TRUE, open |-> FALSE]
    IN  IF s \in Grid /\ c \notin src[s].resumed
        THEN [frags |-> [ckpt[s].frags EXCEPT ![c] = <<CallRec(s)>>],
              index |-> AppendLine(ckpt[s].index, line)]
        ELSE ckpt[s]

\* One call of the fetch.  After each combination but the last, a
\* cancellation stops the fetch: the writer aborts and the staging goes, the
\* checkpoint stays.
FetchCall(s) ==
    /\ InRun(s) /\ src[s].pc = "fetch"
    /\ ckpt' = [ckpt EXCEPT ![s] = Checkpointed(s)]
    /\ IF run.cancel /\ src[s].k < Cardinality(Calls(s))
       THEN Ended(s, [AfterCall(s) EXCEPT !.status = "cancelled"]) /\ UNCHANGED <<run, log>>
       ELSE /\ src' = [src EXCEPT ![s] = AfterCall(s)]
            /\ IF AfterCall(s).fetched THEN Record(s, {Ev("completed", "fetch")})
                                       ELSE UNCHANGED <<run, log>>
            /\ UNCHANGED disk
    /\ UNCHANGED <<composed, table, manifest, budget>>

\* persist_bronze_artifact: the directory replaced in one rename.
PersistBronze(s) ==
    /\ InRun(s) /\ src[s].pc = "fetched"
    /\ disk' = [disk EXCEPT ![s].bronze = src[s].staged]
    /\ src' = [src EXCEPT ![s].pc = "persisted"]
    /\ UNCHANGED <<run, ckpt, composed, table, manifest, log, budget>>

\* The checkpoint goes once Bronze is written; Bronze is completed.
SealBronze(s) ==
    /\ InRun(s) /\ src[s].pc = "persisted"
    /\ ckpt' = [ckpt EXCEPT ![s] = NoCkpt]
    /\ src' = [src EXCEPT ![s].pc = "bronze", ![s].completed = Append(@, "bronze"),
                          ![s].kept = {}]
    /\ Record(s, {Ev("completed", "bronze")})
    /\ UNCHANGED <<disk, composed, table, manifest, budget>>

-----------------------------------------------------------------------------
(* Silver, Gold, export.  Each begins at a boundary where a cancellation    *)
(* is observed and ends with its directory replaced in one rename; a        *)
(* request that comes in between is seen at the next boundary.              *)

Stage(s, from, to, stage) ==
    /\ InRun(s) /\ src[s].pc = from
    /\ \/ CancelAt(s)
       \/ /\ ~run.cancel
          /\ disk' = [disk EXCEPT ![s][stage] = run.att]
          /\ src' = [src EXCEPT ![s].pc = to, ![s].completed = Append(@, stage),
                        ![s].silver = IF stage = "silver" /\ s \in Joined THEN run.att ELSE @]
          /\ Record(s, {Ev("completed", stage)})
          /\ UNCHANGED <<ckpt, composed, table, manifest, budget>>

\* The gates (validation, PII scan, quality) have passed; Silver is captured
\* for the composition only after them.
Silver(s) == Stage(s, "bronze", "silvered", "silver")
Gold(s) == Stage(s, "silvered", "golded", "gold")

\* Past boundary 3 the export begins, and an exception is the export's.
StartExport(s) ==
    /\ InRun(s) /\ src[s].pc = "golded"
    /\ \/ CancelAt(s)
       \/ /\ ~run.cancel
          /\ src' = [src EXCEPT ![s].pc = "export", ![s].exporting = TRUE]
          /\ UNCHANGED <<run, ckpt, disk, composed, table, manifest, log, budget>>

\* The exports and the card are written into the Gold directory; the source's
\* result carries its declared PII columns and how much was resumed.
FinishExport(s) ==
    /\ InRun(s) /\ src[s].pc = "export"
    /\ src' = [src EXCEPT ![s].pc = "ended", ![s].status = "ok",
                          ![s].declared = s \in Declared]
    /\ disk' = [disk EXCEPT ![s].export = run.att, ![s].staging = FALSE]
    /\ Record(s, {Ev("completed", "export")})
    /\ UNCHANGED <<ckpt, composed, table, manifest, budget>>

-----------------------------------------------------------------------------
(* run_build: the merge, in one thread.                                    *)

AllEnded == \A s \in Sources : src[s].status # "running"

\* Any cancelled source, or a cancellation that commit() still sees, makes
\* the run cancelled; otherwise commit() locks requests out.
Merge ==
    /\ run.phase = "sources" /\ AllEnded
    /\ run' = [run EXCEPT !.phase = "merged",
                 !.cancelled = run.cancel \/ \E s \in Sources : src[s].status = "cancelled"]
    /\ UNCHANGED <<src, ckpt, disk, composed, table, manifest, log, budget>>

\* _mask_composition_inputs: a side's columns are masked as its result says.
UnmaskedSides == {s \in Joined \cap Declared : ~src[s].declared}

\* Mutant: a cancelled run composes too.
ComposeAnyway ==
    /\ run.phase = "merged" /\ run.comp = "none"
    /\ Joined # {} /\ \A s \in Joined : src[s].silver # NoRun
    /\ run' = [run EXCEPT !.comp = "ok"]
    /\ composed' = [att |-> run.att, unmasked |-> UnmaskedSides]
    /\ UNCHANGED <<src, ckpt, disk, table, manifest, log, budget>>

\* _run_composition: not attempted on a cancelled run, skipped unless both
\* sides have a Silver of this attempt; a join or export error fails it.
Compose ==
    /\ run.phase = "merged" /\ run.comp = "none"
    /\ Joined # {} /\ ~run.cancelled
    /\ \/ /\ \E s \in Joined : src[s].silver = NoRun
          /\ run' = [run EXCEPT !.comp = "skipped"]
          /\ UNCHANGED <<composed, budget>>
       \/ /\ \A s \in Joined : src[s].silver # NoRun
          /\ run' = [run EXCEPT !.comp = "ok"]
          /\ composed' = [att |-> run.att, unmasked |-> UnmaskedSides]
          /\ UNCHANGED budget
       \/ /\ \A s \in Joined : src[s].silver # NoRun
          /\ budget > 0
          /\ run' = [run EXCEPT !.comp = "failed"]
          /\ budget' = budget - 1
          /\ UNCHANGED composed
    /\ UNCHANGED <<src, ckpt, disk, table, manifest, log>>

Errors == {s \in Sources : src[s].status = "failed"}
OkSources == {s \in Sources : src[s].status = "ok"}
ComposeDue == Joined # {} /\ ~run.cancelled /\ run.comp = "none"

\* The run's status, and its terminal event.
Decide ==
    LET status == CASE run.cancelled -> "cancelled"
                    [] ~run.cancelled /\ (Errors # {} \/ run.comp \in {"failed", "skipped"})
                         -> "failed"
                    [] OTHER -> "ok"
    IN  /\ run.phase = "merged" /\ ~ComposeDue
        /\ run' = [run EXCEPT !.phase = "decided", !.status = status,
                              !.todo = IF status = "ok" THEN OkSources ELSE {}]
        /\ UNCHANGED <<src, ckpt, disk, composed, table, manifest, log, budget>>

\* Mutant: the commit takes the table as it finds it.
MaterializeBlind(s) ==
    /\ run.phase = "decided" /\ s \in run.todo
    /\ table' = [table EXCEPT ![s] = [rev |-> @.rev + 1, by |-> run.att]]
    /\ run' = [run EXCEPT !.todo = @ \ {s}]
    /\ UNCHANGED <<src, ckpt, disk, composed, manifest, log, budget>>

\* materialize, one source at a time: committed against the revision read
\* when the run began, so a table another build moved meanwhile is a conflict.
Materialize(s) ==
    /\ run.phase = "decided" /\ s \in run.todo
    /\ IF table[s].rev = run.revs[s]
       THEN /\ table' = [table EXCEPT ![s] = [rev |-> @.rev + 1, by |-> run.att]]
            /\ run' = [run EXCEPT !.todo = @ \ {s}]
       ELSE /\ run' = [run EXCEPT !.todo = @ \ {s}, !.conflicts = @ \cup {s}]
            /\ UNCHANGED table
    /\ UNCHANGED <<src, ckpt, disk, composed, manifest, log, budget>>

\* A snapshot that cannot be committed (WarehouseError, OSError) is recorded,
\* and the run goes on to its manifest.
CommitFails(s) ==
    /\ run.phase = "decided" /\ s \in run.todo /\ budget > 0
    /\ run' = [run EXCEPT !.todo = @ \ {s}, !.conflicts = @ \cup {s}]
    /\ budget' = budget - 1
    /\ UNCHANGED <<src, ckpt, disk, composed, table, manifest, log>>

\* Another build of the same dataset commits this table.
RivalCommit(s) ==
    /\ run.phase \in {"sources", "merged", "decided"} /\ budget > 0
    /\ table' = [table EXCEPT ![s] = [rev |-> @.rev + 1, by |-> NoRun]]
    /\ budget' = budget - 1
    /\ UNCHANGED <<run, src, ckpt, disk, composed, manifest, log>>

\* _SourcePipelineResult.resumed: a source some of whose combinations came
\* from a checkpoint; the mutant counts only a fetch that resumed all of them.
ResumedWhole(s) == Cardinality(src[s].resumed) = NCombos
Resumed(s) == src[s].resumed # {}

\* manifest_writer: the whole file replaced in one rename, last of all.  Only
\* an ok source's result says how many combinations it resumed.
WriteManifest ==
    /\ run.phase = "decided" /\ run.todo = {}
    /\ manifest' = [att |-> run.att, status |-> run.status, ok |-> OkSources,
                    resumed |-> {s \in OkSources : Resumed(s)},
                    warnings |-> run.dropped, conflicts |-> run.conflicts,
                    stages |-> [s \in Sources |-> src[s].completed]]
    /\ run' = [run EXCEPT !.phase = "done"]
    /\ UNCHANGED <<src, ckpt, disk, composed, table, log, budget>>

-----------------------------------------------------------------------------
(* A crash: memory is gone.  A source that was fetching a combination may   *)
(* leave its fragment without an index line, or a line cut short: some of   *)
(* it, or all of it but the newline.                                        *)

Torn(s) ==
    LET c == src[s].k
        line(r) == [c |-> c, params |-> Params(c, run.ver), readable |-> r, open |-> TRUE]
        frags == [ckpt[s].frags EXCEPT ![c] = <<Rec(run.att, c, run.ver)>>]
    IN  IF src[s].pc = "fetch" /\ s \in Grid /\ c \notin src[s].resumed
        THEN {ckpt[s], [ckpt[s] EXCEPT !.frags = frags]}
               \cup {[frags |-> frags, index |-> AppendLine(ckpt[s].index, line(r))]
                       : r \in BOOLEAN}
        ELSE {ckpt[s]}

\* atomic_replace_dir: the old directory is renamed away, then the new one
\* into its place; between the two there is neither.
Swapped(s) ==
    {disk[s]}
      \cup (IF src[s].pc = "fetched" THEN {[disk[s] EXCEPT !.bronze = <<>>]} ELSE {})
      \cup (IF src[s].pc = "bronze" THEN {[disk[s] EXCEPT !.silver = NoRun]} ELSE {})
      \cup (IF src[s].pc = "silvered" THEN {[disk[s] EXCEPT !.gold = NoRun]} ELSE {})

\* The sources' threads all stop; at most one leaves a write half done.
Crash ==
    /\ run.phase \in {"sources", "merged", "decided"}
    /\ run.att < MaxAttempts
    /\ \E s \in Sources :
         /\ \E k \in Torn(s) : ckpt' = [ckpt EXCEPT ![s] = k]
         /\ \E d \in Swapped(s) : disk' = [disk EXCEPT ![s] = d]
    /\ run' = [IdleRun EXCEPT !.att = run.att]
    /\ Forget
    /\ UNCHANGED budget

SourceStep(s) ==
    \/ BeginFetch(s) \/ FetchCall(s) \/ PersistBronze(s) \/ SealBronze(s)
    \/ Silver(s) \/ Gold(s) \/ StartExport(s) \/ FinishExport(s)

Finalize == Merge \/ Compose \/ Decide \/ (\E s \in Sources : Materialize(s)) \/ WriteManifest

Next ==
    \/ StartRun \/ Cancel \/ Crash \/ Finalize
    \/ \E s \in Sources : SourceStep(s) \/ Fail(s) \/ CommitFails(s) \/ RivalCommit(s)

Spec == Init /\ [][Next]_vars

-----------------------------------------------------------------------------
(* Properties.                                                             *)

TypeOK ==
    /\ run.phase \in {"idle", "sources", "merged", "decided", "done"}
    /\ run.att \in 0 .. MaxAttempts /\ run.ver \in Versions \cup {0}
    /\ run.todo \subseteq Sources /\ run.conflicts \subseteq Sources
    /\ \A s \in Sources :
         /\ src[s].status \in {"running", "ok", "failed", "cancelled"}
         /\ \E n \in 0 .. 3 : src[s].completed = SubSeq(Stages, 1, n)
         /\ src[s].k \in 1 .. NCombos + 1
         /\ disk[s].silver \in 0 .. run.att /\ disk[s].gold \in 0 .. run.att
    /\ composed.att \in 0 .. run.att /\ manifest.att \in 0 .. run.att

Finished == run.phase = "done"

\* Bronze never mixes parameters: whatever was fetched, torn, resumed or
\* discarded before, the records of one persisted Bronze were all fetched
\* with the parameters of one version of the specification, in call order
\* (CombinationCheckpoint.load; build_bronze_artifact).
BronzeUnmixed ==
    \A s \in Sources : disk[s].bronze # <<>> =>
        /\ Len(disk[s].bronze) = Cardinality(Calls(s))
        /\ \E v \in Versions : \A c \in DOMAIN disk[s].bronze :
              disk[s].bronze[c].params = Params(c, v)

\* The manifest tells the truth about the disk: a stage it lists as completed
\* is on disk from this attempt, with this attempt's parameters; a source it
\* calls ok is marked as resumed exactly when its records came from two
\* fetches; a run it calls ok has every stage, what it composed has every
\* declared column masked, and neither staging nor a checkpoint is left
\* (_run_source_pipeline, run_build, not_reproducible, _mask_composition_inputs).
ManifestTrue ==
    Finished =>
        /\ \A s \in Sources :
             /\ "bronze" \in Range(manifest.stages[s]) =>
                   \A c \in DOMAIN disk[s].bronze :
                      disk[s].bronze[c].params = Params(c, run.ver)
             /\ "silver" \in Range(manifest.stages[s]) => disk[s].silver = run.att
             /\ "gold" \in Range(manifest.stages[s]) => disk[s].gold = run.att
             /\ ~disk[s].staging
        /\ \A s \in manifest.ok :
             (s \in manifest.resumed) <=> \E c \in DOMAIN disk[s].bronze :
                                             disk[s].bronze[c].att # run.att
        /\ manifest.status = "ok" =>
             /\ \A s \in Sources : disk[s].export = run.att /\ ckpt[s] = NoCkpt
             /\ Joined # {} => composed.att = run.att /\ composed.unmasked = {}

\* Refreshing loses to a newer refresh: a table this run moved was not moved
\* by anyone between the start of the run and the commit, and an ok source
\* whose table did not move is named in the manifest (run_build, start
\* revisions and warehouse_failures).
OlderDataLoses ==
    /\ run.phase \in {"decided", "done"} => \A s \in Sources :
          table[s].by = run.att => table[s].rev = run.revs[s] + 1
    /\ Finished /\ manifest.status = "ok" => \A s \in manifest.ok :
          s \notin manifest.conflicts => table[s].rev > run.revs[s]

\* A cancelled run starts nothing after the point it was cancelled: no table
\* moves, nothing is composed, and no source it ended reports a failure it
\* did not have (#481).
CancelledStops ==
    Finished /\ manifest.status = "cancelled" =>
        /\ composed.att # run.att
        /\ \A s \in Sources :
             /\ table[s].by # run.att
             /\ src[s].status = "cancelled" =>
                  \A e \in log[s] : e[1] # "failed"

\* The timeline agrees with the outcome: with the appends that failed (all of
\* them in the manifest's warnings) it has a completed event for each stage
\* completed, one failed stage for a failed source, the one after the last
\* completed, and none otherwise (BuildEventRecorder, the except clause).
TimelineAgrees ==
    Finished => \A s \in Sources :
        LET all == log[s] \cup {w[2] : w \in {x \in manifest.warnings : x[1] = s}}
            failed == {e[2] : e \in {x \in all : x[1] = "failed"}} \ {"fetch"}
        IN  /\ {e[2] : e \in {x \in all : x[1] = "completed"}} \cap Range(Stages)
                  = Range(manifest.stages[s])
            /\ Ev("completed", "export") \in all <=> s \in manifest.ok
            /\ failed = IF src[s].status # "failed" THEN {}
                        ELSE IF Len(manifest.stages[s]) < 3
                             THEN {Stages[Len(manifest.stages[s]) + 1]} ELSE {"export"}

\* A composed Gold has every declared column of both sides masked, whatever
\* became of the run: "there is no opt-out here: every declared column is
\* masked" (_compose).
ComposedMasked == composed.unmasked = {}

\* A combination whose finish returned is not fetched again by an attempt
\* with the same parameters: a rebuild "fetches only the combinations that
\* are missing" (stages/bronze/checkpoint.py).
FinishedKept ==
    \A s \in Grid : src[s].pc = "fetch" =>
        \A c \in src[s].k .. NCombos :
            Params(c, run.ver) \in src[s].kept => c \in src[s].resumed

=============================================================================
