------------------------------ MODULE Warehouse ------------------------------
(***************************************************************************)
(* One table of the snapshot warehouse: the SQLite catalog, the directory  *)
(* layout beside it, and the threads and processes that share them: builds *)
(* that materialise a snapshot, collection passes, readers under a lease,  *)
(* and holds.                                                              *)
(*                                                                         *)
(* Sources: warehouse/catalog.py, layout.py, materialize.py, gc.py; the    *)
(* build side of pipeline/orchestrator.py; the readers of                  *)
(* service/warehouse_api.py; warehouse-gc and warehouse-hold of cli.py.    *)
(*                                                                         *)
(* A snapshot is named by the build that makes it (its id is a fresh       *)
(* UUID).  Every catalog method is one BEGIN IMMEDIATE transaction and so  *)
(* one action; a file-system call is an action of its own.  shutil.rmtree  *)
(* of a directory that someone may still be writing is two actions: unlink *)
(* what is listed, then rmdir, which fails silently when a file arrived.   *)
(* Collection loops visit their candidates in any order.                   *)
(***************************************************************************)
EXTENDS Naturals, Sequences, FiniteSets

CONSTANTS
    Snapshots,    \* builds of the table, and the snapshots they make
    Collectors,   \* processes or build threads that run collection passes
    Readers,      \* queries, exports and backups that lease a snapshot
    Holds,        \* holds a saved analysis or an operator can place
    Absent,       \* no directory
    None,         \* Python's None: no snapshot
    NEntries,     \* entries of a Gold directory, copied in order 1..NEntries
    DirEntries,   \* those that are directories (splits/)
    Keep,         \* committed snapshots a pass retains
    MaxCrashes,   \* bound on crashes
    SlowBuilds,   \* --stale-hours may be shorter than a running build
    RmFails,      \* rmtree(ignore_errors=True) may leave the directory
    Quarantines   \* the snapshots someone calls TableCatalog.quarantine on

ASSUME NamesAssumption ==
    /\ None \notin Snapshots
    /\ \A d \in SUBSET (1..NEntries) : d # Absent
ASSUME FiniteAssumption == IsFiniteSet(Snapshots)
ASSUME NumbersAssumption ==
    /\ NEntries \in Nat \ {0}
    /\ DirEntries \subseteq 1..NEntries
    /\ Keep \in Nat
    /\ MaxCrashes \in Nat
ASSUME FlagsAssumption ==
    /\ SlowBuilds \in BOOLEAN
    /\ RmFails \in BOOLEAN
    /\ Quarantines \subseteq Snapshots

Entries == 1..NEntries
Directory == {Absent} \cup SUBSET Entries
States == {"none", "staging", "validated", "committed", "quarantined", "abandoned", "retiring"}
Uncommitted == {"staging", "validated"}
Readable == {"committed", "quarantined"}
Dead == {"abandoned", "retiring"}

VARIABLES
    state,     \* table_snapshots.state, "none" when there is no row
    digest,    \* table_snapshots.artifact_digest: the contents it was taken of
    born,      \* table_snapshots.created_at, as a rank; 0 when never begun
    current,   \* tables.current_snapshot_id
    revision,  \* tables.revision
    staging,   \* _staging/<id>
    promoted,  \* snapshots/<id>
    leases,    \* snapshot_leases, one per reader: [snap, live]
    holds,     \* snapshot_holds, one per hold: [snap, live]
    build,     \* builds: [pc, start, next], start the revision read when the
               \* build began, next the entry it copies next
    gc,        \* passes: [pc, known, todo, snap, cur]
    crashes,
    log        \* history: the snapshots committed, in order

rowVars == <<state, digest, born>>
tableVars == <<current, revision, log>>
fileVars == <<staging, promoted>>
pinVars == <<leases, holds>>
vars == <<rowVars, tableVars, fileVars, pinVars, build, gc, crashes>>

NoPin == [snap |-> None, live |-> FALSE]
IdlePass == [pc |-> "idle", known |-> {}, todo |-> {}, snap |-> None, cur |-> None]

Init ==
    /\ state = [s \in Snapshots |-> "none"]
    /\ digest = [s \in Snapshots |-> {}]
    /\ born = [s \in Snapshots |-> 0]
    /\ current = None
    /\ revision = 0
    /\ log = <<>>
    /\ staging = [s \in Snapshots |-> Absent]
    /\ promoted = [s \in Snapshots |-> Absent]
    /\ leases = [r \in Readers |-> NoPin]
    /\ holds = [h \in Holds |-> NoPin]
    /\ build = [s \in Snapshots |-> [pc |-> "idle", start |-> 0, next |-> 1]]
    /\ gc = [c \in Collectors |-> IdlePass]
    /\ crashes = 0

-----------------------------------------------------------------------------
(* A build: run_build reads the revision, collects its sources, and calls  *)
(* materialize.  "ended" is a build whose exception left materialize;      *)
(* "refused" is the except clause around commit_snapshot.                  *)

GoTo(s, p) == build' = [build EXCEPT ![s].pc = p]

\* table_revision before anything is fetched; 0 when the table does not exist.
StartBuild(s) ==
    /\ build[s].pc = "idle"
    /\ build' = [build EXCEPT ![s].pc = "begin", ![s].start = revision]
    /\ UNCHANGED <<rowVars, tableVars, fileVars, pinVars, gc, crashes>>

\* create_table, which returns the existing row, then begin_snapshot.
BeginSnapshot(s) ==
    /\ build[s].pc = "begin"
    /\ state' = [state EXCEPT ![s] = "staging"]
    /\ born' = [born EXCEPT ![s] = Cardinality({t \in Snapshots : born[t] # 0}) + 1]
    /\ GoTo(s, "mkdir")
    /\ UNCHANGED <<digest, tableVars, fileVars, pinVars, gc, crashes>>

\* SnapshotLayout.begin
MakeStaging(s) ==
    /\ build[s].pc = "mkdir"
    /\ staging' = [staging EXCEPT ![s] = IF @ = Absent THEN {} ELSE @]
    /\ GoTo(s, "copy")
    /\ UNCHANGED <<rowVars, tableVars, promoted, pinVars, gc, crashes>>

\* One turn of the copy loop.  copytree makes the missing parents of its
\* target; copy2 raises when the staging directory is gone.
CopyEntry(s) ==
    LET e == build[s].next IN
    /\ build[s].pc = "copy"
    /\ \/ /\ staging[s] # Absent \/ e \in DirEntries
          /\ staging' = [staging EXCEPT ![s] = (IF @ = Absent THEN {} ELSE @) \cup {e}]
          /\ build' = [build EXCEPT ![s].next = e + 1,
                                    ![s].pc = IF e = NEntries THEN "digest" ELSE "copy"]
       \/ /\ staging[s] = Absent /\ e \notin DirEntries
          /\ GoTo(s, "ended")
          /\ UNCHANGED staging
    /\ UNCHANGED <<rowVars, tableVars, promoted, pinVars, gc, crashes>>

\* content_digest of the staging directory, then set_artifact_digest.
SetDigest(s) ==
    /\ build[s].pc = "digest"
    /\ \/ /\ staging[s] # Absent /\ state[s] \in Uncommitted
          /\ digest' = [digest EXCEPT ![s] = staging[s]]
          /\ GoTo(s, "validate")
       \/ /\ staging[s] = Absent \/ state[s] \notin Uncommitted
          /\ GoTo(s, "ended")
          /\ UNCHANGED digest
    /\ UNCHANGED <<state, born, tableVars, fileVars, pinVars, gc, crashes>>

\* write_manifest into the staging directory, then mark_validated.
MarkValidated(s) ==
    /\ build[s].pc = "validate"
    /\ \/ /\ staging[s] # Absent /\ state[s] = "staging"
          /\ state' = [state EXCEPT ![s] = "validated"]
          /\ GoTo(s, "promote")
       \/ /\ staging[s] = Absent \/ state[s] # "staging"
          /\ GoTo(s, "ended")
          /\ UNCHANGED state
    /\ UNCHANGED <<digest, born, tableVars, fileVars, pinVars, gc, crashes>>

\* SnapshotLayout.promote: one rename; an existing target is refused.
Promote(s) ==
    /\ build[s].pc = "promote"
    /\ \/ /\ promoted[s] = Absent /\ staging[s] # Absent
          /\ promoted' = [promoted EXCEPT ![s] = staging[s]]
          /\ staging' = [staging EXCEPT ![s] = Absent]
          /\ GoTo(s, "verify")
       \/ /\ promoted[s] # Absent \/ staging[s] = Absent
          /\ GoTo(s, "ended")
          /\ UNCHANGED fileVars
    /\ UNCHANGED <<rowVars, tableVars, pinVars, gc, crashes>>

\* is_empty, then the digest on disk against the one recorded.
Intact(s) == promoted[s] \notin {Absent, {}} /\ promoted[s] = digest[s]

\* commit_snapshot's _verify_promoted, outside the transaction.
VerifyPromoted(s) ==
    /\ build[s].pc = "verify"
    /\ GoTo(s, CASE state[s] = "none" -> "ended"
                 [] state[s] # "none" /\ ~Intact(s) -> "refused"
                 [] OTHER -> "commit")
    /\ UNCHANGED <<rowVars, tableVars, fileVars, pinVars, gc, crashes>>

\* Mutant: the revision may have moved on.
RevisionMatchesLater(s) == revision >= build[s].start

\* UPDATE tables ... WHERE revision = expected_revision
RevisionMatches(s) == revision = build[s].start

\* Mutant: the transaction trusts the state seen by the verification.
CommitSnapshotUnchecked(s) ==
    /\ build[s].pc = "commit"
    /\ \/ /\ state[s] # "none" /\ RevisionMatches(s)
          /\ state' = [state EXCEPT ![s] = "committed"]
          /\ current' = s
          /\ revision' = revision + 1
          /\ log' = Append(log, s)
          /\ GoTo(s, "done")
       \/ /\ state[s] = "none" \/ ~RevisionMatches(s)
          /\ GoTo(s, IF state[s] = "none" THEN "ended" ELSE "refused")
          /\ UNCHANGED <<state, tableVars>>
    /\ UNCHANGED <<digest, born, fileVars, pinVars, gc, crashes>>

\* Mutant: the pointer moves in one transaction, the state in a second.
CommitSnapshotInTwo(s) ==
    /\ build[s].pc = "commit"
    /\ \/ /\ state[s] = "validated" /\ RevisionMatches(s) /\ current # s
          /\ current' = s
          /\ revision' = revision + 1
          /\ log' = Append(log, s)
          /\ UNCHANGED <<state, build>>
       \/ /\ state[s] = "validated" /\ current = s
          /\ state' = [state EXCEPT ![s] = "committed"]
          /\ GoTo(s, "done")
          /\ UNCHANGED tableVars
       \/ /\ current # s /\ (state[s] # "validated" \/ ~RevisionMatches(s))
          /\ GoTo(s, IF state[s] = "none" THEN "ended" ELSE "refused")
          /\ UNCHANGED <<state, tableVars>>
    /\ UNCHANGED <<digest, born, fileVars, pinVars, gc, crashes>>

\* commit_snapshot's transaction: both updates or neither.
CommitSnapshot(s) ==
    /\ build[s].pc = "commit"
    /\ \/ /\ state[s] = "validated" /\ RevisionMatches(s)
          /\ state' = [state EXCEPT ![s] = "committed"]
          /\ current' = s
          /\ revision' = revision + 1
          /\ log' = Append(log, s)
          /\ GoTo(s, "done")
       \/ /\ state[s] # "validated" \/ ~RevisionMatches(s)
          /\ GoTo(s, IF state[s] = "none" THEN "ended" ELSE "refused")
          /\ UNCHANGED <<state, tableVars>>
    /\ UNCHANGED <<digest, born, fileVars, pinVars, gc, crashes>>

\* TableCatalog.abandon: idempotent, and refused once committed or retiring.
Abandoned(s) == IF state[s] \in Uncommitted THEN [state EXCEPT ![s] = "abandoned"] ELSE state

AbandonRefused(s) ==
    /\ build[s].pc = "refused"
    /\ state' = Abandoned(s)
    /\ GoTo(s, "ended")
    /\ UNCHANGED <<digest, born, tableVars, fileVars, pinVars, gc, crashes>>

\* The process dies, or a disk error leaves materialize, between two steps.
AtWork(s) == build[s].pc \notin {"idle", "done", "ended"}
BuildFails(s) ==
    /\ AtWork(s)
    /\ crashes < MaxCrashes
    /\ crashes' = crashes + 1
    /\ GoTo(s, "ended")
    /\ UNCHANGED <<rowVars, tableVars, fileVars, pinVars, gc>>

Build(s) ==
    \/ StartBuild(s) \/ BeginSnapshot(s) \/ MakeStaging(s) \/ CopyEntry(s)
    \/ SetDigest(s) \/ MarkValidated(s) \/ Promote(s)
    \/ VerifyPromoted(s) \/ CommitSnapshot(s) \/ AbandonRefused(s)

-----------------------------------------------------------------------------
(* A collection pass: warehouse-gc first marks stale rows (abandon_stale), *)
(* and both it and _reclaim after a commit run collect.                    *)

Pass(c, p) == gc' = [gc EXCEPT ![c].pc = p]
Leave(c) == gc' = [gc EXCEPT ![c] = IdlePass]

StartPass(c) ==
    /\ gc[c].pc = "idle"
    /\ \E p \in {"stale", "purge"} : Pass(c, p)
    /\ UNCHANGED <<rowVars, tableVars, fileVars, pinVars, build, crashes>>

\* Rows created before the cut-off.  The cut-off is the operator's judgement:
\* a row of a build still at work is that old only when SlowBuilds.
Stale == {s \in Snapshots : state[s] \in Uncommitted /\ (AtWork(s) => SlowBuilds)}
ReadStale(c) ==
    /\ gc[c].pc = "stale"
    /\ \E old \in SUBSET Stale : gc' = [gc EXCEPT ![c].pc = "abandon", ![c].todo = old]
    /\ UNCHANGED <<rowVars, tableVars, fileVars, pinVars, build, crashes>>

\* One turn of abandon_stale's loop.  A row that was committed, retired or
\* forgotten since it was listed makes abandon raise, and warehouse-gc ends.
AbandonStale(c) ==
    /\ gc[c].pc = "abandon"
    /\ \/ \E s \in gc[c].todo :
            /\ state' = Abandoned(s)
            /\ IF state[s] \in Uncommitted \cup {"abandoned"}
               THEN gc' = [gc EXCEPT ![c].todo = @ \ {s}]
               ELSE Leave(c)
       \/ /\ gc[c].todo = {}
          /\ Pass(c, "purge")
          /\ UNCHANGED state
    /\ UNCHANGED <<digest, born, tableVars, fileVars, pinVars, build, crashes>>

Purged(pins) == [p \in DOMAIN pins |-> IF pins[p].live THEN pins[p] ELSE NoPin]
PurgeLeases(c) ==
    /\ gc[c].pc = "purge"
    /\ leases' = Purged(leases)
    /\ Pass(c, "known")
    /\ UNCHANGED <<rowVars, tableVars, fileVars, holds, build, crashes>>

\* collect_orphan_staging asks the catalog first ...
ReadKnown(c) ==
    /\ gc[c].pc = "known"
    /\ gc' = [gc EXCEPT ![c].pc = "scan", ![c].known = {s \in Snapshots : state[s] # "none"}]
    /\ UNCHANGED <<rowVars, tableVars, fileVars, pinVars, build, crashes>>

\* ... then lists _staging/ and takes what the answer does not name.
ScanStaging(c) ==
    /\ gc[c].pc = "scan"
    /\ gc' = [gc EXCEPT ![c].pc = "orphans", ![c].known = {},
                        ![c].todo = {s \in Snapshots : staging[s] # Absent} \ gc[c].known]
    /\ UNCHANGED <<rowVars, tableVars, fileVars, pinVars, build, crashes>>

Unlinked(dir) == IF dir = Absent THEN Absent ELSE {}
Rmdired(dir) == IF dir = {} THEN Absent ELSE dir

UnlinkOrphan(c) ==
    /\ gc[c].pc = "orphans"
    /\ \/ \E s \in gc[c].todo :
            /\ staging' = [staging EXCEPT ![s] = Unlinked(@)]
            /\ gc' = [gc EXCEPT ![c].pc = "orphan", ![c].snap = s, ![c].todo = @ \ {s}]
       \/ /\ gc[c].todo = {}
          /\ Pass(c, "table")
          /\ UNCHANGED staging
    /\ UNCHANGED <<rowVars, tableVars, promoted, pinVars, build, crashes>>

RmdirOrphan(c) ==
    /\ gc[c].pc = "orphan"
    /\ staging' = [staging EXCEPT ![gc[c].snap] = Rmdired(@)]
    /\ gc' = [gc EXCEPT ![c].pc = "orphans", ![c].snap = None]
    /\ UNCHANGED <<rowVars, tableVars, promoted, pinVars, build, crashes>>

ReadTable(c) ==
    /\ gc[c].pc = "table"
    /\ gc' = [gc EXCEPT ![c].pc = "list", ![c].cur = current]
    /\ UNCHANGED <<rowVars, tableVars, fileVars, pinVars, build, crashes>>

\* committed[keep:] of the newest-first list, without the current one.
Newer(s) == {t \in Snapshots : state[t] = "committed" /\ born[t] > born[s]}
Superseded(cur) ==
    {s \in Snapshots : state[s] = "committed" /\ Cardinality(Newer(s)) >= Keep /\ s # cur}
\* Mutant: a pass collects superseded snapshots only, not what other passes left.
ListSnapshotsSuperseded(c) ==
    /\ gc[c].pc = "list"
    /\ gc' = [gc EXCEPT ![c].pc = "retire", ![c].cur = None, ![c].todo = Superseded(gc[c].cur)]
    /\ UNCHANGED <<rowVars, tableVars, fileVars, pinVars, build, crashes>>

ListSnapshots(c) ==
    /\ gc[c].pc = "list"
    /\ gc' = [gc EXCEPT ![c].pc = "retire", ![c].cur = None,
                        ![c].todo = {s \in Snapshots : state[s] \in Dead}
                                        \cup Superseded(gc[c].cur)]
    /\ UNCHANGED <<rowVars, tableVars, fileVars, pinVars, build, crashes>>

Leased(s) == \E r \in Readers : leases[r] = [snap |-> s, live |-> TRUE]
Held(s) == \E h \in Holds : holds[h] = [snap |-> s, live |-> TRUE]
\* Mutant: begin_retiring forgets to look at the leases.
ProtectedUnleased(s) == current = s \/ Held(s)

Protected(s) == current = s \/ Leased(s) \/ Held(s)

\* begin_retiring: the check and the transition in one transaction.  A row
\* another pass has forgotten raises SnapshotNotFound, which collect does not
\* catch; a protected one is counted and skipped.
BeginRetiring(c) ==
    /\ gc[c].pc = "retire"
    /\ \/ \E s \in gc[c].todo :
            \/ /\ state[s] = "none"
               /\ Leave(c)
               /\ UNCHANGED state
            \/ /\ state[s] # "none" /\ Protected(s)
               /\ gc' = [gc EXCEPT ![c].todo = @ \ {s}]
               /\ UNCHANGED state
            \/ /\ state[s] # "none" /\ ~Protected(s)
               /\ state' = [state EXCEPT ![s] = "retiring"]
               /\ gc' = [gc EXCEPT ![c].pc = "delete", ![c].snap = s, ![c].todo = @ \ {s}]
       \/ /\ gc[c].todo = {}
          /\ Leave(c)
          /\ UNCHANGED state
    /\ UNCHANGED <<digest, born, tableVars, fileVars, pinVars, build, crashes>>

\* Mutant: only the staging directory is discarded.
DeletePromotedNever(c) ==
    /\ gc[c].pc = "delete"
    /\ Pass(c, "unlink")
    /\ UNCHANGED <<rowVars, tableVars, fileVars, pinVars, build, crashes>>

\* if directory.exists(): thaw, rmtree(ignore_errors=True)
DeletePromoted(c) ==
    /\ gc[c].pc = "delete"
    /\ \/ promoted' = [promoted EXCEPT ![gc[c].snap] = Absent]
       \/ RmFails /\ UNCHANGED promoted
    /\ Pass(c, "unlink")
    /\ UNCHANGED <<rowVars, tableVars, staging, pinVars, build, crashes>>

\* discard_staging, in the two steps of rmtree; then discard_profile.
UnlinkStaging(c) ==
    /\ gc[c].pc = "unlink"
    /\ staging' = [staging EXCEPT ![gc[c].snap] = Unlinked(@)]
    /\ Pass(c, "rmdir")
    /\ UNCHANGED <<rowVars, tableVars, promoted, pinVars, build, crashes>>

RmdirStaging(c) ==
    /\ gc[c].pc = "rmdir"
    /\ staging' = [staging EXCEPT ![gc[c].snap] = Rmdired(@)]
    /\ Pass(c, "forget")
    /\ UNCHANGED <<rowVars, tableVars, promoted, pinVars, build, crashes>>

\* forget_snapshot: its leases, its holds and its row.
Without(pins, s) == [p \in DOMAIN pins |-> IF pins[p].snap = s THEN NoPin ELSE pins[p]]
ForgetSnapshot(c) ==
    LET s == gc[c].snap IN
    /\ gc[c].pc = "forget"
    /\ leases' = Without(leases, s)
    /\ holds' = Without(holds, s)
    /\ state' = [state EXCEPT ![s] = "none"]
    /\ digest' = [digest EXCEPT ![s] = {}]
    /\ gc' = [gc EXCEPT ![c].pc = "retire", ![c].snap = None]
    /\ UNCHANGED <<born, tableVars, fileVars, build, crashes>>

PassFails(c) ==
    /\ gc[c].pc # "idle"
    /\ crashes < MaxCrashes
    /\ crashes' = crashes + 1
    /\ Leave(c)
    /\ UNCHANGED <<rowVars, tableVars, fileVars, pinVars, build>>

PassStep(c) ==
    \/ ReadStale(c) \/ AbandonStale(c) \/ PurgeLeases(c) \/ ReadKnown(c)
    \/ ScanStaging(c) \/ UnlinkOrphan(c) \/ RmdirOrphan(c) \/ ReadTable(c)
    \/ ListSnapshots(c) \/ BeginRetiring(c) \/ DeletePromoted(c)
    \/ UnlinkStaging(c) \/ RmdirStaging(c) \/ ForgetSnapshot(c)

-----------------------------------------------------------------------------
(* Readers and holds.  A reader that dies leaves its lease to expire.      *)

CanLease(s) == state[s] \in Readable

\* resolve_current
ResolveCurrent(r) ==
    /\ leases[r] = NoPin
    /\ current # None
    /\ leases' = [leases EXCEPT ![r] = [snap |-> current, live |-> TRUE]]
    /\ UNCHANGED <<rowVars, tableVars, fileVars, holds, build, gc, crashes>>

\* pin: a snapshot named by a saved analysis, an export or a backup.
Pin(r, s) ==
    /\ leases[r] = NoPin
    /\ CanLease(s)
    /\ leases' = [leases EXCEPT ![r] = [snap |-> s, live |-> TRUE]]
    /\ UNCHANGED <<rowVars, tableVars, fileVars, holds, build, gc, crashes>>

\* release, after the read: the row may have been purged or forgotten already.
Release(r) ==
    /\ leases[r] # NoPin
    /\ leases' = [leases EXCEPT ![r] = NoPin]
    /\ UNCHANGED <<rowVars, tableVars, fileVars, holds, build, gc, crashes>>

ExpireLease(r) ==
    /\ leases[r].live
    /\ leases' = [leases EXCEPT ![r].live = FALSE]
    /\ UNCHANGED <<rowVars, tableVars, fileVars, holds, build, gc, crashes>>

PlaceHold(h, s) ==
    /\ holds[h] = NoPin
    /\ state[s] \in Readable
    /\ holds' = [holds EXCEPT ![h] = [snap |-> s, live |-> TRUE]]
    /\ UNCHANGED <<rowVars, tableVars, fileVars, leases, build, gc, crashes>>

ReleaseHold(h) ==
    /\ holds[h] # NoPin
    /\ holds' = [holds EXCEPT ![h] = NoPin]
    /\ UNCHANGED <<rowVars, tableVars, fileVars, leases, build, gc, crashes>>

LapseHold(h) ==
    /\ holds[h].live
    /\ holds' = [holds EXCEPT ![h].live = FALSE]
    /\ UNCHANGED <<rowVars, tableVars, fileVars, leases, build, gc, crashes>>

\* TableCatalog.quarantine refuses only the current snapshot.
Quarantine(s) ==
    /\ s \in Quarantines
    /\ state[s] # "none"
    /\ current # s
    /\ state' = [state EXCEPT ![s] = "quarantined"]
    /\ UNCHANGED <<digest, born, tableVars, fileVars, pinVars, build, gc, crashes>>

Read(r) == ResolveCurrent(r) \/ Release(r) \/ ExpireLease(r) \/ \E s \in Snapshots : Pin(r, s)
Hold(h) == ReleaseHold(h) \/ LapseHold(h) \/ \E s \in Snapshots : PlaceHold(h, s)

Next ==
    \/ \E s \in Snapshots : Build(s) \/ BuildFails(s) \/ Quarantine(s)
    \/ \E c \in Collectors : StartPass(c) \/ PassStep(c) \/ PassFails(c)
    \/ \E r \in Readers : Read(r)
    \/ \E h \in Holds : Hold(h)

Spec == Init /\ [][Next]_vars

\* A build and a pass are sequential threads that run until they return; the
\* operator runs warehouse-gc again and again (docs/deployment.md).
FairSpec ==
    /\ Spec
    /\ \A s \in Snapshots : WF_vars(Build(s))
    /\ \A c \in Collectors : WF_vars(StartPass(c) \/ PassStep(c))

-----------------------------------------------------------------------------
BuildPcs == {"idle", "begin", "mkdir", "copy", "digest", "validate", "promote",
             "verify", "commit", "refused", "done", "ended"}
PassPcs == {"idle", "stale", "abandon", "purge", "known", "scan", "orphans", "orphan",
            "table", "list", "retire", "delete", "unlink", "rmdir", "forget"}
Pins == [snap : Snapshots \cup {None}, live : BOOLEAN]

\* The types of the catalog's rows, the directories and the threads' locals.
TypeOK ==
    /\ state \in [Snapshots -> States]
    /\ digest \in [Snapshots -> SUBSET Entries]
    /\ born \in [Snapshots -> Nat]
    /\ current \in Snapshots \cup {None}
    /\ revision \in Nat
    /\ log \in Seq(Snapshots)
    /\ staging \in [Snapshots -> Directory]
    /\ promoted \in [Snapshots -> Directory]
    /\ leases \in [Readers -> Pins]
    /\ holds \in [Holds -> Pins]
    /\ build \in [Snapshots -> [pc : BuildPcs, start : Nat, next : 1..(NEntries + 1)]]
    /\ gc \in [Collectors -> [pc : PassPcs, known : SUBSET Snapshots, todo : SUBSET Snapshots,
                              snap : Snapshots \cup {None}, cur : Snapshots \cup {None}]]
    /\ crashes \in Nat

\* Every snapshot a reader may open (state committed or quarantined) has, at its
\* final path, exactly the non-empty files its digest was taken of: a pass takes
\* the row out of that state before it touches a file (begin_retiring).
ReadableIntact == \A s \in Snapshots : CanLease(s) => Intact(s)

\* The pointer always names a committed snapshot whose files are there and match
\* the digest, whatever builds, passes and operators are doing (commit_snapshot's
\* verification and transaction, and what begin_retiring and quarantine refuse).
CurrentIntact == current # None => state[current] = "committed" /\ Intact(current)

\* A live lease or hold keeps its snapshot's files, whichever pass listed the
\* snapshot before the lease was taken (begin_retiring, pin, place_hold).
ProtectedIntact ==
    \A s \in Snapshots : Leased(s) \/ Held(s) => CanLease(s) /\ Intact(s)

\* The files a reader relies on are kept: of everything that may be opened, and of what
\* is leased or held (begin_retiring, delete_snapshot).
FilesKept == ReadableIntact /\ ProtectedIntact

\* No lost update: the i-th committed build read the revision i - 1 when it
\* started, so it started after the commit it replaces; and the pointer names
\* the last of them (the compare-and-swap of commit_snapshot).
CommitsSerial ==
    /\ revision = Len(log)
    /\ \A i \in 1..Len(log) : build[log[i]].start = i - 1
    /\ current = IF log = <<>> THEN None ELSE log[Len(log)]

\* Files under snapshots/ are known to the catalog: nothing else would ever
\* reclaim them, collect_orphan_staging looks only at _staging/ (delete_snapshot:
\* files first, catalog second).
NoOrphanSnapshot ==
    \A s \in Snapshots : promoted[s] # Absent => state[s] # "none"

\* The current snapshot holds the whole Gold directory of its build
\* (materialize: commit the contents of source_dir).
CurrentComplete == current # None => promoted[current] = Entries

\* A snapshot nobody will commit, and one a dead pass left retiring, is
\* eventually gone from the catalog (collect's abandoned and retiring branch).
Reclaimed == \A s \in Snapshots : state[s] \in Dead ~> state[s] \in {"none", "quarantined"}

-----------------------------------------------------------------------------
(* The abstract table.  A snapshot is readable while its row says so and   *)
(* its files match its digest; begin_retiring is the moment it is dropped. *)

LivePin(pin) == IF pin.live THEN pin.snap ELSE None
Table == INSTANCE SnapshotTable WITH
    pointer  <- current,
    version  <- revision,
    readable <- {s \in Snapshots : CanLease(s) /\ Intact(s)},
    leased   <- [r \in Readers |-> LivePin(leases[r])],
    held     <- [h \in Holds |-> LivePin(holds[h])]

\* The warehouse implements the abstract table: every build, pass, lease and hold
\* step is a refresh, a reclamation, a lease or a hold of it, or changes nothing
\* its clients see (the whole of catalog.py, gc.py and materialize.py).
ImplementsTable == Table!Spec
=============================================================================
