--------------------------- MODULE WarehouseProofs ---------------------------
(***************************************************************************)
(* Theorems about Warehouse, for every number of builds, passes, readers   *)
(* and holds: what holds of the catalog and the directories whatever the   *)
(* environment does, and, where nobody quarantines, that the warehouse     *)
(* implements SnapshotTable.                                               *)
(***************************************************************************)
EXTENDS Warehouse, FiniteSetTheorems, SequenceTheorems, TLAPS

RowsOK ==
    /\ state \in [Snapshots -> States]
    /\ digest \in [Snapshots -> SUBSET Entries]
    /\ born \in [Snapshots -> Nat]
TableOK ==
    /\ current \in Snapshots \cup {None}
    /\ revision \in Nat
    /\ log \in Seq(Snapshots)
FilesOK ==
    /\ staging \in [Snapshots -> Directory]
    /\ promoted \in [Snapshots -> Directory]
PinsOK ==
    /\ leases \in [Readers -> Pins]
    /\ holds \in [Holds -> Pins]
BuildOK == build \in [Snapshots -> [pc : BuildPcs, start : Nat, next : 1..(NEntries + 1)]]
GcOK == gc \in [Collectors ->
                   [pc : PassPcs, known : SUBSET Snapshots, todo : SUBSET Snapshots,
                    snap : Snapshots \cup {None}, cur : Snapshots \cup {None}]]

Deleting == {"delete", "unlink", "rmdir", "forget"}

\* A build that has not registered its snapshot has no row, and one still
\* copying has an entry to copy.
Begun ==
    \A s \in Snapshots :
        /\ build[s].pc \in {"idle", "begin"} => state[s] = "none"
        /\ build[s].pc \in {"idle", "begin", "mkdir", "copy"} => build[s].next \in Entries

\* A pass deletes only what it has taken out of every committable state; a row
\* once forgotten is never registered again.
Retired ==
    \A c \in Collectors :
        /\ gc[c].pc \in Deleting \cup {"orphan"} => gc[c].snap \in Snapshots
        /\ gc[c].pc \in Deleting =>
              /\ state[gc[c].snap] \in {"none", "retiring", "quarantined"}
              /\ build[gc[c].snap].pc \notin {"idle", "begin"}

\* What a verification found still holds when the commit is accepted, and holds
\* for a committed snapshot for ever after.
Verified ==
    \A s \in Snapshots :
        /\ build[s].pc = "commit" /\ state[s] = "validated" => Intact(s)
        /\ state[s] = "committed" => build[s].pc = "done" /\ Intact(s)

\* Logged builds are done, and the pointer names a committed snapshot.
Logged ==
    /\ CommitsSerial
    /\ \A i \in 1..Len(log) : build[log[i]].pc = "done"
    /\ current # None => state[current] = "committed"

Types == RowsOK /\ TableOK /\ FilesOK /\ PinsOK /\ BuildOK /\ GcOK /\ crashes \in Nat
IInv == Types /\ Begun /\ Retired /\ Verified /\ Logged

-----------------------------------------------------------------------------
\* A thread's next program counter is all that GoTo and Pass change.
LEMMA GoToType ==
    ASSUME BuildOK, NEW s \in Snapshots, NEW p \in BuildPcs, GoTo(s, p)
    PROVE  /\ BuildOK'
           /\ build'[s].pc = p /\ build'[s].start = build[s].start /\ build'[s].next = build[s].next
           /\ \A t \in Snapshots \ {s} : build'[t] = build[t]
BY DEF BuildOK, GoTo

LEMMA PassType ==
    ASSUME GcOK, NEW c \in Collectors, NEW p \in PassPcs, Pass(c, p)
    PROVE  /\ GcOK'
           /\ gc'[c].pc = p /\ gc'[c].snap = gc[c].snap
           /\ \A d \in Collectors \ {c} : gc'[d] = gc[d]
BY DEF GcOK, Pass

LEMMA LeaveType ==
    ASSUME GcOK, NEW c \in Collectors, Leave(c)
    PROVE  /\ GcOK'
           /\ gc'[c].pc = "idle"
           /\ \A d \in Collectors \ {c} : gc'[d] = gc[d]
BY DEF GcOK, Leave, IdlePass, PassPcs

LEMMA InitIInv == Init => IInv
<1> SUFFICES ASSUME Init PROVE IInv
  OBVIOUS
<1>1. Types
  <2>1. RowsOK /\ TableOK /\ FilesOK
    BY EmptySeq DEF Init, RowsOK, TableOK, FilesOK, States, Directory
  <2>2. PinsOK /\ BuildOK /\ GcOK /\ crashes \in Nat
    BY NumbersAssumption DEF Init, PinsOK, BuildOK, GcOK, Pins, NoPin, IdlePass, BuildPcs, PassPcs
  <2> QED BY <2>1, <2>2 DEF Types
<1>2. Begun
  BY NumbersAssumption DEF Init, Begun, Entries
<1>3. Retired
  BY DEF Init, Retired, IdlePass, Deleting
<1>4. Verified
  BY DEF Init, Verified
<1>5. Logged
  BY DEF Init, Logged, CommitsSerial
<1> QED BY <1>1, <1>2, <1>3, <1>4, <1>5 DEF IInv

-----------------------------------------------------------------------------
\* The log and the pointer survive a step that commits nothing, leaves done
\* builds alone and the current snapshot committed.
LEMMA LoggedFrame ==
    ASSUME Logged, TableOK, UNCHANGED <<current, revision, log>>,
           current # None => state'[current] = "committed",
           \A t \in Snapshots : build[t].pc = "done" => build'[t] = build[t]
    PROVE  Logged'
<1>1. \A i \in 1..Len(log) : log[i] \in Snapshots
  BY ElementOfSeq DEF TableOK
<1> QED BY <1>1 DEF Logged, CommitsSerial

LEMMA BuildIInv ==
    ASSUME IInv, NEW s \in Snapshots, Build(s)
    PROVE  IInv'
<1>0. /\ RowsOK /\ TableOK /\ FilesOK /\ PinsOK /\ BuildOK /\ GcOK /\ crashes \in Nat
      /\ Begun /\ Retired /\ Verified /\ Logged
      /\ build[s] \in [pc : BuildPcs, start : Nat, next : 1..(NEntries + 1)]
  BY DEF BuildOK, IInv, Types
<1>1. CASE StartBuild(s)
  <2>1. /\ build[s].pc = "idle"
        /\ BuildOK'
        /\ build'[s].pc = "begin" /\ build'[s].next = build[s].next
        /\ \A t \in Snapshots \ {s} : build'[t] = build[t]
    BY <1>0, <1>1 DEF StartBuild, BuildOK, BuildPcs, TableOK
  <2>2. /\ UNCHANGED <<state, digest, born, current, revision, log, staging, promoted>>
        /\ UNCHANGED <<leases, holds, gc, crashes>>
    BY <1>1 DEF StartBuild, rowVars, tableVars, fileVars, pinVars
  <2>3. Types'
    BY <1>0, <2>1, <2>2 DEF Types, RowsOK, TableOK, FilesOK, PinsOK, GcOK
  <2>4. Begun' /\ Retired' /\ Verified'
    BY <1>0, <2>1, <2>2 DEF Begun, Retired, Verified, Intact, Deleting
  <2>5. Logged'
    BY <1>0, <2>1, <2>2, LoggedFrame DEF Logged
  <2> QED BY <2>3, <2>4, <2>5 DEF IInv
<1>2. CASE BeginSnapshot(s)
  <2>1. /\ build[s].pc = "begin"
        /\ BuildOK'
        /\ build'[s].pc = "mkdir" /\ build'[s].start = build[s].start /\ build'[s].next = build[s].next
        /\ \A t \in Snapshots \ {s} : build'[t] = build[t]
    BY <1>0, <1>2, GoToType DEF BeginSnapshot, BuildPcs
  <2>2. /\ RowsOK'
        /\ state' = [state EXCEPT ![s] = "staging"]
    <3>1. Cardinality({t \in Snapshots : born[t] # 0}) \in Nat
      BY FiniteAssumption, FS_Subset, FS_CardinalityType
    <3> QED BY <1>0, <1>2, <3>1 DEF BeginSnapshot, RowsOK, States
  <2>3. /\ UNCHANGED <<digest, current, revision, log, staging, promoted>>
        /\ UNCHANGED <<leases, holds, gc, crashes>>
    BY <1>2 DEF BeginSnapshot, tableVars, fileVars, pinVars
  <2>4. Types'
    BY <1>0, <2>1, <2>2, <2>3 DEF Types, TableOK, FilesOK, PinsOK, GcOK
  <2>5. Begun' /\ Retired' /\ Verified'
    BY <1>0, <2>1, <2>2, <2>3 DEF RowsOK, Begun, Retired, Verified, Intact, Deleting
  <2>6. Logged'
    BY <1>0, <2>1, <2>2, <2>3, LoggedFrame DEF RowsOK, Logged, TableOK, Begun
  <2> QED BY <2>4, <2>5, <2>6 DEF IInv
<1>3. CASE MakeStaging(s)
  <2>1. /\ build[s].pc = "mkdir"
        /\ BuildOK'
        /\ build'[s].pc = "copy" /\ build'[s].next = build[s].next
        /\ \A t \in Snapshots \ {s} : build'[t] = build[t]
    BY <1>0, <1>3, GoToType DEF MakeStaging, BuildPcs
  <2>2. staging' \in [Snapshots -> Directory]
    BY <1>0, <1>3 DEF MakeStaging, FilesOK, Directory
  <2>3. /\ UNCHANGED <<state, digest, born, current, revision, log, promoted>>
        /\ UNCHANGED <<leases, holds, gc, crashes>>
    BY <1>3 DEF MakeStaging, rowVars, tableVars, pinVars
  <2>4. Types'
    BY <1>0, <2>1, <2>2, <2>3 DEF Types, RowsOK, TableOK, FilesOK, PinsOK, GcOK
  <2>5. Begun' /\ Retired' /\ Verified'
    BY <1>0, <2>1, <2>3 DEF Begun, Retired, Verified, Intact, Deleting
  <2>6. Logged'
    BY <1>0, <2>1, <2>3, LoggedFrame DEF Logged
  <2> QED BY <2>4, <2>5, <2>6 DEF IInv
<1>4. CASE CopyEntry(s)
  <2>0. build[s].pc = "copy" /\ build[s].next \in Entries /\ NEntries \in Nat
    BY <1>0, <1>4, NumbersAssumption DEF CopyEntry, Begun
  <2>1. /\ BuildOK'
        /\ \/ build'[s].pc = "copy" /\ build'[s].next \in Entries
           \/ build'[s].pc \in {"digest", "ended"}
        /\ \A t \in Snapshots \ {s} : build'[t] = build[t]
    <3>1. CASE GoTo(s, "ended")
      BY <1>0, <3>1, GoToType DEF BuildPcs
    <3>2. CASE build' = [build EXCEPT ![s].next = build[s].next + 1,
                                      ![s].pc = IF build[s].next = NEntries
                                                THEN "digest" ELSE "copy"]
      <4>1. build[s].next + 1 \in 1..(NEntries + 1)
        BY <2>0 DEF Entries
      <4>2. build[s].next # NEntries => build[s].next + 1 \in Entries
        BY <2>0 DEF Entries
      <4> QED BY <1>0, <3>2, <4>1, <4>2 DEF BuildOK, BuildPcs
    <3> QED BY <1>4, <3>1, <3>2 DEF CopyEntry
  <2>2. staging' \in [Snapshots -> Directory]
    BY <1>0, <1>4, <2>0 DEF CopyEntry, FilesOK, Directory
  <2>3. /\ UNCHANGED <<state, digest, born, current, revision, log, promoted>>
        /\ UNCHANGED <<leases, holds, gc, crashes>>
    BY <1>4 DEF CopyEntry, rowVars, tableVars, pinVars
  <2>4. Types'
    BY <1>0, <2>1, <2>2, <2>3 DEF Types, RowsOK, TableOK, FilesOK, PinsOK, GcOK
  <2>5. Begun' /\ Retired' /\ Verified'
    BY <1>0, <2>0, <2>1, <2>3 DEF Begun, Retired, Verified, Intact, Deleting
  <2>6. Logged'
    BY <1>0, <2>0, <2>1, <2>3, LoggedFrame DEF Logged
  <2> QED BY <2>4, <2>5, <2>6 DEF IInv
<1>5. CASE SetDigest(s)
  <2>1. /\ build[s].pc = "digest"
        /\ BuildOK'
        /\ build'[s].pc \in {"validate", "ended"}
        /\ \A t \in Snapshots \ {s} : build'[t] = build[t]
    BY <1>0, <1>5, GoToType DEF SetDigest, BuildPcs
  <2>2. /\ digest' \in [Snapshots -> SUBSET Entries]
        /\ \A t \in Snapshots \ {s} : digest'[t] = digest[t]
    <3>1. staging[s] # Absent => staging[s] \in SUBSET Entries
      BY <1>0 DEF FilesOK, Directory
    <3> QED BY <1>0, <1>5, <3>1 DEF SetDigest, RowsOK
  <2>3. /\ UNCHANGED <<state, born, current, revision, log, staging, promoted>>
        /\ UNCHANGED <<leases, holds, gc, crashes>>
    BY <1>5 DEF SetDigest, tableVars, fileVars, pinVars
  <2>4. Types'
    BY <1>0, <2>1, <2>2, <2>3 DEF Types, RowsOK, TableOK, FilesOK, PinsOK, GcOK
  <2>5. Begun' /\ Retired' /\ Verified'
    BY <1>0, <2>1, <2>2, <2>3 DEF Begun, Retired, Verified, Intact, Deleting
  <2>6. Logged'
    BY <1>0, <2>1, <2>3, LoggedFrame DEF Logged
  <2> QED BY <2>4, <2>5, <2>6 DEF IInv
<1>6. CASE MarkValidated(s)
  <2>1. /\ build[s].pc = "validate"
        /\ BuildOK'
        /\ build'[s].pc \in {"promote", "ended"}
        /\ \A t \in Snapshots \ {s} : build'[t] = build[t]
    BY <1>0, <1>6, GoToType DEF MarkValidated, BuildPcs
  <2>2. /\ state' \in [Snapshots -> States]
        /\ \A t \in Snapshots \ {s} : state'[t] = state[t]
        /\ state'[s] = state[s] \/ (state[s] = "staging" /\ state'[s] = "validated")
    BY <1>0, <1>6 DEF MarkValidated, RowsOK, States
  <2>3. /\ UNCHANGED <<digest, born, current, revision, log, staging, promoted>>
        /\ UNCHANGED <<leases, holds, gc, crashes>>
    BY <1>6 DEF MarkValidated, tableVars, fileVars, pinVars
  <2>4. Types'
    BY <1>0, <2>1, <2>2, <2>3 DEF Types, RowsOK, TableOK, FilesOK, PinsOK, GcOK
  <2>5. Begun' /\ Retired' /\ Verified'
    BY <1>0, <2>1, <2>2, <2>3 DEF Begun, Retired, Verified, Intact, Deleting
  <2>6. Logged'
    BY <1>0, <2>1, <2>2, <2>3, LoggedFrame DEF Logged, TableOK
  <2> QED BY <2>4, <2>5, <2>6 DEF IInv
<1>7. CASE Promote(s)
  <2>1. /\ build[s].pc = "promote"
        /\ BuildOK'
        /\ build'[s].pc \in {"verify", "ended"}
        /\ \A t \in Snapshots \ {s} : build'[t] = build[t]
    BY <1>0, <1>7, GoToType DEF Promote, BuildPcs
  <2>2. /\ FilesOK'
        /\ \A t \in Snapshots \ {s} : promoted'[t] = promoted[t]
    BY <1>0, <1>7 DEF Promote, FilesOK, fileVars, Directory
  <2>3. /\ UNCHANGED <<state, digest, born, current, revision, log>>
        /\ UNCHANGED <<leases, holds, gc, crashes>>
    BY <1>7 DEF Promote, rowVars, tableVars, pinVars
  <2>4. Types'
    BY <1>0, <2>1, <2>2, <2>3 DEF Types, RowsOK, TableOK, PinsOK, GcOK
  <2>5. Begun' /\ Retired' /\ Verified'
    BY <1>0, <2>1, <2>2, <2>3 DEF Begun, Retired, Verified, Intact, Deleting
  <2>6. Logged'
    BY <1>0, <2>1, <2>3, LoggedFrame DEF Logged
  <2> QED BY <2>4, <2>5, <2>6 DEF IInv
<1>8. CASE VerifyPromoted(s)
  <2>1. /\ build[s].pc = "verify"
        /\ BuildOK'
        /\ build'[s].pc \in {"ended", "refused"} \/ (build'[s].pc = "commit" /\ Intact(s))
        /\ \A t \in Snapshots \ {s} : build'[t] = build[t]
    <3>1. PICK p \in {"ended", "refused", "commit"} : GoTo(s, p) /\ (p = "commit" => Intact(s))
      BY <1>8 DEF VerifyPromoted
    <3> QED BY <1>0, <1>8, <3>1, GoToType DEF VerifyPromoted, BuildPcs
  <2>3. /\ UNCHANGED <<state, digest, born, current, revision, log, staging, promoted>>
        /\ UNCHANGED <<leases, holds, gc, crashes>>
    BY <1>8 DEF VerifyPromoted, rowVars, tableVars, fileVars, pinVars
  <2>4. Types'
    BY <1>0, <2>1, <2>3 DEF Types, RowsOK, TableOK, FilesOK, PinsOK, GcOK
  <2>5. Begun' /\ Retired' /\ Verified'
    BY <1>0, <2>1, <2>3 DEF Begun, Retired, Verified, Intact, Deleting
  <2>6. Logged'
    BY <1>0, <2>1, <2>3, LoggedFrame DEF Logged
  <2> QED BY <2>4, <2>5, <2>6 DEF IInv
<1>9. CASE CommitSnapshot(s)
  <2>0. build[s].pc = "commit"
    BY <1>9 DEF CommitSnapshot
  <2>1. /\ UNCHANGED <<digest, born, staging, promoted>>
        /\ UNCHANGED <<leases, holds, gc, crashes>>
    BY <1>9 DEF CommitSnapshot, fileVars, pinVars
  <2>2. CASE /\ state[s] = "validated" /\ revision = build[s].start
             /\ state' = [state EXCEPT ![s] = "committed"]
             /\ current' = s
             /\ revision' = revision + 1
             /\ log' = Append(log, s)
             /\ GoTo(s, "done")
    <3>1. /\ BuildOK'
          /\ build'[s].pc = "done" /\ build'[s].start = revision
          /\ \A t \in Snapshots \ {s} : build'[t] = build[t]
      BY <1>0, <2>2, GoToType DEF BuildPcs
    <3>2. /\ state' \in [Snapshots -> States]
          /\ \A t \in Snapshots \ {s} : state'[t] = state[t]
          /\ state'[s] = "committed"
      BY <1>0, <2>2 DEF RowsOK, States
    <3>3. /\ log' \in Seq(Snapshots)
          /\ Len(log') = Len(log) + 1
          /\ \A i \in 1..Len(log) : log'[i] = log[i] /\ log[i] \in Snapshots
          /\ log'[Len(log) + 1] = s
          /\ Len(log) \in Nat
      BY <1>0, <2>2, AppendProperties, ElementOfSeq, LenProperties DEF TableOK
    <3>4. Types'
      BY <1>0, <2>1, <2>2, <3>1, <3>2, <3>3 DEF Types, RowsOK, TableOK, FilesOK, PinsOK, GcOK
    <3>5. Begun' /\ Retired' /\ Verified'
      BY <1>0, <2>0, <2>1, <2>2, <3>1, <3>2 DEF Begun, Retired, Verified, Intact, Deleting
    <3>6. Logged'
      <4>1. \A i \in 1..Len(log) : log[i] # s
        BY <1>0, <2>0 DEF Logged
      <4>2. \A i \in 1..(Len(log) + 1) : build'[log'[i]].pc = "done" /\ build'[log'[i]].start = i - 1
        <5> TAKE i \in 1..(Len(log) + 1)
        <5>1. CASE i = Len(log) + 1
          BY <1>0, <3>1, <3>3, <5>1 DEF Logged, CommitsSerial
        <5>2. CASE i # Len(log) + 1
          BY <1>0, <3>1, <3>3, <4>1, <5>2 DEF Logged, CommitsSerial
        <5> QED BY <5>1, <5>2
      <4>3. log' # <<>> /\ revision' = Len(log')
        BY <1>0, <2>2, <3>3 DEF Logged, CommitsSerial
      <4> QED BY <2>2, <3>2, <3>3, <4>2, <4>3 DEF Logged, CommitsSerial
    <3> QED BY <3>4, <3>5, <3>6 DEF IInv
  <2>3. CASE /\ UNCHANGED <<state, current, revision, log>>
             /\ GoTo(s, IF state[s] = "none" THEN "ended" ELSE "refused")
    <3>1. /\ BuildOK'
          /\ build'[s].pc \in {"ended", "refused"}
          /\ \A t \in Snapshots \ {s} : build'[t] = build[t]
      BY <1>0, <2>3, GoToType DEF BuildPcs
    <3>2. Types'
      BY <1>0, <2>1, <2>3, <3>1 DEF Types, RowsOK, TableOK, FilesOK, PinsOK, GcOK
    <3>3. Begun' /\ Retired' /\ Verified'
      BY <1>0, <2>0, <2>1, <2>3, <3>1 DEF Begun, Retired, Verified, Intact, Deleting
    <3>4. Logged'
      BY <1>0, <2>0, <2>3, <3>1, LoggedFrame DEF Logged
    <3> QED BY <3>2, <3>3, <3>4 DEF IInv
  <2> QED BY <1>9, <2>2, <2>3 DEF CommitSnapshot, RevisionMatches, tableVars
<1>10. CASE AbandonRefused(s)
  <2>1. /\ build[s].pc = "refused"
        /\ BuildOK'
        /\ build'[s].pc = "ended"
        /\ \A t \in Snapshots \ {s} : build'[t] = build[t]
    BY <1>0, <1>10, GoToType DEF AbandonRefused, BuildPcs
  <2>2. /\ state' \in [Snapshots -> States]
        /\ \A t \in Snapshots \ {s} : state'[t] = state[t]
        /\ state'[s] = state[s] \/ (state[s] \in Uncommitted /\ state'[s] = "abandoned")
    BY <1>0, <1>10 DEF AbandonRefused, Abandoned, RowsOK, States
  <2>3. /\ UNCHANGED <<digest, born, current, revision, log, staging, promoted>>
        /\ UNCHANGED <<leases, holds, gc, crashes>>
    BY <1>10 DEF AbandonRefused, tableVars, fileVars, pinVars
  <2>4. Types'
    BY <1>0, <2>1, <2>2, <2>3 DEF Types, RowsOK, TableOK, FilesOK, PinsOK, GcOK
  <2>5. Begun' /\ Retired' /\ Verified'
    BY <1>0, <2>1, <2>2, <2>3 DEF Begun, Retired, Verified, Intact, Deleting, Uncommitted
  <2>6. Logged'
    BY <1>0, <2>1, <2>2, <2>3, LoggedFrame DEF Logged, TableOK, Uncommitted
  <2> QED BY <2>4, <2>5, <2>6 DEF IInv
<1> QED BY <1>1, <1>2, <1>3, <1>4, <1>5, <1>6, <1>7, <1>8, <1>9, <1>10 DEF Build

\* A build that dies keeps every row and file.
LEMMA BuildFailsIInv ==
    ASSUME IInv, NEW s \in Snapshots, BuildFails(s)
    PROVE  IInv'
<1>0. /\ RowsOK /\ TableOK /\ FilesOK /\ PinsOK /\ BuildOK /\ GcOK /\ crashes \in Nat
      /\ Begun /\ Retired /\ Verified /\ Logged
  BY DEF IInv, Types
<1>1. /\ build[s].pc \notin {"idle", "done", "ended"}
      /\ BuildOK'
      /\ build'[s].pc = "ended"
      /\ \A t \in Snapshots \ {s} : build'[t] = build[t]
  BY <1>0, GoToType DEF BuildFails, AtWork, BuildPcs
<1>2. /\ UNCHANGED <<state, digest, born, current, revision, log, staging, promoted>>
      /\ UNCHANGED <<leases, holds, gc>>
      /\ crashes' \in Nat
  BY <1>0 DEF BuildFails, rowVars, tableVars, fileVars, pinVars
<1>3. Types'
  BY <1>0, <1>1, <1>2 DEF Types, RowsOK, TableOK, FilesOK, PinsOK, GcOK
<1>4. Begun' /\ Retired' /\ Verified'
  BY <1>0, <1>1, <1>2 DEF Begun, Retired, Verified, Intact, Deleting
<1>5. Logged'
  BY <1>0, <1>1, <1>2, LoggedFrame DEF Logged
<1> QED BY <1>3, <1>4, <1>5 DEF IInv

-----------------------------------------------------------------------------
\* A step of a pass that touches no row, no promoted file and no build keeps the
\* invariant when the pass does not start deleting.
LEMMA QuietPass ==
    ASSUME IInv, GcOK', PinsOK', staging' \in [Snapshots -> Directory], crashes' \in Nat,
           UNCHANGED <<state, digest, born, current, revision, log, promoted, build>>,
           NEW c \in Collectors, \A d \in Collectors \ {c} : gc'[d] = gc[d],
           gc'[c].pc \in Deleting =>
               gc[c].pc \in Deleting /\ gc'[c].snap = gc[c].snap,
           gc'[c].pc = "orphan" => gc'[c].snap \in Snapshots
    PROVE  IInv'
<1>0. /\ RowsOK /\ TableOK /\ FilesOK /\ PinsOK /\ BuildOK /\ GcOK /\ crashes \in Nat
      /\ Begun /\ Retired /\ Verified /\ Logged
  BY DEF IInv, Types
<1>1. Types'
  BY <1>0 DEF Types, RowsOK, TableOK, FilesOK, BuildOK
<1>2. Begun' /\ Verified'
  BY <1>0 DEF Begun, Verified, Intact
<1>3. Retired'
  BY <1>0 DEF Retired, Deleting
<1>4. Logged'
  BY <1>0, LoggedFrame DEF Logged
<1> QED BY <1>1, <1>2, <1>3, <1>4 DEF IInv

\* A row changes only where a pass retires, abandons or forgets it; committed
\* rows go only through retiring, and never the current one.
LEMMA RowStep ==
    ASSUME IInv, RowsOK', GcOK', PinsOK',
           UNCHANGED <<born, current, revision, log, staging, promoted, build, crashes>>,
           NEW s \in Snapshots, NEW c \in Collectors,
           \A t \in Snapshots \ {s} : state'[t] = state[t] /\ digest'[t] = digest[t],
           \/ state'[s] = state[s] /\ digest'[s] = digest[s]
           \/ /\ state[s] # "none" /\ current # s /\ digest'[s] = digest[s]
              /\ state'[s] \in {"abandoned", "retiring", "quarantined"}
              /\ state[s] \in Uncommitted \/ state'[s] # "abandoned"
           \/ /\ state[s] \in {"none", "retiring", "quarantined"} /\ state'[s] = "none"
              /\ build[s].pc \notin {"idle", "begin"},
           \A d \in Collectors \ {c} : gc'[d] = gc[d],
           gc'[c].pc \in Deleting =>
               \/ gc' = gc
               \/ gc'[c].snap = s /\ state'[s] = "retiring",
           gc'[c].pc # "orphan" \/ gc' = gc
    PROVE  IInv'
<1>0. /\ RowsOK /\ TableOK /\ FilesOK /\ PinsOK /\ BuildOK /\ GcOK /\ crashes \in Nat
      /\ Begun /\ Retired /\ Verified /\ Logged
  BY DEF IInv, Types
<1>1. Types'
  BY <1>0 DEF Types, TableOK, FilesOK, BuildOK
<1>2. Begun'
  BY <1>0 DEF Begun
<1>3. Verified'
  BY <1>0 DEF Verified, Intact
<1>4. Retired'
  BY <1>0 DEF Retired, Begun, Deleting, Uncommitted
<1>5. Logged'
  BY <1>0, LoggedFrame DEF Logged, TableOK
<1> QED BY <1>1, <1>2, <1>3, <1>4, <1>5 DEF IInv

LEMMA PassIInv ==
    ASSUME IInv, NEW c \in Collectors, StartPass(c) \/ PassStep(c) \/ PassFails(c)
    PROVE  IInv'
<1>0. /\ RowsOK /\ TableOK /\ FilesOK /\ PinsOK /\ BuildOK /\ GcOK /\ crashes \in Nat
      /\ Begun /\ Retired /\ Verified /\ Logged
      /\ gc[c] \in [pc : PassPcs, known : SUBSET Snapshots, todo : SUBSET Snapshots,
                    snap : Snapshots \cup {None}, cur : Snapshots \cup {None}]
  BY DEF IInv, Types, GcOK
<1>1. CASE StartPass(c)
  <2>1. PICK p \in {"stale", "purge"} : Pass(c, p)
    BY <1>1 DEF StartPass
  <2>2. GcOK' /\ gc'[c].pc = p /\ \A d \in Collectors \ {c} : gc'[d] = gc[d]
    BY <1>0, <2>1, PassType DEF PassPcs
  <2> QED BY <1>0, <1>1, <2>2, QuietPass
          DEF StartPass, rowVars, tableVars, fileVars, pinVars, PinsOK, FilesOK, Deleting
<1>2. CASE ReadStale(c)
  <2>1. GcOK' /\ gc'[c].pc = "abandon" /\ \A d \in Collectors \ {c} : gc'[d] = gc[d]
    <3>1. PICK old \in SUBSET Snapshots :
            gc' = [gc EXCEPT ![c].pc = "abandon", ![c].todo = old]
      BY <1>2 DEF ReadStale, Stale
    <3> QED BY <1>0, <3>1 DEF GcOK, PassPcs
  <2>2. /\ UNCHANGED <<state, digest, born, current, revision, log, staging, promoted>>
        /\ UNCHANGED <<leases, holds, build, crashes>>
    BY <1>2 DEF ReadStale, rowVars, tableVars, fileVars, pinVars
  <2> QED BY <1>0, <2>1, <2>2, QuietPass DEF PinsOK, FilesOK, Deleting
<1>3. CASE ReadKnown(c)
  <2>1. GcOK' /\ gc'[c].pc = "scan" /\ \A d \in Collectors \ {c} : gc'[d] = gc[d]
    BY <1>0, <1>3 DEF ReadKnown, GcOK, PassPcs
  <2>2. /\ UNCHANGED <<state, digest, born, current, revision, log, staging, promoted>>
        /\ UNCHANGED <<leases, holds, build, crashes>>
    BY <1>3 DEF ReadKnown, rowVars, tableVars, fileVars, pinVars
  <2> QED BY <1>0, <2>1, <2>2, QuietPass DEF PinsOK, FilesOK, Deleting
<1>4. CASE ScanStaging(c)
  <2>1. GcOK' /\ gc'[c].pc = "orphans" /\ \A d \in Collectors \ {c} : gc'[d] = gc[d]
    BY <1>0, <1>4 DEF ScanStaging, GcOK, PassPcs
  <2>2. /\ UNCHANGED <<state, digest, born, current, revision, log, staging, promoted>>
        /\ UNCHANGED <<leases, holds, build, crashes>>
    BY <1>4 DEF ScanStaging, rowVars, tableVars, fileVars, pinVars
  <2> QED BY <1>0, <2>1, <2>2, QuietPass DEF PinsOK, FilesOK, Deleting
<1>5. CASE ReadTable(c)
  <2>1. GcOK' /\ gc'[c].pc = "list" /\ \A d \in Collectors \ {c} : gc'[d] = gc[d]
    BY <1>0, <1>5 DEF ReadTable, GcOK, PassPcs, TableOK
  <2>2. /\ UNCHANGED <<state, digest, born, current, revision, log, staging, promoted>>
        /\ UNCHANGED <<leases, holds, build, crashes>>
    BY <1>5 DEF ReadTable, rowVars, tableVars, fileVars, pinVars
  <2> QED BY <1>0, <2>1, <2>2, QuietPass DEF PinsOK, FilesOK, Deleting
<1>6. CASE ListSnapshots(c)
  <2>1. GcOK' /\ gc'[c].pc = "retire" /\ \A d \in Collectors \ {c} : gc'[d] = gc[d]
    BY <1>0, <1>6 DEF ListSnapshots, GcOK, PassPcs, Superseded
  <2>2. /\ UNCHANGED <<state, digest, born, current, revision, log, staging, promoted>>
        /\ UNCHANGED <<leases, holds, build, crashes>>
    BY <1>6 DEF ListSnapshots, rowVars, tableVars, fileVars, pinVars
  <2> QED BY <1>0, <2>1, <2>2, QuietPass DEF PinsOK, FilesOK, Deleting
<1>7. CASE PurgeLeases(c)
  <2>1. GcOK' /\ gc'[c].pc = "known" /\ \A d \in Collectors \ {c} : gc'[d] = gc[d]
    BY <1>0, <1>7, PassType DEF PurgeLeases, PassPcs
  <2>2. PinsOK'
    BY <1>0, <1>7 DEF PurgeLeases, Purged, PinsOK, Pins, NoPin
  <2>3. UNCHANGED <<state, digest, born, current, revision, log, staging, promoted, build, crashes>>
    BY <1>7 DEF PurgeLeases, rowVars, tableVars, fileVars
  <2> QED BY <1>0, <2>1, <2>2, <2>3, QuietPass DEF FilesOK, Deleting
<1>8. CASE UnlinkOrphan(c)
  <2>1. /\ GcOK' /\ \A d \in Collectors \ {c} : gc'[d] = gc[d]
        /\ gc'[c].pc = "table" \/ (gc'[c].pc = "orphan" /\ gc'[c].snap \in Snapshots)
    <3>1. CASE Pass(c, "table")
      BY <1>0, <3>1, PassType DEF PassPcs
    <3>2. CASE \E s \in gc[c].todo :
                 gc' = [gc EXCEPT ![c].pc = "orphan", ![c].snap = s, ![c].todo = @ \ {s}]
      BY <1>0, <3>2 DEF GcOK, PassPcs
    <3> QED BY <1>8, <3>1, <3>2 DEF UnlinkOrphan
  <2>2. staging' \in [Snapshots -> Directory]
    BY <1>0, <1>8 DEF UnlinkOrphan, Unlinked, FilesOK, Directory
  <2>3. /\ UNCHANGED <<state, digest, born, current, revision, log, promoted>>
        /\ UNCHANGED <<leases, holds, build, crashes>>
    BY <1>8 DEF UnlinkOrphan, rowVars, tableVars, pinVars
  <2> QED BY <1>0, <2>1, <2>2, <2>3, QuietPass DEF PinsOK, Deleting
<1>9. CASE RmdirOrphan(c)
  <2>0. gc[c].pc = "orphan" /\ gc[c].snap \in Snapshots
    BY <1>0, <1>9 DEF RmdirOrphan, Retired, Deleting
  <2>1. /\ GcOK' /\ gc'[c].pc = "orphans" /\ \A d \in Collectors \ {c} : gc'[d] = gc[d]
    BY <1>0, <1>9 DEF RmdirOrphan, GcOK, PassPcs
  <2>2. staging' \in [Snapshots -> Directory]
    BY <1>0, <1>9, <2>0 DEF RmdirOrphan, Unlinked, Rmdired, FilesOK, Directory
  <2>3. /\ UNCHANGED <<state, digest, born, current, revision, log, promoted>>
        /\ UNCHANGED <<leases, holds, build, crashes>>
    BY <1>9 DEF RmdirOrphan, rowVars, tableVars, pinVars
  <2> QED BY <1>0, <2>0, <2>1, <2>2, <2>3, QuietPass DEF PinsOK, Deleting
<1>10. CASE UnlinkStaging(c)
  <2>0. gc[c].pc = "unlink" /\ gc[c].snap \in Snapshots
    BY <1>0, <1>10 DEF UnlinkStaging, Retired, Deleting
  <2>1. /\ GcOK' /\ gc'[c].pc = "rmdir" /\ \A d \in Collectors \ {c} : gc'[d] = gc[d]
        /\ gc'[c].snap = gc[c].snap
    BY <1>0, <1>10, PassType DEF UnlinkStaging, PassPcs
  <2>2. staging' \in [Snapshots -> Directory]
    BY <1>0, <1>10, <2>0 DEF UnlinkStaging, Unlinked, Rmdired, FilesOK, Directory
  <2>3. /\ UNCHANGED <<state, digest, born, current, revision, log, promoted>>
        /\ UNCHANGED <<leases, holds, build, crashes>>
    BY <1>10 DEF UnlinkStaging, rowVars, tableVars, pinVars
  <2> QED BY <1>0, <2>0, <2>1, <2>2, <2>3, QuietPass DEF PinsOK, Deleting
<1>11. CASE RmdirStaging(c)
  <2>0. gc[c].pc = "rmdir" /\ gc[c].snap \in Snapshots
    BY <1>0, <1>11 DEF RmdirStaging, Retired, Deleting
  <2>1. /\ GcOK' /\ gc'[c].pc = "forget" /\ \A d \in Collectors \ {c} : gc'[d] = gc[d]
        /\ gc'[c].snap = gc[c].snap
    BY <1>0, <1>11, PassType DEF RmdirStaging, PassPcs
  <2>2. staging' \in [Snapshots -> Directory]
    BY <1>0, <1>11, <2>0 DEF RmdirStaging, Unlinked, Rmdired, FilesOK, Directory
  <2>3. /\ UNCHANGED <<state, digest, born, current, revision, log, promoted>>
        /\ UNCHANGED <<leases, holds, build, crashes>>
    BY <1>11 DEF RmdirStaging, rowVars, tableVars, pinVars
  <2> QED BY <1>0, <2>0, <2>1, <2>2, <2>3, QuietPass DEF PinsOK, Deleting
<1>12. CASE PassFails(c)
  <2>1. GcOK' /\ gc'[c].pc = "idle" /\ \A d \in Collectors \ {c} : gc'[d] = gc[d]
    BY <1>0, <1>12, LeaveType DEF PassFails
  <2>2. /\ UNCHANGED <<state, digest, born, current, revision, log, staging, promoted>>
        /\ UNCHANGED <<leases, holds, build>>
        /\ crashes' \in Nat
    BY <1>0, <1>12 DEF PassFails, rowVars, tableVars, fileVars, pinVars
  <2> QED BY <1>0, <2>1, <2>2, QuietPass DEF PinsOK, FilesOK, Deleting
<1>13. CASE AbandonStale(c)
  <2>1. /\ UNCHANGED <<digest, born, current, revision, log, staging, promoted>>
        /\ UNCHANGED <<leases, holds, build, crashes>>
    BY <1>13 DEF AbandonStale, tableVars, fileVars, pinVars
  <2>2. CASE Pass(c, "purge") /\ UNCHANGED state
    <3>1. GcOK' /\ gc'[c].pc = "purge" /\ \A d \in Collectors \ {c} : gc'[d] = gc[d]
      BY <1>0, <2>2, PassType DEF PassPcs
    <3> QED BY <1>0, <2>1, <2>2, <3>1, QuietPass DEF PinsOK, FilesOK, Deleting
  <2>3. ASSUME NEW s \in gc[c].todo, state' = Abandoned(s), gc[c].pc = "abandon",
               gc' = [gc EXCEPT ![c].todo = @ \ {s}] \/ Leave(c)
        PROVE  IInv'
    <3>0. s \in Snapshots
      BY <1>0
    <3>1. /\ GcOK' /\ gc'[c].pc \in {"abandon", "idle"}
          /\ \A d \in Collectors \ {c} : gc'[d] = gc[d]
      BY <1>0, <2>3, LeaveType DEF GcOK
    <3>2. /\ RowsOK'
          /\ \A t \in Snapshots \ {s} : state'[t] = state[t]
          /\ state'[s] = state[s] \/ (state[s] \in Uncommitted /\ state'[s] = "abandoned")
      BY <1>0, <2>1, <2>3, <3>0 DEF Abandoned, RowsOK, States
    <3>3. state[s] \in Uncommitted => state[s] # "none" /\ current # s
      BY <1>0, <3>0, NamesAssumption DEF Logged, Uncommitted
    <3> QED BY <1>0, <2>1, <3>0, <3>1, <3>2, <3>3, RowStep DEF PinsOK, Deleting
  <2> QED BY <1>13, <2>2, <2>3 DEF AbandonStale
<1>14. CASE BeginRetiring(c)
  <2>1. /\ UNCHANGED <<digest, born, current, revision, log, staging, promoted>>
        /\ UNCHANGED <<leases, holds, build, crashes>>
    BY <1>14 DEF BeginRetiring, tableVars, fileVars, pinVars
  <2>2. CASE Leave(c) /\ UNCHANGED state
    <3>1. GcOK' /\ gc'[c].pc = "idle" /\ \A d \in Collectors \ {c} : gc'[d] = gc[d]
      BY <1>0, <2>2, LeaveType
    <3> QED BY <1>0, <2>1, <2>2, <3>1, QuietPass DEF PinsOK, FilesOK, Deleting
  <2>3. ASSUME NEW s \in gc[c].todo, gc' = [gc EXCEPT ![c].todo = @ \ {s}], UNCHANGED state,
               gc[c].pc = "retire"
        PROVE  IInv'
    <3>1. GcOK' /\ gc'[c].pc = "retire" /\ \A d \in Collectors \ {c} : gc'[d] = gc[d]
      BY <1>0, <2>3 DEF GcOK
    <3> QED BY <1>0, <2>1, <2>3, <3>1, QuietPass DEF PinsOK, FilesOK, Deleting
  <2>4. ASSUME NEW s \in gc[c].todo, state[s] # "none", current # s,
               state' = [state EXCEPT ![s] = "retiring"],
               gc' = [gc EXCEPT ![c].pc = "delete", ![c].snap = s, ![c].todo = @ \ {s}]
        PROVE  IInv'
    <3>0. s \in Snapshots
      BY <1>0
    <3>1. /\ GcOK' /\ gc'[c].pc = "delete" /\ gc'[c].snap = s
          /\ \A d \in Collectors \ {c} : gc'[d] = gc[d]
      BY <1>0, <2>4, <3>0 DEF GcOK, PassPcs
    <3>2. /\ RowsOK'
          /\ \A t \in Snapshots \ {s} : state'[t] = state[t]
          /\ state'[s] = "retiring"
      BY <1>0, <2>1, <2>4, <3>0 DEF RowsOK, States
    <3> QED BY <1>0, <2>1, <2>4, <3>0, <3>1, <3>2, RowStep DEF PinsOK
  <2> QED BY <1>14, <2>2, <2>3, <2>4 DEF BeginRetiring, Protected
<1>15. CASE DeletePromoted(c)
  <2>0. gc[c].pc = "delete" /\ gc[c].snap \in Snapshots
    BY <1>0, <1>15 DEF DeletePromoted, Retired, Deleting
  <2>1. /\ GcOK' /\ gc'[c].pc = "unlink" /\ \A d \in Collectors \ {c} : gc'[d] = gc[d]
        /\ gc'[c].snap = gc[c].snap
    BY <1>0, <1>15, PassType DEF DeletePromoted, PassPcs
  <2>2. /\ promoted' \in [Snapshots -> Directory]
        /\ \A t \in Snapshots \ {gc[c].snap} : promoted'[t] = promoted[t]
    BY <1>0, <1>15, <2>0 DEF DeletePromoted, FilesOK, Directory
  <2>3. /\ UNCHANGED <<state, digest, born, current, revision, log, staging>>
        /\ UNCHANGED <<leases, holds, build, crashes>>
    BY <1>15 DEF DeletePromoted, rowVars, tableVars, pinVars
  <2>4. Types'
    BY <1>0, <2>1, <2>2, <2>3 DEF Types, RowsOK, TableOK, FilesOK, PinsOK, BuildOK
  <2>5. Begun' /\ Retired'
    BY <1>0, <2>0, <2>1, <2>3 DEF Begun, Retired, Deleting
  <2>6. Verified'
    <3>1. state[gc[c].snap] \notin {"validated", "committed"}
      BY <1>0, <2>0 DEF Retired, Deleting
    <3> QED BY <1>0, <2>2, <2>3, <3>1 DEF Verified, Intact
  <2>7. Logged'
    BY <1>0, <2>3, LoggedFrame DEF Logged
  <2> QED BY <2>4, <2>5, <2>6, <2>7 DEF IInv
<1>16. CASE ForgetSnapshot(c)
  <2> DEFINE s == gc[c].snap
  <2>0. /\ gc[c].pc = "forget" /\ s \in Snapshots
        /\ state[s] \in {"none", "retiring", "quarantined"} /\ build[s].pc \notin {"idle", "begin"}
    BY <1>0, <1>16 DEF ForgetSnapshot, Retired, Deleting
  <2>1. /\ GcOK' /\ gc'[c].pc = "retire" /\ \A d \in Collectors \ {c} : gc'[d] = gc[d]
    BY <1>0, <1>16 DEF ForgetSnapshot, GcOK, PassPcs
  <2>2. /\ RowsOK'
        /\ \A t \in Snapshots \ {s} : state'[t] = state[t] /\ digest'[t] = digest[t]
        /\ state'[s] = "none"
    BY <1>0, <1>16, <2>0 DEF ForgetSnapshot, RowsOK, States
  <2>3. PinsOK'
    BY <1>0, <1>16 DEF ForgetSnapshot, Without, PinsOK, Pins, NoPin
  <2>4. UNCHANGED <<born, current, revision, log, staging, promoted, build, crashes>>
    BY <1>16 DEF ForgetSnapshot, tableVars, fileVars
  <2> QED BY <1>0, <2>0, <2>1, <2>2, <2>3, <2>4, RowStep DEF Deleting
<1> QED
  BY <1>1, <1>2, <1>3, <1>4, <1>5, <1>6, <1>7, <1>8, <1>9, <1>10, <1>11, <1>12, <1>13, <1>14, <1>15, <1>16 DEF PassStep

-----------------------------------------------------------------------------
\* Leases and holds carry no part of the invariant but their type.
LEMMA PinStep ==
    ASSUME IInv, PinsOK',
           UNCHANGED <<rowVars, tableVars, fileVars, build, gc, crashes>>
    PROVE  IInv'
<1>0. /\ RowsOK /\ TableOK /\ FilesOK /\ PinsOK /\ BuildOK /\ GcOK /\ crashes \in Nat
      /\ Begun /\ Retired /\ Verified /\ Logged
  BY DEF IInv, Types
<1>1. UNCHANGED <<state, digest, born, current, revision, log, staging, promoted, build, gc, crashes>>
  BY DEF rowVars, tableVars, fileVars
<1>2. Types'
  BY <1>0, <1>1 DEF Types, RowsOK, TableOK, FilesOK, BuildOK, GcOK
<1>3. Begun' /\ Retired' /\ Verified'
  BY <1>0, <1>1 DEF Begun, Retired, Verified, Intact
<1>4. Logged'
  BY <1>0, <1>1, LoggedFrame DEF Logged
<1> QED BY <1>2, <1>3, <1>4 DEF IInv

LEMMA ReadIInv ==
    ASSUME IInv, NEW r \in Readers, Read(r)
    PROVE  IInv'
<1>0. PinsOK /\ TableOK
  BY DEF IInv, Types
<1>1. PinsOK'
  <2>1. ASSUME NEW s \in Snapshots, leases' = [leases EXCEPT ![r] = [snap |-> s, live |-> TRUE]]
        PROVE  leases' \in [Readers -> Pins]
    BY <1>0, <2>1 DEF PinsOK, Pins
  <2>2. ASSUME leases' = [leases EXCEPT ![r] = NoPin] PROVE leases' \in [Readers -> Pins]
    BY <1>0, <2>2 DEF PinsOK, Pins, NoPin
  <2>3. ASSUME leases' = [leases EXCEPT ![r].live = FALSE] PROVE leases' \in [Readers -> Pins]
    BY <1>0, <2>3 DEF PinsOK, Pins
  <2>4. holds' = holds
    BY DEF Read, ResolveCurrent, Pin, Release, ExpireLease
  <2>5. current # None => current \in Snapshots
    BY <1>0 DEF TableOK
  <2>6. leases' \in [Readers -> Pins]
    BY <2>1, <2>2, <2>3, <2>5 DEF Read, ResolveCurrent, Pin, Release, ExpireLease
  <2> QED BY <1>0, <2>4, <2>6 DEF PinsOK
<1>2. UNCHANGED <<rowVars, tableVars, fileVars, build, gc, crashes>>
  BY DEF Read, ResolveCurrent, Pin, Release, ExpireLease
<1> QED BY <1>1, <1>2, PinStep

LEMMA HoldIInv ==
    ASSUME IInv, NEW h \in Holds, Hold(h)
    PROVE  IInv'
<1>0. PinsOK
  BY DEF IInv, Types
<1>1. PinsOK'
  <2>1. ASSUME NEW s \in Snapshots, holds' = [holds EXCEPT ![h] = [snap |-> s, live |-> TRUE]]
        PROVE  holds' \in [Holds -> Pins]
    BY <1>0, <2>1 DEF PinsOK, Pins
  <2>2. ASSUME holds' = [holds EXCEPT ![h] = NoPin] PROVE holds' \in [Holds -> Pins]
    BY <1>0, <2>2 DEF PinsOK, Pins, NoPin
  <2>3. ASSUME holds' = [holds EXCEPT ![h].live = FALSE] PROVE holds' \in [Holds -> Pins]
    BY <1>0, <2>3 DEF PinsOK, Pins
  <2>4. leases' = leases
    BY DEF Hold, PlaceHold, ReleaseHold, LapseHold
  <2>5. holds' \in [Holds -> Pins]
    BY <2>1, <2>2, <2>3 DEF Hold, PlaceHold, ReleaseHold, LapseHold
  <2> QED BY <1>0, <2>4, <2>5 DEF PinsOK
<1>2. UNCHANGED <<rowVars, tableVars, fileVars, build, gc, crashes>>
  BY DEF Hold, PlaceHold, ReleaseHold, LapseHold
<1> QED BY <1>1, <1>2, PinStep

LEMMA QuarantineIInv ==
    ASSUME IInv, NEW s \in Snapshots, Quarantine(s)
    PROVE  IInv'
<1>0. /\ RowsOK /\ TableOK /\ FilesOK /\ PinsOK /\ BuildOK /\ GcOK /\ crashes \in Nat
      /\ Begun /\ Retired /\ Verified /\ Logged
  BY DEF IInv, Types
<1>1. /\ state[s] # "none" /\ current # s
      /\ UNCHANGED <<digest, born, current, revision, log, staging, promoted>>
      /\ UNCHANGED <<leases, holds, build, gc, crashes>>
  BY DEF Quarantine, tableVars, fileVars, pinVars
<1>2. /\ RowsOK'
      /\ state'[s] = "quarantined"
      /\ \A t \in Snapshots \ {s} : state'[t] = state[t]
  BY <1>0, <1>1 DEF Quarantine, RowsOK, States
<1>3. Types'
  BY <1>0, <1>1, <1>2 DEF Types, TableOK, FilesOK, PinsOK, BuildOK, GcOK
<1>4. Begun' /\ Retired' /\ Verified'
  BY <1>0, <1>1, <1>2 DEF Begun, Retired, Verified, Intact, Deleting
<1>5. Logged'
  BY <1>0, <1>1, <1>2, LoggedFrame DEF Logged, TableOK
<1> QED BY <1>3, <1>4, <1>5 DEF IInv

LEMMA StutterIInv == IInv /\ UNCHANGED vars => IInv'
<1> SUFFICES ASSUME IInv, UNCHANGED vars PROVE IInv'
  OBVIOUS
<1>1. PinsOK' /\ UNCHANGED <<rowVars, tableVars, fileVars, build, gc, crashes>>
  BY DEF vars, pinVars, IInv, Types, PinsOK
<1> QED BY <1>1, PinStep

\* The inductive invariant holds of every behaviour.
THEOREM Invariance == Spec => []IInv
<1>1. IInv /\ [Next]_vars => IInv'
  <2> SUFFICES ASSUME IInv, [Next]_vars PROVE IInv'
    OBVIOUS
  <2>1. ASSUME NEW s \in Snapshots, Build(s) \/ BuildFails(s) \/ Quarantine(s) PROVE IInv'
    BY <2>1, BuildIInv, BuildFailsIInv, QuarantineIInv
  <2>2. ASSUME NEW c \in Collectors, StartPass(c) \/ PassStep(c) \/ PassFails(c) PROVE IInv'
    BY <2>2, PassIInv
  <2>3. ASSUME NEW r \in Readers, Read(r) PROVE IInv'
    BY <2>3, ReadIInv
  <2>4. ASSUME NEW h \in Holds, Hold(h) PROVE IInv'
    BY <2>4, HoldIInv
  <2>5. CASE UNCHANGED vars
    BY <2>5, StutterIInv
  <2> QED BY <2>1, <2>2, <2>3, <2>4, <2>5 DEF Next
<1> QED BY <1>1, InitIInv, PTL DEF Spec

\* The catalog's rows, the directories and every thread's locals keep their types.
THEOREM TypeCorrect == Spec => []TypeOK
<1>1. IInv => TypeOK
  BY DEF IInv, Types, TypeOK, RowsOK, TableOK, FilesOK, PinsOK, BuildOK, GcOK
<1> QED BY <1>1, Invariance, PTL

\* Whatever builds, passes and operators do, and whichever file removals fail, the
\* pointer names a committed snapshot whose files match its digest.
THEOREM CurrentStaysIntact == Spec => []CurrentIntact
<1>1. IInv => CurrentIntact
  BY DEF IInv, Types, TableOK, Logged, Verified, CurrentIntact
<1> QED BY <1>1, Invariance, PTL

\* No update is lost: commits form one chain, each based on the one before it.
THEOREM NoLostUpdate == Spec => []CommitsSerial
<1>1. IInv => CommitsSerial
  BY DEF IInv, Logged
<1> QED BY <1>1, Invariance, PTL

-----------------------------------------------------------------------------
(* Promoted directories the catalog does not know.  There are none when    *)
(* the stale cut-off spares running builds, rmtree removes what it is      *)
(* given and nobody quarantines: passes then touch only builds that are    *)
(* over, so no directory can appear behind a pass.                         *)

Over == {"done", "ended"}
Careful == ~SlowBuilds /\ ~RmFails /\ Quarantines = {}
OrphanInv ==
    /\ NoOrphanSnapshot
    /\ \A s \in Snapshots :
          build[s].pc \notin {"idle", "begin"} \cup Over => state[s] \in Uncommitted
    /\ \A c \in Collectors :
          /\ gc[c].pc \in {"abandon", "retire"} \cup Deleting =>
                \A s \in gc[c].todo : build[s].pc \in Over
          /\ gc[c].pc \in Deleting => build[gc[c].snap].pc \in Over
          /\ gc[c].pc \in Deleting \ {"delete"} => promoted[gc[c].snap] = Absent

\* A build's own steps: it is at work, so no pass has it in hand.
LEMMA BuildOrphan ==
    ASSUME IInv, OrphanInv, NEW s \in Snapshots, Build(s)
    PROVE  OrphanInv'
<1>0. RowsOK /\ FilesOK /\ BuildOK /\ GcOK /\ Begun /\ Retired
  BY DEF IInv, Types
<1>1. /\ build[s].pc \notin Over
      /\ UNCHANGED gc
      /\ \A t \in Snapshots \ {s} :
            build'[t] = build[t] /\ state'[t] = state[t] /\ promoted'[t] = promoted[t]
      /\ \/ build'[s].pc = "begin" /\ state'[s] = state[s] /\ promoted'[s] = promoted[s]
         \/ build'[s].pc \in Over /\ promoted'[s] = promoted[s] /\ (state[s] # "none" => state'[s] # "none")
         \/ build'[s].pc \notin Over /\ build[s].pc \notin {"idle", "begin"} /\ state'[s] = state[s]
         \/ state'[s] \in Uncommitted
  <2>1. CASE StartBuild(s)
    <3>1. build'[s].pc = "begin" /\ \A t \in Snapshots \ {s} : build'[t] = build[t]
      BY <1>0, <2>1 DEF StartBuild, BuildOK
    <3> QED BY <2>1, <3>1 DEF StartBuild, rowVars, fileVars, Over
  <2>2. CASE BeginSnapshot(s)
    <3>1. \A t \in Snapshots \ {s} : build'[t] = build[t]
      BY <1>0, <2>2, GoToType DEF BeginSnapshot, BuildPcs
    <3> QED BY <1>0, <2>2, <3>1 DEF BeginSnapshot, fileVars, RowsOK, Over, Uncommitted
  <2>3. CASE MakeStaging(s)
    <3>1. build'[s].pc = "copy" /\ \A t \in Snapshots \ {s} : build'[t] = build[t]
      BY <1>0, <2>3, GoToType DEF MakeStaging, BuildPcs
    <3> QED BY <2>3, <3>1 DEF MakeStaging, rowVars, Over
  <2>4. CASE CopyEntry(s)
    <3>1. /\ build'[s].pc \in {"digest", "copy", "ended"}
          /\ \A t \in Snapshots \ {s} : build'[t] = build[t]
      <4>1. CASE GoTo(s, "ended")
        BY <1>0, <4>1, GoToType DEF BuildPcs
      <4>2. CASE build' = [build EXCEPT ![s].next = build[s].next + 1,
                                        ![s].pc = IF build[s].next = NEntries
                                                  THEN "digest" ELSE "copy"]
        BY <1>0, <4>2 DEF BuildOK
      <4> QED BY <2>4, <4>1, <4>2 DEF CopyEntry
    <3>2. build[s].pc = "copy" /\ UNCHANGED <<gc, state, promoted>>
      BY <2>4 DEF CopyEntry, rowVars
    <3> QED BY <3>1, <3>2 DEF Over
  <2>5. CASE SetDigest(s)
    <3>1. build'[s].pc \in {"validate", "ended"} /\ \A t \in Snapshots \ {s} : build'[t] = build[t]
      BY <1>0, <2>5, GoToType DEF SetDigest, BuildPcs
    <3>2. build[s].pc = "digest" /\ UNCHANGED <<gc, state, promoted>>
      BY <2>5 DEF SetDigest, fileVars
    <3> QED BY <3>1, <3>2 DEF Over
  <2>6. CASE MarkValidated(s)
    <3>1. build'[s].pc \in {"promote", "ended"} /\ \A t \in Snapshots \ {s} : build'[t] = build[t]
      BY <1>0, <2>6, GoToType DEF MarkValidated, BuildPcs
    <3>2. /\ build[s].pc = "validate" /\ UNCHANGED <<gc, promoted>>
          /\ \A t \in Snapshots \ {s} : state'[t] = state[t]
          /\ state'[s] = state[s] \/ state'[s] = "validated"
      BY <1>0, <2>6 DEF MarkValidated, fileVars, RowsOK
    <3> QED BY <3>1, <3>2 DEF Over, Uncommitted
  <2>7. CASE Promote(s)
    <3>1. /\ build[s].pc = "promote" /\ UNCHANGED <<gc, state>>
          /\ \A t \in Snapshots \ {s} : build'[t] = build[t] /\ promoted'[t] = promoted[t]
          /\ build'[s].pc = "verify" \/ (build'[s].pc = "ended" /\ UNCHANGED promoted)
      BY <1>0, <2>7, GoToType DEF Promote, BuildPcs, rowVars, fileVars, FilesOK
    <3> QED BY <3>1 DEF Over
  <2>8. CASE VerifyPromoted(s)
    <3>1. PICK p \in {"ended", "refused", "commit"} : GoTo(s, p)
      BY <2>8 DEF VerifyPromoted
    <3>2. build'[s].pc = p /\ \A t \in Snapshots \ {s} : build'[t] = build[t]
      BY <1>0, <3>1, GoToType DEF BuildPcs
    <3>3. build[s].pc = "verify" /\ UNCHANGED <<gc, state, promoted>>
      BY <2>8 DEF VerifyPromoted, rowVars, fileVars
    <3> QED BY <3>2, <3>3 DEF Over
  <2>9. CASE CommitSnapshot(s)
    <3>0. build[s].pc = "commit" /\ UNCHANGED <<gc, promoted>>
      BY <2>9 DEF CommitSnapshot, fileVars
    <3>1. CASE state' = [state EXCEPT ![s] = "committed"] /\ GoTo(s, "done")
      BY <1>0, <3>0, <3>1, GoToType DEF BuildPcs, RowsOK, Over
    <3>2. CASE UNCHANGED state /\ GoTo(s, IF state[s] = "none" THEN "ended" ELSE "refused")
      BY <1>0, <3>0, <3>2, GoToType DEF BuildPcs, Over
    <3> QED BY <2>9, <3>1, <3>2 DEF CommitSnapshot
  <2>10. CASE AbandonRefused(s)
    <3>1. build'[s].pc = "ended" /\ \A t \in Snapshots \ {s} : build'[t] = build[t]
      BY <1>0, <2>10, GoToType DEF AbandonRefused, BuildPcs
    <3>2. /\ build[s].pc = "refused" /\ UNCHANGED <<gc, promoted>>
          /\ \A t \in Snapshots \ {s} : state'[t] = state[t]
          /\ state'[s] = state[s] \/ state'[s] = "abandoned"
      BY <1>0, <2>10 DEF AbandonRefused, Abandoned, fileVars, RowsOK
    <3> QED BY <3>1, <3>2 DEF Over
  <2> QED
    BY <2>1, <2>2, <2>3, <2>4, <2>5, <2>6, <2>7, <2>8, <2>9, <2>10 DEF Build
<1>2. NoOrphanSnapshot'
  BY <1>0, <1>1 DEF OrphanInv, NoOrphanSnapshot, Begun, Uncommitted, Over
<1>3. \A t \in Snapshots :
         build'[t].pc \notin {"idle", "begin"} \cup Over => state'[t] \in Uncommitted
  BY <1>0, <1>1 DEF OrphanInv, Begun, Over
<1>4. \A c \in Collectors :
        /\ gc[c].pc \in {"abandon", "retire"} \cup Deleting => s \notin gc[c].todo
        /\ gc[c].pc \in Deleting => gc[c].snap # s /\ gc[c].snap \in Snapshots
        /\ gc[c].todo \subseteq Snapshots
  BY <1>0, <1>1 DEF OrphanInv, Retired, GcOK
<1> QED BY <1>1, <1>2, <1>3, <1>4 DEF OrphanInv, Deleting

\* A step of pass c that changes only rows of builds that are over, and forgets
\* only rows whose directory is gone.
LEMMA PassOrphanFrame ==
    ASSUME OrphanInv, FilesOK, GcOK, Retired, NEW c \in Collectors, UNCHANGED build,
           \A d \in Collectors \ {c} : gc'[d] = gc[d],
           \A s \in Snapshots : promoted'[s] \in {promoted[s], Absent},
           \A s \in Snapshots : state'[s] = "none" => state[s] = "none" \/ promoted'[s] = Absent,
           \A s \in Snapshots : state'[s] = state[s] \/ build[s].pc \in Over,
           gc'[c].pc \in {"abandon", "retire"} \cup Deleting =>
               \A s \in gc'[c].todo : build[s].pc \in Over,
           gc'[c].pc \in Deleting => build[gc'[c].snap].pc \in Over,
           gc'[c].pc \in Deleting \ {"delete"} => promoted'[gc'[c].snap] = Absent
    PROVE  OrphanInv'
<1>1. NoOrphanSnapshot'
  BY DEF OrphanInv, NoOrphanSnapshot
<1>2. \A s \in Snapshots :
         build'[s].pc \notin {"idle", "begin"} \cup Over => state'[s] \in Uncommitted
  BY DEF OrphanInv
<1>3. ASSUME NEW d \in Collectors
      PROVE  /\ gc'[d].pc \in {"abandon", "retire"} \cup Deleting =>
                   \A s \in gc'[d].todo : build'[s].pc \in Over
             /\ gc'[d].pc \in Deleting => build'[gc'[d].snap].pc \in Over
             /\ gc'[d].pc \in Deleting \ {"delete"} => promoted'[gc'[d].snap] = Absent
  <2>1. CASE d = c
    BY <2>1
  <2>2. CASE d # c
    BY <1>3, <2>2 DEF OrphanInv, Retired
  <2> QED BY <2>1, <2>2
<1> QED BY <1>1, <1>2, <1>3 DEF OrphanInv

LEMMA PassOrphan ==
    ASSUME Careful, IInv, OrphanInv, NEW c \in Collectors,
           StartPass(c) \/ PassStep(c) \/ PassFails(c)
    PROVE  OrphanInv'
<1>0. /\ RowsOK /\ FilesOK /\ BuildOK /\ GcOK /\ Begun /\ Retired /\ Verified
      /\ gc[c] \in [pc : PassPcs, known : SUBSET Snapshots, todo : SUBSET Snapshots,
                    snap : Snapshots \cup {None}, cur : Snapshots \cup {None}]
  BY DEF IInv, Types, GcOK
<1>1. UNCHANGED build
  BY DEF StartPass, PassStep, PassFails, ReadStale, AbandonStale, PurgeLeases, ReadKnown,
         ScanStaging, UnlinkOrphan, RmdirOrphan, ReadTable, ListSnapshots, BeginRetiring,
         DeletePromoted, UnlinkStaging, RmdirStaging, ForgetSnapshot
<1> DEFINE Others == \A d \in Collectors \ {c} : gc'[d] = gc[d]
           Quiet == UNCHANGED <<state, promoted>>
<1>2. CASE \/ StartPass(c) \/ PurgeLeases(c) \/ ReadKnown(c) \/ ScanStaging(c)
           \/ UnlinkOrphan(c) \/ RmdirOrphan(c) \/ ReadTable(c) \/ PassFails(c)
  <2>1. Quiet
    BY <1>2 DEF StartPass, PurgeLeases, ReadKnown, ScanStaging, UnlinkOrphan, RmdirOrphan,
                ReadTable, PassFails, rowVars, fileVars
  <2>2. Others /\ gc'[c].pc \in {"idle", "stale", "purge", "known", "scan", "orphans", "orphan", "table", "list"}
    <3>1. CASE StartPass(c)
      BY <1>0, <3>1, PassType DEF StartPass, PassPcs
    <3>2. CASE PurgeLeases(c)
      BY <1>0, <3>2, PassType DEF PurgeLeases, PassPcs
    <3>3. CASE ReadKnown(c)
      BY <1>0, <3>3 DEF ReadKnown, GcOK
    <3>4. CASE ScanStaging(c)
      BY <1>0, <3>4 DEF ScanStaging, GcOK
    <3>5. CASE UnlinkOrphan(c)
      <4>1. CASE Pass(c, "table")
        BY <1>0, <4>1, PassType DEF PassPcs
      <4>2. ASSUME NEW s \in gc[c].todo,
                   gc' = [gc EXCEPT ![c].pc = "orphan", ![c].snap = s, ![c].todo = @ \ {s}]
            PROVE  Others /\ gc'[c].pc = "orphan"
        BY <1>0, <4>2 DEF GcOK
      <4> QED BY <3>5, <4>1, <4>2 DEF UnlinkOrphan
    <3>6. CASE RmdirOrphan(c)
      BY <1>0, <3>6 DEF RmdirOrphan, GcOK
    <3>7. CASE ReadTable(c)
      BY <1>0, <3>7 DEF ReadTable, GcOK
    <3>8. CASE PassFails(c)
      BY <1>0, <3>8, LeaveType DEF PassFails
    <3> QED BY <1>2, <3>1, <3>2, <3>3, <3>4, <3>5, <3>6, <3>7, <3>8
  <2> QED BY <1>0, <1>1, <2>1, <2>2, PassOrphanFrame DEF Deleting
<1>3. CASE ReadStale(c)
  <2>1. PICK old \in SUBSET Stale : gc' = [gc EXCEPT ![c].pc = "abandon", ![c].todo = old]
    BY <1>3 DEF ReadStale
  <2>2. Others /\ gc'[c].pc = "abandon" /\ gc'[c].todo = old
    BY <1>0, <2>1 DEF GcOK
  <2>3. \A s \in Stale : build[s].pc \in Over
    BY <1>0 DEF Stale, AtWork, Careful, Begun, Uncommitted, Over
  <2>4. Quiet
    BY <1>3 DEF ReadStale, rowVars, fileVars
  <2> QED BY <1>0, <1>1, <2>1, <2>2, <2>3, <2>4, PassOrphanFrame DEF Deleting
<1>4. CASE AbandonStale(c)
  <2>0. gc[c].pc = "abandon" /\ UNCHANGED promoted
    BY <1>4 DEF AbandonStale, fileVars
  <2>1. CASE gc[c].todo = {} /\ Pass(c, "purge") /\ UNCHANGED state
    <3>1. Others /\ gc'[c].pc = "purge"
      BY <1>0, <2>1, PassType DEF PassPcs
    <3> QED BY <1>0, <1>1, <2>0, <2>1, <3>1, PassOrphanFrame DEF Deleting
  <2>2. ASSUME NEW s \in gc[c].todo, state' = Abandoned(s),
               \/ gc' = [gc EXCEPT ![c].todo = @ \ {s}]
               \/ Leave(c)
        PROVE  OrphanInv'
    <3>1. Others /\ (gc'[c].pc = "idle" \/ (gc'[c].pc = "abandon" /\ gc'[c].todo \subseteq gc[c].todo))
      BY <1>0, <2>0, <2>2, LeaveType DEF GcOK
    <3>2. build[s].pc \in Over
      BY <2>0 DEF OrphanInv
    <3>3. \A t \in Snapshots : state'[t] = state[t] \/ (t = s /\ state'[t] = "abandoned")
      BY <1>0, <2>2 DEF Abandoned, RowsOK
    <3>4. gc'[c].pc = "abandon" => \A t \in gc'[c].todo : build[t].pc \in Over
      BY <2>0, <3>1 DEF OrphanInv
    <3> QED BY <1>0, <1>1, <2>0, <3>1, <3>2, <3>3, <3>4, PassOrphanFrame DEF Deleting
  <2> QED BY <1>4, <2>1, <2>2 DEF AbandonStale
<1>5. CASE ListSnapshots(c)
  <2>1. Quiet
    BY <1>5 DEF ListSnapshots, rowVars, fileVars
  <2>2. /\ Others /\ gc'[c].pc = "retire"
        /\ \A s \in gc'[c].todo : s \in Snapshots /\ state[s] \in Dead \cup {"committed"}
    BY <1>0, <1>5 DEF ListSnapshots, GcOK, Superseded
  <2>3. \A s \in Snapshots : state[s] \in Dead \cup {"committed"} => build[s].pc \in Over
    BY <1>0 DEF OrphanInv, Begun, Dead, Uncommitted
  <2> QED BY <1>0, <1>1, <2>1, <2>2, <2>3, PassOrphanFrame DEF Deleting
<1>6. CASE BeginRetiring(c)
  <2>0. gc[c].pc = "retire" /\ UNCHANGED promoted /\ \A s \in gc[c].todo : build[s].pc \in Over
    BY <1>6 DEF BeginRetiring, fileVars, OrphanInv
  <2>1. CASE Leave(c) /\ UNCHANGED state
    <3>1. Others /\ gc'[c].pc = "idle"
      BY <1>0, <2>1, LeaveType
    <3> QED BY <1>0, <1>1, <2>0, <2>1, <3>1, PassOrphanFrame DEF Deleting
  <2>2. ASSUME NEW s \in gc[c].todo, gc' = [gc EXCEPT ![c].todo = @ \ {s}], UNCHANGED state
        PROVE  OrphanInv'
    <3>1. Others /\ gc'[c].pc = "retire" /\ gc'[c].todo \subseteq gc[c].todo
      BY <1>0, <2>0, <2>2 DEF GcOK
    <3> QED BY <1>0, <1>1, <2>0, <2>2, <3>1, PassOrphanFrame DEF Deleting
  <2>3. ASSUME NEW s \in gc[c].todo, state' = [state EXCEPT ![s] = "retiring"],
               gc' = [gc EXCEPT ![c].pc = "delete", ![c].snap = s, ![c].todo = @ \ {s}]
        PROVE  OrphanInv'
    <3>1. Others /\ gc'[c].pc = "delete" /\ gc'[c].snap = s /\ gc'[c].todo \subseteq gc[c].todo
      BY <1>0, <2>3 DEF GcOK
    <3>2. \A t \in Snapshots : state'[t] = state[t] \/ (t = s /\ state'[t] = "retiring")
      BY <1>0, <2>3 DEF RowsOK
    <3> QED BY <1>0, <1>1, <2>0, <3>1, <3>2, PassOrphanFrame DEF Deleting
  <2> QED BY <1>6, <2>1, <2>2, <2>3 DEF BeginRetiring
<1>7. CASE DeletePromoted(c) \/ UnlinkStaging(c) \/ RmdirStaging(c)
  <2>0. /\ gc[c].pc \in {"delete", "unlink", "rmdir"}
        /\ \A s \in gc[c].todo : build[s].pc \in Over
        /\ build[gc[c].snap].pc \in Over /\ gc[c].snap \in Snapshots
    BY <1>0, <1>7 DEF DeletePromoted, UnlinkStaging, RmdirStaging, OrphanInv, Retired, Deleting
  <2>1. /\ Others /\ gc'[c].pc \in {"unlink", "rmdir", "forget"}
        /\ gc'[c].snap = gc[c].snap /\ gc'[c].todo = gc[c].todo
    <3>1. PICK p \in {"unlink", "rmdir", "forget"} : Pass(c, p)
      BY <1>7 DEF DeletePromoted, UnlinkStaging, RmdirStaging
    <3> QED BY <1>0, <3>1 DEF Pass, GcOK
  <2>2. UNCHANGED state
    BY <1>7 DEF DeletePromoted, UnlinkStaging, RmdirStaging, rowVars
  <2>3. /\ \A s \in Snapshots : promoted'[s] \in {promoted[s], Absent}
        /\ promoted'[gc[c].snap] = Absent
    BY <1>0, <1>7, <2>0 DEF DeletePromoted, UnlinkStaging, RmdirStaging, Careful, FilesOK,
                            OrphanInv, Deleting
  <2> QED BY <1>0, <1>1, <2>0, <2>1, <2>2, <2>3, PassOrphanFrame DEF Deleting
<1>8. CASE ForgetSnapshot(c)
  <2>0. /\ gc[c].pc = "forget" /\ UNCHANGED promoted
        /\ \A s \in gc[c].todo : build[s].pc \in Over
        /\ build[gc[c].snap].pc \in Over /\ promoted[gc[c].snap] = Absent
    BY <1>8 DEF ForgetSnapshot, OrphanInv, Deleting, fileVars
  <2>1. Others /\ gc'[c].pc = "retire" /\ gc'[c].todo = gc[c].todo
    BY <1>0, <1>8 DEF ForgetSnapshot, GcOK
  <2>2. \A s \in Snapshots : s = gc[c].snap \/ state'[s] = state[s]
    BY <1>0, <1>8 DEF ForgetSnapshot, RowsOK
  <2> QED BY <1>0, <1>1, <2>0, <2>1, <2>2, PassOrphanFrame DEF Deleting
<1> QED BY <1>2, <1>3, <1>4, <1>5, <1>6, <1>7, <1>8 DEF PassStep

\* Builds that die, readers, holds and stuttering: no row and no directory moves.
LEMMA QuietOrphan ==
    ASSUME IInv, OrphanInv,
           \/ \E s \in Snapshots : BuildFails(s)
           \/ \E r \in Readers : Read(r)
           \/ \E h \in Holds : Hold(h)
           \/ UNCHANGED vars
    PROVE  OrphanInv'
<1>0. BuildOK /\ GcOK /\ Retired
  BY DEF IInv, Types
<1>1. UNCHANGED <<state, promoted, gc>>
  BY DEF BuildFails, Read, ResolveCurrent, Pin, Release, ExpireLease, Hold, PlaceHold,
         ReleaseHold, LapseHold, vars, rowVars, fileVars
<1>2. \A t \in Snapshots : build'[t].pc = "ended" \/ build'[t] = build[t]
  <2>1. CASE UNCHANGED build
    BY <2>1
  <2>2. ASSUME NEW s \in Snapshots, GoTo(s, "ended")
        PROVE  \A t \in Snapshots : build'[t].pc = "ended" \/ build'[t] = build[t]
    BY <1>0, <2>2, GoToType DEF BuildPcs
  <2> QED BY <2>1, <2>2 DEF BuildFails, Read, ResolveCurrent, Pin, Release, ExpireLease, Hold,
                            PlaceHold, ReleaseHold, LapseHold, vars
<1>3. \A d \in Collectors : gc[d].todo \subseteq Snapshots /\ (gc[d].pc \in Deleting => gc[d].snap \in Snapshots)
  BY <1>0 DEF GcOK, Retired
<1> QED BY <1>1, <1>2, <1>3 DEF OrphanInv, NoOrphanSnapshot, Over

\* Every directory under snapshots/ has a row in the catalog, provided that the
\* stale cut-off spares running builds, rmtree removes what it is given and
\* quarantine is not called (gc.delete_snapshot: files first, catalog second).
THEOREM NoOrphans == ASSUME Careful PROVE Spec => []NoOrphanSnapshot
<1>1. Init => OrphanInv
  BY DEF Init, OrphanInv, NoOrphanSnapshot, IdlePass, Deleting, Over
<1>2. IInv /\ OrphanInv /\ [Next]_vars => OrphanInv'
  <2> SUFFICES ASSUME IInv, OrphanInv, [Next]_vars PROVE OrphanInv'
    OBVIOUS
  <2>1. \A s \in Snapshots : ~Quarantine(s)
    BY DEF Quarantine, Careful
  <2>2. ASSUME NEW c \in Collectors, StartPass(c) \/ PassStep(c) \/ PassFails(c) PROVE OrphanInv'
    BY <2>2, PassOrphan
  <2> QED BY <2>1, <2>2, BuildOrphan, QuietOrphan DEF Next
<1>3. OrphanInv => NoOrphanSnapshot
  BY DEF OrphanInv
<1> QED BY <1>1, <1>2, <1>3, Invariance, PTL DEF Spec

(***************************************************************************)
(* What the warehouse promises its readers, as long as nobody quarantines  *)
(* a snapshot: a lease or a hold keeps the files, and the warehouse        *)
(* implements SnapshotTable.  Both rest on IInv and on PinInv: only        *)
(* committed snapshots are ever leased or held.                            *)
(***************************************************************************)
PinInv ==
    /\ \A s \in Snapshots : state[s] # "quarantined"
    /\ \A s \in Snapshots : Leased(s) \/ Held(s) => state[s] = "committed"

-----------------------------------------------------------------------------
\* What a step of a build does to the rows: it never takes a row out of
\* "committed", and commits at most its own.
LEMMA BuildRows ==
    ASSUME IInv, NEW s \in Snapshots, Build(s)
    PROVE  /\ UNCHANGED <<leases, holds>>
           /\ \A t \in Snapshots \ {s} : state'[t] = state[t]
           /\ state[s] # "committed"
           /\ state'[s] = state[s] \/ state'[s] \in {"staging", "validated", "committed", "abandoned"}
           /\ state'[s] # "committed" => UNCHANGED <<current, revision>>
           /\ state'[s] = "committed" => current' = s /\ revision' = revision + 1
<1>0. RowsOK /\ Verified
  BY DEF IInv, Types
<1>1. build[s].pc # "done"
  BY DEF Build, StartBuild, BeginSnapshot, MakeStaging, CopyEntry, SetDigest, MarkValidated,
         Promote, VerifyPromoted, CommitSnapshot, AbandonRefused
<1>2. state[s] # "committed"
  BY <1>0, <1>1 DEF Verified
<1>3. CASE StartBuild(s) \/ MakeStaging(s) \/ CopyEntry(s) \/ SetDigest(s) \/ Promote(s)
           \/ VerifyPromoted(s)
  <2>1. UNCHANGED <<leases, holds, state, current, revision>>
    BY <1>3 DEF StartBuild, MakeStaging, CopyEntry, SetDigest, Promote, VerifyPromoted,
                pinVars, rowVars, tableVars
  <2> QED BY <1>2, <2>1
<1>4. CASE BeginSnapshot(s)
  BY <1>0, <1>2, <1>4 DEF BeginSnapshot, RowsOK, pinVars, tableVars
<1>5. CASE MarkValidated(s)
  BY <1>0, <1>2, <1>5 DEF MarkValidated, RowsOK, pinVars, tableVars
<1>6. CASE CommitSnapshot(s)
  BY <1>0, <1>2, <1>6 DEF CommitSnapshot, RowsOK, pinVars, tableVars
<1>7. CASE AbandonRefused(s)
  BY <1>0, <1>2, <1>7 DEF AbandonRefused, Abandoned, RowsOK, pinVars, tableVars
<1> QED BY <1>3, <1>4, <1>5, <1>6, <1>7 DEF Build

\* What a step of a pass does to the rows and the pins: it retires one snapshot
\* that is neither current nor leased nor held, or it keeps every committed row;
\* it drops only pins that are dead or name a snapshot that is being deleted.
LEMMA PassRows ==
    ASSUME IInv, NEW c \in Collectors, StartPass(c) \/ PassStep(c) \/ PassFails(c)
    PROVE  /\ UNCHANGED <<current, revision>>
           /\ \/ /\ UNCHANGED <<leases, holds>>
                 /\ \E s \in Snapshots :
                       /\ ~Protected(s)
                       /\ state' = [state EXCEPT ![s] = "retiring"]
              \/ /\ \A t \in Snapshots : state'[t] = "committed" <=> state[t] = "committed"
                 /\ \A t \in Snapshots : state'[t] = "quarantined" => state[t] = "quarantined"
                 /\ \A r \in Readers : leases'[r] = leases[r]
                       \/ (leases'[r] = NoPin /\ ~(leases[r].live /\ state[leases[r].snap] = "committed"))
                 /\ \A h \in Holds : holds'[h] = holds[h]
                       \/ (holds'[h] = NoPin /\ ~(holds[h].live /\ state[holds[h].snap] = "committed"))
<1>0. RowsOK /\ PinsOK /\ Retired /\ GcOK /\ gc[c].todo \subseteq Snapshots
  BY DEF IInv, Types, GcOK
<1>1. CASE StartPass(c) \/ ReadStale(c) \/ ReadKnown(c) \/ ScanStaging(c) \/ UnlinkOrphan(c)
           \/ RmdirOrphan(c) \/ ReadTable(c) \/ ListSnapshots(c) \/ DeletePromoted(c)
           \/ UnlinkStaging(c) \/ RmdirStaging(c) \/ PassFails(c)
  <2>1. UNCHANGED <<state, current, revision, leases, holds>>
    BY <1>1 DEF StartPass, ReadStale, ReadKnown, ScanStaging, UnlinkOrphan, RmdirOrphan,
                ReadTable, ListSnapshots, DeletePromoted, UnlinkStaging, RmdirStaging, PassFails,
                rowVars, tableVars, pinVars
  <2> QED BY <2>1
<1>2. CASE AbandonStale(c)
  <2>1. UNCHANGED <<current, revision, leases, holds>>
    BY <1>2 DEF AbandonStale, tableVars, pinVars
  <2>2. /\ \A t \in Snapshots : state'[t] = "committed" <=> state[t] = "committed"
        /\ \A t \in Snapshots : state'[t] = "quarantined" => state[t] = "quarantined"
    BY <1>0, <1>2 DEF AbandonStale, Abandoned, RowsOK, Uncommitted
  <2> QED BY <2>1, <2>2
<1>3. CASE PurgeLeases(c)
  <2>1. UNCHANGED <<state, current, revision, holds>>
    BY <1>3 DEF PurgeLeases, rowVars, tableVars
  <2>2. \A r \in Readers : leases'[r] = leases[r] \/ (leases'[r] = NoPin /\ ~leases[r].live)
    BY <1>0, <1>3 DEF PurgeLeases, Purged, PinsOK
  <2> QED BY <2>1, <2>2
<1>4. CASE BeginRetiring(c)
  <2>1. UNCHANGED <<current, revision, leases, holds>>
    BY <1>4 DEF BeginRetiring, tableVars, pinVars
  <2>2. CASE UNCHANGED state
    BY <2>1, <2>2
  <2>3. CASE \E s \in gc[c].todo : ~Protected(s) /\ state' = [state EXCEPT ![s] = "retiring"]
    BY <1>0, <2>1, <2>3
  <2> QED BY <1>4, <2>2, <2>3 DEF BeginRetiring
<1>5. CASE ForgetSnapshot(c)
  <2> DEFINE s == gc[c].snap
  <2>0. /\ s \in Snapshots /\ state[s] \in {"none", "retiring", "quarantined"}
    BY <1>0, <1>5 DEF ForgetSnapshot, Retired, Deleting
  <2>1. UNCHANGED <<current, revision>> /\ state' = [state EXCEPT ![s] = "none"]
    BY <1>5 DEF ForgetSnapshot, tableVars
  <2>2. /\ \A r \in Readers : leases'[r] = leases[r] \/ (leases'[r] = NoPin /\ leases[r].snap = s)
        /\ \A h \in Holds : holds'[h] = holds[h] \/ (holds'[h] = NoPin /\ holds[h].snap = s)
    BY <1>0, <1>5 DEF ForgetSnapshot, Without, PinsOK
  <2> QED BY <1>0, <2>0, <2>1, <2>2 DEF RowsOK
<1> QED BY <1>1, <1>2, <1>3, <1>4, <1>5 DEF PassStep

\* A lease that is taken names a committed snapshot, and a hold too.
LEMMA ReadPins ==
    ASSUME IInv, PinInv, NEW r \in Readers, Read(r)
    PROVE  /\ UNCHANGED <<state, current, revision, holds>>
           /\ \A q \in Readers \ {r} : leases'[q] = leases[q]
           /\ leases'[r].live => \/ leases'[r] = leases[r]
                                 \/ /\ leases'[r].snap \in Snapshots
                                    /\ state[leases'[r].snap] = "committed"
<1>0. PinsOK /\ Logged /\ TableOK /\ leases[r] \in Pins
  BY DEF IInv, Types, PinsOK
<1>1. UNCHANGED <<state, current, revision, holds>>
  BY DEF Read, ResolveCurrent, Pin, Release, ExpireLease, rowVars, tableVars
<1>2. CASE ResolveCurrent(r)
  BY <1>0, <1>1, <1>2 DEF ResolveCurrent, PinsOK, Logged, TableOK
<1>3. CASE \E s \in Snapshots : Pin(r, s)
  BY <1>0, <1>1, <1>3 DEF Pin, PinsOK, PinInv, CanLease, Readable
<1>4. CASE Release(r)
  BY <1>0, <1>1, <1>4 DEF Release, PinsOK, NoPin
<1>5. CASE ExpireLease(r)
  BY <1>0, <1>1, <1>5 DEF ExpireLease, PinsOK, Pins
<1> QED BY <1>2, <1>3, <1>4, <1>5 DEF Read

LEMMA HoldPins ==
    ASSUME IInv, PinInv, NEW h \in Holds, Hold(h)
    PROVE  /\ UNCHANGED <<state, current, revision, leases>>
           /\ \A q \in Holds \ {h} : holds'[q] = holds[q]
           /\ holds'[h].live => \/ holds'[h] = holds[h]
                                \/ /\ holds'[h].snap \in Snapshots
                                   /\ state[holds'[h].snap] = "committed"
<1>0. PinsOK /\ holds[h] \in Pins
  BY DEF IInv, Types, PinsOK
<1>1. UNCHANGED <<state, current, revision, leases>>
  BY DEF Hold, PlaceHold, ReleaseHold, LapseHold, rowVars, tableVars
<1>2. CASE \E s \in Snapshots : PlaceHold(h, s)
  BY <1>0, <1>1, <1>2 DEF PlaceHold, PinsOK, PinInv, Readable
<1>3. CASE ReleaseHold(h)
  BY <1>0, <1>1, <1>3 DEF ReleaseHold, PinsOK, NoPin
<1>4. CASE LapseHold(h)
  BY <1>0, <1>1, <1>4 DEF LapseHold, PinsOK, Pins
<1> QED BY <1>2, <1>3, <1>4 DEF Hold

\* PinInv follows pin by pin: live pins name committed snapshots.
LEMMA PinInvStep ==
    ASSUME Quarantines = {}, IInv, PinInv, [Next]_vars
    PROVE  PinInv'
<1>0. RowsOK /\ PinsOK
  BY DEF IInv, Types
<1>1. ASSUME NEW s \in Snapshots, Build(s) PROVE PinInv'
  BY <1>0, <1>1, BuildRows DEF PinInv, Leased, Held
<1>2. ASSUME NEW s \in Snapshots, BuildFails(s) PROVE PinInv'
  BY <1>2 DEF BuildFails, rowVars, pinVars, PinInv, Leased, Held
<1>3. ASSUME NEW c \in Collectors, StartPass(c) \/ PassStep(c) \/ PassFails(c) PROVE PinInv'
  <2>1. CASE /\ UNCHANGED <<leases, holds>>
             /\ \E s \in Snapshots : ~Protected(s) /\ state' = [state EXCEPT ![s] = "retiring"]
    BY <1>0, <2>1 DEF RowsOK, PinInv, Protected, Leased, Held
  <2>2. CASE /\ \A t \in Snapshots : state'[t] = "committed" <=> state[t] = "committed"
             /\ \A t \in Snapshots : state'[t] = "quarantined" => state[t] = "quarantined"
             /\ \A r \in Readers : leases'[r] = leases[r] \/ leases'[r] = NoPin
             /\ \A h \in Holds : holds'[h] = holds[h] \/ holds'[h] = NoPin
    BY <2>2 DEF PinInv, Leased, Held, NoPin
  <2> QED BY <1>3, <2>1, <2>2, PassRows
<1>4. ASSUME NEW r \in Readers, Read(r) PROVE PinInv'
  BY <1>4, ReadPins DEF PinInv, Leased, Held
<1>5. ASSUME NEW h \in Holds, Hold(h) PROVE PinInv'
  BY <1>5, HoldPins DEF PinInv, Leased, Held
<1>6. CASE UNCHANGED vars
  BY <1>6 DEF vars, rowVars, pinVars, PinInv, Leased, Held
<1> QED BY <1>1, <1>2, <1>3, <1>4, <1>5, <1>6 DEF Next, Quarantine

THEOREM PinInvariance ==
    ASSUME Quarantines = {} PROVE Spec => [](IInv /\ PinInv)
<1>1. Init => PinInv
  BY DEF Init, PinInv, Leased, Held, NoPin
<1>2. IInv /\ PinInv /\ [Next]_vars => PinInv'
  BY PinInvStep
<1> QED BY <1>1, <1>2, Invariance, PTL DEF Spec

\* A snapshot a reader may open has all the files its digest was taken of, at
\* every moment of every deletion, and a live lease or a live hold keeps its
\* snapshot readable and its files whole.
THEOREM FilesStay ==
    ASSUME Quarantines = {} PROVE Spec => []FilesKept
<1>1. IInv /\ PinInv => ReadableIntact
  BY DEF IInv, Verified, PinInv, ReadableIntact, CanLease, Readable
<1>2. IInv /\ PinInv => ProtectedIntact
  BY DEF IInv, Verified, PinInv, ProtectedIntact, CanLease, Readable
<1>3. IInv /\ PinInv => FilesKept
  BY <1>1, <1>2 DEF FilesKept
<1> QED BY <1>3, PinInvariance, PTL

-----------------------------------------------------------------------------
(* The refinement.  Committed is what the mapping calls readable.          *)

Committed == {s \in Snapshots : state[s] = "committed"}
LiveLeases == [r \in Readers |-> LivePin(leases[r])]
LiveHolds == [h \in Holds |-> LivePin(holds[h])]
ReadableSet == {s \in Snapshots : CanLease(s) /\ Intact(s)}

LEMMA ReadableIsCommitted == IInv /\ PinInv => ReadableSet = Committed
BY DEF IInv, Verified, PinInv, ReadableSet, Committed, CanLease, Readable

\* A step on which clients see nothing.
LEMMA Unseen ==
    ASSUME UNCHANGED <<current, revision, ReadableSet, LiveLeases, LiveHolds>>
    PROVE  UNCHANGED Table!vars
BY DEF Table!vars, ReadableSet, LiveLeases, LiveHolds

LEMMA TableStep ==
    ASSUME Quarantines = {}, IInv, PinInv, IInv', PinInv', [Next]_vars
    PROVE  [Table!Next]_(Table!vars)
<1>0. /\ RowsOK /\ PinsOK /\ TableOK
      /\ ReadableSet = Committed /\ ReadableSet' = Committed'
  <2>1. ReadableSet = Committed
    BY ReadableIsCommitted
  <2>2. ReadableSet' = Committed'
    BY DEF IInv, Verified, PinInv, ReadableSet, Committed, CanLease, Readable
  <2> QED BY <2>1, <2>2 DEF IInv, Types
<1>1. ASSUME NEW s \in Snapshots, Build(s) PROVE [Table!Next]_(Table!vars)
  <2>1. UNCHANGED <<LiveLeases, LiveHolds>>
    BY <1>1, BuildRows DEF LiveLeases, LiveHolds
  <2>2. CASE state'[s] # "committed"
    <3>1. Committed' = Committed /\ UNCHANGED <<current, revision>>
      BY <1>1, <2>2, BuildRows DEF Committed
    <3> QED BY <1>0, <2>1, <3>1, Unseen
  <2>3. CASE state'[s] = "committed"
    <3>1. /\ Committed' = Committed \cup {s} /\ s \notin Committed
          /\ current' = s /\ revision' = revision + 1
      BY <1>1, <2>3, BuildRows DEF Committed
    <3>2. Table!Refresh(s)
      BY <1>0, <2>1, <3>1 DEF Table!Refresh, ReadableSet, LiveLeases, LiveHolds
    <3> QED BY <3>2 DEF Table!Next
  <2> QED BY <2>2, <2>3
<1>2. ASSUME NEW s \in Snapshots, BuildFails(s) PROVE [Table!Next]_(Table!vars)
  <2>1. UNCHANGED <<current, revision, Committed, LiveLeases, LiveHolds>>
    BY <1>2 DEF BuildFails, rowVars, tableVars, pinVars, Committed, LiveLeases, LiveHolds
  <2> QED BY <1>0, <2>1, Unseen
<1>3. ASSUME NEW c \in Collectors, StartPass(c) \/ PassStep(c) \/ PassFails(c)
      PROVE  [Table!Next]_(Table!vars)
  <2>0. UNCHANGED <<current, revision>>
    BY <1>3, PassRows
  <2>1. ASSUME UNCHANGED <<leases, holds>>,
               NEW s \in Snapshots, ~Protected(s), state' = [state EXCEPT ![s] = "retiring"]
        PROVE  [Table!Next]_(Table!vars)
    <3>1. UNCHANGED <<LiveLeases, LiveHolds>>
      BY <2>1 DEF LiveLeases, LiveHolds
    <3>2. CASE state[s] # "committed"
      <4>1. Committed' = Committed
        BY <1>0, <2>1, <3>2 DEF RowsOK, Committed
      <4> QED BY <1>0, <2>0, <3>1, <4>1, Unseen
    <3>3. CASE state[s] = "committed"
      <4>1. Committed' = Committed \ {s} /\ s \in Committed
        BY <1>0, <2>1, <3>3 DEF RowsOK, Committed
      <4>2. /\ s # current
            /\ \A r \in Readers : LiveLeases[r] # s
            /\ \A h \in Holds : LiveHolds[h] # s
        BY <1>0, <2>1, NamesAssumption
           DEF Protected, Leased, Held, LiveLeases, LiveHolds, LivePin, PinsOK, Pins
      <4>3. Table!Reclaim(s)
        BY <1>0, <2>0, <3>1, <4>1, <4>2 DEF Table!Reclaim, ReadableSet, LiveLeases, LiveHolds
      <4> QED BY <4>3 DEF Table!Next
    <3> QED BY <3>2, <3>3
  <2>2. CASE /\ \A t \in Snapshots : state'[t] = "committed" <=> state[t] = "committed"
             /\ \A r \in Readers : leases'[r] = leases[r]
                   \/ (leases'[r] = NoPin /\ ~(leases[r].live /\ state[leases[r].snap] = "committed"))
             /\ \A h \in Holds : holds'[h] = holds[h]
                   \/ (holds'[h] = NoPin /\ ~(holds[h].live /\ state[holds[h].snap] = "committed"))
    <3>1. Committed' = Committed
      BY <2>2 DEF Committed
    <3>2. \A r \in Readers : LivePin(leases'[r]) = LivePin(leases[r])
      <4> TAKE r \in Readers
      <4>0. leases[r] \in Pins
        BY <1>0 DEF PinsOK
      <4>1. CASE leases'[r] = leases[r]
        BY <4>1
      <4>2. CASE leases'[r] = NoPin /\ ~leases[r].live
        BY <4>2 DEF LivePin, NoPin
      <4>3. CASE leases'[r] = NoPin /\ leases[r].live /\ state[leases[r].snap] # "committed"
        <5>1. leases[r].snap = None
          BY <4>0, <4>3 DEF Pins, PinInv, Leased
        <5> QED BY <4>3, <5>1 DEF LivePin, NoPin
      <4> QED BY <2>2, <4>1, <4>2, <4>3
    <3>3. \A h \in Holds : LivePin(holds'[h]) = LivePin(holds[h])
      <4> TAKE h \in Holds
      <4>0. holds[h] \in Pins
        BY <1>0 DEF PinsOK
      <4>1. CASE holds'[h] = holds[h]
        BY <4>1
      <4>2. CASE holds'[h] = NoPin /\ ~holds[h].live
        BY <4>2 DEF LivePin, NoPin
      <4>3. CASE holds'[h] = NoPin /\ holds[h].live /\ state[holds[h].snap] # "committed"
        <5>1. holds[h].snap = None
          BY <4>0, <4>3 DEF Pins, PinInv, Held
        <5> QED BY <4>3, <5>1 DEF LivePin, NoPin
      <4> QED BY <2>2, <4>1, <4>2, <4>3
    <3>4. UNCHANGED <<LiveLeases, LiveHolds>>
      BY <3>2, <3>3 DEF LiveLeases, LiveHolds
    <3> QED BY <1>0, <2>0, <3>1, <3>4, Unseen
  <2> QED BY <1>3, <2>1, <2>2, PassRows
<1>4. ASSUME NEW r \in Readers, Read(r) PROVE [Table!Next]_(Table!vars)
  <2>1. /\ UNCHANGED <<current, revision, Committed, LiveHolds>>
        /\ \A q \in Readers \ {r} : LivePin(leases'[q]) = LivePin(leases[q])
    BY <1>4, ReadPins DEF Committed, LiveHolds
  <2>2. \E s \in Committed \cup {None} : LivePin(leases'[r]) = s
    BY <1>0, <1>4, ReadPins DEF LivePin, Committed, PinsOK, Pins, PinInv, Leased
  <2>3. Table!Lease(r)
    BY <1>0, <2>1, <2>2 DEF Table!Lease, ReadableSet, LiveLeases, LiveHolds
  <2> QED BY <2>3 DEF Table!Next
<1>5. ASSUME NEW h \in Holds, Hold(h) PROVE [Table!Next]_(Table!vars)
  <2>1. /\ UNCHANGED <<current, revision, Committed, LiveLeases>>
        /\ \A q \in Holds \ {h} : LivePin(holds'[q]) = LivePin(holds[q])
    BY <1>5, HoldPins DEF Committed, LiveLeases
  <2>2. \E s \in Committed \cup {None} : LivePin(holds'[h]) = s
    BY <1>0, <1>5, HoldPins DEF LivePin, Committed, PinsOK, Pins, PinInv, Held
  <2>3. Table!Hold(h)
    BY <1>0, <2>1, <2>2 DEF Table!Hold, ReadableSet, LiveLeases, LiveHolds
  <2> QED BY <2>3 DEF Table!Next
<1>6. CASE UNCHANGED vars
  <2>1. UNCHANGED <<current, revision, ReadableSet, LiveLeases, LiveHolds>>
    BY <1>6 DEF vars, rowVars, tableVars, fileVars, pinVars, ReadableSet, CanLease, Intact,
                LiveLeases, LiveHolds
  <2> QED BY <2>1, Unseen
<1> QED BY <1>1, <1>2, <1>3, <1>4, <1>5, <1>6 DEF Next, Quarantine

\* The warehouse implements the abstract table for every number of builds, passes,
\* readers and holds.
THEOREM Implements ==
    ASSUME Quarantines = {} PROVE Spec => ImplementsTable
<1>1. Init => Table!Init
  BY DEF Init, Table!Init, CanLease, Readable, LivePin, NoPin
<1>2. /\ IInv /\ PinInv /\ (IInv /\ PinInv)' /\ [Next]_vars => [Table!Next]_(Table!vars)
  BY TableStep
<1> QED BY <1>1, <1>2, PinInvariance, PTL DEF Spec, ImplementsTable, Table!Spec

\* What the abstract table's steps preserve.
TableInv == revision \in Nat /\ Table!Usable

LEMMA TableInitially == Table!Init => TableInv
BY DEF Table!Init, TableInv, Table!Usable

LEMMA TableStays == TableInv /\ [Table!Next]_(Table!vars) => TableInv'
<1> SUFFICES ASSUME TableInv, [Table!Next]_(Table!vars) PROVE TableInv'
  OBVIOUS
<1>1. ASSUME NEW s \in Snapshots, Table!Refresh(s) PROVE TableInv'
  BY <1>1 DEF TableInv, Table!Usable, Table!Refresh
<1>2. ASSUME NEW s \in Snapshots, Table!Reclaim(s) PROVE TableInv'
  BY <1>2 DEF TableInv, Table!Usable, Table!Reclaim
<1>3. ASSUME NEW r \in Readers, Table!Lease(r) PROVE TableInv'
  BY <1>3 DEF TableInv, Table!Usable, Table!Lease
<1>4. ASSUME NEW h \in Holds, Table!Hold(h) PROVE TableInv'
  BY <1>4 DEF TableInv, Table!Usable, Table!Hold
<1>5. CASE UNCHANGED Table!vars
  BY <1>5 DEF TableInv, Table!Usable, Table!vars
<1> QED
  BY <1>1, <1>2, <1>3, <1>4, <1>5 DEF Table!Next

\* The abstract table keeps its word, and so does whatever implements it: a pointer, lease
\* or hold leads to a whole snapshot, and a version names one snapshot.
THEOREM TableKeepsWord == Table!Spec => []Table!Usable /\ Table!VersionTells
<1>1. TableInv /\ [Table!Next]_(Table!vars) =>
         [revision' >= revision /\ (revision' = revision => current' = current)]_(Table!vars)
  <2> SUFFICES ASSUME revision \in Nat, Table!Next
               PROVE  revision' >= revision /\ (revision' = revision => current' = current)
    BY DEF TableInv
  <2> QED
    BY DEF Table!Next, Table!Refresh, Table!Reclaim, Table!Lease, Table!Hold
<1>2. TableInv => Table!Usable
  BY DEF TableInv
<1> QED
  BY <1>1, <1>2, TableInitially, TableStays, PTL DEF Table!Spec, Table!VersionTells

\* So the warehouse keeps it: who resolves "current", leases or holds gets a whole snapshot,
\* and who read one revision twice read one snapshot (warehouse/catalog.py, resolve_current,
\* pin, place_hold).
THEOREM WarehouseKeepsWord ==
    ASSUME Quarantines = {} PROVE Spec => []Table!Usable /\ Table!VersionTells
BY Implements, TableKeepsWord DEF ImplementsTable
=============================================================================
