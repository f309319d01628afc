------------------------------ MODULE Backup ------------------------------
(***************************************************************************)
(* warehouse-backup and warehouse-restore beside a warehouse in use: one   *)
(* table that is refreshed and collected while its catalog is copied, its  *)
(* snapshots are leased and their files copied; and the restore of the     *)
(* result into another root.  Bytes are "intact" when their digest is the  *)
(* one the catalog recorded.                                               *)
(***************************************************************************)
EXTENDS Naturals, FiniteSets

CONSTANTS Copies,      \* snapshot ids
          MaxBackupFaults  \* bound on damage, expired leases, quarantines, crashes, occupied roots

ASSUME CopiesAssumption == 0 \notin Copies

VARIABLES live,        \* the state of a snapshot's row; "none" and "forgotten" before and after it
          pointer,     \* the current snapshot, 0 for none
          disk,        \* the files of a snapshot: "none", "intact", "damaged"
          leased,      \* the snapshots the backup has a live lease on
          copy,        \* the backup: its step, what is left to do, whether it found a problem
          archive,     \* what is under the backup's name
          restored,    \* the restore: its step and its copy
          target,      \* what is under the restored root
          backupFaults

backupVars == <<live, pointer, disk, leased, copy, archive, restored, target, backupFaults>>

Readable == {"committed", "quarantined"}

\* Nothing, somebody else's files, or a catalog copy, the files beside it and backup.json.
Nothing == [kind |-> "none"]

Foreign == [kind |-> "foreign"]

NoFiles == [s \in Copies |-> "none"]

Archive(rows, current, files) ==
    [kind |-> "archive", rows |-> rows, current |-> current, files |-> files, manifest |-> "intact"]

NoCopy == [pc |-> "idle", work |-> Nothing, todo |-> {}, problem |-> FALSE]

BackupInit ==
    /\ live = [s \in Copies |-> "none"] /\ pointer = 0 /\ disk = NoFiles
    /\ leased = {} /\ copy = NoCopy /\ archive = Nothing
    /\ restored = [pc |-> "idle", work |-> Nothing] /\ target = Nothing
    /\ backupFaults = 0

BackupFault == backupFaults < MaxBackupFaults /\ backupFaults' = backupFaults + 1

----------------------------------------------------------------------------
(* The warehouse in use (see Warehouse for its steps).                     *)

\* A build's row, its files and the commit, one after the other.
Validate(s) ==
    /\ live[s] = "none" /\ live' = [live EXCEPT ![s] = "validated"]
    /\ UNCHANGED <<pointer, disk, backupFaults>>

Promote(s) ==
    /\ live[s] = "validated" /\ disk[s] = "none" /\ disk' = [disk EXCEPT ![s] = "intact"]
    /\ UNCHANGED <<live, pointer, backupFaults>>

CommitRow(s) ==
    /\ live[s] = "validated" /\ disk[s] = "intact"
    /\ live' = [live EXCEPT ![s] = "committed"] /\ pointer' = s
    /\ UNCHANGED <<disk, backupFaults>>

\* begin_retiring: never the current snapshot, never one that is leased.
BeginRetiring(s) ==
    /\ live[s] = "committed" /\ s # pointer /\ s \notin leased
    /\ live' = [live EXCEPT ![s] = "retiring"]
    /\ UNCHANGED <<pointer, disk, backupFaults>>

\* delete_snapshot: the files one after the other, then the row.
DeleteFiles(s) ==
    /\ live[s] = "retiring" /\ disk[s] # "none"
    /\ disk' = [disk EXCEPT ![s] = IF disk[s] = "intact" THEN "damaged" ELSE "none"]
    /\ UNCHANGED <<live, pointer, backupFaults>>

ForgetRow(s) ==
    /\ live[s] = "retiring" /\ disk[s] = "none"
    /\ live' = [live EXCEPT ![s] = "forgotten"]
    /\ UNCHANGED <<pointer, disk, backupFaults>>

\* quarantine takes a row in any state but the current one's.
Quarantine(s) ==
    /\ live[s] \in {"validated", "committed", "retiring"} /\ s # pointer /\ BackupFault
    /\ live' = [live EXCEPT ![s] = "quarantined"]
    /\ UNCHANGED <<pointer, disk>>

Rot(s) == disk[s] = "intact" /\ disk' = [disk EXCEPT ![s] = "damaged"] /\ BackupFault
          /\ UNCHANGED <<live, pointer>>

InUse ==
    /\ \E s \in Copies : \/ Validate(s) \/ Promote(s) \/ CommitRow(s) \/ BeginRetiring(s)
                         \/ DeleteFiles(s) \/ ForgetRow(s) \/ Quarantine(s) \/ Rot(s)
    /\ UNCHANGED <<leased, copy, archive, restored, target>>

----------------------------------------------------------------------------
(* The backup.                                                             *)

\* The catalog is copied as of one moment; rows that nobody can read are left out.
CopyCatalog ==
    /\ copy.pc \in {"idle", "refused"} /\ archive = Nothing
    /\ LET rows == [s \in Copies |-> IF live[s] \in Readable THEN live[s] ELSE "none"]
       IN  copy' = [pc |-> "pin", work |-> Archive(rows, pointer, NoFiles),
                    todo |-> {s \in Copies : rows[s] # "none"}, problem |-> FALSE]
    /\ UNCHANGED leased

\* _discard, and the leases of _pinned.
Refuse(problem) == copy' = [NoCopy EXCEPT !.pc = "refused", !.problem = problem] /\ leased' = {}

AfterPin(s) ==
    IF copy.todo = {s}
    THEN [copy EXCEPT !.pc = "copy", !.todo = {x \in Copies : copy.work.rows[x] # "none"}]
    ELSE [copy EXCEPT !.todo = @ \ {s}]

\* Mutant: the snapshots are not leased.
PinNothing(s) ==
    /\ copy.pc = "pin" /\ s \in copy.todo
    /\ IF live[s] \in Readable THEN copy' = AfterPin(s) /\ UNCHANGED leased ELSE Refuse(FALSE)

\* _pinned: one lease after the other; a snapshot that went since refuses the backup.
Pin(s) ==
    /\ copy.pc = "pin" /\ s \in copy.todo
    /\ IF live[s] \in Readable THEN copy' = AfterPin(s) /\ leased' = leased \cup {s}
       ELSE Refuse(FALSE)

\* The files, and the digest of what was copied.
CopyFiles(s) ==
    /\ copy.pc = "copy" /\ s \in copy.todo
    /\ copy' = [copy EXCEPT !.work.files[s] = disk[s], !.todo = @ \ {s},
                            !.problem = @ \/ disk[s] # "intact"]
    /\ UNCHANGED leased

\* The leases are given back; with a problem the backup is refused.
EndCopy ==
    /\ copy.pc \in {"pin", "copy"} /\ copy.todo = {}
    /\ IF copy.problem THEN Refuse(TRUE)
       ELSE copy' = [copy EXCEPT !.pc = "seal"] /\ leased' = {}

\* backup.json, and the rename; it fails over a directory that is not empty.
Seal ==
    /\ copy.pc = "seal"
    /\ IF archive = Nothing THEN archive' = copy.work /\ copy' = [NoCopy EXCEPT !.pc = "done"]
       ELSE copy' = [NoCopy EXCEPT !.pc = "refused"] /\ UNCHANGED archive
    /\ UNCHANGED leased

\* A copy may take longer than its leases last, or its process may die.
Expire(s) == s \in leased /\ leased' = leased \ {s} /\ BackupFault /\ UNCHANGED copy

CrashBackup == copy.pc \in {"pin", "copy", "seal"} /\ copy' = [NoCopy EXCEPT !.pc = "dead"]
               /\ leased' = {} /\ BackupFault

Back ==
    /\ \/ /\ \/ CopyCatalog \/ EndCopy
             \/ \E s \in Copies : Pin(s) \/ CopyFiles(s)
          /\ UNCHANGED <<archive, backupFaults>>
       \/ Seal /\ UNCHANGED backupFaults
       \/ ((\E s \in Copies : Expire(s)) \/ CrashBackup) /\ UNCHANGED archive
    /\ UNCHANGED <<live, pointer, disk, restored, target>>

----------------------------------------------------------------------------
(* The restore.                                                            *)

\* verify_backup finds nothing: the pointer names a committed row, every row can be read
\* and its files match its digest, in the catalog and in backup.json.
Verified(a) ==
    /\ a.kind = "archive" /\ a.manifest = "intact"
    /\ a.current # 0 => a.rows[a.current] = "committed"
    /\ \A s \in Copies : a.rows[s] # "none" => a.files[s] = "intact"

\* _refuse_existing, and the first verification.
VerifySource ==
    /\ restored.pc = "idle" /\ target = Nothing
    /\ restored' = [restored EXCEPT !.pc = IF Verified(archive) THEN "copy" ELSE "refused"]
    /\ UNCHANGED target

CopyBackup ==
    /\ restored.pc = "copy"
    /\ restored' = [pc |-> "check", work |-> archive]
    /\ UNCHANGED target

\* The second verification, then rmdir and rename: they fail over anything but nothing.
Place ==
    /\ restored.pc = "check"
    /\ LET ok == Verified(restored.work) /\ target = Nothing
       IN  /\ restored' = [pc |-> IF ok THEN "done" ELSE "refused", work |-> Nothing]
           /\ target' = IF ok THEN restored.work ELSE target

\* The backup or its copy is damaged; another process starts on one of the two roots.
DamageArchive ==
    /\ BackupFault /\ archive.kind = "archive"
    /\ \/ \E s \in Copies : archive.files[s] = "intact" /\ archive' = [archive EXCEPT !.files[s] = "damaged"]
       \/ archive' = [archive EXCEPT !.manifest = "damaged"]
    /\ UNCHANGED <<restored, target>>

Occupy ==
    /\ BackupFault /\ UNCHANGED restored
    /\ \/ archive = Nothing /\ archive' = Foreign /\ UNCHANGED target
       \/ target = Nothing /\ target' = Foreign /\ UNCHANGED archive

Restore ==
    /\ \/ (VerifySource \/ CopyBackup \/ Place) /\ UNCHANGED <<archive, backupFaults>>
       \/ DamageArchive \/ Occupy
    /\ UNCHANGED <<live, pointer, disk, leased, copy>>

BackupStep == InUse \/ Back \/ Restore

BackupSpec == BackupInit /\ [][BackupStep]_backupVars

----------------------------------------------------------------------------
\* The types of the rows, the files and both commands' locals.
BackupTypes ==
    LET places == [kind : {"none", "foreign"}]
                  \cup [kind : {"archive"}, rows : [Copies -> Readable \cup {"none"}],
                        current : Copies \cup {0}, files : [Copies -> {"none", "intact", "damaged"}],
                        manifest : {"intact", "damaged"}]
    IN  /\ live \in [Copies -> Readable \cup {"none", "validated", "retiring", "forgotten"}]
        /\ pointer \in Copies \cup {0} /\ leased \subseteq Copies
        /\ copy.work \in places /\ archive \in places /\ restored.work \in places /\ target \in places

\* What becomes a backup is whole, although the table was refreshed, collected or damaged
\* while it was copied: it verifies (backup, the digests of the copies).
BackupWhole == [][archive = Nothing /\ archive' \notin {Nothing, Foreign} => Verified(archive')]_backupVars

\* What becomes a warehouse again is whole, although the backup was damaged between its
\* verification and the end of the copying (restore, the second verify_backup).
RestoredWhole == target.kind = "archive" => Verified(target)

\* Once its snapshots are leased a backup goes through: without damage, an expired lease or
\* a quarantined row it finds no problem, whatever is collected beside it (_pinned).
PinnedCopied == copy.problem => backupFaults > 0

\* Neither command goes over what somebody else put in its place after it looked
\* (_refuse_existing, rename).
NothingOverwritten ==
    [][/\ archive = Foreign => archive' = Foreign
       /\ target = Foreign => target' = Foreign]_backupVars

\* What becomes a backup verifies, whatever was collected or damaged while it was copied,
\* and collection costs it nothing that it has leased; what is restored is whole although
\* the backup may be damaged while it is copied; neither goes over what another process put
\* in its place (warehouse/backup.py).
BackupsWhole ==
    /\ [](BackupTypes /\ RestoredWhole /\ PinnedCopied)
    /\ BackupWhole /\ NothingOverwritten
=============================================================================
