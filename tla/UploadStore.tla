--------------------------- MODULE UploadStore ----------------------------
(***************************************************************************)
(* The upload store: a row per upload in SQLite, the payload in it or,     *)
(* from a size on, in a file beside the database.  put writes the file     *)
(* before the row, delete removes the row before the file, readers look up *)
(* the row and then open the file without a lock.                          *)
(***************************************************************************)
EXTENDS Naturals, FiniteSets

CONSTANTS Uploads,      \* upload ids, drawn at random and used once
          Owners,       \* stable owner ids
          Readers,      \* threads reading a payload
          MaxFaults     \* bound on crashes, failed commits, failed unlinks, damaged files

VARIABLES rows, blobs, put, del, read, uploadFaults

uploadVars == <<rows, blobs, put, del, read, uploadFaults>>

NoRow == [owner |-> "none", spilled |-> FALSE]

Idle == [pc |-> "idle", upload |-> "none", owner |-> "none", got |-> "none"]

UploadsInit ==
    /\ rows = [u \in Uploads |-> NoRow]
    /\ blobs = [u \in Uploads |-> "none"]      \* "none", "tmp", "file", "damaged"
    /\ put = [u \in Uploads |-> "new"]         \* what put has done for this id
    /\ del = [u \in Uploads |-> "none"]
    /\ read = [r \in Readers |-> Idle]
    /\ uploadFaults = 0

UploadFault == uploadFaults < MaxFaults /\ uploadFaults' = uploadFaults + 1

Stored(u) == rows[u] # NoRow

\* A payload below the spill threshold goes into the row.
PutInline(u, o) ==
    /\ put[u] = "new"
    /\ put' = [put EXCEPT ![u] = "done"]
    /\ rows' = [rows EXCEPT ![u] = [owner |-> o, spilled |-> FALSE]]
    /\ UNCHANGED <<blobs, del, read, uploadFaults>>

\* _write_blob: a temporary file, then a rename over the final name.
WriteBlob(u) ==
    /\ \/ put[u] = "new" /\ put' = [put EXCEPT ![u] = "writing"]
                         /\ blobs' = [blobs EXCEPT ![u] = "tmp"]
       \/ put[u] = "writing" /\ put' = [put EXCEPT ![u] = "written"]
                             /\ blobs' = [blobs EXCEPT ![u] = "file"]
    /\ UNCHANGED <<rows, del, read, uploadFaults>>

\* The row of a spilled payload.  An INSERT that raises removes the file; a commit that
\* raises, when the connection's block is left, does not.
InsertRow(u, o) ==
    /\ put[u] = "written"
    /\ \/ /\ put' = [put EXCEPT ![u] = "done"]
          /\ rows' = [rows EXCEPT ![u] = [owner |-> o, spilled |-> TRUE]]
          /\ UNCHANGED <<blobs, uploadFaults>>
       \/ /\ put' = [put EXCEPT ![u] = "refused"] /\ UploadFault
          /\ blobs' \in {blobs, [blobs EXCEPT ![u] = "none"]}
          /\ UNCHANGED rows
    /\ UNCHANGED <<del, read>>

\* delete by the owner: the row, in one transaction.
DeleteRow(u, o) ==
    /\ Stored(u) /\ rows[u].owner = o
    /\ rows' = [rows EXCEPT ![u] = NoRow]
    /\ del' = [del EXCEPT ![u] = IF rows[u].spilled THEN "unlink" ELSE "done"]
    /\ UNCHANGED <<blobs, put, read, uploadFaults>>

\* Then the file; an error is ignored.
Unlink(u) ==
    /\ del[u] = "unlink"
    /\ del' = [del EXCEPT ![u] = "done"]
    /\ \/ blobs' = [blobs EXCEPT ![u] = "none"] /\ UNCHANGED uploadFaults
       \/ UploadFault /\ UNCHANGED blobs
    /\ UNCHANGED <<rows, put, read>>

\* open_content: the row (with the payload itself when it is inline) ...
Lookup(r, u, o) ==
    /\ read[r].pc = "idle"
    /\ read' = [read EXCEPT ![r] =
          IF ~Stored(u) \/ rows[u].owner # o
          THEN [pc |-> "done", upload |-> u, owner |-> o, got |-> "missing"]
          ELSE IF rows[u].spilled
               THEN [pc |-> "open", upload |-> u, owner |-> o, got |-> "none"]
               ELSE [pc |-> "done", upload |-> u, owner |-> o, got |-> "content"]]
    /\ UNCHANGED <<rows, blobs, put, del, uploadFaults>>

\* Mutant: the recorded digest is not compared.
OpenUnchecked(r) ==
    /\ read[r].pc = "open"
    /\ read' = [read EXCEPT ![r].pc = "done",
          ![r].got = IF blobs[read[r].upload] = "none" THEN "corrupt" ELSE "content"]
    /\ UNCHANGED <<rows, blobs, put, del, uploadFaults>>

\* ... then the file, whose digest must be the recorded one.
Open(r) ==
    /\ read[r].pc = "open"
    /\ read' = [read EXCEPT ![r].pc = "done",
          ![r].got = IF blobs[read[r].upload] = "file" THEN "content" ELSE "corrupt"]
    /\ UNCHANGED <<rows, blobs, put, del, uploadFaults>>

Forget(r) ==
    /\ read[r].pc = "done"
    /\ read' = [read EXCEPT ![r] = Idle]
    /\ UNCHANGED <<rows, blobs, put, del, uploadFaults>>

\* A stored file is damaged on disk.
Damage(u) ==
    /\ blobs[u] = "file" /\ put[u] = "done" /\ UploadFault
    /\ blobs' = [blobs EXCEPT ![u] = "damaged"]
    /\ UNCHANGED <<rows, put, del, read>>

\* The process dies: a put or a delete that had not finished never does.
CrashStore ==
    /\ UploadFault
    /\ put' = [u \in Uploads |-> IF put[u] \in {"writing", "written"} THEN "lost" ELSE put[u]]
    /\ del' = [u \in Uploads |-> IF del[u] = "unlink" THEN "lost" ELSE del[u]]
    /\ read' = [r \in Readers |-> Idle]
    /\ UNCHANGED <<rows, blobs>>

UploadStep ==
    \/ \E u \in Uploads :
         \/ WriteBlob(u) \/ Unlink(u) \/ Damage(u)
         \/ \E o \in Owners : PutInline(u, o) \/ InsertRow(u, o) \/ DeleteRow(u, o)
    \/ \E r \in Readers :
         Open(r) \/ Forget(r) \/ \E u \in Uploads, o \in Owners : Lookup(r, u, o)
    \/ CrashStore

UploadsSpec == UploadsInit /\ [][UploadStep]_uploadVars

----------------------------------------------------------------------------
UploadTypes ==
    /\ rows \in [Uploads -> [owner : Owners \cup {"none"}, spilled : BOOLEAN]]
    /\ blobs \in [Uploads -> {"none", "tmp", "file", "damaged"}]
    /\ \A r \in Readers : read[r].got \in {"none", "missing", "content", "corrupt"}

(***************************************************************************)
(* A row never names a payload that is missing or half written, whatever   *)
(* crashes and concurrent deletes do (uploads/store.py, put and delete).   *)
(***************************************************************************)
RowHasPayload ==
    \A u \in Uploads : rows[u].spilled => blobs[u] \in {"file", "damaged"}

(***************************************************************************)
(* A reader is given a payload only in full and only as the owner who      *)
(* stored it; a damaged file, or one deleted since the lookup, is an error *)
(* and never data.                                                         *)
(***************************************************************************)
ReadsWhole ==
    [][\A r \in Readers :
          read'[r].got = "content" /\ read[r].pc = "open" =>
             blobs[read[r].upload] = "file"]_uploadVars

(***************************************************************************)
(* Without a crash, a failed commit or a failed unlink no payload is left  *)
(* on disk that no row names and no operation is about to remove.          *)
(***************************************************************************)
NoOrphanPayload ==
    uploadFaults = 0 => \A u \in Uploads :
        blobs[u] # "none" => \/ rows[u].spilled
                             \/ put[u] \in {"writing", "written"}
                             \/ del[u] = "unlink"

(***************************************************************************)
(* An upload's row never names a missing or half-written payload, without  *)
(* faults no payload is left that no row names, and a payload is read in   *)
(* full or not at all although delete and read hold no common lock         *)
(* (uploads/store.py).                                                     *)
(***************************************************************************)
UploadsWhole == [](UploadTypes /\ RowHasPayload /\ NoOrphanPayload) /\ ReadsWhole
=============================================================================
