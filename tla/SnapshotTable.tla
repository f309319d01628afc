---------------------------- MODULE SnapshotTable ----------------------------
(***************************************************************************)
(* What the warehouse promises the clients of one table, without files,    *)
(* passes or build steps: a pointer that moves atomically to a whole       *)
(* snapshot, and snapshots that stay readable while they are current,      *)
(* leased or held.  Warehouse implements it (Warehouse!ImplementsTable).   *)
(***************************************************************************)
EXTENDS Naturals

CONSTANTS Snapshots, Readers, Holds, None

VARIABLES
    pointer,   \* the snapshot "current" resolves to
    version,   \* how many times it moved
    readable,  \* snapshots whose recorded contents can be read
    leased,    \* the snapshot each reader's live lease names
    held       \* the snapshot each live hold names

vars == <<pointer, version, readable, leased, held>>

Init ==
    /\ pointer = None
    /\ version = 0
    /\ readable = {}
    /\ leased = [r \in Readers |-> None]
    /\ held = [h \in Holds |-> None]

\* A refresh: the new snapshot becomes readable and current in one step.
Refresh(s) ==
    /\ s \notin readable
    /\ pointer' = s
    /\ version' = version + 1
    /\ readable' = readable \cup {s}
    /\ UNCHANGED <<leased, held>>

\* Reclamation takes only what nobody can be using.
Reclaim(s) ==
    /\ s \in readable
    /\ s # pointer
    /\ \A r \in Readers : leased[r] # s
    /\ \A h \in Holds : held[h] # s
    /\ readable' = readable \ {s}
    /\ UNCHANGED <<pointer, version, leased, held>>

Lease(r) ==
    /\ \E s \in readable \cup {None} : leased' = [leased EXCEPT ![r] = s]
    /\ UNCHANGED <<pointer, version, readable, held>>

Hold(h) ==
    /\ \E s \in readable \cup {None} : held' = [held EXCEPT ![h] = s]
    /\ UNCHANGED <<pointer, version, readable, leased>>

Next ==
    \/ \E s \in Snapshots : Refresh(s) \/ Reclaim(s)
    \/ \E r \in Readers : Lease(r)
    \/ \E h \in Holds : Hold(h)

Spec == Init /\ [][Next]_vars

\* Whoever follows the pointer of a table that was refreshed, a lease or a hold finds a
\* whole snapshot.
Usable ==
    /\ version # 0 => pointer \in readable
    /\ \A r \in Readers : leased[r] # None => leased[r] \in readable
    /\ \A h \in Holds : held[h] # None => held[h] \in readable

\* Who sees one version twice saw one snapshot: the pointer moves with its version only.
VersionTells == [][version' >= version /\ (version' = version => pointer' = pointer)]_vars
=============================================================================
