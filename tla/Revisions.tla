---------------------------- MODULE Revisions -----------------------------
(***************************************************************************)
(* Saved documents: one document's revisions and their audit, written by   *)
(* several processes.  A lock serialises the threads of a process only;    *)
(* between processes nothing is held from the reads to the insert (the     *)
(* SELECTs run outside a transaction), so the primary key and the unique   *)
(* index on the idempotency key decide.                                    *)
(***************************************************************************)
EXTENDS Naturals, FiniteSets

CONSTANTS Savers,       \* attempts to save, by clients served by different processes
          MaxRevision,   \* bound on the document's revisions
          MaxRetries     \* bound on repeated saves

ASSUME SaversAssumption ==
    /\ "none" \notin Savers
    /\ MaxRevision \in Nat /\ MaxRetries \in Nat

VARIABLES revisions,   \* the rows: [num, key, from]
          audit,       \* the audit rows, one per revision number
          client,      \* a client's request and its step in the store
          retries

revisionVars == <<revisions, audit, client, retries>>

Latest == IF revisions = {} THEN 0
          ELSE CHOOSE n \in {v.num : v \in revisions} : \A v \in revisions : v.num <= n

\* An attempt to save; the content itself decides nothing and is left out.
Quiet == [pc |-> "idle", expected |-> 0, key |-> "none", from |-> 0, seen |-> 0, answer |-> 0]

RevisionsInit ==
    /\ revisions = {} /\ audit = [n \in 1..MaxRevision |-> 0]
    /\ client = [c \in Savers |-> Quiet]
    /\ retries = 0

\* POST save or revert: the revision the client saw (any up to the latest), a key or
\* none, and for a revert the revision whose content is saved again.
Request(c) ==
    /\ client[c].pc = "idle"
    /\ \E e \in 0..Latest, k \in {c, "none"}, f \in 0..Latest :
         /\ f # 0 => k = "none"
         /\ client' = [client EXCEPT ![c] = [Quiet EXCEPT !.pc = "key", !.expected = e,
                                                          !.key = k, !.from = f]]
    /\ UNCHANGED <<revisions, audit, retries>>

Rows(k) == {v \in revisions : v.key = k}

\* Mutant: a repeated save is answered with the latest revision.
FindKeyLatest(c) ==
    LET q == client[c]
    IN  /\ q.pc = "key"
        /\ IF q.key # "none" /\ Rows(q.key) # {}
           THEN client' = [client EXCEPT ![c].pc = "done", ![c].answer = Latest]
           ELSE client' = [client EXCEPT ![c].pc = "latest"]
        /\ UNCHANGED <<revisions, audit, retries>>

\* The key was used before: the revision it made is the answer.
FindKey(c) ==
    LET q == client[c]
    IN  /\ q.pc = "key"
        /\ IF q.key # "none" /\ Rows(q.key) # {}
           THEN client' = [client EXCEPT ![c].pc = "done",
                             ![c].answer = (CHOOSE v \in Rows(q.key) : TRUE).num]
           ELSE client' = [client EXCEPT ![c].pc = "latest"]
        /\ UNCHANGED <<revisions, audit, retries>>

ReadLatest(c) ==
    /\ client[c].pc = "latest"
    /\ client' = [client EXCEPT ![c].pc = IF Latest = client[c].expected THEN "insert" ELSE "conflict",
                                ![c].seen = Latest]
    /\ UNCHANGED <<revisions, audit, retries>>

Row(c) == [num |-> client[c].seen + 1, key |-> client[c].key, from |-> client[c].from]

\* The primary key and the partial unique index.
Unique(row) ==
    \A v \in revisions : v.num # row.num /\ (row.key # "none" => v.key # row.key)

\* The revision and its audit row, one transaction; a row that breaks a constraint
\* raises, and the caller sees a server error.
Insert(c) ==
    /\ client[c].pc = "insert" /\ client[c].seen < MaxRevision
    /\ IF Unique(Row(c))
       THEN /\ revisions' = revisions \cup {Row(c)}
            /\ audit' = [audit EXCEPT ![Row(c).num] = @ + 1]
            /\ client' = [client EXCEPT ![c].pc = "done", ![c].answer = Row(c).num]
       ELSE /\ client' = [client EXCEPT ![c].pc = "failed"]
            /\ UNCHANGED <<revisions, audit>>
    /\ UNCHANGED retries

\* The answer is lost or an error: the client repeats its keyed save as it was, while
\* the first attempt may still be running in another process.
Retry(c) ==
    /\ retries < MaxRetries /\ retries' = retries + 1
    /\ client[c].key # "none" /\ client[c].pc \in {"failed", "done", "insert"}
    /\ \E d \in Savers :
         /\ client[d].pc = "idle"
         /\ client' = [client EXCEPT ![d] = [client[c] EXCEPT !.pc = "key", !.answer = 0]]
    /\ UNCHANGED <<revisions, audit>>

RevisionStep ==
    \E c \in Savers :
        Request(c) \/ FindKey(c) \/ ReadLatest(c) \/ Insert(c) \/ Retry(c)

RevisionsSpec == RevisionsInit /\ [][RevisionStep]_revisionVars

----------------------------------------------------------------------------
RevisionTypes ==
    /\ revisions \subseteq [num : 1..MaxRevision, key : Savers \cup {"none"},
                            from : 0..MaxRevision]
    /\ retries \in 0..MaxRetries

(***************************************************************************)
(* The history is one line: revision numbers have no gap and no duplicate, *)
(* each has exactly one audit row, and a revert names an earlier revision. *)
(***************************************************************************)
LinearHistory ==
    /\ {v.num : v \in revisions} = 1..Latest
    /\ Cardinality(revisions) = Latest
    /\ \A n \in 1..MaxRevision : audit[n] = (IF n <= Latest THEN 1 ELSE 0)
    /\ \A v \in revisions : v.from < v.num

(***************************************************************************)
(* A save that is repeated is applied once: one revision per key, and all  *)
(* attempts with the key are answered with its number.                     *)
(***************************************************************************)
SavedOnce ==
    \A k \in Savers :
        /\ Cardinality(Rows(k)) <= 1
        /\ \A c, d \in Savers :
             client[c].key = k /\ client[d].key = k /\ client[c].pc = "done"
               /\ client[d].pc = "done" => client[c].answer = client[d].answer

(***************************************************************************)
(* No lost update: a save adds the revision after the one its author saw.  *)
(***************************************************************************)
NoLostEdit ==
    \A c \in Savers : client[c].pc = "done" =>
        client[c].answer = client[c].expected + 1

(***************************************************************************)
(* Saves of one document by several processes are one history: its         *)
(* revisions are a line, each audited once, a repeated save is applied     *)
(* once and answered alike, and none goes over a revision its author had   *)
(* not seen (service/revisions.py).                                        *)
(***************************************************************************)
RevisionsSerial == RevisionTypes /\ LinearHistory /\ SavedOnce /\ NoLostEdit
=============================================================================
