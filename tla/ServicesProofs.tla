--------------------------- MODULE ServicesProofs ---------------------------
(***************************************************************************)
(* Theorems about six of the service's components, each on its own: the    *)
(* document revisions, the saved analyses, the upload store, the access    *)
(* rules, the build index and the backup, for every number of clients,     *)
(* documents, users, runs, snapshots and faults.                           *)
(***************************************************************************)
EXTENDS Revisions, Analyses, UploadStore, Access, RunIndex, Backup, FiniteSetTheorems, TLAPS

-----------------------------------------------------------------------------
(* Document revisions.                                                     *)

SavePcs == {"idle", "key", "latest", "insert", "done", "conflict", "failed"}
Attempts == [pc : SavePcs, expected : 0..MaxRevision, key : Savers \cup {"none"},
             from : 0..MaxRevision, seen : 0..MaxRevision, answer : 0..MaxRevision]

\* The revisions are a line of n, each audited once.
Line(n) ==
    /\ n \in 0..MaxRevision
    /\ {v.num : v \in revisions} = 1..n
    /\ IsFiniteSet(revisions) /\ Cardinality(revisions) = n
    /\ audit = [k \in 1..MaxRevision |-> IF k <= n THEN 1 ELSE 0]

\* What a client waits to write fits the line as it was when it looked.
Sees(n) ==
    \A c \in Savers :
        /\ client[c].expected <= n /\ client[c].from <= n
        /\ client[c].pc = "insert" => /\ client[c].seen = client[c].expected
                                      /\ client[c].from <= client[c].seen
        /\ client[c].pc = "idle" => client[c].key = "none"

\* A key is its first client's; whoever carries it repeats that client's save.
KeysOwned ==
    \A c \in Savers : client[c].key # "none" =>
        LET o == client[client[c].key]
        IN  o.key = client[c].key /\ o.expected = client[c].expected

\* A row with a key is that save's, and there is one; a finished save has its row.
RowsOwned ==
    /\ \A v \in revisions : v.key # "none" =>
          client[v.key].key = v.key /\ v.num = client[v.key].expected + 1
    /\ \A v, w \in revisions : v.key = w.key /\ v.key # "none" => v = w
    /\ \A v \in revisions : v.from < v.num
    /\ \A c \in Savers : client[c].pc = "done" =>
          /\ client[c].answer = client[c].expected + 1
          /\ client[c].key # "none" => \E v \in revisions :
                v.key = client[c].key /\ v.num = client[c].answer

VInv ==
    /\ RevisionTypes /\ client \in [Savers -> Attempts]
    /\ \E n \in 0..MaxRevision : Line(n) /\ Sees(n)
    /\ KeysOwned /\ RowsOwned

\* The latest revision is the line's end.
LEMMA LatestIsEnd ==
    ASSUME NEW n, Line(n) PROVE Latest = n
<1>1. n \in Nat /\ {v.num : v \in revisions} = 1..n
  BY SaversAssumption DEF Line
<1>2. CASE revisions = {}
  <2>1. 1..n = {}
    BY <1>1, <1>2
  <2>. QED BY <1>1, <1>2, <2>1 DEF Latest
<1>3. CASE revisions # {}
  <2>1. n \in 1..n
    BY <1>1, <1>3
  <2>2. \A m \in 1..n : (\A k \in 1..n : k <= m) => m = n
    BY <1>1, <2>1
  <2>3. Latest = CHOOSE m \in 1..n : \A v \in revisions : v.num <= m
    BY <1>1, <1>3 DEF Latest
  <2>4. \A m \in 1..n : (\A v \in revisions : v.num <= m) <=> (\A k \in 1..n : k <= m)
    BY <1>1
  <2>5. \E m \in 1..n : \A v \in revisions : v.num <= m
    BY <1>1, <2>1, <2>4
  <2>. QED BY <2>2, <2>3, <2>4, <2>5
<1>. QED BY <1>2, <1>3

\* The empty history is a line.
LEMMA SaveInit == RevisionsInit => VInv
<1> SUFFICES ASSUME RevisionsInit PROVE VInv
  OBVIOUS
<1>1. revisions = {} /\ retries = 0 /\ client = [c \in Savers |-> Quiet]
      /\ audit = [k \in 1..MaxRevision |-> 0]
  BY DEF RevisionsInit
<1>2. RevisionTypes
  BY <1>1, SaversAssumption DEF RevisionTypes
<1>3. Quiet \in Attempts
  BY SaversAssumption DEF Quiet, Attempts, SavePcs
<1>4. Line(0)
  <2>1. {v.num : v \in revisions} = {} /\ 1..0 = {}
    BY <1>1
  <2>2. \A k \in 1..MaxRevision : ~(k <= 0)
    BY SaversAssumption
  <2>3. audit = [k \in 1..MaxRevision |-> IF k <= 0 THEN 1 ELSE 0]
    BY <1>1, <2>2
  <2>. QED BY <1>1, <2>1, <2>3, FS_EmptySet, SaversAssumption DEF Line
<1>5. Sees(0)
  BY <1>1 DEF Sees, Quiet
<1>6. KeysOwned /\ RowsOwned
  BY <1>1 DEF KeysOwned, RowsOwned, Quiet
<1>. QED BY <1>1, <1>2, <1>3, <1>4, <1>5, <1>6, SaversAssumption DEF VInv

\* A step that leaves the rows alone and moves one client, keeping its request.
LEMMA SaveMoves ==
    ASSUME VInv, NEW c \in Savers, NEW a \in Attempts,
           UNCHANGED <<revisions, audit, retries>>, client' = [client EXCEPT ![c] = a],
           client[c].pc # "idle", a.pc # "idle",
           a.expected = client[c].expected, a.key = client[c].key, a.from = client[c].from,
           a.pc = "insert" => a.seen = a.expected /\ a.from <= a.seen,
           a.pc = "done" =>
               /\ a.answer = a.expected + 1
               /\ a.key # "none" => \E v \in revisions : v.key = a.key /\ v.num = a.answer
    PROVE  VInv'
<1>1. client \in [Savers -> Attempts] /\ client' \in [Savers -> Attempts] /\ client'[c] = a
      /\ \A d \in Savers \ {c} : client'[d] = client[d]
  BY DEF VInv
<1>2. RevisionTypes'
  BY DEF VInv, RevisionTypes
<1>3. PICK n \in 0..MaxRevision : Line(n) /\ Sees(n)
  BY DEF VInv
<1>4. Line(n)'
  BY <1>3 DEF Line
<1>5. Sees(n)'
  BY <1>1, <1>3 DEF Sees
<1>6. \A d \in Savers : client'[d].expected = client[d].expected /\ client'[d].key = client[d].key
  BY <1>1
<1>7. \A d \in Savers : client[d].key # "none" => client[d].key \in Savers
  BY <1>1 DEF Attempts
<1>8. KeysOwned'
  BY <1>6, <1>7 DEF KeysOwned, VInv
<1>9. \A v \in revisions : v.key # "none" => v.key \in Savers
  BY DEF VInv, RevisionTypes
<1>10. RowsOwned'
  <2>1. \A v \in revisions : v.key # "none" =>
           client'[v.key].key = v.key /\ v.num = client'[v.key].expected + 1
    BY <1>6, <1>9 DEF VInv, RowsOwned
  <2>2. ASSUME NEW d \in Savers, client'[d].pc = "done"
        PROVE  /\ client'[d].answer = client'[d].expected + 1
               /\ client'[d].key # "none" => \E v \in revisions :
                     v.key = client'[d].key /\ v.num = client'[d].answer
    BY <1>1, <2>2 DEF VInv, RowsOwned
  <2>. QED BY <2>1, <2>2 DEF VInv, RowsOwned
<1>. QED BY <1>1, <1>2, <1>4, <1>5, <1>8, <1>10 DEF VInv

\* The first step of a save fixes what the client saw; its key is its own.
LEMMA SaveRequest == ASSUME VInv, NEW c \in Savers, Request(c) PROVE VInv'
<1>1. client \in [Savers -> Attempts] /\ RevisionTypes /\ KeysOwned /\ RowsOwned
  BY DEF VInv
<1>2. PICK n \in 0..MaxRevision : Line(n) /\ Sees(n)
  BY DEF VInv
<1>3. Latest = n
  BY <1>2, LatestIsEnd
<1>4. PICK e \in 0..n, k \in {c, "none"}, f \in 0..n :
         /\ f # 0 => k = "none"
         /\ client' = [client EXCEPT ![c] = [Quiet EXCEPT !.pc = "key", !.expected = e,
                                                          !.key = k, !.from = f]]
  <2> DEFINE Asks(e, k, f) ==
               /\ f # 0 => k = "none"
               /\ client' = [client EXCEPT ![c] = [Quiet EXCEPT !.pc = "key", !.expected = e,
                                                                !.key = k, !.from = f]]
  <2>1. \E e \in 0..Latest, k \in {c, "none"}, f \in 0..Latest : Asks(e, k, f)
    BY DEF Request
  <2>2. \E e \in 0..n, k \in {c, "none"}, f \in 0..n : Asks(e, k, f)
    <3>. HIDE DEF Asks
    <3>. QED BY <1>3, <2>1
  <2>. QED BY <2>2
<1> DEFINE a == [Quiet EXCEPT !.pc = "key", !.expected = e, !.key = k, !.from = f]
<1>5. /\ a \in Attempts /\ a.pc = "key" /\ a.expected = e /\ a.key = k /\ a.from = f
  <2>1. a = [pc |-> "key", expected |-> e, key |-> k, from |-> f, seen |-> 0, answer |-> 0]
    <3> DEFINE x == [Quiet EXCEPT !.pc = "key"]
               y == [x EXCEPT !.expected = e]
               z == [y EXCEPT !.key = k]
    <3>1. x = [pc |-> "key", expected |-> 0, key |-> "none", from |-> 0, seen |-> 0, answer |-> 0]
      BY DEF Quiet
    <3>2. a = [z EXCEPT !.from = f]
      BY DEF Quiet
    <3> HIDE DEF x
    <3>3. y = [pc |-> "key", expected |-> e, key |-> "none", from |-> 0, seen |-> 0, answer |-> 0]
      BY <3>1
    <3> HIDE DEF y
    <3>4. z = [pc |-> "key", expected |-> e, key |-> k, from |-> 0, seen |-> 0, answer |-> 0]
      BY <3>3
    <3> HIDE DEF z, a
    <3>. QED BY <3>2, <3>4
  <2>2. "key" \in SavePcs /\ {e, f, 0} \subseteq 0..MaxRevision /\ k \in Savers \cup {"none"}
    BY SaversAssumption DEF SavePcs
  <2>. QED BY <2>1, <2>2 DEF Attempts
<1>6. /\ client' \in [Savers -> Attempts] /\ client'[c] = a
      /\ \A d \in Savers \ {c} : client'[d] = client[d]
      /\ client[c].pc = "idle" /\ UNCHANGED <<revisions, audit, retries>>
  BY <1>1, <1>4, <1>5 DEF Request
<1> HIDE DEF a
<1>7. client[c].key = "none"
  BY <1>2, <1>6 DEF Sees
<1>8. Line(n)' /\ RevisionTypes'
  BY <1>1, <1>2, <1>6 DEF Line, RevisionTypes
<1>9. Sees(n)'
  BY <1>2, <1>4, <1>5, <1>6, SaversAssumption DEF Sees
<1>10. \A d \in Savers : client[d].key # "none" => client[d].key \in Savers \ {c}
  BY <1>1, <1>7, SaversAssumption DEF KeysOwned, Attempts
<1>11. KeysOwned'
  BY <1>1, <1>4, <1>5, <1>6, <1>10, SaversAssumption DEF KeysOwned
<1>12. \A v \in revisions : v.key # "none" => v.key \in Savers \ {c}
  BY <1>1, <1>7, SaversAssumption DEF RevisionTypes, RowsOwned
<1>13. RowsOwned'
  <2>1. \A v \in revisions : v.key # "none" =>
           client'[v.key].key = v.key /\ v.num = client'[v.key].expected + 1
    BY <1>1, <1>6, <1>12 DEF RowsOwned
  <2>2. ASSUME NEW d \in Savers, client'[d].pc = "done"
        PROVE  d # c
    BY <1>5, <1>6, <2>2
  <2>. QED BY <1>1, <1>6, <2>1, <2>2 DEF RowsOwned
<1>. QED BY <1>6, <1>8, <1>9, <1>11, <1>13 DEF VInv

\* A key found is answered with its row.
LEMMA SaveFindKey == ASSUME VInv, NEW c \in Savers, FindKey(c) PROVE VInv'
<1>1. client \in [Savers -> Attempts] /\ RowsOwned /\ RevisionTypes /\ KeysOwned
      /\ client[c].pc = "key" /\ UNCHANGED <<revisions, audit, retries>>
  BY DEF VInv, FindKey
<1>2. client[c].key \in Savers \cup {"none"}
  BY <1>1 DEF Attempts
<1>3. CASE client[c].key # "none" /\ Rows(client[c].key) # {}
  <2> DEFINE v == CHOOSE w \in Rows(client[c].key) : TRUE
             a == [client[c] EXCEPT !.pc = "done", !.answer = v.num]
  <2>1. v \in revisions /\ v.key = client[c].key
    BY <1>3 DEF Rows
  <2>2. v.num = client[c].expected + 1 /\ v.num \in 0..MaxRevision
    BY <1>1, <1>3, <2>1, SaversAssumption DEF RowsOwned, KeysOwned, RevisionTypes
  <2>3. client' = [client EXCEPT ![c] = a]
    BY <1>1, <1>3 DEF FindKey
  <2> HIDE DEF v
  <2>4. a \in Attempts
    BY <1>1, <2>2 DEF Attempts, SavePcs
  <2>5. /\ a.pc = "done" /\ a.expected = client[c].expected /\ a.key = client[c].key
        /\ a.from = client[c].from /\ a.answer = v.num
    BY <1>1 DEF Attempts
  <2> HIDE DEF a
  <2>. QED BY <1>1, <2>1, <2>2, <2>3, <2>4, <2>5, SaveMoves
<1>4. CASE ~(client[c].key # "none" /\ Rows(client[c].key) # {})
  <2> DEFINE a == [client[c] EXCEPT !.pc = "latest"]
  <2>1. client' = [client EXCEPT ![c] = a]
    BY <1>1, <1>4 DEF FindKey
  <2>2. /\ a \in Attempts /\ a.pc = "latest" /\ a.expected = client[c].expected
        /\ a.key = client[c].key /\ a.from = client[c].from
    BY <1>1 DEF Attempts, SavePcs
  <2> HIDE DEF a
  <2>. QED BY <1>1, <2>1, <2>2, SaveMoves
<1>. QED BY <1>3, <1>4

\* The client goes on only if the latest revision is the one it saw.
LEMMA SaveReadLatest == ASSUME VInv, NEW c \in Savers, ReadLatest(c) PROVE VInv'
<1>1. client \in [Savers -> Attempts] /\ client[c].pc = "latest"
      /\ UNCHANGED <<revisions, audit, retries>>
  BY DEF VInv, ReadLatest
<1>2. PICK n \in 0..MaxRevision : Line(n) /\ Sees(n)
  BY DEF VInv
<1>3. Latest = n /\ client[c].from <= n
  BY <1>2, LatestIsEnd DEF Sees
<1> DEFINE p == IF n = client[c].expected THEN "insert" ELSE "conflict"
           a == [client[c] EXCEPT !.pc = p, !.seen = n]
<1>4. client' = [client EXCEPT ![c] = a]
  BY <1>1, <1>3 DEF ReadLatest
<1>5. /\ a \in Attempts /\ a.pc = p /\ a.expected = client[c].expected
      /\ a.key = client[c].key /\ a.from = client[c].from /\ a.seen = n
  BY <1>1 DEF Attempts, SavePcs
<1>6. p \in {"insert", "conflict"} /\ (p = "insert" => n = client[c].expected)
  OBVIOUS
<1> HIDE DEF a, p
<1>. QED BY <1>1, <1>3, <1>4, <1>5, <1>6, SaveMoves
\* The row that fits the constraints continues the line.
LEMMA SaveInsert == ASSUME VInv, NEW c \in Savers, Insert(c) PROVE VInv'
<1>1. /\ client \in [Savers -> Attempts] /\ RevisionTypes /\ KeysOwned /\ RowsOwned
      /\ client[c].pc = "insert" /\ client[c].seen < MaxRevision /\ UNCHANGED retries
  BY DEF VInv, Insert
<1>2. PICK n \in 0..MaxRevision : Line(n) /\ Sees(n)
  BY DEF VInv
<1>3. /\ client[c].seen = client[c].expected /\ client[c].from <= client[c].seen
      /\ client[c].seen <= n
  BY <1>1, <1>2 DEF Sees
<1>4. /\ client[c].seen \in 0..MaxRevision /\ client[c].from \in 0..MaxRevision
      /\ client[c].key \in Savers \cup {"none"}
  BY <1>1 DEF Attempts
<1>5. CASE ~Unique(Row(c))
  <2> DEFINE a == [client[c] EXCEPT !.pc = "failed"]
  <2>1. client' = [client EXCEPT ![c] = a] /\ UNCHANGED <<revisions, audit, retries>>
    BY <1>1, <1>5 DEF Insert
  <2>2. /\ a \in Attempts /\ a.pc = "failed" /\ a.expected = client[c].expected
        /\ a.key = client[c].key /\ a.from = client[c].from
    BY <1>1 DEF Attempts, SavePcs
  <2> HIDE DEF a
  <2>. QED BY <1>1, <2>1, <2>2, SaveMoves
<1>6. CASE Unique(Row(c))
  <2> DEFINE r == Row(c)
             a == [client[c] EXCEPT !.pc = "done", !.answer = r.num]
  <2>1. /\ r.num = client[c].seen + 1 /\ r.key = client[c].key /\ r.from = client[c].from
        /\ r \in [num : 1..MaxRevision, key : Savers \cup {"none"}, from : 0..MaxRevision]
    BY <1>1, <1>4, SaversAssumption DEF Row
  <2>2. /\ revisions' = revisions \cup {r} /\ audit' = [audit EXCEPT ![r.num] = @ + 1]
        /\ client' = [client EXCEPT ![c] = a]
        /\ \A v \in revisions : v.num # r.num /\ (r.key # "none" => v.key # r.key)
    BY <1>1, <1>6 DEF Insert, Unique
  <2> HIDE DEF r
  <2>3. /\ a \in Attempts /\ a.pc = "done" /\ a.expected = client[c].expected
        /\ a.key = client[c].key /\ a.from = client[c].from /\ a.answer = r.num
    <3>1. client[c] \in Attempts /\ "done" \in SavePcs /\ r.num \in 0..MaxRevision
      BY <1>1, <2>1, SaversAssumption DEF SavePcs
    <3> DEFINE y == [client[c] EXCEPT !.pc = "done"]
    <3>2. /\ y \in Attempts /\ y.pc = "done" /\ y.expected = client[c].expected
          /\ y.key = client[c].key /\ y.from = client[c].from
      BY <3>1 DEF Attempts
    <3>3. a = [y EXCEPT !.answer = r.num]
      OBVIOUS
    <3> HIDE DEF y, a
    <3>. QED BY <3>1, <3>2, <3>3 DEF Attempts
  <2> HIDE DEF a
  <2>4. client' \in [Savers -> Attempts] /\ client'[c] = a
        /\ \A d \in Savers \ {c} : client'[d] = client[d]
    BY <1>1, <2>2, <2>3
  <2>5. r.num = n + 1 /\ n + 1 \in 1..MaxRevision
    <3>1. {v.num : v \in revisions} = 1..n
      BY <1>2 DEF Line
    <3>2. r.num \notin 1..n
      BY <2>2, <3>1
    <3>. QED BY <1>3, <1>4, <2>1, <3>2, SaversAssumption
  <2>6. RevisionTypes'
    BY <1>1, <2>1, <2>2 DEF RevisionTypes
  <2>7. Line(n + 1)'
    <3>1. {v.num : v \in revisions'} = 1..(n + 1)
      <4>1. {v.num : v \in revisions'} = {v.num : v \in revisions} \cup {n + 1}
        BY <2>2, <2>5
      <4>2. {v.num : v \in revisions} = 1..n
        BY <1>2 DEF Line
      <4>3. n \in Nat
        BY <1>2, SaversAssumption DEF Line
      <4>4. (1..n) \cup {n + 1} = 1..(n + 1)
        BY <4>3
      <4>. QED BY <4>1, <4>2, <4>4
    <3>2. IsFiniteSet(revisions') /\ Cardinality(revisions') = n + 1
      BY <1>2, <2>2, FS_AddElement DEF Line
    <3>3. audit' = [k \in 1..MaxRevision |-> IF k <= n + 1 THEN 1 ELSE 0]
      <4>1. audit = [k \in 1..MaxRevision |-> IF k <= n THEN 1 ELSE 0]
        BY <1>2 DEF Line
      <4>2. \A k \in 1..MaxRevision : k <= n + 1 <=> k <= n \/ k = n + 1
        BY SaversAssumption
      <4>3. audit' = [k \in 1..MaxRevision |-> IF k = n + 1 THEN audit[k] + 1 ELSE audit[k]]
        BY <2>2, <2>5, <4>1
      <4>4. ~(n + 1 <= n)
        BY <2>5
      <4>. QED BY <2>5, <4>1, <4>2, <4>3, <4>4
    <3>. QED BY <2>5, <3>1, <3>2, <3>3 DEF Line
  <2>8. Sees(n + 1)'
    <3> SUFFICES ASSUME NEW d \in Savers
                 PROVE  /\ client'[d].expected <= n + 1 /\ client'[d].from <= n + 1
                        /\ client'[d].pc = "insert" => /\ client'[d].seen = client'[d].expected
                                                       /\ client'[d].from <= client'[d].seen
                        /\ client'[d].pc = "idle" => client'[d].key = "none"
      BY DEF Sees
    <3>1. client[d].expected \in 0..n /\ client[d].from \in 0..n
      BY <1>1, <1>2 DEF Sees, Attempts
    <3>2. client'[d].expected = client[d].expected /\ client'[d].from = client[d].from
      BY <2>3, <2>4
    <3>3. d # c => client'[d] = client[d]
      BY <2>4
    <3>. QED BY <1>2, <2>3, <2>4, <3>1, <3>2, <3>3 DEF Sees
  <2>9. \A d \in Savers : client'[d].expected = client[d].expected /\ client'[d].key = client[d].key
    BY <2>3, <2>4
  <2>10. \A d \in Savers : client[d].key # "none" => client[d].key \in Savers
    BY <1>1 DEF Attempts
  <2>11. KeysOwned'
    BY <1>1, <2>9, <2>10 DEF KeysOwned
  <2>12. \A v \in revisions' : v.key # "none" => v.key \in Savers
    BY <2>6 DEF RevisionTypes
  <2>13. RowsOwned'
    <3>1. ASSUME NEW v \in revisions', v.key # "none"
          PROVE  client'[v.key].key = v.key /\ v.num = client'[v.key].expected + 1
      <4>1. CASE v = r
        BY <1>1, <1>3, <2>1, <2>9, <2>12, <3>1, <4>1 DEF KeysOwned
      <4>2. CASE v \in revisions
        BY <1>1, <2>9, <2>12, <3>1, <4>2 DEF RowsOwned
      <4>. QED BY <2>2, <4>1, <4>2
    <3>2. \A v, w \in revisions' : v.key = w.key /\ v.key # "none" => v = w
      BY <1>1, <2>2 DEF RowsOwned
    <3>3. \A v \in revisions' : v.from < v.num
      BY <1>1, <1>3, <1>4, <2>1, <2>2 DEF RowsOwned
    <3>4. ASSUME NEW d \in Savers, client'[d].pc = "done"
          PROVE  /\ client'[d].answer = client'[d].expected + 1
                 /\ client'[d].key # "none" => \E v \in revisions' :
                       v.key = client'[d].key /\ v.num = client'[d].answer
      <4>1. CASE d = c
        BY <1>3, <2>1, <2>2, <2>3, <2>4, <4>1
      <4>2. CASE d # c
        BY <1>1, <2>2, <2>4, <3>4, <4>2 DEF RowsOwned
      <4>. QED BY <4>1, <4>2
    <3>. QED BY <3>1, <3>2, <3>3, <3>4 DEF RowsOwned
  <2>. QED BY <2>4, <2>5, <2>6, <2>7, <2>8, <2>11, <2>13, SaversAssumption DEF VInv
<1>. QED BY <1>5, <1>6

\* A repeated save carries the first one's request.
LEMMA SaveRetry == ASSUME VInv, NEW c \in Savers, Retry(c) PROVE VInv'
<1>1. /\ client \in [Savers -> Attempts] /\ RevisionTypes /\ KeysOwned /\ RowsOwned
      /\ retries < MaxRetries /\ retries' = retries + 1
      /\ client[c].key # "none" /\ UNCHANGED <<revisions, audit>>
  BY DEF VInv, Retry
<1>2. PICK n \in 0..MaxRevision : Line(n) /\ Sees(n)
  BY DEF VInv
<1>3. PICK d \in Savers :
         /\ client[d].pc = "idle"
         /\ client' = [client EXCEPT ![d] = [client[c] EXCEPT !.pc = "key", !.answer = 0]]
  BY DEF Retry
<1> DEFINE a == [client[c] EXCEPT !.pc = "key", !.answer = 0]
<1>4. /\ a \in Attempts /\ a.pc = "key" /\ a.expected = client[c].expected
      /\ a.key = client[c].key /\ a.from = client[c].from
  <2>1. client[c] \in Attempts /\ "key" \in SavePcs /\ 0 \in 0..MaxRevision
    BY <1>1, SaversAssumption DEF SavePcs
  <2> DEFINE y == [client[c] EXCEPT !.pc = "key"]
  <2>2. /\ y \in Attempts /\ y.pc = "key" /\ y.expected = client[c].expected
        /\ y.key = client[c].key /\ y.from = client[c].from
    BY <2>1 DEF Attempts
  <2>3. a = [y EXCEPT !.answer = 0]
    OBVIOUS
  <2> HIDE DEF y, a
  <2>. QED BY <2>1, <2>2, <2>3 DEF Attempts
<1>5. client' \in [Savers -> Attempts] /\ client'[d] = a
      /\ \A e \in Savers \ {d} : client'[e] = client[e]
  BY <1>1, <1>3, <1>4
<1> HIDE DEF a
<1>6. client[d].key = "none"
  BY <1>2, <1>3 DEF Sees
<1>7. Line(n)' /\ RevisionTypes'
  BY <1>1, <1>2, SaversAssumption DEF Line, RevisionTypes
<1>8. Sees(n)'
  BY <1>2, <1>4, <1>5 DEF Sees
<1>9. \A e \in Savers : client[e].key # "none" => client[e].key \in Savers \ {d}
  BY <1>1, <1>6, SaversAssumption DEF KeysOwned, Attempts
<1>10. KeysOwned'
  BY <1>1, <1>4, <1>5, <1>9 DEF KeysOwned
<1>11. \A v \in revisions : v.key # "none" => v.key \in Savers \ {d}
  BY <1>1, <1>6, SaversAssumption DEF RevisionTypes, RowsOwned
<1>12. RowsOwned'
  <2>1. \A v \in revisions : v.key # "none" =>
           client'[v.key].key = v.key /\ v.num = client'[v.key].expected + 1
    BY <1>1, <1>5, <1>11 DEF RowsOwned
  <2>2. ASSUME NEW e \in Savers, client'[e].pc = "done"
        PROVE  e # d
    BY <1>4, <1>5, <2>2
  <2>. QED BY <1>1, <1>5, <2>1, <2>2 DEF RowsOwned
<1>. QED BY <1>5, <1>7, <1>8, <1>10, <1>12 DEF VInv

\* Every step of a client keeps the line.
LEMMA SaveStep == VInv /\ [RevisionStep]_revisionVars => VInv'
<1> SUFFICES ASSUME VInv, [RevisionStep]_revisionVars PROVE VInv'
  OBVIOUS
<1>1. CASE RevisionStep
  BY <1>1, SaveRequest, SaveFindKey, SaveReadLatest, SaveInsert, SaveRetry DEF RevisionStep
<1>2. CASE UNCHANGED revisionVars
  BY <1>2 DEF revisionVars, VInv, RevisionTypes, Line, Sees, KeysOwned, RowsOwned
<1>. QED BY <1>1, <1>2

\* The history of a document stays one line whatever its writers' processes and repeats
\* do: no revision twice, each audited once, a repeated save answered with the revision it
\* made, no save over a revision its author had not seen (RevisionStore.save).
THEOREM HistoriesSerial == RevisionsSpec => []RevisionsSerial
<1>1. RevisionsSpec => []VInv
  BY SaveInit, SaveStep, PTL DEF RevisionsSpec
<1>2. VInv => RevisionsSerial
  <2> SUFFICES ASSUME VInv PROVE RevisionsSerial
    OBVIOUS
  <2>1. client \in [Savers -> Attempts] /\ RevisionTypes /\ KeysOwned /\ RowsOwned
    BY DEF VInv
  <2>2. PICK n \in 0..MaxRevision : Line(n) /\ Sees(n)
    BY DEF VInv
  <2>3. LinearHistory
    <3>1. Latest = n
      BY <2>2, LatestIsEnd
    <3>2. \A k \in 1..MaxRevision : audit[k] = (IF k <= n THEN 1 ELSE 0)
      BY <2>2 DEF Line
    <3>. QED BY <2>1, <2>2, <3>1, <3>2 DEF LinearHistory, Line, RowsOwned
  <2>4. SavedOnce
    <3> SUFFICES ASSUME NEW k \in Savers
                 PROVE  /\ Cardinality(Rows(k)) <= 1
                        /\ \A c, d \in Savers :
                             client[c].key = k /\ client[d].key = k /\ client[c].pc = "done"
                               /\ client[d].pc = "done" => client[c].answer = client[d].answer
      BY DEF SavedOnce
    <3>1. k # "none"
      BY SaversAssumption
    <3>2. \A v, w \in Rows(k) : v = w
      BY <2>1, <3>1 DEF Rows, RowsOwned
    <3>3. Cardinality(Rows(k)) <= 1
      <4>1. CASE Rows(k) = {}
        BY <4>1, FS_EmptySet
      <4>2. CASE Rows(k) # {}
        <5>1. PICK v \in Rows(k) : TRUE
          BY <4>2
        <5>2. Rows(k) = {v}
          BY <3>2, <5>1
        <5>. QED BY <5>2, FS_Singleton
      <4>. QED BY <4>1, <4>2
    <3>. QED BY <2>1, <3>1, <3>3 DEF KeysOwned, RowsOwned
  <2>5. NoLostEdit
    BY <2>1 DEF NoLostEdit, RowsOwned
  <2>. QED BY <2>1, <2>3, <2>4, <2>5 DEF RevisionsSerial
<1>. QED BY <1>1, <1>2, PTL
-----------------------------------------------------------------------------
(* Saved analyses.                                                         *)

StepPcs == {"new", "hold", "store", "done", "release", "over", "lost"}
Steps == [pc : StepPcs, snap : 0..2]

ATyped ==
    /\ AnalysisTypes
    /\ step \in [Ids -> Steps]
    /\ reruns \in [Ids -> {"none", "pin", "ok", "gone"}]
    /\ analysisFaults \in Nat

\* Collection spares what is pinned or held.
Spared == \A x \in pinned \cup holds : x[2] \in present

\* A hold is on the snapshot its analysis was made on.
HoldsOwn ==
    \A x \in holds : x[2] = step[x[1]].snap /\ step[x[1]].pc \notin {"new", "hold"}

\* An analysis pins its snapshot until it is held, and holds it while it is stored.
Secured ==
    \A a \in Ids :
        /\ step[a].pc = "hold" => <<a, step[a].snap>> \in pinned
        /\ step[a].pc = "store" => <<a, step[a].snap>> \in holds
        /\ saved[a] # 0 => /\ step[a].pc = "done" /\ saved[a] = step[a].snap
                           /\ <<a, step[a].snap>> \in holds
        /\ reruns[a] # "none" => step[a].pc \in {"done", "release", "over", "lost"}
        /\ reruns[a] = "gone" => saved[a] = 0

AInv == ATyped /\ Spared /\ HoldsOwn /\ Secured /\ NoOrphanHold

\* No analysis, no hold.
LEMMA AnalysisInit == AnalysesInit => AInv
<1> SUFFICES ASSUME AnalysesInit PROVE AInv
  OBVIOUS
<1>1. ATyped
  BY DEF AnalysesInit, ATyped, AnalysisTypes, Snapshots, Steps, StepPcs
<1>2. Spared /\ HoldsOwn /\ NoOrphanHold
  BY DEF AnalysesInit, Spared, HoldsOwn, NoOrphanHold
<1>3. Secured
  BY DEF AnalysesInit, Secured
<1>. QED BY <1>1, <1>2, <1>3 DEF AInv

\* What Advance does.
LEMMA AdvanceEffect ==
    ASSUME step \in [Ids -> Steps], NEW a \in Ids, NEW p \in StepPcs, Advance(a, p)
    PROVE  /\ step' \in [Ids -> Steps] /\ step'[a].pc = p /\ step'[a].snap = step[a].snap
           /\ \A b \in Ids \ {a} : step'[b] = step[b]
  BY DEF Advance, Steps

\* Every step of an analysis keeps the invariant.
LEMMA AnalysisStepKeeps ==
    ASSUME AInv, NEW a \in Ids,
           \/ RunQuery(a) \/ PlaceHold(a) \/ Store(a) \/ Delete(a) \/ Release(a)
           \/ ReadRow(a) \/ Rerun(a)
    PROVE  AInv'
<1>1. /\ step \in [Ids -> Steps] /\ current \in Snapshots /\ present \subseteq Snapshots
      /\ pinned \subseteq Ids \X Snapshots /\ holds \subseteq Ids \X Snapshots
      /\ saved \in [Ids -> 0..2] /\ reruns \in [Ids -> {"none", "pin", "ok", "gone"}]
      /\ analysisFaults \in Nat /\ Spared /\ HoldsOwn /\ Secured /\ NoOrphanHold
  BY DEF AInv, ATyped, AnalysisTypes
<1>2. Snapshots = {1, 2} /\ Snapshots \subseteq 0..2 /\ 0 \notin Snapshots
  BY DEF Snapshots
<1>3. \A p \in StepPcs : Advance(a, p) =>
         /\ step' \in [Ids -> Steps] /\ step'[a].pc = p /\ step'[a].snap = step[a].snap
         /\ \A b \in Ids \ {a} : step'[b] = step[b]
  BY <1>1, AdvanceEffect
<1>4. StepPcs = {"new", "hold", "store", "done", "release", "over", "lost"}
  BY DEF StepPcs
<1>5. AnalysisFault => analysisFaults' \in Nat /\ analysisFaults' # 0
  BY <1>1 DEF AnalysisFault
<1>6. CASE RunQuery(a)
  <2>1. PICK s \in present :
           /\ step[a].pc = "new" /\ pinned' = pinned \cup {<<a, s>>}
           /\ step' = [step EXCEPT ![a] = [pc |-> "hold", snap |-> s]]
           /\ UNCHANGED <<current, present, holds, saved, reruns, analysisFaults>>
    BY <1>6 DEF RunQuery
  <2>2. [pc |-> "hold", snap |-> s] \in Steps
    BY <1>1, <1>2, <2>1 DEF Steps, StepPcs
  <2>3. step' \in [Ids -> Steps] /\ step'[a].pc = "hold" /\ step'[a].snap = s
        /\ \A b \in Ids \ {a} : step'[b] = step[b]
    BY <1>1, <2>1, <2>2
  <2>4. ATyped'
    BY <1>1, <2>1, <2>3 DEF ATyped, AnalysisTypes
  <2>5. Spared'
    BY <1>1, <2>1 DEF Spared
  <2>6. \A x \in holds : x[1] \in Ids \ {a}
    BY <1>1, <2>1 DEF HoldsOwn
  <2>7. HoldsOwn' /\ NoOrphanHold'
    BY <1>1, <2>1, <2>3, <2>6 DEF HoldsOwn, NoOrphanHold
  <2>8. Secured'
    <3> SUFFICES ASSUME NEW b \in Ids
                 PROVE  /\ step'[b].pc = "hold" => <<b, step'[b].snap>> \in pinned'
                        /\ step'[b].pc = "store" => <<b, step'[b].snap>> \in holds'
                        /\ saved'[b] # 0 => /\ step'[b].pc = "done" /\ saved'[b] = step'[b].snap
                                            /\ <<b, step'[b].snap>> \in holds'
                        /\ reruns'[b] # "none" => step'[b].pc \in {"done", "release", "over", "lost"}
                        /\ reruns'[b] = "gone" => saved'[b] = 0
      BY DEF Secured
    <3>1. CASE b = a
      BY <1>1, <2>1, <2>3, <3>1 DEF Secured
    <3>2. CASE b # a
      BY <1>1, <2>1, <2>3, <3>2 DEF Secured
    <3>. QED BY <3>1, <3>2
  <2>. QED BY <2>4, <2>5, <2>7, <2>8 DEF AInv
<1>7. CASE PlaceHold(a)
  <2>1. /\ step[a].pc = "hold" /\ pinned' = pinned \ {<<a, step[a].snap>>}
        /\ UNCHANGED <<current, present, saved, reruns>>
        /\ \/ holds' = holds \cup {<<a, step[a].snap>>} /\ Advance(a, "store") /\ UNCHANGED analysisFaults
           \/ UNCHANGED holds /\ Advance(a, "done") /\ AnalysisFault
    BY <1>7 DEF PlaceHold
  <2>2. <<a, step[a].snap>> \in pinned /\ <<a, step[a].snap>> \in Ids \X Snapshots
    BY <1>1, <2>1 DEF Secured
  <2>3. step' \in [Ids -> Steps] /\ step'[a].pc \in {"store", "done"} /\ step'[a].snap = step[a].snap
        /\ \A b \in Ids \ {a} : step'[b] = step[b]
    BY <1>3, <1>4, <2>1
  <2>4. /\ step'[a].pc = "store" => holds' = holds \cup {<<a, step[a].snap>>}
        /\ step'[a].pc = "done" => holds' = holds /\ analysisFaults' # 0
        /\ analysisFaults' \in Nat
    BY <1>1, <1>3, <1>4, <1>5, <2>1
  <2>5. ATyped'
    BY <1>1, <2>1, <2>2, <2>3, <2>4 DEF ATyped, AnalysisTypes
  <2>6. Spared'
    BY <1>1, <2>1, <2>2, <2>3, <2>4 DEF Spared
  <2>7. \A x \in holds : x[1] \in Ids \ {a}
    BY <1>1, <2>1 DEF HoldsOwn
  <2>8. HoldsOwn'
    BY <1>1, <2>3, <2>4, <2>7 DEF HoldsOwn
  <2>9. NoOrphanHold'
    <3> SUFFICES ASSUME analysisFaults' = 0, NEW x \in holds'
                 PROVE  saved'[x[1]] = x[2] \/ step'[x[1]].pc \in {"store", "release"}
      BY DEF NoOrphanHold
    <3>1. step'[a].pc = "store" /\ analysisFaults = 0
      BY <2>1, <2>3, <2>4, <1>5, <1>3, <1>4
    <3>2. CASE x = <<a, step[a].snap>>
      BY <3>1, <3>2
    <3>3. CASE x \in holds
      BY <1>1, <2>1, <2>3, <2>7, <3>1, <3>3 DEF NoOrphanHold
    <3>. QED BY <2>4, <3>1, <3>2, <3>3
  <2>10. Secured'
    <3> SUFFICES ASSUME NEW b \in Ids
                 PROVE  /\ step'[b].pc = "hold" => <<b, step'[b].snap>> \in pinned'
                        /\ step'[b].pc = "store" => <<b, step'[b].snap>> \in holds'
                        /\ saved'[b] # 0 => /\ step'[b].pc = "done" /\ saved'[b] = step'[b].snap
                                            /\ <<b, step'[b].snap>> \in holds'
                        /\ reruns'[b] # "none" => step'[b].pc \in {"done", "release", "over", "lost"}
                        /\ reruns'[b] = "gone" => saved'[b] = 0
      BY DEF Secured
    <3>1. CASE b = a
      BY <1>1, <2>1, <2>3, <2>4, <3>1 DEF Secured
    <3>2. CASE b # a
      <4>1. \A s : <<b, s>> # <<a, step[a].snap>>
        BY <3>2
      <4>2. holds \subseteq holds'
        BY <2>3, <2>4
      <4>. QED BY <1>1, <2>1, <2>3, <3>2, <4>1, <4>2 DEF Secured
    <3>. QED BY <3>1, <3>2
  <2>. QED BY <2>5, <2>6, <2>8, <2>9, <2>10 DEF AInv
<1>8. CASE Store(a)
  <2>1. /\ step[a].pc = "store" /\ UNCHANGED <<current, present, pinned, holds, reruns>>
        /\ \/ saved' = [saved EXCEPT ![a] = step[a].snap] /\ Advance(a, "done") /\ UNCHANGED analysisFaults
           \/ UNCHANGED saved /\ Advance(a, "release") /\ AnalysisFault
    BY <1>8 DEF Store
  <2>2. <<a, step[a].snap>> \in holds /\ step[a].snap \in Snapshots /\ saved[a] = 0
        /\ reruns[a] = "none"
    BY <1>1, <2>1 DEF Secured
  <2>3. step' \in [Ids -> Steps] /\ step'[a].pc \in {"done", "release"} /\ step'[a].snap = step[a].snap
        /\ \A b \in Ids \ {a} : step'[b] = step[b]
    BY <1>3, <1>4, <2>1
  <2>4. /\ step'[a].pc = "done" => saved' = [saved EXCEPT ![a] = step[a].snap] /\ analysisFaults' = analysisFaults
        /\ step'[a].pc = "release" => saved' = saved /\ analysisFaults' # 0
        /\ analysisFaults' \in Nat
    BY <1>1, <1>3, <1>4, <1>5, <2>1
  <2>5. saved' \in [Ids -> 0..2] /\ (\A b \in Ids \ {a} : saved'[b] = saved[b])
        /\ (step'[a].pc = "done" => saved'[a] = step[a].snap)
    BY <1>1, <1>2, <2>2, <2>3, <2>4
  <2>6. ATyped' /\ Spared'
    BY <1>1, <2>1, <2>3, <2>4, <2>5 DEF ATyped, AnalysisTypes, Spared
  <2>7. HoldsOwn'
    BY <1>1, <2>1, <2>3 DEF HoldsOwn
  <2>8. NoOrphanHold'
    <3> SUFFICES ASSUME analysisFaults' = 0, NEW x \in holds
                 PROVE  saved'[x[1]] = x[2] \/ step'[x[1]].pc \in {"store", "release"}
      BY <2>1 DEF NoOrphanHold
    <3>1. x[1] \in Ids
      BY <1>1
    <3>2. CASE x[1] = a
      BY <1>1, <2>3, <2>4, <2>5, <3>2 DEF HoldsOwn
    <3>3. CASE x[1] # a
      BY <1>1, <2>3, <2>4, <2>5, <3>1, <3>3 DEF NoOrphanHold
    <3>. QED BY <3>2, <3>3
  <2>9. Secured'
    <3> SUFFICES ASSUME NEW b \in Ids
                 PROVE  /\ step'[b].pc = "hold" => <<b, step'[b].snap>> \in pinned'
                        /\ step'[b].pc = "store" => <<b, step'[b].snap>> \in holds'
                        /\ saved'[b] # 0 => /\ step'[b].pc = "done" /\ saved'[b] = step'[b].snap
                                            /\ <<b, step'[b].snap>> \in holds'
                        /\ reruns'[b] # "none" => step'[b].pc \in {"done", "release", "over", "lost"}
                        /\ reruns'[b] = "gone" => saved'[b] = 0
      BY DEF Secured
    <3>1. CASE b = a
      BY <2>1, <2>2, <2>3, <2>4, <2>5, <3>1
    <3>2. CASE b # a
      BY <1>1, <2>1, <2>3, <2>5, <3>2 DEF Secured
    <3>. QED BY <3>1, <3>2
  <2>. QED BY <2>6, <2>7, <2>8, <2>9 DEF AInv
<1>9. CASE Delete(a)
  <2>1. /\ saved[a] # 0 /\ step[a].pc = "done" /\ saved' = [saved EXCEPT ![a] = 0]
        /\ Advance(a, "release")
        /\ UNCHANGED <<current, present, pinned, holds, reruns, analysisFaults>>
    BY <1>9 DEF Delete
  <2>2. step' \in [Ids -> Steps] /\ step'[a].pc = "release" /\ step'[a].snap = step[a].snap
        /\ \A b \in Ids \ {a} : step'[b] = step[b]
    BY <1>3, <1>4, <2>1
  <2>3. saved' \in [Ids -> 0..2] /\ saved'[a] = 0 /\ \A b \in Ids \ {a} : saved'[b] = saved[b]
    BY <1>1, <2>1
  <2>4. ATyped' /\ Spared'
    BY <1>1, <2>1, <2>2, <2>3 DEF ATyped, AnalysisTypes, Spared
  <2>5. \A x \in holds : x[1] \in Ids
    BY <1>1
  <2>6. HoldsOwn' /\ NoOrphanHold'
    BY <1>1, <2>1, <2>2, <2>3, <2>5 DEF HoldsOwn, NoOrphanHold
  <2>7. Secured'
    BY <1>1, <2>1, <2>2, <2>3 DEF Secured
  <2>. QED BY <2>4, <2>6, <2>7 DEF AInv
<1>10. CASE Release(a)
  <2>1. /\ step[a].pc = "release" /\ Advance(a, "over")
        /\ UNCHANGED <<current, present, pinned, saved, reruns>>
        /\ \/ holds' = holds \ {<<a, step[a].snap>>} /\ UNCHANGED analysisFaults
           \/ UNCHANGED holds /\ AnalysisFault
    BY <1>10 DEF Release
  <2>2. step' \in [Ids -> Steps] /\ step'[a].pc = "over" /\ step'[a].snap = step[a].snap
        /\ \A b \in Ids \ {a} : step'[b] = step[b]
    BY <1>3, <1>4, <2>1
  <2>3. analysisFaults' \in Nat /\ holds' \subseteq holds
        /\ (analysisFaults' = 0 => analysisFaults = 0 /\ holds' = holds \ {<<a, step[a].snap>>})
    BY <1>1, <1>5, <2>1
  <2>4. \A b \in Ids \ {a} : \A s : <<b, s>> \in holds => <<b, s>> \in holds'
    BY <2>1
  <2>5. ATyped' /\ Spared'
    BY <1>1, <2>1, <2>2, <2>3 DEF ATyped, AnalysisTypes, Spared
  <2>6. HoldsOwn'
    BY <1>1, <2>2, <2>3 DEF HoldsOwn
  <2>7. NoOrphanHold'
    <3> SUFFICES ASSUME analysisFaults' = 0, NEW x \in holds'
                 PROVE  saved'[x[1]] = x[2] \/ step'[x[1]].pc \in {"store", "release"}
      BY DEF NoOrphanHold
    <3>1. x \in holds /\ x # <<a, step[a].snap>> /\ x[1] \in Ids /\ x = <<x[1], x[2]>>
      BY <1>1, <2>3
    <3>2. x[1] # a
      BY <1>1, <3>1 DEF HoldsOwn
    <3>. QED BY <1>1, <2>1, <2>2, <2>3, <3>1, <3>2 DEF NoOrphanHold
  <2>8. Secured'
    <3> SUFFICES ASSUME NEW b \in Ids
                 PROVE  /\ step'[b].pc = "hold" => <<b, step'[b].snap>> \in pinned'
                        /\ step'[b].pc = "store" => <<b, step'[b].snap>> \in holds'
                        /\ saved'[b] # 0 => /\ step'[b].pc = "done" /\ saved'[b] = step'[b].snap
                                            /\ <<b, step'[b].snap>> \in holds'
                        /\ reruns'[b] # "none" => step'[b].pc \in {"done", "release", "over", "lost"}
                        /\ reruns'[b] = "gone" => saved'[b] = 0
      BY DEF Secured
    <3>1. CASE b = a
      BY <1>1, <2>1, <2>2, <3>1 DEF Secured
    <3>2. CASE b # a
      BY <1>1, <2>1, <2>2, <2>4, <3>2 DEF Secured
    <3>. QED BY <3>1, <3>2
  <2>. QED BY <2>5, <2>6, <2>7, <2>8 DEF AInv
<1>11. CASE ReadRow(a) \/ Rerun(a)
  <2>1. /\ UNCHANGED <<current, present, pinned, holds, saved, step, analysisFaults>>
        /\ \A b \in Ids \ {a} : reruns'[b] = reruns[b]
        /\ reruns' \in [Ids -> {"none", "pin", "ok", "gone"}]
    BY <1>1, <1>11 DEF ReadRow, Rerun
  <2>2. step[a].pc \in {"done", "release", "over", "lost"}
    BY <1>1, <1>11 DEF ReadRow, Rerun, Secured
  <2>3. reruns'[a] = "gone" => saved[a] = 0
    <3>1. saved[a] # 0 => step[a].snap \in present
      <4>1. \A s : <<a, s>> \in holds => <<a, s>>[2] \in present
        BY <1>1 DEF Spared
      <4>. QED BY <1>1, <4>1 DEF Secured
    <3>2. ReadRow(a) => reruns'[a] = "pin"
      BY <1>1 DEF ReadRow
    <3>3. Rerun(a) => reruns'[a] = IF step[a].snap \in present THEN "ok" ELSE "gone"
      BY <1>1 DEF Rerun
    <3>. QED BY <1>11, <3>1, <3>2, <3>3
  <2>4. ATyped' /\ Spared' /\ HoldsOwn' /\ NoOrphanHold'
    BY <1>1, <2>1 DEF ATyped, AnalysisTypes, Spared, HoldsOwn, NoOrphanHold
  <2>5. Secured'
    BY <1>1, <2>1, <2>2, <2>3 DEF Secured
  <2>. QED BY <2>4, <2>5 DEF AInv
<1>. QED BY <1>6, <1>7, <1>8, <1>9, <1>10, <1>11

\* Commits, collections and crashes keep it too.
LEMMA AnalysisWorldKeeps ==
    ASSUME AInv, Commit \/ Collect \/ CrashAnalyses PROVE AInv'
<1>1. /\ step \in [Ids -> Steps] /\ current \in Snapshots /\ present \subseteq Snapshots
      /\ pinned \subseteq Ids \X Snapshots /\ holds \subseteq Ids \X Snapshots
      /\ saved \in [Ids -> 0..2] /\ reruns \in [Ids -> {"none", "pin", "ok", "gone"}]
      /\ analysisFaults \in Nat /\ Spared /\ HoldsOwn /\ Secured /\ NoOrphanHold
  BY DEF AInv, ATyped, AnalysisTypes
<1>2. CASE Commit \/ Collect
  <2>1. UNCHANGED <<pinned, holds, saved, step, reruns, analysisFaults>>
    BY <1>2 DEF Commit, Collect
  <2>2. current' \in Snapshots /\ present' \subseteq Snapshots
    BY <1>1, <1>2 DEF Commit, Collect, Snapshots
  <2>3. Spared'
    BY <1>1, <1>2 DEF Commit, Collect, Spared
  <2>4. ATyped' /\ HoldsOwn' /\ Secured' /\ NoOrphanHold'
    BY <1>1, <2>1, <2>2 DEF ATyped, AnalysisTypes, HoldsOwn, Secured, NoOrphanHold
  <2>. QED BY <2>3, <2>4 DEF AInv
<1>3. CASE CrashAnalyses
  <2>1. /\ pinned' = {} /\ UNCHANGED <<current, present, holds, saved>>
        /\ step' = [a \in Ids |-> IF step[a].pc \in {"hold", "store", "release"}
                                  THEN [step[a] EXCEPT !.pc = "lost"] ELSE step[a]]
        /\ reruns' = [a \in Ids |-> IF reruns[a] = "pin" THEN "none" ELSE reruns[a]]
        /\ analysisFaults' \in Nat /\ analysisFaults' # 0
    BY <1>1, <1>3 DEF CrashAnalyses, AnalysisFault
  <2>2. \A a \in Ids :
           /\ step'[a] \in Steps /\ step'[a].snap = step[a].snap
           /\ step[a].pc \in {"hold", "store", "release"} => step'[a].pc = "lost"
           /\ step[a].pc \notin {"hold", "store", "release"} => step'[a] = step[a]
    BY <1>1, <2>1 DEF Steps, StepPcs
  <2>3. step' \in [Ids -> Steps]
    BY <2>1, <2>2
  <2>4. ATyped' /\ Spared' /\ NoOrphanHold'
    BY <1>1, <2>1, <2>3 DEF ATyped, AnalysisTypes, Spared, NoOrphanHold
  <2>5. HoldsOwn'
    BY <1>1, <2>1, <2>2 DEF HoldsOwn
  <2>6. Secured'
    BY <1>1, <2>1, <2>2 DEF Secured
  <2>. QED BY <2>4, <2>5, <2>6 DEF AInv
<1>. QED BY <1>2, <1>3

\* A stored analysis can always be run again on the snapshot it was made on: the hold is
\* placed before the pin is given back and before the row is stored, and released after the
\* row is gone, so no collection, crash or failed call comes between (analyses_api.py).
THEOREM AnalysesStay == AnalysesSpec => []AnalysesHeld
<1>1. AInv /\ [AnalysisStep]_analysisVars => AInv'
  <2> SUFFICES ASSUME AInv, [AnalysisStep]_analysisVars PROVE AInv'
    OBVIOUS
  <2>1. CASE AnalysisStep
    BY <2>1, AnalysisStepKeeps, AnalysisWorldKeeps DEF AnalysisStep
  <2>2. CASE UNCHANGED analysisVars
    BY <2>2 DEF analysisVars, AInv, ATyped, AnalysisTypes, Spared, HoldsOwn, Secured, NoOrphanHold
  <2>. QED BY <2>1, <2>2
<1>2. AnalysesSpec => []AInv
  BY <1>1, AnalysisInit, PTL DEF AnalysesSpec
<1>3. AInv => AnalysesHeld
  <2> SUFFICES ASSUME AInv PROVE AnalysesHeld
    OBVIOUS
  <2>1. AnalysisHeld
    <3>1. \A a \in Ids, s \in 0..2 : <<a, s>> \in holds => <<a, s>>[2] \in present
      BY DEF AInv, Spared
    <3>2. saved \in [Ids -> 0..2]
      BY DEF AInv, ATyped, AnalysisTypes
    <3>. QED BY <3>1, <3>2 DEF AInv, Secured, AnalysisHeld
  <2>2. RerunFinds
    BY DEF AInv, Secured, RerunFinds
  <2>. QED BY <2>1, <2>2 DEF AInv, ATyped, AnalysesHeld
<1>. QED BY <1>2, <1>3, PTL
-----------------------------------------------------------------------------
(* The upload store.                                                       *)

Blobs == {"none", "tmp", "file", "damaged"}
Puts == {"new", "writing", "written", "done", "refused", "lost"}
Deletes == {"none", "unlink", "done", "lost"}
Reads == [pc : {"idle", "open", "done"}, upload : Uploads \cup {"none"},
          owner : Owners \cup {"none"}, got : {"none", "missing", "content", "corrupt"}]
UploadRows == [owner : Owners \cup {"none"}, spilled : BOOLEAN]

UTyped ==
    /\ rows \in [Uploads -> UploadRows] /\ blobs \in [Uploads -> Blobs]
    /\ put \in [Uploads -> Puts] /\ del \in [Uploads -> Deletes]
    /\ read \in [Readers -> Reads] /\ uploadFaults \in Nat

\* The order of put and delete: the payload is whole before its row is there, and the row
\* is gone before the payload is removed.
InOrder(u) ==
    /\ put[u] \in {"new", "writing", "written"} => rows[u] = NoRow /\ del[u] = "none"
    /\ put[u] = "new" => blobs[u] = "none"
    /\ put[u] = "written" => blobs[u] = "file"
    /\ rows[u] # NoRow => put[u] = "done" /\ del[u] = "none"
    /\ rows[u].spilled => blobs[u] \in {"file", "damaged"}
    /\ uploadFaults = 0 /\ blobs[u] # "none" =>
          \/ rows[u].spilled
          \/ put[u] \in {"writing", "written"}
          \/ del[u] = "unlink"

OpenReads == \A r \in Readers : read[r].pc = "open" => read[r].got = "none"

UInv == UTyped /\ (\A u \in Uploads : InOrder(u)) /\ OpenReads

\* No upload, no payload.
LEMMA UploadInit == UploadsInit => UInv
<1> SUFFICES ASSUME UploadsInit PROVE UInv
  OBVIOUS
<1>1. NoRow \in UploadRows /\ Idle \in Reads /\ Idle.pc = "idle" /\ NoRow.spilled = FALSE
  BY DEF NoRow, Idle, UploadRows, Reads
<1>2. UTyped
  BY <1>1 DEF UploadsInit, UTyped, Blobs, Puts, Deletes
<1>3. \A u \in Uploads : InOrder(u)
  BY <1>1 DEF UploadsInit, InOrder
<1>4. OpenReads
  BY <1>1 DEF UploadsInit, OpenReads
<1>. QED BY <1>2, <1>3, <1>4 DEF UInv

\* A step that moves one upload.
LEMMA UploadMoves ==
    ASSUME UInv, NEW u \in Uploads, UTyped', UNCHANGED read,
           \A w \in Uploads \ {u} :
              rows'[w] = rows[w] /\ blobs'[w] = blobs[w] /\ put'[w] = put[w] /\ del'[w] = del[w],
           uploadFaults' = 0 => uploadFaults = 0,
           InOrder(u)'
    PROVE  UInv'
<1>1. ASSUME NEW w \in Uploads \ {u} PROVE InOrder(w)'
  BY <1>1 DEF UInv, InOrder
<1>2. OpenReads'
  BY DEF UInv, OpenReads
<1>. QED BY <1>1, <1>2 DEF UInv

\* Storing an upload keeps the order: the payload, then the row.
LEMMA PutKeeps ==
    ASSUME UInv, NEW u \in Uploads,
           WriteBlob(u) \/ \E o \in Owners : PutInline(u, o) \/ InsertRow(u, o)
    PROVE  UInv'
<1>1. UTyped /\ InOrder(u)
  BY DEF UInv
<1>2. NoRow.spilled = FALSE
  BY DEF NoRow
<1>3. CASE WriteBlob(u)
  <2>1. UTyped'
    BY <1>1, <1>3 DEF UTyped, WriteBlob, Blobs, Puts
  <2>2. InOrder(u)'
    BY <1>1, <1>2, <1>3 DEF UTyped, WriteBlob, InOrder
  <2>3. /\ \A w \in Uploads \ {u} :
              rows'[w] = rows[w] /\ blobs'[w] = blobs[w] /\ put'[w] = put[w] /\ del'[w] = del[w]
        /\ UNCHANGED <<read, uploadFaults>>
    BY <1>1, <1>3 DEF UTyped, WriteBlob
  <2>. QED BY <2>1, <2>2, <2>3, UploadMoves
<1>4. ASSUME NEW o \in Owners, PutInline(u, o) PROVE UInv'
  <2> DEFINE row == [owner |-> o, spilled |-> FALSE]
  <2>1. row \in UploadRows /\ row.spilled = FALSE
    BY DEF UploadRows
  <2>2. /\ put[u] = "new" /\ put' = [put EXCEPT ![u] = "done"] /\ rows' = [rows EXCEPT ![u] = row]
        /\ UNCHANGED <<blobs, del, read, uploadFaults>>
    BY <1>4 DEF PutInline
  <2> HIDE DEF row
  <2>3. UTyped'
    BY <1>1, <2>1, <2>2 DEF UTyped, Puts
  <2>4. InOrder(u)'
    BY <1>1, <2>1, <2>2 DEF UTyped, InOrder
  <2>5. \A w \in Uploads \ {u} :
           rows'[w] = rows[w] /\ blobs'[w] = blobs[w] /\ put'[w] = put[w] /\ del'[w] = del[w]
    BY <1>1, <2>2 DEF UTyped
  <2>. QED BY <2>2, <2>3, <2>4, <2>5, UploadMoves
<1>5. ASSUME NEW o \in Owners, InsertRow(u, o) PROVE UInv'
  <2> DEFINE row == [owner |-> o, spilled |-> TRUE]
  <2>1. row \in UploadRows /\ row.spilled = TRUE
    BY DEF UploadRows
  <2>2. /\ put[u] = "written" /\ UNCHANGED <<del, read>>
        /\ \/ /\ put' = [put EXCEPT ![u] = "done"] /\ rows' = [rows EXCEPT ![u] = row]
              /\ UNCHANGED <<blobs, uploadFaults>>
           \/ /\ put' = [put EXCEPT ![u] = "refused"] /\ UploadFault
              /\ blobs' \in {blobs, [blobs EXCEPT ![u] = "none"]}
              /\ UNCHANGED rows
    BY <1>5 DEF InsertRow
  <2> HIDE DEF row
  <2>3. UTyped' /\ (uploadFaults' = 0 => uploadFaults = 0 /\ put' = [put EXCEPT ![u] = "done"]
                                         /\ rows' = [rows EXCEPT ![u] = row])
    BY <1>1, <2>1, <2>2 DEF UTyped, Puts, Blobs, UploadFault
  <2>4. InOrder(u)'
    <3>1. rows[u] = NoRow /\ del[u] = "none" /\ blobs[u] = "file"
      BY <1>1, <2>2 DEF InOrder
    <3>2. put'[u] \in {"done", "refused"} /\ del'[u] = "none"
          /\ \/ rows'[u] = row /\ blobs'[u] = "file" /\ put'[u] = "done"
             \/ rows'[u] = NoRow /\ uploadFaults' # 0
      BY <1>1, <2>2, <2>3, <3>1 DEF UTyped, UploadFault
    <3>. QED BY <1>2, <2>1, <3>2 DEF InOrder
  <2>5. \A w \in Uploads \ {u} :
           rows'[w] = rows[w] /\ blobs'[w] = blobs[w] /\ put'[w] = put[w] /\ del'[w] = del[w]
    BY <1>1, <2>2 DEF UTyped
  <2>. QED BY <2>2, <2>3, <2>4, <2>5, UploadMoves
<1>. QED BY <1>3, <1>4, <1>5

\* Deleting keeps it: the row, then the payload.
LEMMA DeleteKeeps ==
    ASSUME UInv, NEW u \in Uploads,
           Unlink(u) \/ Damage(u) \/ \E o \in Owners : DeleteRow(u, o)
    PROVE  UInv'
<1>1. UTyped /\ InOrder(u)
  BY DEF UInv
<1>2. NoRow.spilled = FALSE /\ NoRow \in UploadRows
  BY DEF NoRow, UploadRows
<1>3. CASE Unlink(u)
  <2>1. /\ del[u] = "unlink" /\ del' = [del EXCEPT ![u] = "done"]
        /\ UNCHANGED <<rows, put, read>>
        /\ \/ blobs' = [blobs EXCEPT ![u] = "none"] /\ UNCHANGED uploadFaults
           \/ UploadFault /\ UNCHANGED blobs
    BY <1>3 DEF Unlink
  <2>2. UTyped' /\ (uploadFaults' = 0 => uploadFaults = 0 /\ blobs'[u] = "none")
    BY <1>1, <2>1 DEF UTyped, Deletes, Blobs, UploadFault
  <2>3. rows'[u] = NoRow /\ put'[u] \notin {"new", "writing", "written"}
    BY <1>1, <2>1 DEF InOrder
  <2>4. InOrder(u)'
    BY <1>2, <2>2, <2>3 DEF InOrder
  <2>5. \A w \in Uploads \ {u} :
           rows'[w] = rows[w] /\ blobs'[w] = blobs[w] /\ put'[w] = put[w] /\ del'[w] = del[w]
    BY <1>1, <2>1 DEF UTyped
  <2>. QED BY <2>1, <2>2, <2>4, <2>5, UploadMoves
<1>4. CASE Damage(u)
  <2>1. /\ put[u] = "done" /\ blobs' = [blobs EXCEPT ![u] = "damaged"]
        /\ UNCHANGED <<rows, put, del, read>> /\ UploadFault
    BY <1>4 DEF Damage
  <2>2. UTyped' /\ uploadFaults' # 0
    BY <1>1, <2>1 DEF UTyped, Blobs, UploadFault
  <2>3. InOrder(u)'
    BY <1>1, <2>1, <2>2 DEF UTyped, InOrder
  <2>4. \A w \in Uploads \ {u} :
           rows'[w] = rows[w] /\ blobs'[w] = blobs[w] /\ put'[w] = put[w] /\ del'[w] = del[w]
    BY <1>1, <2>1 DEF UTyped
  <2>. QED BY <2>1, <2>2, <2>3, <2>4, UploadMoves
<1>5. ASSUME NEW o \in Owners, DeleteRow(u, o) PROVE UInv'
  <2>1. /\ rows[u] # NoRow /\ rows' = [rows EXCEPT ![u] = NoRow]
        /\ del' = [del EXCEPT ![u] = IF rows[u].spilled THEN "unlink" ELSE "done"]
        /\ UNCHANGED <<blobs, put, read, uploadFaults>>
    BY <1>5 DEF DeleteRow, Stored
  <2>2. UTyped'
    <3>1. rows' \in [Uploads -> UploadRows]
      BY <1>1, <1>2, <2>1 DEF UTyped
    <3>2. del' \in [Uploads -> Deletes]
      BY <1>1, <2>1 DEF UTyped, Deletes
    <3>. QED BY <1>1, <2>1, <3>1, <3>2 DEF UTyped
  <2>3. /\ rows'[u] = NoRow /\ put'[u] = "done"
        /\ del'[u] = IF rows[u].spilled THEN "unlink" ELSE "done"
    BY <1>1, <2>1 DEF UTyped, InOrder
  <2>4. uploadFaults = 0 /\ blobs[u] # "none" => rows[u].spilled
    BY <1>1, <2>1 DEF InOrder
  <2>5. InOrder(u)'
    BY <1>2, <2>1, <2>3, <2>4 DEF InOrder
  <2>6. \A w \in Uploads \ {u} :
           rows'[w] = rows[w] /\ blobs'[w] = blobs[w] /\ put'[w] = put[w] /\ del'[w] = del[w]
    BY <1>1, <2>1 DEF UTyped
  <2>. QED BY <2>1, <2>2, <2>5, <2>6, UploadMoves
<1>. QED BY <1>3, <1>4, <1>5

\* Reading changes the readers only, and a reader is given a payload in full.
LEMMA ReadKeeps ==
    ASSUME UInv, NEW r \in Readers,
           Open(r) \/ Forget(r) \/ \E u \in Uploads, o \in Owners : Lookup(r, u, o)
    PROVE  /\ UInv'
           /\ \A q \in Readers : read'[q].got = "content" /\ read[q].pc = "open" =>
                 blobs[read[q].upload] = "file"
<1>1. UTyped /\ (\A u \in Uploads : InOrder(u)) /\ OpenReads
      /\ UNCHANGED <<rows, blobs, put, del, uploadFaults>>
  BY DEF UInv, Open, Forget, Lookup
<1>2. PICK x \in Reads :
         /\ read' = [read EXCEPT ![r] = x]
         /\ x.pc = "open" => x.got = "none"
         /\ x.got = "content" /\ read[r].pc = "open" => blobs[read[r].upload] = "file"
  <2>1. CASE Open(r)
    <3> DEFINE g == IF blobs[read[r].upload] = "file" THEN "content" ELSE "corrupt"
               y == [read[r] EXCEPT !.pc = "done"]
               x == [y EXCEPT !.got = g]
    <3>1. y \in Reads /\ y.pc = "done"
      BY <1>1 DEF UTyped, Reads
    <3>2. read' = [read EXCEPT ![r] = x]
      BY <1>1, <2>1 DEF Open, UTyped
    <3>3. g \in {"content", "corrupt"} /\ (g = "content" => blobs[read[r].upload] = "file")
      OBVIOUS
    <3> HIDE DEF g, y
    <3>4. x \in Reads /\ x.pc = "done" /\ x.got = g
      BY <3>1, <3>3 DEF Reads
    <3> HIDE DEF x
    <3>. QED BY <3>2, <3>3, <3>4
  <2>2. CASE Forget(r)
    <3>1. Idle \in Reads /\ Idle.pc = "idle" /\ Idle.got = "none"
      BY DEF Idle, Reads
    <3>. QED BY <2>2, <3>1 DEF Forget
  <2>3. ASSUME NEW u \in Uploads, NEW o \in Owners, Lookup(r, u, o)
        PROVE  \E x \in Reads :
                 /\ read' = [read EXCEPT ![r] = x]
                 /\ x.pc = "open" => x.got = "none"
                 /\ x.got = "content" /\ read[r].pc = "open" => blobs[read[r].upload] = "file"
    <3>1. PICK x : x \in {[pc |-> "done", upload |-> u, owner |-> o, got |-> "missing"],
                          [pc |-> "open", upload |-> u, owner |-> o, got |-> "none"],
                          [pc |-> "done", upload |-> u, owner |-> o, got |-> "content"]}
                   /\ read' = [read EXCEPT ![r] = x]
      BY <2>3 DEF Lookup
    <3>2. x \in Reads /\ (x.pc = "open" => x.got = "none")
      BY <3>1 DEF Reads
    <3>3. read[r].pc # "open"
      BY <2>3 DEF Lookup
    <3>. QED BY <3>1, <3>2, <3>3
  <2>. QED BY <2>1, <2>2, <2>3
<1>3. read' \in [Readers -> Reads] /\ read'[r] = x /\ \A q \in Readers \ {r} : read'[q] = read[q]
  BY <1>1, <1>2 DEF UTyped
<1>4. UTyped' /\ OpenReads'
  BY <1>1, <1>2, <1>3 DEF UTyped, OpenReads
<1>5. \A u \in Uploads : InOrder(u)'
  BY <1>1 DEF InOrder
<1>6. \A q \in Readers : read'[q].got = "content" /\ read[q].pc = "open" =>
         blobs[read[q].upload] = "file"
  BY <1>1, <1>2, <1>3 DEF OpenReads
<1>. QED BY <1>4, <1>5, <1>6 DEF UInv

\* A crash leaves an orphaned payload at worst.
LEMMA CrashKeeps == ASSUME UInv, CrashStore PROVE UInv' /\ \A r \in Readers : read'[r] = Idle
<1>1. /\ UTyped /\ (\A u \in Uploads : InOrder(u))
      /\ put' = [u \in Uploads |-> IF put[u] \in {"writing", "written"} THEN "lost" ELSE put[u]]
      /\ del' = [u \in Uploads |-> IF del[u] = "unlink" THEN "lost" ELSE del[u]]
      /\ read' = [r \in Readers |-> Idle] /\ UNCHANGED <<rows, blobs>> /\ UploadFault
  BY DEF UInv, CrashStore
<1>2. Idle \in Reads /\ Idle.pc = "idle"
  BY DEF Idle, Reads
<1>3. UTyped' /\ OpenReads' /\ uploadFaults' # 0
  BY <1>1, <1>2 DEF UTyped, OpenReads, UploadFault, Puts, Deletes
<1>4. \A u \in Uploads : InOrder(u)'
  BY <1>1, <1>3 DEF UTyped, InOrder
<1>. QED BY <1>1, <1>3, <1>4 DEF UInv

\* Uploads are never half there: a row that is listed has its whole payload, a payload
\* without a row is left only by a crash or a failed call, and a reader between the two
\* stores is given the payload in full or an error (UploadStore.put, delete, open_content).
THEOREM UploadsStayWhole == UploadsSpec => UploadsWhole
<1> DEFINE Full == \A r \in Readers : read'[r].got = "content" /\ read[r].pc = "open" =>
                      blobs[read[r].upload] = "file"
<1>1. UInv /\ [UploadStep]_uploadVars => UInv' /\ [Full]_uploadVars
  <2> SUFFICES ASSUME UInv, [UploadStep]_uploadVars PROVE UInv' /\ [Full]_uploadVars
    OBVIOUS
  <2>1. ASSUME NEW u \in Uploads,
               \/ WriteBlob(u) \/ Unlink(u) \/ Damage(u)
               \/ \E o \in Owners : PutInline(u, o) \/ InsertRow(u, o) \/ DeleteRow(u, o)
        PROVE  UInv' /\ Full
    <3>1. UInv'
      BY <2>1, PutKeeps, DeleteKeeps
    <3>2. read' = read
      BY <2>1 DEF WriteBlob, Unlink, Damage, PutInline, InsertRow, DeleteRow
    <3>. QED BY <3>1, <3>2 DEF UInv, OpenReads
  <2>2. ASSUME NEW r \in Readers,
               Open(r) \/ Forget(r) \/ \E u \in Uploads, o \in Owners : Lookup(r, u, o)
        PROVE  UInv' /\ Full
    BY <2>2, ReadKeeps
  <2>3. CASE CrashStore
    BY <2>3, CrashKeeps DEF Idle
  <2>4. CASE UNCHANGED uploadVars
    BY <2>4 DEF uploadVars, UInv, UTyped, InOrder, OpenReads
  <2>. QED BY <2>1, <2>2, <2>3, <2>4 DEF UploadStep
<1>2. UInv => UploadTypes /\ RowHasPayload /\ NoOrphanPayload
  <2> SUFFICES ASSUME UInv PROVE UploadTypes /\ RowHasPayload /\ NoOrphanPayload
    OBVIOUS
  <2>1. UploadTypes
    BY DEF UInv, UTyped, UploadTypes, UploadRows, Blobs, Reads
  <2>2. RowHasPayload /\ NoOrphanPayload
    BY DEF UInv, InOrder, RowHasPayload, NoOrphanPayload
  <2>. QED BY <2>1, <2>2
<1>3. UploadsSpec => []UInv /\ [][UInv /\ UInv' /\ [Full]_uploadVars]_uploadVars
  BY <1>1, UploadInit, PTL DEF UploadsSpec
<1>. QED BY <1>1, <1>2, <1>3, UploadInit, PTL DEF UploadsSpec, UploadsWhole, ReadsWhole
-----------------------------------------------------------------------------
(* Access.                                                                 *)

AskPcs == {"new", "observe", "guard", "refused", "manifest", "registry", "denied",
           "building", "served"}
Asks == [pc : AskPcs, who : Principals \cup {"none"}, route : Routes, stale : BOOLEAN,
         saw : Principals \cup {"none"}]

GTyped ==
    /\ AccessTypes /\ enforce \in BOOLEAN
    /\ runManifest \in [owner : Principals \cup {"none"}, readable : BOOLEAN]
    /\ ask \in [Reqs -> Asks]

\* A manifest has an owner, readable or not.
ManifestsOwned == runManifest # NoManifest => runManifest.owner \in Principals

\* A stale request's user is still rejected; what a build was let go on by.
Judged(r) ==
    /\ ask[r].pc # "new" => ask[r].who \in Principals
    /\ ask[r].pc = "observe" => ask[r].who \in Users
    /\ ask[r].pc \in {"observe", "guard", "manifest", "registry"} => ask[r].saw = "none"
    /\ ask[r].pc = "building" => /\ ask[r].route = "build"
                                 /\ enforce /\ ask[r].who \in Users =>
                                       ask[r].saw \in {ask[r].who, "none"}
    /\ ask[r].stale => /\ ask[r].who \in Users /\ ledger[ask[r].who] = "rejected"
                       /\ ask[r].who \notin Admins => ask[r].pc \in {"observe", "refused"}

GInv == GTyped /\ ManifestsOwned /\ \A r \in Reqs : Judged(r)

\* What a request must not do: be shown another's run, or write over one that its check saw.
Shown(r) ==
    (/\ enforce /\ ask[r].who \in Users /\ ask[r].route # "build"
     /\ ~At(r, "served") /\ ask'[r].pc = "served")
       => ask[r].who \in {runManifest.owner, job}
Overwritten(r) ==
    (/\ enforce /\ ask[r].who \in Users
     /\ At(r, "building") /\ ask'[r].pc = "served"
     /\ runManifest # NoManifest /\ runManifest.owner # ask[r].who)
       => ask[r].saw # runManifest.owner

\* Nobody has asked, no run is there.
LEMMA AccessStart == AccessInit => GInv
<1> SUFFICES ASSUME AccessInit PROVE GInv
  OBVIOUS
<1>1. /\ NewReq \in Asks /\ NewReq.pc = "new" /\ NewReq.stale = FALSE
      /\ NoManifest \in [owner : Principals \cup {"none"}, readable : BOOLEAN]
  BY DEF NewReq, NoManifest, Asks, AskPcs, Routes
<1>2. GTyped
  BY <1>1, UsersAssumption DEF AccessInit, GTyped, AccessTypes
<1>3. ManifestsOwned /\ \A r \in Reqs : Judged(r)
  BY <1>1 DEF AccessInit, ManifestsOwned, Judged
<1>. QED BY <1>2, <1>3 DEF GInv

\* A step that moves one request and the world no further than the rejected allow.
LEMMA AskMoves ==
    ASSUME GInv, NEW r \in Reqs, NEW x \in Asks, ask' = [ask EXCEPT ![r] = x],
           enforce' = enforce, ledger' \in [Users -> {"none", "pending", "approved", "rejected"}],
           \A u \in Users : ledger[u] = "rejected" => ledger'[u] = "rejected",
           job' = job, changes' = changes,
           runManifest' \in [owner : Principals \cup {"none"}, readable : BOOLEAN],
           ManifestsOwned', Judged(r)'
    PROVE  GInv'
<1>1. GTyped /\ ask' \in [Reqs -> Asks] /\ \A q \in Reqs \ {r} : ask'[q] = ask[q]
  BY DEF GInv, GTyped
<1>2. GTyped'
  BY <1>1 DEF GTyped, AccessTypes
<1>3. ASSUME NEW q \in Reqs \ {r} PROVE Judged(q)'
  BY <1>1, <1>3 DEF GInv, Judged
<1>. QED BY <1>2, <1>3 DEF GInv

\* Arriving, and being observed.
LEMMA ArriveKeeps ==
    ASSUME GInv, NEW r \in Reqs,
           Observe(r) \/ \E p \in Principals, route \in Routes : Arrive(r, p, route)
    PROVE  GInv' /\ Shown(r) /\ Overwritten(r)
<1>1. GTyped /\ Judged(r) /\ ManifestsOwned
  BY DEF GInv
<1>2. ledger \in [Users -> {"none", "pending", "approved", "rejected"}] /\ ask[r] \in Asks
      /\ runManifest \in [owner : Principals \cup {"none"}, readable : BOOLEAN]
  BY <1>1 DEF GTyped, AccessTypes
<1>3. ASSUME NEW p \in Principals, NEW route \in Routes, Arrive(r, p, route)
      PROVE  GInv' /\ Shown(r) /\ Overwritten(r)
  <2> DEFINE pc == IF p \in Users THEN "observe" ELSE "guard"
             st == p \in Users /\ ledger[p] = "rejected"
             x1 == [NewReq EXCEPT !.pc = pc]
             x2 == [x1 EXCEPT !.who = p]
             x3 == [x2 EXCEPT !.route = route]
             x == [x3 EXCEPT !.stale = st]
  <2>1. ask' = [ask EXCEPT ![r] = x]
    BY <1>3 DEF Arrive
  <2>2. /\ x \in Asks /\ x.pc \in {"observe", "guard"} /\ x.saw = "none"
        /\ x.pc = "observe" => x.who \in Users
        /\ x.who \in Principals
        /\ x.stale => x.who \in Users /\ ledger[x.who] = "rejected" /\ x.pc = "observe"
    <3>1. pc \in {"observe", "guard"} /\ pc \in AskPcs /\ (pc = "observe" <=> p \in Users)
          /\ st \in BOOLEAN /\ (st <=> p \in Users /\ ledger[p] = "rejected")
      BY DEF AskPcs
    <3>2. NewReq \in Asks /\ NewReq.saw = "none"
      BY DEF NewReq, Asks, AskPcs, Routes
    <3> HIDE DEF pc, st
    <3>3. x1 \in Asks /\ x1.saw = "none" /\ x1.pc = pc
      BY <3>1, <3>2 DEF Asks
    <3> HIDE DEF x1
    <3>4. x2 \in Asks /\ x2.saw = "none" /\ x2.pc = pc /\ x2.who = p
      BY <3>3 DEF Asks
    <3> HIDE DEF x2
    <3>5. x3 \in Asks /\ x3.saw = "none" /\ x3.pc = pc /\ x3.who = p
      BY <3>4 DEF Asks
    <3> HIDE DEF x3
    <3>6. x \in Asks /\ x.saw = "none" /\ x.pc = pc /\ x.who = p /\ x.stale = st
      BY <3>1, <3>5 DEF Asks
    <3> HIDE DEF x
    <3>. QED BY <3>1, <3>6
  <2> HIDE DEF x
  <2>3. ask'[r] = x /\ UNCHANGED <<enforce, ledger, job, runManifest, changes>>
    BY <1>1, <1>3, <2>1 DEF Arrive, GTyped
  <2>4. Judged(r)'
    BY <2>2, <2>3 DEF Judged
  <2>5. ManifestsOwned'
    BY <1>1, <2>3 DEF ManifestsOwned
  <2>6. GInv'
    BY <1>2, <2>1, <2>2, <2>3, <2>4, <2>5, AskMoves
  <2>. QED BY <2>2, <2>3, <2>6 DEF Shown, Overwritten
<1>4. CASE Observe(r)
  <2> DEFINE u == ask[r].who
             p == IF u \in Admins \/ ledger'[u] = "approved" THEN "guard" ELSE "refused"
             x == [ask[r] EXCEPT !.pc = p]
  <2>1. /\ ask[r].pc = "observe" /\ ledger' = [ledger EXCEPT ![u] = Observed(u)]
        /\ ask' = [ask EXCEPT ![r] = x]
        /\ UNCHANGED <<enforce, job, runManifest, changes>>
    BY <1>4 DEF Observe, At, Goto
  <2>2. u \in Users /\ ask[r].saw = "none"
    BY <1>1, <2>1 DEF Judged
  <2>3. Observed(u) \in {"none", "pending", "approved", "rejected"}
        /\ (ledger[u] = "rejected" => Observed(u) = "rejected")
    BY <1>2, <2>2 DEF Observed
  <2>4. ledger' \in [Users -> {"none", "pending", "approved", "rejected"}]
        /\ (\A w \in Users : ledger[w] = "rejected" => ledger'[w] = "rejected")
    BY <1>2, <2>1, <2>2, <2>3
  <2>5. p \in {"guard", "refused"} /\ (ledger'[u] = "rejected" /\ u \notin Admins => p = "refused")
    OBVIOUS
  <2> HIDE DEF p
  <2>6. /\ x \in Asks /\ x.pc = p /\ x.who = u /\ x.saw = ask[r].saw /\ x.stale = ask[r].stale
        /\ x.route = ask[r].route
    BY <1>2, <2>5 DEF Asks, AskPcs
  <2> HIDE DEF x
  <2>7. ask'[r] = x
    BY <1>1, <2>1 DEF GTyped
  <2>8. Judged(r)'
    BY <1>1, <2>1, <2>2, <2>4, <2>5, <2>6, <2>7 DEF Judged
  <2>9. ManifestsOwned'
    BY <1>1, <2>1 DEF ManifestsOwned
  <2>10. GInv'
    BY <1>2, <2>1, <2>4, <2>6, <2>8, <2>9, AskMoves
  <2>. QED BY <2>1, <2>5, <2>6, <2>7, <2>10 DEF Shown, Overwritten
<1>. QED BY <1>3, <1>4

\* The guards, and the end of a build.
LEMMA GuardKeeps ==
    ASSUME GInv, NEW r \in Reqs, Guard(r) \/ CheckOwnership(r) \/ CheckRegistry(r) \/ BuildEnds(r)
    PROVE  GInv' /\ Shown(r) /\ Overwritten(r)
<1>1. GTyped /\ Judged(r) /\ ManifestsOwned
  BY DEF GInv
<1>2. /\ ledger \in [Users -> {"none", "pending", "approved", "rejected"}] /\ ask[r] \in Asks
      /\ runManifest \in [owner : Principals \cup {"none"}, readable : BOOLEAN]
      /\ job \in Principals \cup {"none"} /\ ask \in [Reqs -> Asks]
  BY <1>1 DEF GTyped, AccessTypes
<1>3. "none" \notin Users /\ "service" \notin Users
  BY UsersAssumption
\* A user passes with ownership enforced only as the owner.
<1>4. \A o : Allows(o, ask[r].who) /\ enforce /\ ask[r].who \in Users => o = ask[r].who
  BY <1>3 DEF Allows
<1>5. UNCHANGED <<enforce, ledger, job, changes>>
  BY DEF Guard, CheckOwnership, CheckRegistry, BuildEnds
<1>6. ~ask[r].stale \/ ask[r].who \in Admins \/ ask[r].pc \in {"observe", "refused"}
  BY <1>1 DEF Judged
<1>7. \A p \in AskPcs : LET x == [ask[r] EXCEPT !.pc = p]
                        IN  /\ x \in Asks /\ x.pc = p /\ x.saw = ask[r].saw /\ x.who = ask[r].who
                            /\ x.stale = ask[r].stale /\ x.route = ask[r].route
  BY <1>2 DEF Asks
<1>8. \A ok \in BOOLEAN : /\ Verdict(r, ok) \in {"denied", "building", "served"}
                          /\ Verdict(r, ok) # "denied" => ok
                          /\ Verdict(r, ok) = "building" <=> ok /\ ask[r].route = "build"
  BY DEF Verdict
<1>9. CASE Guard(r)
  <2>1. PICK p \in {"manifest", "registry"} : ask' = [ask EXCEPT ![r] = [ask[r] EXCEPT !.pc = p]]
    BY <1>9 DEF Guard, Goto
  <2>2. ask[r].pc = "guard" /\ UNCHANGED runManifest
    BY <1>9 DEF Guard, At
  <2>3. PICK x \in Asks : /\ ask' = [ask EXCEPT ![r] = x]
                          /\ x.pc = p /\ x.saw = ask[r].saw /\ x.who = ask[r].who
                          /\ x.stale = ask[r].stale /\ x.route = ask[r].route
    BY <1>7, <2>1 DEF AskPcs
  <2>4. ask'[r] = x
    BY <1>2, <2>3
  <2>5. Judged(r)' /\ ManifestsOwned'
    BY <1>1, <1>5, <1>6, <2>1, <2>2, <2>3, <2>4 DEF Judged, ManifestsOwned
  <2>6. GInv'
    BY <1>2, <1>5, <2>2, <2>3, <2>5, AskMoves
  <2>. QED BY <2>1, <2>2, <2>3, <2>4, <2>6 DEF Shown, Overwritten, At
<1>10. CASE CheckOwnership(r)
  <2> DEFINE ok == Allows(ManifestOwner, ask[r].who)
             p == Verdict(r, ok)
             x == [[ask[r] EXCEPT !.saw = runManifest.owner] EXCEPT !.pc = p]
  <2>1. ask[r].pc = "manifest" /\ UNCHANGED runManifest
    BY <1>10 DEF CheckOwnership, At
  <2>2. ask' = [ask EXCEPT ![r] = x]
    BY <1>2, <1>10 DEF CheckOwnership
  <2>3. ok \in BOOLEAN
    BY DEF Allows
  <2>4. ok /\ enforce /\ ask[r].who \in Users => runManifest.owner = ask[r].who
    <3>1. ManifestOwner \in {runManifest.owner, "none"}
      BY DEF ManifestOwner
    <3>. QED BY <1>3, <1>4, <3>1
  <2>5. /\ p \in {"denied", "building", "served"} /\ (p # "denied" => ok)
        /\ p = "building" => ask[r].route = "build"
    BY <1>8, <2>3
  <2> HIDE DEF ok, p
  <2>6. /\ x \in Asks /\ x.pc = p /\ x.saw = runManifest.owner /\ x.who = ask[r].who
        /\ x.stale = ask[r].stale /\ x.route = ask[r].route
    <3> DEFINE y == [ask[r] EXCEPT !.saw = runManifest.owner]
    <3>1. /\ y \in Asks /\ y.saw = runManifest.owner /\ y.who = ask[r].who
          /\ y.stale = ask[r].stale /\ y.route = ask[r].route
      BY <1>2 DEF Asks
    <3>2. x = [y EXCEPT !.pc = p] /\ p \in AskPcs
      BY <2>5 DEF AskPcs
    <3> HIDE DEF x, y
    <3>. QED BY <3>1, <3>2 DEF Asks
  <2> HIDE DEF x
  <2>7. ask'[r] = x
    BY <1>2, <2>2
  <2>8. Judged(r)' /\ ManifestsOwned'
    BY <1>1, <1>5, <1>6, <2>1, <2>4, <2>5, <2>6, <2>7 DEF Judged, ManifestsOwned
  <2>9. GInv'
    BY <1>2, <1>5, <2>1, <2>2, <2>6, <2>8, AskMoves
  <2>. QED BY <2>1, <2>4, <2>5, <2>6, <2>7, <2>9 DEF Shown, Overwritten, At
<1>11. CASE CheckRegistry(r)
  <2> DEFINE ok == IF job = "none" THEN ask[r].route = "build" ELSE Allows(job, ask[r].who)
             p == Verdict(r, ok)
  <2>1. ask[r].pc = "registry" /\ UNCHANGED runManifest
    BY <1>11 DEF CheckRegistry, At
  <2>2. ask' = [ask EXCEPT ![r] = [ask[r] EXCEPT !.pc = p]]
    BY <1>2, <1>11 DEF CheckRegistry
  <2>3. ok \in BOOLEAN
    BY DEF Allows
  <2>4. ok /\ enforce /\ ask[r].who \in Users /\ ask[r].route # "build" => job = ask[r].who
    BY <1>4
  <2>5. /\ p \in {"denied", "building", "served"} /\ (p # "denied" => ok)
        /\ p = "building" => ask[r].route = "build"
    BY <1>8, <2>3
  <2> HIDE DEF ok, p
  <2>6. PICK x \in Asks : /\ ask' = [ask EXCEPT ![r] = x]
                          /\ x.pc = p /\ x.saw = ask[r].saw /\ x.who = ask[r].who
                          /\ x.stale = ask[r].stale /\ x.route = ask[r].route
    BY <1>7, <2>2, <2>5 DEF AskPcs
  <2>7. ask'[r] = x
    BY <1>2, <2>6
  <2>8. Judged(r)' /\ ManifestsOwned'
    BY <1>1, <1>5, <1>6, <2>1, <2>5, <2>6, <2>7 DEF Judged, ManifestsOwned
  <2>9. GInv'
    BY <1>2, <1>5, <2>1, <2>6, <2>8, AskMoves
  <2>. QED BY <2>1, <2>4, <2>5, <2>6, <2>7, <2>9 DEF Shown, Overwritten, At
<1>12. CASE BuildEnds(r)
  <2>1. /\ ask[r].pc = "building" /\ runManifest' = [owner |-> ask[r].who, readable |-> TRUE]
        /\ ask' = [ask EXCEPT ![r] = [ask[r] EXCEPT !.pc = "served"]]
    BY <1>12 DEF BuildEnds, At, Goto
  <2>2. PICK x \in Asks : /\ ask' = [ask EXCEPT ![r] = x]
                          /\ x.pc = "served" /\ x.saw = ask[r].saw /\ x.who = ask[r].who
                          /\ x.stale = ask[r].stale /\ x.route = ask[r].route
    BY <1>7, <2>1 DEF AskPcs
  <2>3. ask'[r] = x
    BY <1>2, <2>2
  <2>4. ask[r].who \in Principals
    BY <1>1, <2>1 DEF Judged
  <2>5. runManifest' \in [owner : Principals \cup {"none"}, readable : BOOLEAN]
        /\ runManifest'.owner = ask[r].who
    BY <2>1, <2>4
  <2>6. ManifestsOwned' /\ Judged(r)'
    BY <1>1, <1>5, <1>6, <2>1, <2>2, <2>3, <2>4, <2>5 DEF Judged, ManifestsOwned
  <2>7. GInv'
    BY <1>2, <1>5, <2>2, <2>5, <2>6, AskMoves
  <2>8. Overwritten(r)
    BY <1>1, <1>3, <2>1 DEF Overwritten, Judged, ManifestsOwned, Principals
  <2>9. Shown(r)
    BY <1>1, <2>1 DEF Shown, Judged
  <2>. QED BY <2>7, <2>8, <2>9
<1>. QED BY <1>9, <1>10, <1>11, <1>12

\* Administrators, asynchronous builds and losses.
LEMMA WorldKeeps ==
    ASSUME GInv,
           \/ \E u \in Users, s \in {"approved", "rejected"} : Decide(u, s)
           \/ \E p \in Principals : Submit(p)
           \/ JobEnds \/ Lose
    PROVE  GInv' /\ \A r \in Reqs : ask'[r].pc = ask[r].pc
<1>1. /\ ledger \in [Users -> {"none", "pending", "approved", "rejected"}]
      /\ runManifest \in [owner : Principals \cup {"none"}, readable : BOOLEAN]
      /\ job \in Principals \cup {"none"} /\ ask \in [Reqs -> Asks]
      /\ changes \in 0..MaxChanges /\ enforce \in BOOLEAN
      /\ ManifestsOwned /\ \A r \in Reqs : Judged(r)
  BY DEF GInv, GTyped, AccessTypes
<1>2. Change => changes' \in 0..MaxChanges
  BY <1>1, UsersAssumption DEF Change
<1>3. "none" \notin Principals
  BY UsersAssumption DEF Principals
<1>4. ASSUME NEW u \in Users, NEW s \in {"approved", "rejected"}, Decide(u, s)
      PROVE  GInv' /\ \A r \in Reqs : ask'[r].pc = ask[r].pc
  <2>1. /\ ledger' = [ledger EXCEPT ![u] = s] /\ changes' \in 0..MaxChanges
        /\ ask' = [r \in Reqs |-> IF ask[r].who = u /\ s = "approved"
                                  THEN [ask[r] EXCEPT !.stale = FALSE] ELSE ask[r]]
        /\ UNCHANGED <<enforce, job, runManifest>>
    BY <1>2, <1>4 DEF Decide
  <2>2. \A r \in Reqs :
           /\ ask'[r] \in Asks /\ ask'[r].pc = ask[r].pc /\ ask'[r].who = ask[r].who
           /\ ask'[r].saw = ask[r].saw /\ ask'[r].route = ask[r].route
           /\ ask'[r].stale => ask[r].stale /\ ~(ask[r].who = u /\ s = "approved")
    BY <1>1, <2>1 DEF Asks
  <2>3. ledger' \in [Users -> {"none", "pending", "approved", "rejected"}]
        /\ (\A w \in Users : ledger'[w] = IF w = u THEN s ELSE ledger[w])
    BY <1>1, <2>1
  <2>4. ask' \in [Reqs -> Asks]
    BY <2>1, <2>2
  <2>5. GTyped' /\ ManifestsOwned'
    BY <1>1, <2>1, <2>3, <2>4 DEF GTyped, AccessTypes, ManifestsOwned
  <2>6. \A r \in Reqs : Judged(r)'
    BY <1>1, <2>1, <2>2, <2>3 DEF Judged
  <2>. QED BY <2>2, <2>5, <2>6 DEF GInv
<1>5. CASE (\E p \in Principals : Submit(p)) \/ JobEnds \/ Lose
  <2>1. UNCHANGED <<enforce, ledger, ask>>
    BY <1>5 DEF Submit, JobEnds, Lose
  <2>2. job' \in Principals \cup {"none"} /\ changes' \in 0..MaxChanges
    BY <1>1, <1>2, <1>5 DEF Submit, JobEnds, Lose
  <2>3. /\ runManifest' \in [owner : Principals \cup {"none"}, readable : BOOLEAN]
        /\ ManifestsOwned'
    <3>1. CASE runManifest' = runManifest
      BY <1>1, <3>1 DEF ManifestsOwned
    <3>2. CASE JobEnds
      BY <1>1, <3>2 DEF JobEnds, ManifestsOwned
    <3>3. CASE runManifest # NoManifest /\ runManifest' = [runManifest EXCEPT !.readable = FALSE]
      BY <1>1, <3>3 DEF ManifestsOwned
    <3>. QED BY <1>5, <3>1, <3>2, <3>3 DEF Submit, Lose
  <2>4. GTyped'
    BY <1>1, <2>1, <2>2, <2>3 DEF GTyped, AccessTypes
  <2>5. \A r \in Reqs : Judged(r)'
    BY <1>1, <2>1 DEF Judged
  <2>. QED BY <2>1, <2>3, <2>4, <2>5 DEF GInv
<1>. QED BY <1>4, <1>5

\* Access holds whoever asks, signs in or decides meanwhile: a rejected user stays out until
\* an administrator approves, a user is shown a run only as its owner by the manifest or the
\* registry, and a synchronous build writes over no run that its check saw to be another's
\* (user_ledger.observe, check_active_run_access, check_existing_run_access).
THEOREM AccessKept == AccessSpec => AccessHolds
<1> DEFINE S == \A r \in Reqs : Shown(r)
           W == \A r \in Reqs : Overwritten(r)
<1>1. GInv /\ [AccessStep]_accessVars => GInv' /\ [S]_accessVars /\ [W]_accessVars
  <2> SUFFICES ASSUME GInv, [AccessStep]_accessVars
               PROVE  GInv' /\ [S]_accessVars /\ [W]_accessVars
    OBVIOUS
  <2>1. ask \in [Reqs -> Asks]
    BY DEF GInv, GTyped
  <2>2. \A r \in Reqs : ask'[r].pc = ask[r].pc => Shown(r) /\ Overwritten(r)
    BY DEF Shown, Overwritten, At
  <2>3. ASSUME NEW r \in Reqs,
               \/ Observe(r) \/ Guard(r) \/ CheckOwnership(r) \/ CheckRegistry(r) \/ BuildEnds(r)
               \/ \E p \in Principals, route \in Routes : Arrive(r, p, route)
        PROVE  GInv' /\ S /\ W
    <3>1. GInv' /\ Shown(r) /\ Overwritten(r)
      BY <2>3, ArriveKeeps, GuardKeeps
    <3>2. \A q \in Reqs \ {r} : ask'[q] = ask[q]
      BY <2>1, <2>3 DEF Observe, Guard, CheckOwnership, CheckRegistry, BuildEnds, Arrive, Goto
    <3>. QED BY <2>2, <3>1, <3>2
  <2>4. CASE \/ \E u \in Users, s \in {"approved", "rejected"} : Decide(u, s)
             \/ \E p \in Principals : Submit(p)
             \/ JobEnds \/ Lose
    BY <2>2, <2>4, WorldKeeps
  <2>5. CASE UNCHANGED accessVars
    <3>1. GInv'
      BY <2>5 DEF accessVars, GInv, GTyped, AccessTypes, ManifestsOwned, Judged
    <3>. QED BY <2>5, <3>1
  <2>. QED BY <2>3, <2>4, <2>5 DEF AccessStep
<1>2. GInv => AccessTypes /\ RejectionHolds
  <2> SUFFICES ASSUME GInv PROVE AccessTypes /\ RejectionHolds
    OBVIOUS
  <2>. QED BY DEF GInv, GTyped, Judged, RejectionHolds
<1>3. AccessSpec => []GInv /\ [][S]_accessVars /\ [][W]_accessVars
  BY <1>1, AccessStart, PTL DEF AccessSpec
<1>4. /\ [S]_accessVars => [\A r \in Reqs :
            (/\ enforce /\ ask[r].who \in Users /\ ask[r].route # "build"
             /\ ~At(r, "served") /\ ask'[r].pc = "served")
               => ask[r].who \in {runManifest.owner, job}]_accessVars
      /\ [W]_accessVars => [\A r \in Reqs :
            (/\ enforce /\ ask[r].who \in Users
             /\ At(r, "building") /\ ask'[r].pc = "served"
             /\ runManifest # NoManifest /\ runManifest.owner # ask[r].who)
               => ask[r].saw # runManifest.owner]_accessVars
  BY DEF Shown, Overwritten
<1>. QED BY <1>2, <1>3, <1>4, PTL DEF AccessHolds, OwnerOnly, RunKeepsOwner
-----------------------------------------------------------------------------
(* The build index.                                                        *)

OnDisk == {r \in Runs : manifest[r] # "none"}

\* A rebuild has listed, or has still to scan, every run that ended before it began.
Scanned ==
    /\ rebuild.pc # "idle" =>
          /\ rebuild.tmp > 0
          /\ OnDisk \ rebuild.during \subseteq db[rebuild.tmp] \cup rebuild.todo
          /\ rebuild.during \subseteq beside
    /\ rebuild.pc = "swap" => rebuild.todo = {}

\* While nothing fails the index lists every run on disk, but for those beside a rebuild,
\* and what is to be pruned is still a cancelled run.
Current ==
    /\ rebuild.pc # "swap" => OnDisk \ beside \subseteq Listed
    /\ \A r \in prune.todo \ beside : manifest[r] = "cancelled"
    /\ prune.wrong \subseteq beside

XInv == IndexTypes /\ known \subseteq OnDisk /\ Scanned /\ (indexFaults = 0 => Current)

LEMMA IndexStarts == IndexInit => XInv
BY FilesAssumption
   DEF IndexInit, XInv, IndexTypes, OnDisk, Scanned, Current, Listed, NoRebuild, Files

\* The steps of the service.
LEMMA IndexService ==
    ASSUME XInv, StartService \/ StopService PROVE XInv'
<1>1. CASE StopService
  BY <1>1, FilesAssumption DEF StopService, XInv, IndexTypes, OnDisk, Scanned, Current, Listed, Files
<1>2. CASE StartService
  <2>1. CASE path # 0
    BY <1>2, <2>1, FilesAssumption DEF StartService, XInv, IndexTypes, OnDisk, Scanned, Current, Listed, Files
  <2>2. CASE path = 0
    <3>1. /\ made < MaxFiles /\ made' = made + 1 /\ path' = made + 1 /\ opened' = made + 1
          /\ UNCHANGED <<manifest, db, rebuild, prune, known, beside, indexFaults>>
      BY <1>2, <2>2 DEF StartService
    <3>2. IndexTypes'
      BY <3>1, FilesAssumption DEF XInv, IndexTypes, Files
    <3>3. Listed = {}
      BY <2>2 DEF Listed
    <3>. QED BY <3>1, <3>2, <3>3 DEF XInv, OnDisk, Scanned, Current
  <2>. QED BY <2>1, <2>2
<1>. QED BY <1>1, <1>2

LEMMA IndexBuild ==
    ASSUME XInv, NEW r \in Runs, NEW s \in {"ok", "cancelled"}, FinishBuild(r, s) PROVE XInv'
<1>1. /\ manifest \in [Runs -> {"none", "ok", "cancelled"}] /\ manifest' = [manifest EXCEPT ![r] = s]
      /\ path' = path /\ made' = made /\ opened' = opened /\ prune' = prune
      /\ r \notin db[opened] /\ opened \in Files /\ db \in [Files -> SUBSET Runs]
  BY FilesAssumption DEF FinishBuild, XInv, IndexTypes, Files
<1>2. manifest' \in [Runs -> {"none", "ok", "cancelled"}]
  BY <1>1
<1>3. OnDisk' = OnDisk \cup {r}
  BY <1>1 DEF OnDisk
<1>4. /\ db' \in [Files -> SUBSET Runs] /\ \A f \in Files : db[f] \subseteq db'[f]
      /\ indexFaults' \in Nat /\ (indexFaults' = 0 => indexFaults = 0 /\ r \in db'[opened])
      /\ known' \subseteq known \cup {r}
  BY <1>1 DEF FinishBuild, XInv, IndexTypes, IndexFault
<1>5. /\ rebuild' \in [pc : {"idle", "scan", "swap"}, todo : SUBSET Runs, tmp : 0..made,
                      bak : 0..made, during : SUBSET Runs]
      /\ rebuild'.pc = rebuild.pc /\ rebuild'.tmp = rebuild.tmp /\ rebuild'.todo = rebuild.todo
      /\ rebuild'.during = IF rebuild.pc = "idle" THEN rebuild.during ELSE rebuild.during \cup {r}
  BY DEF FinishBuild, XInv, IndexTypes
<1>6. beside' = IF rebuild.pc = "idle" /\ opened = path THEN beside ELSE beside \cup {r}
  BY DEF FinishBuild
<1>7. IndexTypes'
  BY <1>1, <1>2, <1>4, <1>5, <1>6 DEF XInv, IndexTypes
<1>8. Scanned'
  <2> SUFFICES ASSUME rebuild.pc # "idle" PROVE Scanned'
    BY <1>5 DEF Scanned
  <2>1. rebuild.tmp \in Files
    BY FilesAssumption DEF XInv, IndexTypes, Scanned, Files
  <2>2. db[rebuild.tmp] \subseteq db'[rebuild.tmp]
    BY <1>4, <2>1
  <2>3. rebuild.tmp > 0 /\ rebuild.during \subseteq beside
        /\ OnDisk \ rebuild.during \subseteq db[rebuild.tmp] \cup rebuild.todo
        /\ (rebuild.pc = "swap" => rebuild.todo = {})
    BY DEF XInv, Scanned
  <2>4. beside' = beside \cup {r} /\ rebuild'.during = rebuild.during \cup {r}
    BY <1>5, <1>6
  <2>5. OnDisk' \ rebuild'.during \subseteq db'[rebuild.tmp] \cup rebuild.todo
    BY <1>3, <2>2, <2>3, <2>4
  <2>. QED BY <1>5, <2>3, <2>4, <2>5 DEF Scanned
<1>9. ASSUME indexFaults' = 0 PROVE Current'
  <2>1. Current /\ r \in db'[opened]
    BY <1>4, <1>9 DEF XInv
  <2>2. Listed \subseteq Listed'
    BY <1>1, <1>4, FilesAssumption DEF Listed, XInv, IndexTypes, Files
  <2>3. r \in beside' \/ (r \in Listed' /\ r \notin Listed /\ rebuild.pc = "idle")
    BY <1>1, <1>6, <2>1, FilesAssumption DEF Listed, Files
  <2>4. beside \subseteq beside'
    BY <1>6
  <2>5. rebuild'.pc # "swap" => OnDisk' \ beside' \subseteq Listed'
    BY <1>3, <1>5, <2>1, <2>2, <2>3, <2>4 DEF Current
  <2>6. ASSUME NEW q \in prune.todo, q \notin beside' PROVE manifest'[q] = "cancelled"
    <3>1. q \in Runs /\ q \notin beside /\ manifest[q] = "cancelled"
      BY <2>1, <2>4, <2>6 DEF Current, XInv, IndexTypes
    <3>2. q # r
      BY <2>1, <2>3, <2>6, <3>1 DEF Current, OnDisk
    <3>. QED BY <1>1, <3>1, <3>2
  <2>7. prune.wrong \subseteq beside'
    BY <2>1, <2>4 DEF Current
  <2>. QED BY <1>1, <2>5, <2>6, <2>7 DEF Current
<1>10. known' \subseteq OnDisk'
  BY <1>3, <1>4 DEF XInv
<1>. QED BY <1>7, <1>8, <1>9, <1>10 DEF XInv

\* The steps of the rebuild.
LEMMA IndexRebuild ==
    ASSUME XInv, StartRebuild \/ (\E r \in Runs : ScanRun(r)) \/ MoveAway \/ Swap \/ CrashRebuild
    PROVE  XInv'
<1>1. CASE StartRebuild
  <2>1. /\ made < MaxFiles /\ made' = made + 1
        /\ rebuild' = [pc |-> "scan", todo |-> OnDisk, tmp |-> made + 1, bak |-> 0, during |-> {}]
        /\ UNCHANGED <<manifest, path, db, opened, prune, known, beside, indexFaults>>
    BY <1>1 DEF StartRebuild, OnDisk
  <2>2. IndexTypes' /\ rebuild.pc = "idle"
    BY <1>1, <2>1, FilesAssumption DEF StartRebuild, XInv, IndexTypes, OnDisk, Files
  <2>3. Scanned'
    BY <2>1 DEF Scanned, OnDisk, XInv, IndexTypes
  <2>. QED BY <2>1, <2>2, <2>3 DEF XInv, Current, OnDisk, Listed
<1>2. ASSUME NEW r \in Runs, ScanRun(r) PROVE XInv'
  <2>1. /\ rebuild.pc = "scan" /\ r \in rebuild.todo
        /\ rebuild' = [rebuild EXCEPT !.todo = @ \ {r}]
        /\ UNCHANGED <<manifest, path, made, opened, prune, known, beside, indexFaults>>
        /\ rebuild.tmp \in Files /\ db \in [Files -> SUBSET Runs]
    BY <1>2, FilesAssumption DEF ScanRun, XInv, IndexTypes, Scanned, Files
  <2>2. /\ rebuild' \in [pc : {"idle", "scan", "swap"}, todo : SUBSET Runs, tmp : 0..made,
                        bak : 0..made, during : SUBSET Runs]
        /\ rebuild'.pc = "scan" /\ rebuild'.tmp = rebuild.tmp /\ rebuild'.todo = rebuild.todo \ {r}
        /\ rebuild'.during = rebuild.during
    BY <2>1 DEF XInv, IndexTypes
  <2>3. /\ db' \in [Files -> SUBSET Runs] /\ \A f \in Files : db[f] \subseteq db'[f]
        /\ (r \in OnDisk => r \in db'[rebuild.tmp])
    BY <1>2, <2>1 DEF ScanRun, OnDisk
  <2>4. IndexTypes'
    BY <2>1, <2>2, <2>3 DEF XInv, IndexTypes
  <2>5. Scanned'
    <3>1. OnDisk \ rebuild.during \subseteq db[rebuild.tmp] \cup rebuild.todo
          /\ rebuild.tmp > 0 /\ rebuild.during \subseteq beside /\ OnDisk' = OnDisk
      BY <2>1 DEF XInv, Scanned, OnDisk
    <3>2. OnDisk \ rebuild.during \subseteq db'[rebuild.tmp] \cup rebuild'.todo
      BY <2>1, <2>2, <2>3, <3>1
    <3>. QED BY <2>1, <2>2, <3>1, <3>2 DEF Scanned
  <2>6. Listed \subseteq Listed'
    BY <2>1, <2>3, FilesAssumption DEF Listed, XInv, IndexTypes, Files
  <2>. QED BY <2>1, <2>2, <2>4, <2>5, <2>6 DEF XInv, Current, OnDisk
<1>3. CASE MoveAway
  <2>1. /\ rebuild.pc = "scan" /\ rebuild.todo = {} /\ path' = 0
        /\ rebuild' = [rebuild EXCEPT !.pc = "swap", !.bak = path]
        /\ UNCHANGED <<manifest, db, made, opened, prune, known, beside, indexFaults>>
    BY <1>3 DEF MoveAway
  <2>2. /\ rebuild' \in [pc : {"idle", "scan", "swap"}, todo : SUBSET Runs, tmp : 0..made,
                        bak : 0..made, during : SUBSET Runs]
        /\ rebuild'.pc = "swap" /\ rebuild'.tmp = rebuild.tmp /\ rebuild'.todo = {}
        /\ rebuild'.during = rebuild.during
    BY <2>1 DEF XInv, IndexTypes
  <2>3. IndexTypes'
    BY <2>1, <2>2 DEF XInv, IndexTypes
  <2>. QED BY <2>1, <2>2, <2>3 DEF XInv, Current, OnDisk, Scanned
<1>4. CASE Swap
  <2>1. /\ rebuild.pc = "swap" /\ rebuild' = NoRebuild
        /\ UNCHANGED <<manifest, db, made, opened, prune, known, beside>>
        /\ path' \in {rebuild.tmp, path, rebuild.bak} /\ indexFaults' \in Nat
        /\ (indexFaults' = 0 => indexFaults = 0 /\ path' = rebuild.tmp)
    BY <1>4 DEF Swap, IndexFault, XInv, IndexTypes
  <2>2. IndexTypes' /\ rebuild'.pc = "idle"
    BY <2>1 DEF XInv, IndexTypes, NoRebuild
  <2>3. ASSUME indexFaults' = 0 PROVE OnDisk' \ beside' \subseteq Listed'
    <3>1. /\ OnDisk \ rebuild.during \subseteq db[rebuild.tmp] /\ rebuild.tmp > 0
          /\ rebuild.during \subseteq beside
      BY <2>1 DEF XInv, Scanned
    <3>. QED BY <2>1, <2>3, <3>1 DEF Listed, OnDisk
  <2>. QED BY <2>1, <2>2, <2>3 DEF XInv, Scanned, Current, OnDisk
<1>5. CASE CrashRebuild
  <2>1. /\ rebuild' = NoRebuild /\ indexFaults' \in Nat /\ indexFaults' # 0
        /\ UNCHANGED <<manifest, path, db, made, opened, prune, known, beside>>
    BY <1>5 DEF CrashRebuild, IndexFault, XInv, IndexTypes
  <2>. QED BY <2>1 DEF XInv, IndexTypes, Scanned, OnDisk, NoRebuild
<1>. QED BY <1>1, <1>2, <1>3, <1>4, <1>5

\* The steps of the pruning.
LEMMA IndexPrune ==
    ASSUME XInv, FindCancelled \/ (\E r \in Runs : RemoveRun(r)) PROVE XInv'
<1>1. CASE FindCancelled
  <2>1. PICK c \in SUBSET {r \in Runs : manifest[r] = "cancelled"} :
          prune' = [prune EXCEPT !.todo = c]
    BY <1>1 DEF FindCancelled
  <2>2. prune' \in [todo : SUBSET Runs, wrong : SUBSET Runs]
        /\ prune'.todo = c /\ prune'.wrong = prune.wrong
    BY <2>1 DEF XInv, IndexTypes
  <2>3. UNCHANGED <<manifest, path, db, made, opened, rebuild, known, beside, indexFaults>>
    BY <1>1 DEF FindCancelled
  <2>. QED BY <2>1, <2>2, <2>3 DEF XInv, IndexTypes, Scanned, Current, OnDisk, Listed
<1>2. ASSUME NEW r \in Runs, RemoveRun(r) PROVE XInv'
  <2>1. /\ r \in prune.todo /\ manifest' = [manifest EXCEPT ![r] = "none"]
        /\ prune' = [todo |-> prune.todo \ {r},
                     wrong |-> IF manifest[r] = "ok" THEN prune.wrong \cup {r} ELSE prune.wrong]
        /\ known' = known \ {r}
        /\ UNCHANGED <<path, db, made, opened, rebuild, beside, indexFaults>>
    BY <1>2 DEF RemoveRun
  <2>2. OnDisk' = OnDisk \ {r}
    BY <2>1 DEF OnDisk, XInv, IndexTypes
  <2>3. IndexTypes'
    BY <2>1 DEF XInv, IndexTypes
  <2>4. Scanned'
    BY <2>1, <2>2 DEF XInv, Scanned
  <2>5. ASSUME indexFaults = 0 PROVE Current'
    <3>1. Current /\ (r \notin beside => manifest[r] # "ok")
      BY <2>1, <2>5 DEF XInv, Current
    <3>2. Listed' = Listed
      BY <2>1 DEF Listed
    <3>3. \A q \in prune'.todo \ beside : manifest'[q] = "cancelled"
      BY <2>1, <3>1 DEF Current, XInv, IndexTypes
    <3>. QED BY <2>1, <2>2, <3>1, <3>2, <3>3 DEF Current
  <2>. QED BY <2>1, <2>2, <2>3, <2>4, <2>5 DEF XInv
<1>. QED BY <1>1, <1>2

\* While nothing fails the index lists every run that ended and was not pruned, a rebuild
\* lists every manifest, and pruning deletes cancelled runs only; what ends beside a rebuild
\* is excepted (_rebuild_sqlite, delete_cancelled_run).
THEOREM IndexStaysTrue == IndexSpec => IndexKept
<1>1. ASSUME XInv, [IndexStep]_indexVars PROVE XInv'
  <2>1. CASE IndexStep
    BY <1>1, <2>1, IndexService, IndexBuild, IndexRebuild, IndexPrune DEF IndexStep
  <2>2. CASE UNCHANGED indexVars
    BY <1>1, <2>2 DEF indexVars, XInv, IndexTypes, Scanned, Current, OnDisk, Listed
  <2>. QED BY <1>1, <2>1, <2>2
<1>2. XInv => IndexTypes /\ IndexSurvives /\ PrunesCancelled
  BY DEF XInv, IndexSurvives, PrunesCancelled, Current
<1>3. XInv /\ [IndexStep]_indexVars =>
        [rebuild.pc = "swap" /\ rebuild'.pc = "idle" /\ path' = rebuild.tmp =>
            {r \in Runs : manifest[r] # "none"} \ rebuild.during \subseteq db'[path']]_indexVars
  <2> SUFFICES ASSUME XInv, IndexStep, rebuild.pc = "swap", rebuild'.pc = "idle", path' = rebuild.tmp
               PROVE  {r \in Runs : manifest[r] # "none"} \ rebuild.during \subseteq db'[path']
    OBVIOUS
  <2>1. OnDisk \ rebuild.during \subseteq db[rebuild.tmp] /\ rebuild.tmp \in Files
    BY FilesAssumption DEF XInv, Scanned, IndexTypes, Files
  <2>2. db[rebuild.tmp] \subseteq db'[rebuild.tmp]
    BY <2>1 DEF IndexStep, StartService, StopService, StartRebuild, MoveAway, Swap, CrashRebuild,
                FindCancelled, ScanRun, RemoveRun, FinishBuild, XInv, IndexTypes
  <2>. QED BY <2>1, <2>2 DEF OnDisk
<1>. QED BY <1>1, <1>2, <1>3, IndexStarts, PTL DEF IndexSpec, IndexKept, RebuildComplete

-----------------------------------------------------------------------------
(* The backup.                                                             *)

RowStates == Readable \cup {"none", "validated", "retiring", "forgotten"}
FileStates == {"none", "intact", "damaged"}
Archives == [kind : {"archive"}, rows : [Copies -> Readable \cup {"none"}],
             current : Copies \cup {0}, files : [Copies -> FileStates],
             manifest : {"intact", "damaged"}]
Places == [kind : {"none", "foreign"}] \cup Archives
CopySteps == {"idle", "pin", "copy", "seal", "done", "refused", "dead"}
CopyLocals == [pc : CopySteps, work : Places, todo : SUBSET Copies, problem : BOOLEAN]
RestoreLocals == [pc : {"idle", "copy", "check", "done", "refused"}, work : Places]

BTypes ==
    /\ live \in [Copies -> RowStates] /\ pointer \in Copies \cup {0}
    /\ disk \in [Copies -> FileStates] /\ leased \subseteq Copies
    /\ copy \in CopyLocals /\ archive \in Places
    /\ restored \in RestoreLocals /\ target \in Places
    /\ backupFaults \in Nat

\* The snapshots a backup under way holds, and those it has still to lease or to copy.
CopiedRows == {s \in Copies : copy.work.rows[s] # "none"}

\* What a backup under way has in its work directory.
Working ==
    /\ copy.pc \in {"pin", "copy", "seal"} =>
          /\ copy.work \in Archives /\ copy.work.manifest = "intact"
          /\ copy.work.current # 0 => copy.work.rows[copy.work.current] = "committed"
    /\ copy.pc \in {"pin", "copy"} => copy.todo \subseteq CopiedRows
    /\ copy.pc = "pin" => ~copy.problem /\ (copy.todo = {} => CopiedRows = {})
    /\ copy.pc = "copy" /\ ~copy.problem =>
          \A s \in CopiedRows \ copy.todo : copy.work.files[s] = "intact"
    /\ copy.pc = "seal" => Verified(copy.work)

\* While nothing goes wrong what is committed has its files, what is leased stays committed,
\* and a copy under way holds a lease on all it has pinned.
Untroubled ==
    /\ \A s \in Copies : live[s] # "quarantined" /\ (live[s] = "committed" => disk[s] = "intact")
    /\ \A s \in leased : live[s] = "committed"
    /\ copy.pc = "pin" => CopiedRows \ copy.todo \subseteq leased
    /\ copy.pc = "copy" => CopiedRows \subseteq leased
    /\ ~copy.problem

CurrentCommitted == pointer # 0 => live[pointer] = "committed"

BInv ==
    /\ BTypes /\ CurrentCommitted /\ Working
    /\ RestoredWhole
    /\ backupFaults = 0 => Untroubled

LEMMA BackupStarts == BackupInit => BInv
BY CopiesAssumption
   DEF BackupInit, BInv, BTypes, CurrentCommitted, Working, RestoredWhole, Untroubled, RowStates,
       FileStates, Archives, Places, CopySteps, CopyLocals, RestoreLocals, NoFiles, NoCopy, Nothing

\* The warehouse in use.
LEMMA BackupInUse == ASSUME BInv, InUse PROVE BInv'
<1>0. PICK s \in Copies : \/ Validate(s) \/ Promote(s) \/ CommitRow(s) \/ BeginRetiring(s)
                          \/ DeleteFiles(s) \/ ForgetRow(s) \/ Quarantine(s) \/ Rot(s)
  BY DEF InUse
<1>1. /\ UNCHANGED <<leased, copy, archive, restored, target>>
      /\ live \in [Copies -> RowStates] /\ disk \in [Copies -> FileStates]
      /\ pointer \in Copies \cup {0} /\ backupFaults \in Nat /\ leased \subseteq Copies
      /\ CurrentCommitted
  BY DEF InUse, BInv, BTypes
<1> DEFINE Sound == /\ \A c \in Copies : live[c] # "quarantined"
                                         /\ (live[c] = "committed" => disk[c] = "intact")
                   /\ \A c \in leased : live[c] = "committed"
<1>2. /\ live' \in [Copies -> RowStates] /\ disk' \in [Copies -> FileStates]
      /\ pointer' \in Copies \cup {0} /\ backupFaults' \in Nat /\ CurrentCommitted'
      /\ backupFaults' = 0 => backupFaults = 0 /\ (Sound => Sound')
  <2> USE DEF RowStates, FileStates, Readable, CurrentCommitted
  <2>1. CASE Validate(s)
    BY <1>1, <2>1 DEF Validate
  <2>2. CASE Promote(s)
    BY <1>1, <2>2 DEF Promote
  <2>3. CASE CommitRow(s)
    BY <1>1, <2>3 DEF CommitRow
  <2>4. CASE BeginRetiring(s)
    BY <1>1, <2>4 DEF BeginRetiring
  <2>5. CASE DeleteFiles(s)
    BY <1>1, <2>5 DEF DeleteFiles
  <2>6. CASE ForgetRow(s)
    BY <1>1, <2>6 DEF ForgetRow
  <2>7. CASE Quarantine(s)
    BY <1>1, <2>7 DEF Quarantine, BackupFault
  <2>8. CASE Rot(s)
    BY <1>1, <2>8 DEF Rot, BackupFault
  <2>. QED BY <1>0, <2>1, <2>2, <2>3, <2>4, <2>5, <2>6, <2>7, <2>8
<1>3. BTypes'
  BY <1>1, <1>2 DEF BInv, BTypes
<1>4. Working' /\ RestoredWhole'
  BY <1>1 DEF BInv, Working, RestoredWhole, CopiedRows
<1>5. backupFaults' = 0 => Untroubled'
  BY <1>1, <1>2 DEF BInv, Untroubled, CopiedRows
<1>. QED BY <1>2, <1>3, <1>4, <1>5 DEF BInv

\* What the backup keeps of the invariant when its locals change.
LEMMA BackupCopies ==
    ASSUME BInv, UNCHANGED <<live, pointer, disk, restored, target>>,
           copy' \in CopyLocals, leased' \subseteq Copies, archive' \in Places, backupFaults' \in Nat,
           Working', backupFaults' = 0 => backupFaults = 0 /\ Untroubled'
    PROVE  BInv'
BY DEF BInv, BTypes, CurrentCommitted, RestoredWhole

\* A refused, dead or finished copy keeps nothing.
LEMMA CopyOver ==
    ASSUME BInv, UNCHANGED <<live, pointer, disk, restored, target>>, leased' = {},
           archive' \in Places, backupFaults' \in Nat, backupFaults' = 0 => backupFaults = 0,
           copy' \in CopyLocals, copy'.pc \in {"done", "refused", "dead"},
           copy'.problem => copy.problem
    PROVE  BInv'
<1>1. Working'
  BY DEF Working
<1>2. backupFaults = 0 => Untroubled'
  BY DEF BInv, BTypes, Untroubled
<1>. QED BY <1>1, <1>2, BackupCopies

LEMMA BackupCatalog == ASSUME BInv, CopyCatalog, UNCHANGED <<live, pointer, disk, restored, target,
                                                          archive, backupFaults>> PROVE BInv'
<1> DEFINE kept == [s \in Copies |-> IF live[s] \in Readable THEN live[s] ELSE "none"]
           work == Archive(kept, pointer, NoFiles)
           todo == {s \in Copies : kept[s] # "none"}
<1>1. copy' = [pc |-> "pin", work |-> work, todo |-> todo, problem |-> FALSE] /\ leased' = leased
      /\ copy.pc \in {"idle", "refused"}
  BY DEF CopyCatalog
<1>2. kept \in [Copies -> Readable \cup {"none"}]
  OBVIOUS
<1>3. /\ work \in Archives /\ work.rows = kept /\ work.current = pointer
      /\ work.manifest = "intact"
  BY <1>2 DEF Archive, Archives, NoFiles, FileStates, BInv, BTypes
<1>4. copy' \in CopyLocals
  BY <1>1, <1>3 DEF CopyLocals, CopySteps, Places
<1>5. pointer # 0 => kept[pointer] = "committed"
  BY DEF BInv, BTypes, CurrentCommitted, Readable
<1>6. CopiedRows' = todo
  BY <1>1, <1>3 DEF CopiedRows
<1>. HIDE DEF kept, work, todo
<1>7. Working'
  BY <1>1, <1>3, <1>5, <1>6 DEF Working
<1>8. backupFaults = 0 => Untroubled'
  BY <1>1, <1>6 DEF BInv, Untroubled
<1>. QED BY <1>1, <1>4, <1>7, <1>8, BackupCopies DEF BInv, BTypes

LEMMA BackupPin == ASSUME BInv, NEW s \in Copies, Pin(s), UNCHANGED <<live, pointer, disk, restored,
                                                   target, archive, backupFaults>> PROVE BInv'
<1>1. /\ copy.pc = "pin" /\ s \in copy.todo /\ copy \in CopyLocals /\ ~copy.problem
      /\ leased \subseteq Copies /\ archive \in Places /\ backupFaults \in Nat
      /\ copy.work \in Archives /\ copy.todo \subseteq CopiedRows
  BY DEF Pin, BInv, BTypes, Working
<1>2. CASE live[s] \notin Readable
  <2>1. copy' = [NoCopy EXCEPT !.pc = "refused", !.problem = FALSE] /\ leased' = {}
    BY <1>2 DEF Pin, Refuse
  <2>2. copy' \in CopyLocals /\ copy'.pc = "refused" /\ ~copy'.problem
    BY <2>1 DEF NoCopy, Nothing, CopyLocals, Places, CopySteps
  <2>. QED BY <1>1, <2>1, <2>2, CopyOver
<1>3. CASE live[s] \in Readable
  <2>1. copy' = AfterPin(s) /\ leased' = leased \cup {s}
    BY <1>3 DEF Pin
  <2>2. /\ copy' \in CopyLocals /\ copy'.work = copy.work /\ copy'.problem = copy.problem
        /\ copy.todo = {s} => copy'.pc = "copy" /\ copy'.todo = CopiedRows
        /\ copy.todo # {s} => copy'.pc = "pin" /\ copy'.todo = copy.todo \ {s}
    BY <1>1, <2>1 DEF AfterPin, CopyLocals, CopySteps, CopiedRows
  <2>3. CopiedRows' = CopiedRows
    BY <2>2 DEF CopiedRows
  <2>4. Working'
    BY <1>1, <2>2, <2>3 DEF Working, BInv
  <2>5. ASSUME backupFaults = 0 PROVE Untroubled'
    <3>1. Untroubled /\ live[s] = "committed"
      BY <1>3, <2>5 DEF BInv, Untroubled, Readable
    <3>. QED BY <1>1, <2>1, <2>2, <2>3, <3>1 DEF Untroubled
  <2>. QED BY <1>1, <2>1, <2>2, <2>4, <2>5, BackupCopies
<1>. QED BY <1>2, <1>3

LEMMA BackupFiles == ASSUME BInv, NEW s \in Copies, CopyFiles(s), UNCHANGED <<live, pointer, disk,
                                    restored, target, archive, backupFaults>> PROVE BInv'
<1>1. /\ copy.pc = "copy" /\ s \in copy.todo /\ copy \in CopyLocals /\ leased' = leased
      /\ leased \subseteq Copies /\ archive \in Places /\ backupFaults \in Nat
      /\ copy.work \in Archives /\ copy.todo \subseteq CopiedRows
      /\ disk \in [Copies -> FileStates]
      /\ copy' = [copy EXCEPT !.work.files[s] = disk[s], !.todo = @ \ {s},
                              !.problem = @ \/ disk[s] # "intact"]
  BY DEF CopyFiles, BInv, BTypes, Working
<1> DEFINE w == [copy.work EXCEPT !.files[s] = disk[s]]
<1>2. /\ copy'.pc = "copy" /\ copy'.todo = copy.todo \ {s}
      /\ copy'.problem = (copy.problem \/ disk[s] # "intact")
      /\ copy'.work = w
      /\ copy' = [pc |-> "copy", work |-> w, todo |-> copy.todo \ {s},
                  problem |-> copy.problem \/ disk[s] # "intact"]
  BY <1>1 DEF CopyLocals
<1>3. /\ w \in Archives /\ w.rows = copy.work.rows /\ w.current = copy.work.current
      /\ w.manifest = copy.work.manifest
      /\ w.files = [copy.work.files EXCEPT ![s] = disk[s]]
  BY <1>1 DEF Archives
<1>. HIDE DEF w
<1>4. copy' \in CopyLocals
  BY <1>1, <1>2, <1>3 DEF CopyLocals, CopySteps, Places
<1>5. CopiedRows' = CopiedRows
  BY <1>2, <1>3 DEF CopiedRows
<1>6. Working'
  <2>1. copy.work.files \in [Copies -> FileStates] /\ CopiedRows \subseteq Copies
    BY <1>1 DEF Archives, CopiedRows
  <2>2. ASSUME ~copy'.problem, NEW c \in CopiedRows \ copy'.todo
        PROVE  copy'.work.files[c] = "intact"
    <3>1. ~copy.problem /\ disk[s] = "intact" /\ c \in Copies /\ (c = s \/ c \notin copy.todo)
      BY <1>2, <2>1, <2>2
    <3>2. c # s => copy.work.files[c] = "intact"
      BY <1>1, <2>2, <3>1 DEF BInv, Working
    <3>. QED BY <1>2, <1>3, <2>1, <3>1, <3>2
  <2>. QED BY <1>1, <1>2, <1>3, <1>5, <2>2 DEF BInv, Working
<1>7. ASSUME backupFaults = 0 PROVE Untroubled'
  <2>1. Untroubled /\ disk[s] = "intact"
    BY <1>1, <1>7 DEF BInv, Untroubled
  <2>. QED BY <1>1, <1>2, <1>5, <2>1 DEF Untroubled
<1>. QED BY <1>1, <1>4, <1>6, <1>7, BackupCopies

LEMMA BackupEnds == ASSUME BInv, EndCopy, UNCHANGED <<live, pointer, disk, restored, target, archive,
                                                   backupFaults>> PROVE BInv'
<1>1. /\ copy.pc \in {"pin", "copy"} /\ copy.todo = {} /\ copy \in CopyLocals /\ leased' = {}
      /\ archive \in Places /\ backupFaults \in Nat /\ copy.work \in Archives
  BY DEF EndCopy, Refuse, BInv, BTypes, Working
<1>2. CASE copy.problem
  <2>1. copy' = [NoCopy EXCEPT !.pc = "refused", !.problem = TRUE]
    BY <1>2 DEF EndCopy, Refuse
  <2>2. copy' \in CopyLocals /\ copy'.pc = "refused"
    BY <2>1 DEF NoCopy, Nothing, CopyLocals, Places, CopySteps
  <2>. QED BY <1>1, <1>2, <2>2, CopyOver
<1>3. CASE ~copy.problem
  <2>1. copy' = [copy EXCEPT !.pc = "seal"]
    BY <1>3 DEF EndCopy
  <2>2. /\ copy' \in CopyLocals /\ copy'.pc = "seal" /\ copy'.work = copy.work
        /\ copy'.problem = copy.problem
    BY <1>1, <2>1 DEF CopyLocals, CopySteps
  <2>3. \A c \in CopiedRows : copy.work.files[c] = "intact"
    BY <1>1, <1>3 DEF BInv, Working
  <2>4. Verified(copy.work)
    BY <1>1, <2>3 DEF Verified, CopiedRows, Archives, BInv, Working
  <2>5. Working'
    BY <1>1, <2>2, <2>4 DEF Working, Verified, BInv
  <2>6. backupFaults = 0 => Untroubled'
    BY <1>1, <2>2 DEF BInv, BTypes, Untroubled
  <2>. QED BY <1>1, <2>2, <2>5, <2>6, BackupCopies
<1>. QED BY <1>2, <1>3

LEMMA BackupSeals == ASSUME BInv, Seal, UNCHANGED <<live, pointer, disk, restored, target,
                                                backupFaults>> PROVE BInv'
<1>1. /\ copy.pc = "seal" /\ copy \in CopyLocals /\ leased' = leased /\ leased \subseteq Copies
      /\ archive' \in Places /\ backupFaults \in Nat
  BY DEF Seal, BInv, BTypes, CopyLocals
<1>2. PICK pc \in {"done", "refused"} : copy' = [NoCopy EXCEPT !.pc = pc]
  BY DEF Seal
<1>3. /\ copy' \in CopyLocals /\ copy'.pc = pc /\ copy'.problem = FALSE
  BY <1>2 DEF NoCopy, Nothing, CopyLocals, Places, CopySteps
<1>4. Working'
  BY <1>3 DEF Working
<1>5. backupFaults = 0 => Untroubled'
  BY <1>1, <1>3 DEF BInv, Untroubled
<1>. QED BY <1>1, <1>3, <1>4, <1>5, BackupCopies

\* Leases that end early, and a backup that dies.
LEMMA BackupTroubled ==
    ASSUME BInv, (\E s \in Copies : Expire(s)) \/ CrashBackup,
           UNCHANGED <<live, pointer, disk, restored, target, archive>> PROVE BInv'
<1>1. /\ copy \in CopyLocals /\ leased \subseteq Copies /\ archive \in Places
      /\ backupFaults' \in Nat /\ backupFaults' # 0 /\ leased' \subseteq Copies
  BY DEF Expire, CrashBackup, BackupFault, BInv, BTypes
<1>2. CASE copy' = copy
  <2>1. Working'
    BY <1>2 DEF BInv, Working, CopiedRows
  <2>. QED BY <1>1, <1>2, <2>1, BackupCopies
<1>3. CASE CrashBackup
  <2>1. copy' = [NoCopy EXCEPT !.pc = "dead"] /\ leased' = {}
    BY <1>3 DEF CrashBackup
  <2>2. copy' \in CopyLocals /\ copy'.pc = "dead" /\ ~copy'.problem
    BY <2>1 DEF NoCopy, Nothing, CopyLocals, Places, CopySteps
  <2>. QED BY <1>1, <2>1, <2>2, CopyOver
<1>. QED BY <1>2, <1>3 DEF Expire

\* The restore, damage to the backup, and other processes.
LEMMA BackupRestores == ASSUME BInv, Restore PROVE BInv'
<1>1. UNCHANGED <<live, pointer, disk, leased, copy>>
  BY DEF Restore
<1>2. restored' \in RestoreLocals /\ target' \in Places /\ archive' \in Places /\ RestoredWhole'
      /\ backupFaults' \in Nat /\ (backupFaults' = 0 => backupFaults = 0)
  <2>1. CASE (VerifySource \/ CopyBackup \/ Place) /\ UNCHANGED <<archive, backupFaults>>
    <3>1. CASE VerifySource
      BY <2>1, <3>1 DEF VerifySource, BInv, BTypes, RestoreLocals, RestoredWhole
    <3>2. CASE CopyBackup
      BY <2>1, <3>2 DEF CopyBackup, BInv, BTypes, RestoreLocals, RestoredWhole
    <3>3. CASE Place
      <4>1. CASE Verified(restored.work) /\ target = Nothing
        BY <2>1, <3>3, <4>1 DEF Place, BInv, BTypes, RestoreLocals, RestoredWhole, Places, Nothing
      <4>2. CASE ~(Verified(restored.work) /\ target = Nothing)
        BY <2>1, <3>3, <4>2 DEF Place, BInv, BTypes, RestoreLocals, RestoredWhole, Places, Nothing
      <4>. QED BY <4>1, <4>2
    <3>. QED BY <2>1, <3>1, <3>2, <3>3
  <2>2. CASE DamageArchive
    <3>1. archive \in Archives /\ backupFaults' \in Nat /\ backupFaults' # 0
          /\ UNCHANGED <<restored, target>>
      BY <2>2 DEF DamageArchive, BackupFault, BInv, BTypes, Places
    <3>2. archive' \in Archives
      <4>1. CASE \E s \in Copies : archive' = [archive EXCEPT !.files[s] = "damaged"]
        <5>1. PICK s \in Copies : archive' = [archive EXCEPT !.files[s] = "damaged"]
          BY <4>1
        <5>2. [archive.files EXCEPT ![s] = "damaged"] \in [Copies -> FileStates]
          BY <3>1 DEF Archives, FileStates
        <5>. QED BY <3>1, <5>1, <5>2 DEF Archives
      <4>2. CASE archive' = [archive EXCEPT !.manifest = "damaged"]
        BY <3>1, <4>2 DEF Archives
      <4>. QED BY <2>2, <4>1, <4>2 DEF DamageArchive
    <3>. QED BY <3>1, <3>2 DEF BInv, BTypes, RestoredWhole, Places
  <2>3. CASE Occupy
    BY <2>3 DEF Occupy, BackupFault, BInv, BTypes, RestoredWhole, Places, Foreign
  <2>. QED BY <2>1, <2>2, <2>3 DEF Restore
<1>3. BTypes'
  BY <1>1, <1>2 DEF BInv, BTypes
<1>4. CurrentCommitted' /\ Working' /\ (backupFaults' = 0 => Untroubled')
  BY <1>1, <1>2 DEF BInv, CurrentCommitted, Working, Untroubled, CopiedRows
<1>. QED BY <1>2, <1>3, <1>4 DEF BInv

LEMMA BackupStays == ASSUME BInv, Back PROVE BInv'
<1>1. UNCHANGED <<live, pointer, disk, restored, target>>
  BY DEF Back
<1>. QED BY <1>1, BackupCatalog, BackupPin, BackupFiles, BackupEnds, BackupSeals, BackupTroubled
         DEF Back

\* What becomes a backup verifies, whatever the warehouse does beside it; with nothing but the
\* ordinary refreshes and collections the copy never meets a problem; what is restored verified
\* after it was copied; and neither command goes over another's files (backup, restore).
THEOREM BackupsStayWhole == BackupSpec => BackupsWhole
<1>1. ASSUME BInv, [BackupStep]_backupVars PROVE BInv'
  <2>1. CASE BackupStep
    BY <1>1, <2>1, BackupInUse, BackupStays, BackupRestores DEF BackupStep
  <2>2. CASE UNCHANGED backupVars
    BY <1>1, <2>2 DEF backupVars, BInv, BTypes, CurrentCommitted, Working, Untroubled, RestoredWhole,
                      CopiedRows
  <2>. QED BY <1>1, <2>1, <2>2
<1>2. BInv => BackupTypes /\ RestoredWhole /\ PinnedCopied
  <2> SUFFICES ASSUME BInv PROVE BackupTypes /\ PinnedCopied
    BY DEF BInv
  <2>1. BackupTypes
    BY DEF BInv, BTypes, BackupTypes, RowStates, FileStates, Archives, Places, CopyLocals,
           RestoreLocals
  <2>2. PinnedCopied
    BY DEF BInv, BTypes, Untroubled, PinnedCopied
  <2>. QED BY <2>1, <2>2
<1>3. BInv /\ [BackupStep]_backupVars =>
        [archive = Nothing /\ archive' \notin {Nothing, Foreign} => Verified(archive')]_backupVars
  <2> SUFFICES ASSUME BInv, BackupStep, archive = Nothing, archive' \notin {Nothing, Foreign}
               PROVE  Verified(archive')
    OBVIOUS
  <2>1. CASE Seal
    BY <2>1 DEF Seal, BInv, Working
  <2>2. CASE Restore
    BY <2>2 DEF Restore, DamageArchive, Occupy, Nothing
  <2>3. archive' = archive \/ Seal \/ Restore
    BY DEF BackupStep, InUse, Back
  <2>. QED BY <2>1, <2>2, <2>3
<1>4. BInv /\ [BackupStep]_backupVars =>
        [/\ archive = Foreign => archive' = Foreign
         /\ target = Foreign => target' = Foreign]_backupVars
  <2> SUFFICES ASSUME BInv, BackupStep
               PROVE  /\ archive = Foreign => archive' = Foreign
                      /\ target = Foreign => target' = Foreign
    OBVIOUS
  <2>1. Foreign # Nothing /\ Foreign.kind # "archive"
    BY DEF Foreign, Nothing
  <2>2. CASE Back
    BY <2>1, <2>2 DEF Back, Seal
  <2>3. CASE Restore
    <3>1. CASE Place
      BY <2>1, <2>3, <3>1 DEF Place, Restore, DamageArchive, Occupy
    <3>. QED BY <2>1, <2>3, <3>1 DEF Restore, VerifySource, CopyBackup, DamageArchive, Occupy
  <2>4. CASE InUse
    BY <2>4 DEF InUse
  <2>. QED BY <2>2, <2>3, <2>4 DEF BackupStep
<1>. QED BY <1>1, <1>2, <1>3, <1>4, BackupStarts, PTL
         DEF BackupSpec, BackupsWhole, BackupWhole, NothingOverwritten
=============================================================================
