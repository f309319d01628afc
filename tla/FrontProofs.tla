---------------------------- MODULE FrontProofs ----------------------------
(***************************************************************************)
(* Theorems about the HTTP front: the places of the pool and the throttle  *)
(* of failed authentications, for every number of connections, clients and *)
(* threads, whatever the clock and a server_close do between two steps.    *)
(***************************************************************************)
EXTENDS Gateway, FiniteSetTheorems, SequenceTheorems, TLAPS

-----------------------------------------------------------------------------
(* Sequences of times in the order they were recorded.                     *)

Ordered(s) == \A i, j \in 1..Len(s) : i <= j => s[i] <= s[j]

\* A finite set of positive numbers that holds all below each of its members is an interval.
LEMMA Prefix ==
    ASSUME NEW n \in Nat, NEW D \in SUBSET (1..n), \A i, j \in 1..n : j \in D /\ i <= j => i \in D
    PROVE  /\ IsFiniteSet(D) /\ Cardinality(D) \in 0..n
           /\ D = 1..Cardinality(D)
<1>1. IsFiniteSet(1..n) /\ Cardinality(1..n) = n
  BY FS_Interval
<1>2. IsFiniteSet(D) /\ Cardinality(D) \in Nat /\ Cardinality(D) <= n
  BY <1>1, FS_Subset, FS_CardinalityType
<1> DEFINE m == Cardinality(D)
<1>3. ASSUME NEW x \in D PROVE x \in 1..m
  <2>1. 1..x \in SUBSET D /\ x \in 1..n
    OBVIOUS
  <2>2. Cardinality(1..x) = x
    BY <2>1, FS_Interval
  <2>. QED BY <1>2, <2>1, <2>2, FS_Subset
<1>4. IsFiniteSet(1..m) /\ Cardinality(1..m) = m
  BY <1>2, FS_Interval
<1>5. D \in SUBSET (1..m)
  BY <1>3
<1>6. D = 1..m
  BY <1>4, <1>5, FS_Subset
<1>. QED BY <1>2, <1>6

\* What is due is at the front: pruning leaves the recent ones, all of them.
LEMMA Cut ==
    ASSUME NEW s \in Seq(Nat), Ordered(s), clock \in Nat
    PROVE  \E m \in 0..Len(s) :
              /\ \A i \in 1..Len(s) : s[i] + Window <= clock <=> i <= m
              /\ Recent(s) = Len(s) - m
              /\ Pruned(s) \in Seq(Nat) /\ Len(Pruned(s)) = Len(s) - m
              /\ \A i \in 1..(Len(s) - m) : Pruned(s)[i] = s[i + m]
<1> DEFINE n == Len(s)
           D == {i \in DOMAIN s : s[i] + Window <= clock}
           m == Cardinality(D)
<1>0. DOMAIN s = 1..n /\ n \in Nat /\ \A i \in 1..n : s[i] \in Nat
  OBVIOUS
<1>1. /\ IsFiniteSet(D) /\ m \in 0..n /\ D = 1..m
  <2>1. \A i, j \in 1..n : j \in D /\ i <= j => i \in D
    BY <1>0, GateAssumption DEF Ordered
  <2>2. D \in SUBSET (1..n)
    BY <1>0
  <2>. HIDE DEF D, n
  <2>. QED BY <1>0, <2>1, <2>2, Prefix
<1>2. \A i \in 1..n : s[i] + Window <= clock <=> i <= m
  <2>1. \A i \in 1..n : s[i] + Window <= clock <=> i \in D
    BY <1>0
  <2>. HIDE DEF D, n, m
  <2>2. \A i \in 1..n : i \in D <=> i <= m
    BY <1>0, <1>1
  <2>. QED BY <2>1, <2>2
<1>4. Pruned(s) = SubSeq(s, m + 1, n)
  BY DEF Pruned, Without
<1>. HIDE DEF m, D, n
<1>3. Recent(s) = n - m
  <2>1. {i \in DOMAIN s : s[i] + Window > clock} = (m + 1)..n
    BY <1>0, <1>1, <1>2, GateAssumption
  <2>2. m \in Int /\ n \in Int /\ m <= n /\ m + 1 \in Int
    BY <1>0, <1>1
  <2>3. Cardinality((m + 1)..n) = IF m + 1 > n THEN 0 ELSE n - (m + 1) + 1
    BY <2>2, FS_Interval
  <2>4. Cardinality((m + 1)..n) = n - m
    BY <2>2, <2>3
  <2>. QED BY <2>1, <2>4 DEF Recent
<1>5. /\ Pruned(s) \in Seq(Nat) /\ Len(Pruned(s)) = n - m
      /\ \A i \in 1..(n - m) : Pruned(s)[i] = s[i + m]
  <2>1. m + 1 \in Int /\ n \in Int /\ \A i \in (m + 1)..n : s[i] \in Nat
    BY <1>0, <1>1
  <2>2. /\ SubSeq(s, m + 1, n) \in Seq(Nat)
        /\ Len(SubSeq(s, m + 1, n)) = (IF m + 1 <= n THEN n - (m + 1) + 1 ELSE 0)
        /\ \A i \in 1..(n - (m + 1) + 1) : SubSeq(s, m + 1, n)[i] = s[m + 1 + i - 1]
    BY <2>1, SubSeqProperties
  <2>. QED BY <1>0, <1>1, <1>4, <2>2
<1>. QED BY <1>0, <1>1, <1>2, <1>3, <1>5 DEF n

\* Short is long without entries that are due.
TailOf(short, long) ==
    \E d \in 0..Len(long) :
        /\ Len(short) = Len(long) - d
        /\ \A i \in 1..Len(short) : short[i] = long[i + d]
        /\ \A i \in 1..d : long[i] + Window <= clock

LEMMA SameRecent ==
    ASSUME NEW f \in Seq(Nat), NEW l \in Seq(Nat), Ordered(l), TailOf(f, l), clock \in Nat
    PROVE  Ordered(f) /\ Recent(f) = Recent(l)
<1>1. PICK d \in 0..Len(l) : /\ Len(f) = Len(l) - d
                             /\ \A i \in 1..Len(f) : f[i] = l[i + d]
                             /\ \A i \in 1..d : l[i] + Window <= clock
  BY DEF TailOf
<1>0. Len(l) \in Nat /\ Len(f) \in Nat /\ \A i \in 1..Len(l) : l[i] \in Nat
  OBVIOUS
<1>2. Ordered(f)
  <2>1. ASSUME NEW i \in 1..Len(f), NEW j \in 1..Len(f), i <= j PROVE f[i] <= f[j]
    <3>1. i + d \in 1..Len(l) /\ j + d \in 1..Len(l) /\ i + d <= j + d
      BY <1>0, <1>1, <2>1
    <3>. QED BY <1>1, <3>1 DEF Ordered
  <2>. QED BY <2>1 DEF Ordered
<1>3. PICK m \in 0..Len(l) : /\ \A i \in 1..Len(l) : l[i] + Window <= clock <=> i <= m
                             /\ Recent(l) = Len(l) - m
  BY Cut
<1>4. PICK p \in 0..Len(f) : /\ \A i \in 1..Len(f) : f[i] + Window <= clock <=> i <= p
                             /\ Recent(f) = Len(f) - p
  BY <1>2, Cut
<1>5. d <= m
  BY <1>1, <1>3
<1>6. ASSUME NEW i \in 1..Len(f) PROVE i <= p <=> i + d <= m
  <2>1. i + d \in 1..Len(l) /\ f[i] = l[i + d]
    BY <1>0, <1>1
  <2>. QED BY <1>3, <1>4, <2>1
<1>7. p = m - d
  <2>1. p >= 1 => p + d <= m
    BY <1>0, <1>4, <1>6
  <2>2. m - d >= 1 => m - d <= p
    <3> SUFFICES ASSUME m - d >= 1 PROVE m - d <= p
      OBVIOUS
    <3>1. m - d \in 1..Len(f) /\ (m - d) + d <= m
      BY <1>0, <1>1, <1>3, <1>5
    <3>. QED BY <1>6, <3>1
  <2>. QED BY <1>5, <2>1, <2>2
<1>. QED BY <1>1, <1>2, <1>3, <1>4, <1>7

\* One more failure, now.
LEMMA OneMore ==
    ASSUME NEW s \in Seq(Nat), Ordered(s), clock \in Nat, \A i \in 1..Len(s) : s[i] <= clock
    PROVE  /\ Ordered(Append(s, clock)) /\ Recent(Append(s, clock)) = Recent(s) + 1
<1> DEFINE a == Append(s, clock)
<1>1. /\ a \in Seq(Nat) /\ Len(a) = Len(s) + 1 /\ a[Len(s) + 1] = clock
      /\ \A i \in 1..Len(s) : a[i] = s[i]
  OBVIOUS
<1>. HIDE DEF a
<1>0. Len(s) \in Nat /\ \A i \in 1..Len(s) : s[i] \in Nat
  OBVIOUS
<1>2. Ordered(a)
  <2>1. ASSUME NEW i \in 1..Len(a), NEW j \in 1..Len(a), i <= j PROVE a[i] <= a[j]
    <3>1. CASE j = Len(s) + 1
      BY <1>0, <1>1, <2>1, <3>1
    <3>2. CASE j # Len(s) + 1
      <4>1. i \in 1..Len(s) /\ j \in 1..Len(s)
        BY <1>0, <1>1, <2>1, <3>2
      <4>. QED BY <1>1, <2>1, <4>1 DEF Ordered
    <3>. QED BY <3>1, <3>2
  <2>. QED BY <2>1 DEF Ordered
<1>3. PICK m \in 0..Len(s) : /\ \A i \in 1..Len(s) : s[i] + Window <= clock <=> i <= m
                             /\ Recent(s) = Len(s) - m
  BY Cut
<1>4. PICK p \in 0..Len(a) : /\ \A i \in 1..Len(a) : a[i] + Window <= clock <=> i <= p
                             /\ Recent(a) = Len(a) - p
  BY <1>1, <1>2, Cut
<1>5. p <= Len(s)
  BY <1>1, <1>4, GateAssumption
<1>6. ASSUME NEW i \in 1..Len(s) PROVE i <= p <=> i <= m
  <2>1. i \in 1..Len(a) /\ a[i] = s[i]
    BY <1>0, <1>1
  <2>. QED BY <1>3, <1>4, <2>1
<1>7. p = m
  BY <1>5, <1>6
<1>. QED BY <1>1, <1>2, <1>3, <1>4, <1>7 DEF a

\* A later clock makes no failure recent.
LEMMA LaterFewer ==
    ASSUME NEW s \in Seq(Nat), clock \in Nat, clock' \in Nat, clock <= clock'
    PROVE  Recent(s)' <= Recent(s) /\ Recent(s) \in Nat /\ Recent(s)' \in Nat
<1> DEFINE R == {i \in DOMAIN s : s[i] + Window > clock}
           Q == {i \in DOMAIN s : s[i] + Window > clock'}
<1>0. Len(s) \in Nat /\ DOMAIN s = 1..Len(s) /\ \A i \in 1..Len(s) : s[i] \in Nat
  OBVIOUS
<1>1. R \in SUBSET (1..Len(s)) /\ IsFiniteSet(1..Len(s)) /\ Q \in SUBSET R
  <2>1. IsFiniteSet(1..Len(s))
    BY <1>0, FS_Interval
  <2>2. \A i \in 1..Len(s) : s[i] + Window > clock' => s[i] + Window > clock
    BY <1>0, GateAssumption
  <2>. QED BY <1>0, <2>1, <2>2
<1>2. Cardinality(Q) <= Cardinality(R) /\ Cardinality(R) \in Nat /\ Cardinality(Q) \in Nat
  BY <1>1, FS_Subset, FS_CardinalityType
<1>. QED BY <1>2 DEF Recent

-----------------------------------------------------------------------------
(* Places and threads: the part of the invariant the clock does not touch. *)

Out == {"new", "rejected", "closed"}

Busy == {"throttle", "authenticate", "failed", "granted"}

Pcs == Out \cup Busy \cup {"submit", "queued", "blocked", "finished"}

Placed == {c \in Conns : conn[c].pc \notin Out}

\* Connections of a client that passed the throttle and may still fail.
Trying(k) == {c \in Conns : conn[c].client = k /\ conn[c].pc \in {"authenticate", "failed"}}

Connected ==
    /\ conn \in [Conns -> [pc : Pcs, client : Clients \cup {"none"}]]
    /\ \A c \in Conns : conn[c].pc # "new" => conn[c].client \in Clients

Places ==
    /\ Connected /\ closed \in BOOLEAN
    /\ inflight \in Nat /\ PlacesExact
    /\ Cardinality(Running) <= MaxWorkers

LEMMA FiniteParts ==
    /\ IsFiniteSet(Placed) /\ Cardinality(Placed) \in Nat
    /\ IsFiniteSet(Running) /\ Cardinality(Running) \in Nat
    /\ \A k : IsFiniteSet(Trying(k)) /\ Cardinality(Trying(k)) \in Nat
               /\ Cardinality(Trying(k)) <= Cardinality(Running)
<1>1. Placed \subseteq Conns /\ Running \subseteq Conns /\ \A k : Trying(k) \subseteq Running
  BY DEF Placed, Running, Trying
<1>2. IsFiniteSet(Placed) /\ IsFiniteSet(Running)
  BY <1>1, FS_Subset, GateAssumption
<1>3. \A k : IsFiniteSet(Trying(k)) /\ Cardinality(Trying(k)) <= Cardinality(Running)
  BY <1>1, <1>2, FS_Subset
<1>. QED BY <1>2, <1>3, FS_CardinalityType

\* What a step of one connection that holds a place does to each of the sets.
LEMMA Moving ==
    ASSUME Connected, NEW c \in Placed, NEW pc \in Pcs \ {"new"}, Moves(c, pc)
    PROVE  /\ Connected'
           /\ conn'[c].pc = pc
           /\ Placed' = IF pc \in Out THEN Placed \ {c} ELSE Placed
           /\ Running' = IF pc \in Busy THEN Running \cup {c} ELSE Running \ {c}
           /\ \A k : Trying(k)' = IF k = conn[c].client /\ pc \in {"authenticate", "failed"}
                                  THEN Trying(k) \cup {c} ELSE Trying(k) \ {c}
<1>1. c \in Conns /\ conn[c].pc # "new" /\ conn[c].client \in Clients
  BY DEF Placed, Out, Connected
<1>2. conn' = [conn EXCEPT ![c] = [pc |-> pc, client |-> conn[c].client]]
  <2>1. conn[c] \in [pc : Pcs, client : Clients \cup {"none"}]
    BY <1>1 DEF Connected
  <2>2. [conn[c] EXCEPT !.pc = pc] = [pc |-> pc, client |-> conn[c].client]
    BY <2>1
  <2>3. conn' = [conn EXCEPT ![c] = [conn[c] EXCEPT !.pc = pc]]
    BY DEF Moves
  <2>. QED BY <2>2, <2>3
<1>3. /\ conn'[c].pc = pc /\ conn'[c].client = conn[c].client
      /\ \A d \in Conns \ {c} : conn'[d] = conn[d]
  BY <1>1, <1>2 DEF Connected
<1>4. Connected'
  BY <1>1, <1>2, <1>3 DEF Connected
<1>5. Placed' = IF pc \in Out THEN Placed \ {c} ELSE Placed
  BY <1>1, <1>3 DEF Placed
<1>6. Running' = IF pc \in Busy THEN Running \cup {c} ELSE Running \ {c}
  BY <1>1, <1>3 DEF Running, Busy
<1>7. \A k : Trying(k)' = IF k = conn[c].client /\ pc \in {"authenticate", "failed"}
                          THEN Trying(k) \cup {c} ELSE Trying(k) \ {c}
  BY <1>1, <1>3 DEF Trying
<1>. QED BY <1>3, <1>4, <1>5, <1>6, <1>7

\* A connection that keeps its place, and takes no thread it did not have.
LEMMA KeepsPlace ==
    ASSUME Places, NEW c \in Placed, NEW pc \in Pcs \ Out, Moves(c, pc),
           UNCHANGED <<inflight, closed>>,
           pc \notin Busy \/ c \in Running \/ Cardinality(Running) < MaxWorkers
    PROVE  Places'
<1>1. /\ Connected' /\ Placed' = Placed
      /\ Running' = IF pc \in Busy THEN Running \cup {c} ELSE Running \ {c}
  BY Moving DEF Places, Out
<1>2. Cardinality(Running') <= MaxWorkers
  <2>1. /\ Cardinality(Running \cup {c}) = IF c \in Running THEN Cardinality(Running)
                                           ELSE Cardinality(Running) + 1
        /\ Cardinality(Running \ {c}) = IF c \in Running THEN Cardinality(Running) - 1
                                        ELSE Cardinality(Running)
    BY FiniteParts, FS_AddElement, FS_RemoveElement
  <2>. QED BY <1>1, <2>1, FiniteParts, GateAssumption DEF Places
<1>3. inflight' = Cardinality(Placed') /\ inflight' <= Max'
  BY <1>1 DEF Places, PlacesExact, Placed, Out, Max
<1>. QED BY <1>1, <1>2, <1>3 DEF Places, PlacesExact, Placed, Out

LEMMA GivesPlace ==
    ASSUME Places, NEW c \in Placed, Moves(c, "closed"), inflight' = inflight - 1, closed' = closed
    PROVE  Places'
<1>1. /\ Connected' /\ Placed' = Placed \ {c} /\ Running' = Running \ {c}
  BY Moving DEF Places, Out, Busy, Pcs
<1>2. Cardinality(Placed') = Cardinality(Placed) - 1 /\ Cardinality(Placed') \in Nat
  <2>1. IsFiniteSet(Placed \ {c}) /\ Cardinality(Placed \ {c}) = Cardinality(Placed) - 1
    BY FiniteParts, FS_RemoveElement
  <2>. QED BY <1>1, <2>1, FS_CardinalityType
<1>3. Cardinality(Running') <= Cardinality(Running) /\ Cardinality(Running') \in Nat
  <2>1. IsFiniteSet(Running \ {c}) /\ Cardinality(Running \ {c}) <= Cardinality(Running)
    BY FiniteParts, FS_Subset
  <2>. QED BY <1>1, <2>1, FS_CardinalityType
<1>4. inflight = Cardinality(Placed)
  BY DEF Places, PlacesExact, Placed, Out
<1>5. inflight' = Cardinality(Placed') /\ inflight' <= Max' /\ inflight' \in Nat
  BY <1>2, <1>4, GateAssumption DEF Places, PlacesExact, Max
<1>6. PlacesExact'
  BY <1>5 DEF PlacesExact, Placed, Out
<1>7. Cardinality(Running') <= MaxWorkers
  BY <1>3, FiniteParts, GateAssumption DEF Places
<1>. QED BY <1>1, <1>5, <1>6, <1>7 DEF Places

LEMMA PlacesAtFirst == GateInit => Places
<1> SUFFICES ASSUME GateInit PROVE Places
  OBVIOUS
<1>1. Connected
  BY DEF GateInit, Connected, Pcs, Out
<1>2. Placed = {} /\ Running = {}
  BY DEF GateInit, Placed, Running, Out
<1>3. Cardinality(Placed) = 0 /\ Cardinality(Running) = 0
  BY <1>2, FS_EmptySet
<1>4. PlacesExact
  BY <1>3, GateAssumption DEF PlacesExact, Placed, Out, GateInit, Max
<1>5. closed \in BOOLEAN
  BY DEF GateInit
<1>6. inflight \in Nat /\ Cardinality(Running) <= MaxWorkers
  BY <1>3, GateAssumption DEF GateInit
<1>. QED BY <1>1, <1>4, <1>5, <1>6 DEF Places

LEMMA AdmitKeepsPlaces ==
    ASSUME Places, NEW c \in Conns, NEW k \in Clients, Admit(c, k)
    PROVE  Places'
<1>1. /\ conn[c].pc = "new" /\ c \notin Placed /\ c \notin Running
  BY DEF Admit, ConnAt, Placed, Running, Out
<1>2. closed' = closed
  BY DEF Admit
<1>a. inflight = Cardinality(Placed)
  BY DEF Places, PlacesExact, Placed, Out
<1>3. CASE inflight < Max
  <2>1. conn' = [conn EXCEPT ![c] = [pc |-> "submit", client |-> k]] /\ inflight' = inflight + 1
    BY <1>3 DEF Admit
  <2>2. Connected'
    BY <2>1 DEF Places, Connected, Pcs, Out
  <2>3. Placed' = Placed \cup {c} /\ Running' = Running
    BY <1>1, <2>1 DEF Places, Connected, Placed, Running, Out
  <2>4. Cardinality(Placed') = Cardinality(Placed) + 1
    BY <1>1, <2>3, FiniteParts, FS_AddElement
  <2>5. PlacesExact'
    BY <1>3, <1>a, <2>1, <2>4, GateAssumption DEF Places, PlacesExact, Placed, Out, Max
  <2>. QED BY <1>2, <2>1, <2>2, <2>3, <2>5 DEF Places
<1>4. CASE ~(inflight < Max)
  <2>1. conn' = [conn EXCEPT ![c] = [pc |-> "rejected", client |-> k]] /\ inflight' = inflight
    BY <1>4 DEF Admit
  <2>2. Connected'
    BY <2>1 DEF Places, Connected, Pcs, Out
  <2>3. Placed' = Placed /\ Running' = Running
    BY <1>1, <2>1 DEF Places, Connected, Placed, Running, Out
  <2>5. PlacesExact'
    BY <1>a, <2>1, <2>3 DEF Places, PlacesExact, Placed, Out, Max
  <2>. QED BY <1>2, <2>1, <2>2, <2>3, <2>5 DEF Places
<1>. QED BY <1>3, <1>4

LEMMA ClosingKeepsPlaces ==
    ASSUME Places, CloseServer
    PROVE  Places' /\ Running' = Running /\ \A k : Trying(k)' = Trying(k)
<1>1. /\ closed' = TRUE /\ inflight' = inflight
      /\ conn' = [c \in Conns |-> IF ConnAt(c, "queued") THEN [conn[c] EXCEPT !.pc = "finished"]
                                  ELSE conn[c]]
  BY DEF CloseServer
<1>2. ASSUME NEW c \in Conns
      PROVE  /\ conn'[c] \in [pc : Pcs, client : Clients \cup {"none"}]
             /\ conn'[c].client = conn[c].client
             /\ conn'[c].pc = IF conn[c].pc = "queued" THEN "finished" ELSE conn[c].pc
  <2>1. conn[c] \in [pc : Pcs, client : Clients \cup {"none"}]
    BY DEF Places, Connected
  <2>2. conn'[c] = IF conn[c].pc = "queued" THEN [conn[c] EXCEPT !.pc = "finished"] ELSE conn[c]
    BY <1>1 DEF ConnAt
  <2>. QED BY <2>1, <2>2 DEF Pcs
<1>3. Connected'
  <2>1. conn' \in [Conns -> [pc : Pcs, client : Clients \cup {"none"}]]
    BY <1>1, <1>2
  <2>. QED BY <1>2, <2>1 DEF Places, Connected
<1>4. Placed' = Placed /\ Running' = Running /\ \A k : Trying(k)' = Trying(k)
  BY <1>2 DEF Placed, Running, Trying, Out
<1>5. PlacesExact'
  BY <1>1, <1>4 DEF Places, PlacesExact, Placed, Out, Max
<1>. QED BY <1>1, <1>3, <1>4, <1>5 DEF Places

\* Where a connection is when one of its steps is taken, and where that step leaves it.
LEMMA Handling ==
    ASSUME Places, NEW c \in Conns, Handle(c)
    PROVE  Places'
<1>1. conn[c].pc \in Pcs \ Out => c \in Placed
  BY DEF Placed
<1>2. conn[c].pc \in Busy => c \in Running
  BY DEF Running, Busy
<1>3. CASE SubmitConn(c)
  <2>1. c \in Placed
    BY <1>1, <1>3 DEF SubmitConn, ConnAt, Pcs, Out, Busy
  <2>2. CASE closed
    BY <1>3, <2>1, <2>2, GivesPlace DEF SubmitConn
  <2>3. CASE ~closed
    BY <1>3, <2>1, <2>3, KeepsPlace DEF SubmitConn, Pcs, Out, Busy
  <2>. QED BY <2>2, <2>3
<1>4. CASE Work(c)
  BY <1>1, <1>4, KeepsPlace DEF Work, ConnAt, Pcs, Out, Busy
<1>5. CASE RetryAfter(c)
  <2>1. c \in Placed /\ c \in Running
    BY <1>1, <1>2, <1>5 DEF RetryAfter, ConnAt, Pcs, Out, Busy
  <2>2. PICK pc \in {"blocked", "authenticate"} : Moves(c, pc)
    BY <1>5 DEF RetryAfter
  <2>. QED BY <1>5, <2>1, <2>2, KeepsPlace DEF RetryAfter, Pcs, Out, Busy
<1>6. CASE Authenticate(c)
  <2>1. c \in Placed /\ c \in Running
    BY <1>1, <1>2, <1>6 DEF Authenticate, ConnAt, Pcs, Out, Busy
  <2>2. PICK pc \in {"failed", "finished", "granted"} : Moves(c, pc)
    BY <1>6 DEF Authenticate
  <2>. QED BY <1>6, <2>1, <2>2, KeepsPlace DEF Authenticate, Pcs, Out, Busy
<1>7. CASE RecordFailure(c)
  <2>1. /\ c \in Placed /\ Moves(c, "finished") /\ UNCHANGED <<inflight, closed>>
    BY <1>1, <1>7 DEF RecordFailure, ConnAt, Pcs, Out, Busy
  <2>. QED BY <2>1, KeepsPlace DEF Pcs, Out, Busy
<1>8. CASE RecordSuccess(c)
  <2>1. /\ c \in Placed /\ Moves(c, "finished") /\ UNCHANGED <<inflight, closed>>
    BY <1>1, <1>8 DEF RecordSuccess, ConnAt, Pcs, Out, Busy
  <2>. QED BY <2>1, KeepsPlace DEF Pcs, Out, Busy
<1>9. CASE GiveBack(c)
  BY <1>1, <1>9, GivesPlace DEF GiveBack, Pcs, Out, Busy
<1>. QED BY <1>3, <1>4, <1>5, <1>6, <1>7, <1>8, <1>9 DEF Handle

LEMMA PlacesKept == Places /\ [GateStep]_gateVars => Places'
<1> SUFFICES ASSUME Places, [GateStep]_gateVars PROVE Places'
  OBVIOUS
<1>1. ASSUME UNCHANGED <<conn, inflight, closed>> PROVE Places'
  BY <1>1 DEF Places, Connected, PlacesExact, Running, Max
<1>. QED BY <1>1, Handling, AdmitKeepsPlaces, ClosingKeepsPlaces DEF GateStep, Elapse, gateVars

-----------------------------------------------------------------------------
(* The throttle: what it remembers of a client is the end of the log, all  *)
(* that is recent included; a request that passed it and has not failed    *)
(* yet is one more attempt already counted.                                *)

Logged ==
    /\ clock \in 0..MaxClock
    /\ failures \in [Clients -> Seq(0..MaxClock)] /\ log \in [Clients -> Seq(0..MaxClock)]
    /\ \A k \in Clients : /\ \A i \in 1..Len(log[k]) : log[k][i] <= clock
                          /\ Ordered(log[k]) /\ TailOf(failures[k], log[k])

Attempts ==
    \A k \in Clients : Recent(log[k]) + Cardinality(Trying(k)) <= Limit + MaxWorkers - 1

Throttle == Logged /\ TableBounded /\ Attempts

LEMMA Times == \A s \in Seq(0..MaxClock) : s \in Seq(Nat)
<1>1. 0..MaxClock \subseteq Nat
  BY GateAssumption
<1>. QED BY <1>1, SeqMonotonic

LEMMA PrunedTimes ==
    ASSUME NEW f \in Seq(0..MaxClock), clock \in Nat
    PROVE  Pruned(f) \in Seq(0..MaxClock)
<1> DEFINE due == {i \in DOMAIN f : f[i] + Window <= clock}
<1>1. Len(f) \in Nat /\ DOMAIN f = 1..Len(f) /\ \A i \in 1..Len(f) : f[i] \in 0..MaxClock
  BY LenProperties, ElementOfSeq
<1>2. IsFiniteSet(due) /\ Cardinality(due) \in Nat
  <2>1. IsFiniteSet(1..Len(f))
    BY <1>1, FS_Interval
  <2>. QED BY <1>1, <2>1, FS_Subset, FS_CardinalityType
<1>3. Pruned(f) = SubSeq(f, Cardinality(due) + 1, Len(f))
  BY DEF Pruned, Without
<1>. HIDE DEF due
<1>4. /\ Cardinality(due) + 1 \in Int /\ Len(f) \in Int
      /\ \A i \in (Cardinality(due) + 1)..Len(f) : f[i] \in 0..MaxClock
  BY <1>1, <1>2
<1>. QED BY <1>3, <1>4, SubSeqProperties

LEMMA PrunedTail ==
    ASSUME NEW f \in Seq(0..MaxClock), NEW l \in Seq(0..MaxClock), Ordered(l), TailOf(f, l),
           clock \in Nat
    PROVE  /\ Pruned(f) \in Seq(0..MaxClock) /\ TailOf(Pruned(f), l)
           /\ Len(Pruned(f)) = Recent(l) /\ (f = <<>> => Pruned(f) = <<>>)
<1>0. f \in Seq(Nat) /\ l \in Seq(Nat)
  BY Times
<1>1. PICK d \in 0..Len(l) : /\ Len(f) = Len(l) - d
                             /\ \A i \in 1..Len(f) : f[i] = l[i + d]
                             /\ \A i \in 1..d : l[i] + Window <= clock
  BY DEF TailOf
<1>2. Ordered(f) /\ Recent(f) = Recent(l)
  BY <1>0, SameRecent
<1>3. PICK m \in 0..Len(f) : /\ \A i \in 1..Len(f) : f[i] + Window <= clock <=> i <= m
                             /\ Recent(f) = Len(f) - m
                             /\ Pruned(f) \in Seq(Nat) /\ Len(Pruned(f)) = Len(f) - m
                             /\ \A i \in 1..(Len(f) - m) : Pruned(f)[i] = f[i + m]
  BY <1>0, <1>2, Cut
<1>4. Len(f) \in Nat /\ Len(l) \in Nat
  BY LenProperties
<1>5. Pruned(f) \in Seq(0..MaxClock)
  BY PrunedTimes
<1>6. TailOf(Pruned(f), l)
  <2>1. d + m \in 0..Len(l) /\ Len(Pruned(f)) = Len(l) - (d + m)
    BY <1>1, <1>3, <1>4
  <2>2. ASSUME NEW i \in 1..Len(Pruned(f)) PROVE Pruned(f)[i] = l[i + (d + m)]
    <3>1. i \in 1..(Len(f) - m) /\ i + m \in 1..Len(f) /\ (i + m) + d = i + (d + m)
      BY <1>1, <1>3, <1>4
    <3>. QED BY <1>1, <1>3, <3>1
  <2>3. ASSUME NEW i \in 1..(d + m) PROVE l[i] + Window <= clock
    <3>1. CASE i <= d
      BY <1>1, <3>1
    <3>2. CASE i > d
      <4>1. i - d \in 1..Len(f) /\ i - d <= m /\ (i - d) + d = i
        BY <1>1, <1>3, <1>4, <3>2
      <4>. QED BY <1>1, <1>3, <4>1
    <3>. QED BY <1>1, <1>3, <3>1, <3>2
  <2>. QED BY <2>1, <2>2, <2>3 DEF TailOf
<1>7. f = <<>> => Pruned(f) = <<>>
  <2> SUFFICES ASSUME f = <<>> PROVE Pruned(f) = <<>>
    OBVIOUS
  <2>1. Len(f) = 0
    BY EmptySeq
  <2>2. Len(Pruned(f)) = 0
    BY <1>3, <2>1
  <2>. QED BY <1>5, <2>2, EmptySeq
<1>. QED BY <1>2, <1>3, <1>5, <1>6, <1>7

LEMMA LongerTail ==
    ASSUME NEW f \in Seq(0..MaxClock), NEW l \in Seq(0..MaxClock), TailOf(f, l),
           clock \in 0..MaxClock
    PROVE  /\ Append(f, clock) \in Seq(0..MaxClock) /\ Append(l, clock) \in Seq(0..MaxClock)
           /\ TailOf(Append(f, clock), Append(l, clock))
<1> DEFINE fa == Append(f, clock)
           la == Append(l, clock)
<1>0. Len(f) \in Nat /\ Len(l) \in Nat
  OBVIOUS
<1>1. PICK d \in 0..Len(l) : /\ Len(f) = Len(l) - d
                             /\ \A i \in 1..Len(f) : f[i] = l[i + d]
                             /\ \A i \in 1..d : l[i] + Window <= clock
  BY DEF TailOf
<1>2. /\ fa \in Seq(0..MaxClock) /\ Len(fa) = Len(f) + 1
      /\ fa[Len(f) + 1] = clock /\ \A i \in 1..Len(f) : fa[i] = f[i]
  OBVIOUS
<1>3. /\ la \in Seq(0..MaxClock) /\ Len(la) = Len(l) + 1
      /\ la[Len(l) + 1] = clock /\ \A i \in 1..Len(l) : la[i] = l[i]
  OBVIOUS
<1>. HIDE DEF fa, la
<1>4. TailOf(fa, la)
  <2>1. d \in 0..Len(la) /\ Len(fa) = Len(la) - d
    BY <1>0, <1>1, <1>2, <1>3
  <2>2. ASSUME NEW i \in 1..Len(fa) PROVE fa[i] = la[i + d]
    <3>1. CASE i = Len(f) + 1
      BY <1>0, <1>1, <1>2, <1>3, <3>1
    <3>2. CASE i # Len(f) + 1
      <4>1. i \in 1..Len(f) /\ i + d \in 1..Len(l)
        BY <1>0, <1>1, <1>2, <3>2
      <4>. QED BY <1>1, <1>2, <1>3, <4>1
    <3>. QED BY <3>1, <3>2
  <2>3. ASSUME NEW i \in 1..d PROVE la[i] + Window <= clock
    <3>1. i \in 1..Len(l)
      BY <1>0, <1>1
    <3>. QED BY <1>1, <1>3, <3>1
  <2>. QED BY <2>1, <2>2, <2>3 DEF TailOf
<1>. QED BY <1>2, <1>3, <1>4 DEF fa, la

\* Nothing remembered of nothing logged.
LEMMA Forgotten ==
    <<>> \in Seq(0..MaxClock) /\ Ordered(<<>>) /\ TailOf(<<>>, <<>>) /\ Recent(<<>>) = 0
<1>1. Len(<<>>) = 0 /\ DOMAIN <<>> = {}
  OBVIOUS
<1>2. Recent(<<>>) = 0
  BY <1>1, FS_EmptySet DEF Recent
<1>3. Ordered(<<>>) /\ TailOf(<<>>, <<>>)
  BY <1>1 DEF Ordered, TailOf
<1>. QED BY <1>2, <1>3

LEMMA ThrottleAtFirst == GateInit => Throttle
<1> SUFFICES ASSUME GateInit PROVE Throttle
  OBVIOUS
<1>1. clock = 0 /\ \A k \in Clients : failures[k] = <<>> /\ log[k] = <<>>
  BY DEF GateInit
<1>2. Logged
  <2>1. failures \in [Clients -> Seq(0..MaxClock)] /\ log \in [Clients -> Seq(0..MaxClock)]
    BY Forgotten DEF GateInit
  <2>2. ASSUME NEW k \in Clients
        PROVE  /\ \A i \in 1..Len(log[k]) : log[k][i] <= clock
               /\ Ordered(log[k]) /\ TailOf(failures[k], log[k])
    <3>1. Len(<<>>) = 0
      OBVIOUS
    <3>. QED BY <1>1, <3>1, Forgotten
  <2>. QED BY <1>1, <2>1, <2>2, GateAssumption DEF Logged
<1>3. TableBounded
  <2>1. Known = {}
    BY <1>1 DEF Known
  <2>. QED BY <2>1, FS_EmptySet, GateAssumption DEF TableBounded
<1>4. Attempts
  <2>1. ASSUME NEW k \in Clients
        PROVE  Recent(log[k]) + Cardinality(Trying(k)) <= Limit + MaxWorkers - 1
    <3>1. Trying(k) = {}
      BY DEF GateInit, Trying
    <3>2. Cardinality(Trying(k)) = 0 /\ Recent(log[k]) = 0
      BY <1>1, <3>1, FS_EmptySet, Forgotten
    <3>. QED BY <3>2, GateAssumption
  <2>. QED BY <2>1 DEF Attempts
<1>. QED BY <1>2, <1>3, <1>4 DEF Throttle

LEMMA RecentIsCount == Logged => \A k \in Clients : Recent(log[k]) \in Nat
<1> SUFFICES ASSUME Logged, NEW k \in Clients PROVE Recent(log[k]) \in Nat
  OBVIOUS
<1>1. log[k] \in Seq(Nat) /\ Ordered(log[k]) /\ clock \in Nat
  BY Times, GateAssumption DEF Logged
<1>2. PICK m \in 0..Len(log[k]) : Recent(log[k]) = Len(log[k]) - m
  BY <1>1, Cut
<1>. QED BY <1>1, <1>2, LenProperties

\* A step that leaves the throttle and the clock alone, and lets nobody past the throttle.
LEMMA FewerTries ==
    ASSUME Throttle, UNCHANGED <<clock, failures, log>>,
           \A k \in Clients : Trying(k)' \subseteq Trying(k)
    PROVE  Throttle'
<1>1. Logged' /\ TableBounded'
  BY DEF Throttle, Logged, TableBounded, Known, Ordered, TailOf
<1>2. ASSUME NEW k \in Clients
      PROVE  (Recent(log[k]) + Cardinality(Trying(k)))' <= Limit + MaxWorkers - 1
  <2>1. Cardinality(Trying(k)') <= Cardinality(Trying(k)) /\ Cardinality(Trying(k)') \in Nat
    BY FiniteParts, FS_Subset, FS_CardinalityType
  <2>2. Recent(log[k])' = Recent(log[k])
    BY DEF Recent
  <2>3. Recent(log[k]) \in Nat /\ Recent(log[k]) + Cardinality(Trying(k)) <= Limit + MaxWorkers - 1
    BY RecentIsCount DEF Throttle, Attempts
  <2>. QED BY <2>1, <2>2, <2>3, FiniteParts, GateAssumption
<1>. QED BY <1>1, <1>2 DEF Throttle, Attempts

\* The throttle lets a request past when its client has recent failures below the limit;
\* the threads bound how many it can let past before the first of them fails.
LEMMA RetryKeepsThrottle ==
    ASSUME Places, Throttle, NEW c \in Conns, RetryAfter(c)
    PROVE  /\ Throttle'
           /\ conn'[c].pc = "blocked" => Recent(log[conn[c].client]) >= Limit
<1> DEFINE k == conn[c].client
<1>1. c \in Placed /\ c \in Running /\ k \in Clients
  BY DEF RetryAfter, ConnAt, Placed, Out, Running, Places, Connected
<1>2. /\ failures' = [failures EXCEPT ![k] = Pruned(failures[k])]
      /\ Moves(c, IF Blocks(failures'[k]) THEN "blocked" ELSE "authenticate")
      /\ clock' = clock /\ log' = log
  BY DEF RetryAfter
<1>3. clock \in Nat
  BY GateAssumption DEF Throttle, Logged
<1>4. /\ Pruned(failures[k]) \in Seq(0..MaxClock) /\ TailOf(Pruned(failures[k]), log[k])
      /\ Len(Pruned(failures[k])) = Recent(log[k])
      /\ failures[k] = <<>> => Pruned(failures[k]) = <<>>
  BY <1>1, <1>3, PrunedTail DEF Throttle, Logged
<1>. HIDE DEF k
<1>5. failures'[k] = Pruned(failures[k]) /\ \A l \in Clients \ {k} : failures'[l] = failures[l]
  BY <1>1, <1>2 DEF Throttle, Logged
<1>6. Logged'
  <2>1. failures' \in [Clients -> Seq(0..MaxClock)]
    BY <1>1, <1>2, <1>4 DEF Throttle, Logged
  <2>2. ASSUME NEW l \in Clients
        PROVE  /\ \A i \in 1..Len(log[l]) : log[l][i] <= clock
               /\ Ordered(log[l]) /\ TailOf(failures'[l], log[l])
    BY <1>4, <1>5 DEF Throttle, Logged
  <2>3. clock' \in 0..MaxClock /\ log' \in [Clients -> Seq(0..MaxClock)]
    BY <1>2 DEF Throttle, Logged
  <2>. QED BY <1>2, <2>1, <2>2, <2>3 DEF Logged, Ordered, TailOf
<1>7. TableBounded'
  <2>1. Known' \subseteq Known /\ Known \subseteq Clients
    BY <1>4, <1>5 DEF Known
  <2>2. IsFiniteSet(Known) /\ IsFiniteSet(Known')
    BY <2>1, FS_Subset, GateAssumption
  <2>3. Cardinality(Known') <= Cardinality(Known) /\ Cardinality(Known) \in Nat
        /\ Cardinality(Known') \in Nat
    BY <2>1, <2>2, FS_Subset, FS_CardinalityType
  <2>. QED BY <2>3, GateAssumption DEF Throttle, TableBounded
<1>8. \A l \in Clients : Recent(log[l])' = Recent(log[l]) /\ Recent(log[l]) \in Nat
  BY <1>2, RecentIsCount DEF Throttle, Recent
<1>9. Attempts'
  <2>1. ASSUME NEW l \in Clients
        PROVE  Recent(log[l]) + Cardinality(Trying(l)') <= Limit + MaxWorkers - 1
    <3>1. CASE l = k /\ ~Blocks(failures'[k])
      <4>1. Trying(l)' = Trying(l) \cup {c}
        BY <1>1, <1>2, <3>1, Moving DEF Places, Pcs, Busy, k
      <4>2. Trying(l)' \subseteq Running
        BY <1>1, <4>1 DEF Trying, Running
      <4>3. Cardinality(Trying(l)') <= Cardinality(Running) /\ Cardinality(Trying(l)') \in Nat
        BY <4>2, FiniteParts, FS_Subset, FS_CardinalityType
      <4>4. Recent(log[l]) < Limit
        BY <1>1, <1>4, <1>5, <1>8, <3>1, GateAssumption DEF Blocks
      <4>. QED BY <1>8, <4>3, <4>4, FiniteParts, GateAssumption DEF Places
    <3>2. CASE ~(l = k /\ ~Blocks(failures'[k]))
      <4>1. Trying(l)' \subseteq Trying(l)
        <5>1. CASE Blocks(failures'[k])
          BY <1>1, <1>2, <5>1, Moving DEF Places, Pcs, Busy
        <5>2. CASE ~Blocks(failures'[k])
          BY <1>1, <1>2, <3>2, <5>2, Moving DEF Places, Pcs, Busy, k
        <5>. QED BY <5>1, <5>2
      <4>2. Cardinality(Trying(l)') <= Cardinality(Trying(l)) /\ Cardinality(Trying(l)') \in Nat
        BY <4>1, FiniteParts, FS_Subset, FS_CardinalityType
      <4>. QED BY <1>8, <4>2, FiniteParts, GateAssumption DEF Throttle, Attempts
    <3>. QED BY <3>1, <3>2
  <2>. QED BY <1>8, <2>1 DEF Attempts
<1>10. conn'[c].pc = "blocked" => Recent(log[conn[c].client]) >= Limit
  <2>1. conn'[c].pc = IF Blocks(failures'[k]) THEN "blocked" ELSE "authenticate"
    BY <1>1, <1>2, Moving DEF Places, Pcs, Busy
  <2>. QED BY <1>4, <1>5, <2>1 DEF Blocks, k
<1>. QED BY <1>6, <1>7, <1>9, <1>10 DEF Throttle

\* An eviction makes room for one more client.
LEMMA RoomMade ==
    ASSUME Throttle, NEW k \in Clients, NEW gone \in Dropped(k)
    PROVE  Cardinality((Known \ gone) \cup {k}) <= MaxClients
<1> DEFINE expired == {l \in Known : LastFailure(l) + Window <= clock}
           left == Known \ expired
<1>1. Known \subseteq Clients /\ Cardinality(Known) <= MaxClients
  BY DEF Known, Throttle, TableBounded
<1>2. \A s \in SUBSET Known : IsFiniteSet(s) /\ Cardinality(s) \in Nat
                              /\ Cardinality(s) <= Cardinality(Known)
  BY <1>1, FS_Subset, FS_CardinalityType, GateAssumption
<1>3. \A s \in SUBSET Known : Cardinality(s) < MaxClients => Cardinality(s \cup {k}) <= MaxClients
  BY <1>2, FS_AddElement, GateAssumption
<1>4. CASE failures[k] # <<>> \/ Cardinality(Known) < MaxClients
  <2>1. gone = {}
    BY <1>4 DEF Dropped
  <2>2. CASE failures[k] # <<>>
    <3>1. (Known \ gone) \cup {k} = Known
      BY <2>1, <2>2 DEF Known
    <3>. QED BY <1>1, <3>1
  <2>3. CASE Cardinality(Known) < MaxClients
    BY <1>3, <2>1, <2>3
  <2>. QED BY <1>4, <2>2, <2>3
<1>5. CASE ~(failures[k] # <<>> \/ Cardinality(Known) < MaxClients) /\ Cardinality(left) < MaxClients
  <2>1. gone = expired
    BY <1>5 DEF Dropped
  <2>. QED BY <1>3, <1>5, <2>1
<1>6. CASE ~(failures[k] # <<>> \/ Cardinality(Known) < MaxClients)
           /\ ~(Cardinality(left) < MaxClients)
  <2>1. PICK l \in Oldest(left) : gone = expired \cup {l}
    BY <1>6 DEF Dropped
  <2>2. l \in left
    BY <2>1 DEF Oldest
  <2>3. Known \ gone = left \ {l} /\ left \in SUBSET Known
    BY <2>1
  <2>4. Cardinality(left \ {l}) = Cardinality(left) - 1
    BY <1>2, <2>2, <2>3, FS_RemoveElement
  <2>5. Cardinality(left \ {l}) < MaxClients
    BY <1>1, <1>2, <2>3, <2>4, GateAssumption
  <2>. QED BY <1>3, <2>3, <2>5
<1>. QED BY <1>4, <1>5, <1>6

\* A failure is logged where the request was already counted among those that try.
LEMMA FailureKeepsThrottle ==
    ASSUME Places, Throttle, NEW c \in Conns, RecordFailure(c)
    PROVE  Throttle' /\ conn'[c].pc # "blocked"
<1> DEFINE k == conn[c].client
<1>1. c \in Placed /\ k \in Clients /\ c \in Trying(k)
  BY DEF RecordFailure, ConnAt, Placed, Out, Trying, Places, Connected
<1>2. PICK gone \in Dropped(k) :
         /\ failures' = [l \in Clients |-> IF l = k THEN Append(Pruned(failures[k]), clock)
                                           ELSE IF l \in gone THEN <<>> ELSE failures[l]]
         /\ log' = [l \in Clients |-> IF l = k THEN Append(log[k], clock)
                                      ELSE IF l \in gone THEN <<>> ELSE log[l]]
  BY DEF RecordFailure
<1>3. Moves(c, "finished") /\ clock' = clock
  BY DEF RecordFailure
<1>4. clock \in Nat /\ clock \in 0..MaxClock
  BY GateAssumption DEF Throttle, Logged
<1>5. /\ conn'[c].pc = "finished"
      /\ \A l : Trying(l)' = Trying(l) \ {c}
  BY <1>1, <1>3, Moving DEF Places, Pcs, Busy
<1>. HIDE DEF k
<1>6. /\ failures[k] \in Seq(0..MaxClock) /\ log[k] \in Seq(0..MaxClock)
      /\ Ordered(log[k]) /\ TailOf(failures[k], log[k])
      /\ \A i \in 1..Len(log[k]) : log[k][i] <= clock
  BY <1>1 DEF Throttle, Logged
<1>7. Pruned(failures[k]) \in Seq(0..MaxClock) /\ TailOf(Pruned(failures[k]), log[k])
  BY <1>4, <1>6, PrunedTail
<1>8. /\ failures'[k] \in Seq(0..MaxClock) /\ log'[k] \in Seq(0..MaxClock)
      /\ TailOf(failures'[k], log'[k])
  BY <1>1, <1>2, <1>4, <1>6, <1>7, LongerTail
<1>9. /\ Ordered(log'[k]) /\ Recent(log'[k]) = Recent(log[k]) + 1
      /\ \A i \in 1..Len(log'[k]) : log'[k][i] <= clock
  <2>1. log'[k] = Append(log[k], clock) /\ log[k] \in Seq(Nat)
    BY <1>1, <1>2, <1>6, Times
  <2>2. Ordered(log'[k]) /\ Recent(log'[k]) = Recent(log[k]) + 1
    BY <1>4, <1>6, <2>1, OneMore
  <2>3. \A i \in 1..Len(log'[k]) : log'[k][i] <= clock
    BY <1>4, <1>6, <2>1
  <2>. QED BY <2>2, <2>3
<1>10. ASSUME NEW l \in Clients \ {k}
       PROVE  \/ failures'[l] = <<>> /\ log'[l] = <<>>
              \/ failures'[l] = failures[l] /\ log'[l] = log[l]
  BY <1>2
<1>11. ASSUME NEW l \in Clients
       PROVE  /\ failures'[l] \in Seq(0..MaxClock) /\ log'[l] \in Seq(0..MaxClock)
              /\ \A i \in 1..Len(log'[l]) : log'[l][i] <= clock
              /\ Ordered(log'[l]) /\ TailOf(failures'[l], log'[l])
  <2>1. CASE l = k
    BY <1>8, <1>9, <2>1
  <2>2. CASE l # k /\ failures'[l] = <<>> /\ log'[l] = <<>>
    BY <2>2, Forgotten, EmptySeq
  <2>3. CASE failures'[l] = failures[l] /\ log'[l] = log[l]
    BY <2>3 DEF Throttle, Logged
  <2>. QED BY <1>10, <2>1, <2>2, <2>3
<1>12. Logged'
  <2>1. failures' \in [Clients -> Seq(0..MaxClock)] /\ log' \in [Clients -> Seq(0..MaxClock)]
    BY <1>2, <1>11
  <2>. QED BY <1>3, <1>4, <1>11, <2>1 DEF Logged, Ordered, TailOf
<1>13. TableBounded'
  <2>1. Known' \subseteq (Known \ gone) \cup {k} /\ (Known \ gone) \cup {k} \subseteq Clients
    BY <1>1, <1>2 DEF Known
  <2>2. IsFiniteSet((Known \ gone) \cup {k})
    BY <2>1, FS_Subset, GateAssumption
  <2>3. /\ Cardinality(Known') <= Cardinality((Known \ gone) \cup {k})
        /\ Cardinality(Known') \in Nat /\ Cardinality((Known \ gone) \cup {k}) \in Nat
    BY <2>1, <2>2, FS_Subset, FS_CardinalityType
  <2>4. Cardinality((Known \ gone) \cup {k}) <= MaxClients
    BY <1>1, <1>2, RoomMade
  <2>. QED BY <2>3, <2>4, GateAssumption DEF TableBounded
<1>14. ASSUME NEW l \in Clients
       PROVE  Recent(log'[l]) + Cardinality(Trying(l)') <= Limit + MaxWorkers - 1
  <2>0. /\ Recent(log[l]) \in Nat
        /\ Recent(log[l]) + Cardinality(Trying(l)) <= Limit + MaxWorkers - 1
    BY RecentIsCount DEF Throttle, Attempts
  <2>1. CASE l = k
    <3>1. Cardinality(Trying(l)') = Cardinality(Trying(l)) - 1
      BY <1>1, <1>5, <2>1, FiniteParts, FS_RemoveElement
    <3>. QED BY <1>9, <2>0, <2>1, <3>1, FiniteParts, GateAssumption
  <2>2. CASE l # k
    <3>1. /\ Cardinality(Trying(l)') \in Nat /\ Cardinality(Trying(l)') <= Cardinality(Trying(l))
      BY <1>5, FiniteParts, FS_Subset, FS_CardinalityType
    <3>2. CASE log'[l] = <<>>
      <4>1. Recent(log'[l]) = 0
        BY <3>2, Forgotten
      <4>. QED BY <3>1, <4>1, FiniteParts, GateAssumption DEF Places
    <3>3. CASE log'[l] = log[l]
      BY <2>0, <3>1, <3>3, FiniteParts, GateAssumption
    <3>. QED BY <1>10, <2>2, <3>2, <3>3
  <2>. QED BY <2>1, <2>2
<1>15. Attempts'
  BY <1>3, <1>14 DEF Attempts, Recent
<1>. QED BY <1>5, <1>12, <1>13, <1>15 DEF Throttle

LEMMA SuccessKeepsThrottle ==
    ASSUME Places, Throttle, NEW c \in Conns, RecordSuccess(c)
    PROVE  Throttle' /\ conn'[c].pc # "blocked"
<1> DEFINE k == conn[c].client
<1>1. c \in Placed /\ k \in Clients
  BY DEF RecordSuccess, ConnAt, Placed, Out, Places, Connected
<1>2. /\ failures' = [failures EXCEPT ![k] = <<>>] /\ log' = [log EXCEPT ![k] = <<>>]
      /\ Moves(c, "finished") /\ clock' = clock
  BY DEF RecordSuccess
<1>3. /\ conn'[c].pc = "finished"
      /\ \A l : Trying(l)' = Trying(l) \ {c}
  BY <1>1, <1>2, Moving DEF Places, Pcs, Busy
<1>. HIDE DEF k
<1>4. ASSUME NEW l \in Clients
      PROVE  \/ l = k /\ failures'[l] = <<>> /\ log'[l] = <<>>
             \/ l # k /\ failures'[l] = failures[l] /\ log'[l] = log[l]
  BY <1>1, <1>2 DEF Throttle, Logged
<1>5. Logged'
  <2>1. failures' \in [Clients -> Seq(0..MaxClock)] /\ log' \in [Clients -> Seq(0..MaxClock)]
    BY <1>2, Forgotten DEF Throttle, Logged
  <2>2. ASSUME NEW l \in Clients
        PROVE  /\ \A i \in 1..Len(log'[l]) : log'[l][i] <= clock
               /\ Ordered(log'[l]) /\ TailOf(failures'[l], log'[l])
    <3>1. CASE failures'[l] = <<>> /\ log'[l] = <<>>
      BY <3>1, Forgotten, EmptySeq
    <3>2. CASE failures'[l] = failures[l] /\ log'[l] = log[l]
      BY <3>2 DEF Throttle, Logged
    <3>. QED BY <1>4, <3>1, <3>2
  <2>3. clock' \in 0..MaxClock
    BY <1>2 DEF Throttle, Logged
  <2>. QED BY <1>2, <2>1, <2>2, <2>3 DEF Logged, Ordered, TailOf
<1>6. TableBounded'
  <2>1. Known' \subseteq Known /\ Known \subseteq Clients
    BY <1>4 DEF Known
  <2>2. IsFiniteSet(Known)
    BY <2>1, FS_Subset, GateAssumption
  <2>3. Cardinality(Known') <= Cardinality(Known) /\ Cardinality(Known) \in Nat
        /\ Cardinality(Known') \in Nat
    BY <2>1, <2>2, FS_Subset, FS_CardinalityType
  <2>. QED BY <2>3, GateAssumption DEF Throttle, TableBounded
<1>7. ASSUME NEW l \in Clients
      PROVE  Recent(log'[l]) + Cardinality(Trying(l)') <= Limit + MaxWorkers - 1
  <2>1. Cardinality(Trying(l)') \in Nat /\ Cardinality(Trying(l)') <= Cardinality(Trying(l))
    BY <1>3, FiniteParts, FS_Subset, FS_CardinalityType
  <2>2. CASE log'[l] = <<>>
    <3>1. Recent(log'[l]) = 0
      BY <2>2, Forgotten
    <3>. QED BY <2>1, <3>1, FiniteParts, GateAssumption DEF Places
  <2>3. CASE log'[l] = log[l]
    <3>1. /\ Recent(log[l]) \in Nat
          /\ Recent(log[l]) + Cardinality(Trying(l)) <= Limit + MaxWorkers - 1
      BY RecentIsCount DEF Throttle, Attempts
    <3>. QED BY <2>1, <2>3, <3>1, FiniteParts, GateAssumption
  <2>. QED BY <1>4, <2>2, <2>3
<1>8. Attempts'
  BY <1>2, <1>7 DEF Attempts, Recent
<1>. QED BY <1>3, <1>5, <1>6, <1>8 DEF Throttle

\* Time only makes failures older.
LEMMA TimeKeepsThrottle ==
    ASSUME Throttle, Elapse
    PROVE  Throttle'
<1>1. /\ clock' = clock + 1 /\ clock' \in 0..MaxClock /\ clock \in Nat /\ clock' \in Nat
      /\ UNCHANGED <<conn, failures, log>>
  BY GateAssumption DEF Elapse, Throttle, Logged
<1>2. ASSUME NEW k \in Clients
      PROVE  /\ \A i \in 1..Len(log[k]) : log[k][i] <= clock'
             /\ TailOf(failures[k], log[k])'
  <2>1. /\ \A i \in 1..Len(log[k]) : log[k][i] <= clock /\ log[k][i] \in Nat
        /\ Len(log[k]) \in Nat
    <3>1. log[k] \in Seq(Nat)
      BY Times DEF Throttle, Logged
    <3>. QED BY <3>1, LenProperties, ElementOfSeq DEF Throttle, Logged
  <2>2. \A i \in 1..Len(log[k]) : log[k][i] <= clock'
    BY <1>1, <2>1
  <2>3. PICK d \in 0..Len(log[k]) :
           /\ Len(failures[k]) = Len(log[k]) - d
           /\ \A i \in 1..Len(failures[k]) : failures[k][i] = log[k][i + d]
           /\ \A i \in 1..d : log[k][i] + Window <= clock
    BY DEF Throttle, Logged, TailOf
  <2>4. \A i \in 1..d : log[k][i] + Window <= clock'
    BY <1>1, <2>1, <2>3, GateAssumption
  <2>. QED BY <1>1, <2>2, <2>3, <2>4 DEF TailOf
<1>3. Logged'
  BY <1>1, <1>2 DEF Throttle, Logged, Ordered
<1>4. TableBounded'
  BY <1>1 DEF Throttle, TableBounded, Known
<1>5. ASSUME NEW k \in Clients
      PROVE  (Recent(log[k]) + Cardinality(Trying(k)))' <= Limit + MaxWorkers - 1
  <2>1. PICK s \in Seq(Nat) : s = log[k]
    BY Times DEF Throttle, Logged
  <2>2. Ordered(s)
    BY <2>1 DEF Throttle, Logged
  <2>3. Recent(s)' <= Recent(s) /\ Recent(s) \in Nat /\ Recent(s)' \in Nat
    BY <1>1, <2>1, LaterFewer
  <2>4. Recent(log[k])' = Recent(s)'
    BY <1>1, <2>1 DEF Recent
  <2>5. Cardinality(Trying(k))' = Cardinality(Trying(k))
    BY <1>1 DEF Trying
  <2>6. Recent(s) + Cardinality(Trying(k)) <= Limit + MaxWorkers - 1
    BY <2>1 DEF Throttle, Attempts
  <2>. QED BY <2>3, <2>4, <2>5, <2>6, FiniteParts, GateAssumption
<1>6. Attempts'
  BY <1>5 DEF Attempts
<1>. QED BY <1>3, <1>4, <1>6 DEF Throttle

LEMMA HandlingKeepsThrottle ==
    ASSUME Places, Throttle, NEW c \in Conns, Handle(c)
    PROVE  Throttle' /\ BlocksForCause
<1>1. ASSUME NEW pc, Moves(c, pc), pc = "blocked" => Recent(log[conn[c].client]) >= Limit
      PROVE  BlocksForCause
  <2>1. \A d \in Conns \ {c} : conn'[d] = conn[d]
    BY <1>1 DEF Moves, Places, Connected
  <2>2. conn'[c].pc = pc
    <3>1. conn[c] \in [pc : Pcs, client : Clients \cup {"none"}]
      BY DEF Places, Connected
    <3>2. conn'[c] = [conn[c] EXCEPT !.pc = pc]
      BY <1>1 DEF Moves, Places, Connected
    <3>. QED BY <3>1, <3>2
  <2>. QED BY <1>1, <2>1, <2>2 DEF ConnAt, BlocksForCause
<1>2. ASSUME NEW pc \in Pcs \ {"new", "blocked"}, c \in Placed, Moves(c, pc),
             UNCHANGED <<clock, failures, log>>,
             pc \notin {"authenticate", "failed"} \/ ConnAt(c, "authenticate")
      PROVE  Throttle' /\ BlocksForCause
  <2>1. \A k : Trying(k)' = IF k = conn[c].client /\ pc \in {"authenticate", "failed"}
                            THEN Trying(k) \cup {c} ELSE Trying(k) \ {c}
    BY <1>2, Moving DEF Places
  <2>2. \A k \in Clients : Trying(k)' \subseteq Trying(k)
    BY <1>2, <2>1 DEF ConnAt, Trying
  <2>. QED BY <1>1, <1>2, <2>2, FewerTries
<1>3. conn[c].pc \in Pcs \ Out => c \in Placed
  BY DEF Placed
<1>4. CASE SubmitConn(c)
  <2>1. PICK pc \in {"closed", "queued"} : Moves(c, pc)
    BY <1>4 DEF SubmitConn
  <2>. QED BY <1>2, <1>3, <1>4, <2>1 DEF SubmitConn, ConnAt, Pcs, Out, Busy
<1>5. CASE Work(c)
  <2>1. PICK pc \in {"throttle", "finished"} : Moves(c, pc)
    BY <1>5 DEF Work
  <2>. QED BY <1>2, <1>3, <1>5, <2>1 DEF Work, ConnAt, Pcs, Out, Busy
<1>6. CASE RetryAfter(c)
  <2>1. /\ Throttle' /\ (conn'[c].pc = "blocked" => Recent(log[conn[c].client]) >= Limit)
    BY <1>6, RetryKeepsThrottle
  <2>2. PICK pc \in {"blocked", "authenticate"} : Moves(c, pc)
    BY <1>6 DEF RetryAfter
  <2>3. conn'[c].pc = pc
    BY <1>3, <1>6, <2>2, Moving DEF Places, RetryAfter, ConnAt, Pcs, Out, Busy
  <2>. QED BY <1>1, <2>1, <2>2, <2>3
<1>7. CASE Authenticate(c)
  <2>1. PICK pc \in {"failed", "finished", "granted"} : Moves(c, pc)
    BY <1>7 DEF Authenticate
  <2>. QED BY <1>2, <1>3, <1>7, <2>1 DEF Authenticate, ConnAt, Pcs, Out, Busy
<1>8. CASE RecordFailure(c)
  <2>1. Moves(c, "finished")
    BY <1>8 DEF RecordFailure
  <2>. QED BY <1>1, <1>8, <2>1, FailureKeepsThrottle
<1>9. CASE RecordSuccess(c)
  <2>1. Moves(c, "finished")
    BY <1>9 DEF RecordSuccess
  <2>. QED BY <1>1, <1>9, <2>1, SuccessKeepsThrottle
<1>10. CASE GiveBack(c)
  BY <1>2, <1>3, <1>10 DEF GiveBack, Pcs, Out, Busy
<1>. QED BY <1>4, <1>5, <1>6, <1>7, <1>8, <1>9, <1>10 DEF Handle

LEMMA ThrottleKept ==
    ASSUME Places, Throttle, [GateStep]_gateVars
    PROVE  Throttle' /\ BlocksForCause
<1>1. ASSUME NEW c \in Conns, NEW k \in Clients, Admit(c, k) PROVE Throttle' /\ BlocksForCause
  <2>1. PICK pc \in {"submit", "rejected"} : conn' = [conn EXCEPT ![c] = [pc |-> pc, client |-> k]]
    BY <1>1 DEF Admit
  <2>2. /\ conn'[c].pc = pc /\ conn[c].pc = "new"
        /\ \A d \in Conns \ {c} : conn'[d] = conn[d]
    BY <1>1, <2>1 DEF Admit, ConnAt, Places, Connected
  <2>3. \A l \in Clients : Trying(l)' \subseteq Trying(l)
    BY <2>2 DEF Trying
  <2>4. Throttle'
    BY <1>1, <2>3, FewerTries DEF Admit
  <2>. QED BY <2>2, <2>4 DEF ConnAt, BlocksForCause
<1>2. ASSUME CloseServer PROVE Throttle' /\ BlocksForCause
  <2>1. \A k : Trying(k)' = Trying(k)
    BY <1>2, ClosingKeepsPlaces
  <2>2. Throttle'
    BY <1>2, <2>1, FewerTries DEF CloseServer
  <2>3. ASSUME NEW d \in Conns PROVE conn'[d].pc = "blocked" => conn[d].pc = "blocked"
    <3>1. conn[d] \in [pc : Pcs, client : Clients \cup {"none"}]
      BY DEF Places, Connected
    <3>2. conn'[d] = IF conn[d].pc = "queued" THEN [conn[d] EXCEPT !.pc = "finished"] ELSE conn[d]
      BY <1>2 DEF CloseServer, ConnAt
    <3>. QED BY <3>1, <3>2
  <2>. QED BY <2>2, <2>3 DEF ConnAt, BlocksForCause
<1>3. ASSUME Elapse PROVE Throttle' /\ BlocksForCause
  BY <1>3, TimeKeepsThrottle DEF Elapse, ConnAt, BlocksForCause
<1>4. ASSUME UNCHANGED gateVars PROVE Throttle' /\ BlocksForCause
  BY <1>4, FewerTries DEF gateVars, ConnAt, Trying, BlocksForCause
<1>5. ASSUME NEW c \in Conns, Handle(c) PROVE Throttle' /\ BlocksForCause
  BY <1>5, HandlingKeepsThrottle
<1>. QED BY <1>1, <1>2, <1>3, <1>4, <1>5 DEF GateStep

-----------------------------------------------------------------------------
(***************************************************************************)
(* Whatever connections come, and whenever the server is closed under      *)
(* them: the in-flight count is exactly the places held and within its     *)
(* limit; a client is blocked only for recent failures; its failed         *)
(* attempts overshoot the limit by less than the number of threads; and    *)
(* the throttle remembers no more clients than it may (http.py,            *)
(* process_request and server_close; auth_throttle.py).                    *)
(***************************************************************************)
THEOREM FrontHolds == GateSpec => FrontSafe
<1>1. GateInit => Places /\ Throttle
  BY PlacesAtFirst, ThrottleAtFirst
<1>2. Places /\ Throttle /\ [GateStep]_gateVars => Places' /\ Throttle'
  BY PlacesKept, ThrottleKept
<1>3. Places /\ Throttle => GateTypes /\ PlacesExact /\ AttemptsBounded /\ TableBounded
  <2> SUFFICES ASSUME Places, Throttle
               PROVE  GateTypes /\ PlacesExact /\ AttemptsBounded /\ TableBounded
    OBVIOUS
  <2>1. GateTypes
    BY DEF GateTypes, Places, Throttle, Logged
  <2>2. AttemptsBounded
    <3>1. ASSUME NEW k \in Clients PROVE Recent(log[k]) <= Limit + MaxWorkers - 1
      <4>1. Recent(log[k]) + Cardinality(Trying(k)) <= Limit + MaxWorkers - 1
        BY DEF Throttle, Attempts
      <4>2. Recent(log[k]) \in Nat
        BY RecentIsCount DEF Throttle
      <4>. QED BY <4>1, <4>2, FiniteParts, GateAssumption
    <3>. QED BY <3>1 DEF AttemptsBounded
  <2>. QED BY <2>1, <2>2 DEF Places, Throttle
<1>4. Places /\ Throttle /\ [GateStep]_gateVars => [BlocksForCause]_gateVars
  BY ThrottleKept
<1>5. GateSpec => [](GateTypes /\ PlacesExact /\ AttemptsBounded /\ TableBounded)
  BY <1>1, <1>2, <1>3, PTL DEF GateSpec
<1>6. GateSpec => [][BlocksForCause]_gateVars
  BY <1>1, <1>2, <1>4, PTL DEF GateSpec
<1>. QED BY <1>5, <1>6, PTL DEF FrontSafe, BlockedForCause
=============================================================================
