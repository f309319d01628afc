------------------------------ MODULE Gateway -----------------------------
(***************************************************************************)
(* The HTTP front: a connection is counted, handed to a pool of worker     *)
(* threads (or turned away), and its request passes the throttle of failed *)
(* authentications before and after it is authenticated.  The server may   *)
(* be closed at any moment; futures still queued are then cancelled.       *)
(***************************************************************************)
EXTENDS Naturals, FiniteSets, Sequences

CONSTANTS Conns,        \* connections, each used once
          Clients,      \* client addresses
          MaxWorkers,   \* threads of the pool
          MaxPending,   \* max_pending_requests
          Limit,        \* failures that block a client
          Window,       \* ticks a failure counts
          MaxClients,   \* addresses the throttle remembers
          MaxClock      \* bound on the clock

\* The pool refuses to have no threads; a limit of zero switches the throttle off.
ASSUME GateAssumption ==
    /\ IsFiniteSet(Conns) /\ IsFiniteSet(Clients) /\ "none" \notin Clients
    /\ MaxWorkers \in Nat \ {0} /\ MaxPending \in Nat
    /\ Limit \in Nat \ {0} /\ Window \in Nat \ {0} /\ MaxClients \in Nat \ {0}
    /\ MaxClock \in Nat

VARIABLES clock, inflight, closed, conn, failures, log

gateVars == <<clock, inflight, closed, conn, failures, log>>

Max == MaxWorkers + MaxPending

GateInit ==
    /\ clock = 0 /\ inflight = 0 /\ closed = FALSE
    /\ conn = [c \in Conns |-> [pc |-> "new", client |-> "none"]]
    /\ failures = [k \in Clients |-> <<>>]   \* the throttle's deque; empty: not remembered
    /\ log = [k \in Clients |-> <<>>]        \* ghost: failures since success or eviction

ConnAt(c, pc) == conn[c].pc = pc

Moves(c, pc) == conn' = [conn EXCEPT ![c].pc = pc]

\* process_request: the count and its limit under one lock.
Admit(c, k) ==
    /\ ConnAt(c, "new") /\ ~closed
    /\ IF inflight < Max
       THEN inflight' = inflight + 1 /\ conn' = [conn EXCEPT ![c] = [pc |-> "submit", client |-> k]]
       ELSE UNCHANGED inflight /\ conn' = [conn EXCEPT ![c] = [pc |-> "rejected", client |-> k]]
    /\ UNCHANGED <<clock, closed, failures, log>>

\* executor.submit; after shutdown it raises and the place is given back.
SubmitConn(c) ==
    /\ ConnAt(c, "submit")
    /\ Moves(c, IF closed THEN "closed" ELSE "queued")
    /\ inflight' = IF closed THEN inflight - 1 ELSE inflight
    /\ UNCHANGED <<clock, closed, failures, log>>

Running == {c \in Conns : conn[c].pc \in {"throttle", "authenticate", "failed", "granted"}}

\* A worker takes the connection and reads the request; one that is malformed, too long
\* or for /healthz is answered before the throttle.
Work(c) ==
    /\ ConnAt(c, "queued") /\ Cardinality(Running) < MaxWorkers
    /\ Moves(c, "throttle") \/ Moves(c, "finished")
    /\ UNCHANGED <<clock, inflight, closed, failures, log>>

\* The failures, oldest first, without those that are due.
Without(s, due) == SubSeq(s, Cardinality(due) + 1, Len(s))

\* _prune: a failure exactly one window old no longer counts.
Pruned(s) == Without(s, {i \in DOMAIN s : s[i] + Window <= clock})

Blocks(s) == Len(s) >= Limit

\* retry_after prunes what it reads.
RetryAfter(c) ==
    LET k == conn[c].client
    IN  /\ ConnAt(c, "throttle")
        /\ failures' = [failures EXCEPT ![k] = Pruned(@)]
        /\ Moves(c, IF Blocks(failures'[k]) THEN "blocked" ELSE "authenticate")
        /\ UNCHANGED <<clock, inflight, closed, log>>

\* authenticate: a bad credential (401), a provider that cannot be asked (503), or a
\* principal.
Authenticate(c) ==
    /\ ConnAt(c, "authenticate")
    /\ \E pc \in {"failed", "finished", "granted"} : Moves(c, pc)
    /\ UNCHANGED <<clock, inflight, closed, failures, log>>

Known == {k \in Clients : failures[k] # <<>>}

LastFailure(k) == failures[k][Len(failures[k])]

\* The clients of a set that failed least recently.
Oldest(s) == {k \in s : \A l \in s : LastFailure(k) <= LastFailure(l)}

\* _evict_if_needed, for a client not yet remembered: with a full table, every client
\* whose failures have all expired is dropped, and if that makes no room, the one that
\* failed least recently too.
Dropped(k) ==
    LET expired == {l \in Known : LastFailure(l) + Window <= clock}
        left == Known \ expired
    IN  IF failures[k] # <<>> \/ Cardinality(Known) < MaxClients THEN {{}}
        ELSE IF Cardinality(left) < MaxClients THEN {expired}
        ELSE {expired \cup {l} : l \in Oldest(left)}

RecordFailure(c) ==
    LET k == conn[c].client
    IN  /\ ConnAt(c, "failed")
        /\ \E gone \in Dropped(k) :
             /\ failures' = [l \in Clients |-> IF l = k THEN Append(Pruned(failures[k]), clock)
                                              ELSE IF l \in gone THEN <<>> ELSE failures[l]]
             /\ log' = [l \in Clients |-> IF l = k THEN Append(log[k], clock)
                                          ELSE IF l \in gone THEN <<>> ELSE log[l]]
        /\ Moves(c, "finished")
        /\ UNCHANGED <<clock, inflight, closed>>

RecordSuccess(c) ==
    LET k == conn[c].client
    IN  /\ ConnAt(c, "granted")
        /\ failures' = [failures EXCEPT ![k] = <<>>]
        /\ log' = [log EXCEPT ![k] = <<>>]
        /\ Moves(c, "finished")
        /\ UNCHANGED <<clock, inflight, closed>>

\* The future's done callback, after an answer, an error or a cancelled future.
GiveBack(c) ==
    /\ conn[c].pc \in {"finished", "blocked"}
    /\ inflight' = inflight - 1
    /\ Moves(c, "closed")
    /\ UNCHANGED <<clock, closed, failures, log>>

\* Mutant: the places of the cancelled requests are given back here, and again by
\* their callbacks.
CloseServerReleasing ==
    /\ ~closed /\ closed' = TRUE
    /\ inflight' = inflight - Cardinality({c \in Conns : ConnAt(c, "queued")})
    /\ conn' = [c \in Conns |-> IF ConnAt(c, "queued") THEN [conn[c] EXCEPT !.pc = "finished"]
                                ELSE conn[c]]
    /\ UNCHANGED <<clock, failures, log>>

\* server_close: the pool is shut down without waiting and its queue cancelled.
CloseServer ==
    /\ ~closed /\ closed' = TRUE
    /\ conn' = [c \in Conns |-> IF ConnAt(c, "queued") THEN [conn[c] EXCEPT !.pc = "finished"]
                                ELSE conn[c]]
    /\ UNCHANGED <<clock, inflight, failures, log>>

Elapse ==
    /\ clock < MaxClock /\ clock' = clock + 1
    /\ UNCHANGED <<inflight, closed, conn, failures, log>>

Handle(c) ==
    \/ SubmitConn(c) \/ Work(c) \/ RetryAfter(c) \/ Authenticate(c) \/ RecordFailure(c)
    \/ RecordSuccess(c) \/ GiveBack(c)

GateStep ==
    \/ \E c \in Conns : Handle(c) \/ \E k \in Clients : Admit(c, k)
    \/ CloseServer \/ Elapse

GateSpec == GateInit /\ [][GateStep]_gateVars

----------------------------------------------------------------------------
GateTypes ==
    /\ clock \in 0..MaxClock /\ inflight \in Nat /\ closed \in BOOLEAN
    /\ \A k \in Clients : failures[k] \in Seq(0..MaxClock) /\ log[k] \in Seq(0..MaxClock)

(***************************************************************************)
(* The in-flight count is exact: it counts the connections that hold a     *)
(* place, on every way out (rejected, cancelled, submitted after shutdown, *)
(* failed), so it comes back to zero and the server never turns a          *)
(* connection away while it has room (http.py, process_request).           *)
(***************************************************************************)
PlacesExact ==
    /\ inflight = Cardinality({c \in Conns : conn[c].pc \notin {"new", "rejected", "closed"}})
    /\ inflight <= Max

Recent(s) == Cardinality({i \in DOMAIN s : s[i] + Window > clock})

(***************************************************************************)
(* A client is blocked only for failures inside the window that no success *)
(* has cleared.                                                            *)
(***************************************************************************)
BlocksForCause ==
    \A c \in Conns : ~ConnAt(c, "blocked") /\ conn'[c].pc = "blocked" =>
        Recent(log[conn[c].client]) >= Limit

BlockedForCause == [][BlocksForCause]_gateVars

(***************************************************************************)
(* The throttle bounds failed attempts: requests that passed it together   *)
(* may overshoot the limit, by at most one less than there are threads.    *)
(***************************************************************************)
AttemptsBounded ==
    \A k \in Clients : Recent(log[k]) <= Limit + MaxWorkers - 1

(***************************************************************************)
(* The table never grows past the clients it may remember.                 *)
(***************************************************************************)
TableBounded == Cardinality(Known) <= MaxClients

(***************************************************************************)
(* Every admitted connection is answered or cancelled and gives its place  *)
(* back, also when the server is closed under it: again and again the      *)
(* server is idle (each connection is used once).                          *)
(***************************************************************************)
PlacesReturned == []<>(inflight = 0)

\* The in-flight count is exact and bounded, also when the server is closed; a client is
\* blocked only for recent failures, attempts overshoot the limit by less than the number of
\* threads, and the throttle's table stays within its own (http.py, auth_throttle.py).
FrontSafe ==
    /\ [](GateTypes /\ PlacesExact /\ AttemptsBounded /\ TableBounded)
    /\ BlockedForCause
=============================================================================
