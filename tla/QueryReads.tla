---------------------------- MODULE QueryReads ----------------------------
(***************************************************************************)
(* Reads of warehouse snapshots through the query service: SQL, row pages  *)
(* and aggregates ("sql"), column profiles ("profile"), exports ("export") *)
(* and SQL over a run's own files ("run").  A request pins its snapshot    *)
(* under a lease, passes admission (a slot, then memory), starts a child   *)
(* process, waits for its answer or its timeout, gives everything back and *)
(* finishes; an export also leaves a record and a bundle on disk.          *)
(*                                                                         *)
(* Time is a discrete clock.  The steps a thread takes between two waits   *)
(* are short beside any timeout, so the clock moves only while every       *)
(* active request waits for its child.                                     *)
(***************************************************************************)
EXTENDS Naturals, FiniteSets

CONSTANTS NRequests,     \* requests, numbered as they arrive, each served once
          Limits,        \* deployments: [slots, budget, cap], 0 for "not set"
          QueryTimeout,  \* ticks of a query
          LongTimeout,   \* ticks of a profile or an export
          LeaseTicks,    \* ticks of a snapshot lease
          Retention,     \* ticks an export is kept
          RetryTicks,    \* ticks a profile timeout is remembered
          MaxLive,       \* exports a workspace may hold
          MaxTime,       \* bound on the clock
          MaxIncidents   \* bound on crashes, failures, commits and changes of terms

\* No timeout of the engine reaches the lease taken before it.
ASSUME ReadsAssumption ==
    /\ NRequests \in Nat /\ MaxLive \in Nat /\ MaxTime \in Nat /\ MaxIncidents \in Nat
    /\ Limits \subseteq [slots: Nat, budget: Nat, cap: Nat]
    /\ QueryTimeout \in Nat /\ LongTimeout \in Nat /\ LeaseTicks \in Nat
    /\ Retention \in Nat /\ RetryTicks \in Nat
    /\ QueryTimeout < LeaseTicks /\ LongTimeout < LeaseTicks

Requests == 1..NRequests

Kinds == {"sql", "profile", "export", "run"}

Versions == {1, 2}

\* Which outcomes a child's answer can carry: rows, a failed query, a result over the
\* export's limits, values the PII scan matched.
Payloads == {"ok", "failed", "refused", "pii"}

VARIABLES now, cur, files, forbidden, limit, slots, reserved, req, lease, child,
          temp, exports, cache, until, crashes, incidents

readVars == <<now, cur, files, forbidden, limit, slots, reserved, req, lease, child,
              temp, exports, cache, until, crashes, incidents>>

NoRequest == [pc |-> "idle", kind |-> "sql", snap |-> 0, deadline |-> 0, result |-> "none"]

\* An export's directory and record: dir says what the directory holds.
NoExport == [dir |-> "none", rec |-> FALSE, expires |-> 0, result |-> "none"]

ReadsInit ==
    /\ now = 0 /\ cur = 1 /\ files = {1} /\ forbidden = FALSE
    /\ limit \in Limits
    /\ slots = 0 /\ reserved = 0
    /\ req = [r \in Requests |-> NoRequest]
    /\ lease = [r \in Requests |-> 0]
    /\ child = [r \in Requests |-> "none"]
    /\ temp = {}
    /\ exports = [r \in Requests |-> NoExport]
    /\ cache = [s \in Versions |-> FALSE]
    /\ until = [s \in Versions |-> 0]
    /\ crashes = 0 /\ incidents = 0

\* Something rare happens.
Incident == incidents < MaxIncidents /\ incidents' = incidents + 1

ReqAt(r, pc) == req[r].pc = pc

MoveTo(r, pc) == req' = [req EXCEPT ![r].pc = pc]

\* An answered request keeps nothing.
Closed == [NoRequest EXCEPT !.pc = "done"]

Close(r) == req' = [req EXCEPT ![r] = Closed]

Ends(r, pc, result) == req' = [req EXCEPT ![r].pc = pc, ![r].result = result]

Expired(e) == now >= exports[e].expires

Live == {e \in Requests : exports[e].rec /\ ~Expired(e)}

\* A recorded bundle past its expiry is unlinked; its record stays.
UnlinkExpired ==
    [e \in Requests |->
        IF exports[e].rec /\ Expired(e) THEN [exports[e] EXCEPT !.dir = "unlinked"]
        ELSE exports[e]]

\* A new request.  Only an export is counted against the workspace's quota.
Receive(r, k) ==
    /\ ReqAt(r, "idle") /\ now + LongTimeout <= MaxTime
    /\ \A q \in Requests : q < r => ~ReqAt(q, "idle")
    /\ req' = [req EXCEPT ![r] = [NoRequest EXCEPT !.kind = k,
                !.pc = CASE k = "export" -> "quota" [] k = "run" -> "policy" [] OTHER -> "pin"]]
    /\ UNCHANGED <<now, cur, files, forbidden, limit, slots, reserved, lease, child, temp,
                   exports, cache, until, crashes, incidents>>

Quota(r) ==
    /\ ReqAt(r, "quota")
    /\ exports' = UnlinkExpired
    /\ IF Cardinality(Live) >= MaxLive THEN Close(r) ELSE MoveTo(r, "pin")
    /\ UNCHANGED <<now, cur, files, forbidden, limit, slots, reserved, lease, child, temp,
                   cache, until, crashes, incidents>>

\* "current" or a snapshot named by the request, leased until it is released.
PinVersion(r) ==
    /\ ReqAt(r, "pin")
    /\ \E s \in Versions :
         IF s \in files
         THEN /\ req' = [req EXCEPT ![r].pc = "policy", ![r].snap = s]
              /\ lease' = [lease EXCEPT ![r] = now + LeaseTicks]
         ELSE Close(r) /\ UNCHANGED lease
    /\ UNCHANGED <<now, cur, files, forbidden, limit, slots, reserved, child, temp,
                   exports, cache, until, crashes, incidents>>

\* Rows, aggregates and SQL: the source's terms, then the table file, which the snapshot
\* may not have.
PolicyTable(r) ==
    /\ ReqAt(r, "policy") /\ req[r].kind = "sql"
    /\ \/ forbidden /\ Ends(r, "unpin", "forbidden")
       \/ ~forbidden /\ Ends(r, "unpin", "gone")
       \/ ~forbidden /\ req[r].snap \in files /\ MoveTo(r, "slot")
    /\ UNCHANGED <<now, cur, files, forbidden, limit, slots, reserved, lease, child, temp,
                   exports, cache, until, crashes, incidents>>

\* A profile: the terms, the cached profile, the table file, a timeout not long ago.
PolicyProfile(r) ==
    LET s == req[r].snap
    IN  /\ ReqAt(r, "policy") /\ req[r].kind = "profile"
        /\ \/ forbidden /\ Ends(r, "unpin", "forbidden")
           \/ ~forbidden /\ cache[s] /\ Ends(r, "unpin", "ok")
           \/ ~forbidden /\ ~cache[s] /\ Ends(r, "unpin", "gone")
           \/ ~forbidden /\ ~cache[s] /\ s \in files /\ now < until[s] /\ Ends(r, "unpin", "timeout")
           \/ ~forbidden /\ ~cache[s] /\ s \in files /\ now >= until[s] /\ MoveTo(r, "slot")
        /\ UNCHANGED <<now, cur, files, forbidden, limit, slots, reserved, lease, child, temp,
                       exports, cache, until, crashes, incidents>>

\* An export: the terms (a licence against derivatives included), the table file, then
\* the export's own directory.
PolicyExport(r) ==
    /\ ReqAt(r, "policy") /\ req[r].kind = "export"
    /\ \/ forbidden /\ Ends(r, "unpin", "forbidden") /\ UNCHANGED exports
       \/ ~forbidden /\ Ends(r, "unpin", "gone") /\ UNCHANGED exports
       \/ /\ ~forbidden /\ req[r].snap \in files
          /\ MoveTo(r, "slot")
          /\ exports' = [exports EXCEPT ![r].dir = "made"]
    /\ UNCHANGED <<now, cur, files, forbidden, limit, slots, reserved, lease, child, temp,
                   cache, until, crashes, incidents>>

\* SQL over a run's own files: refused by the terms or because what to withhold is not
\* known; else a masked copy when there are columns to withhold, which may fail.
PolicyRun(r) ==
    /\ ReqAt(r, "policy") /\ req[r].kind = "run"
    /\ \/ Close(r) /\ UNCHANGED temp
       \/ ~forbidden /\ MoveTo(r, "slot") /\ temp' \in {temp, temp \cup {<<r, "masked">>}}
    /\ UNCHANGED <<now, cur, files, forbidden, limit, slots, reserved, lease, child,
                   exports, cache, until, crashes, incidents>>

\* The non-blocking slot.
Slot(r) ==
    /\ ReqAt(r, "slot")
    /\ IF slots < limit.slots THEN slots' = slots + 1 /\ MoveTo(r, "memory")
       ELSE UNCHANGED slots /\ Ends(r, "finish", "busy")
    /\ UNCHANGED <<now, cur, files, forbidden, limit, reserved, lease, child, temp, exports,
                   cache, until, crashes, incidents>>

\* What one query reserves: its own cap, or the whole budget when there is none.
Reservation == IF limit.cap # 0 THEN limit.cap ELSE limit.budget

Fits == limit.budget = 0 \/ reserved + Reservation <= limit.budget

\* Mutant: a query refused for memory leaves without its slot being returned.
MemoryLeaking(r) ==
    /\ ReqAt(r, "memory")
    /\ IF Fits
       THEN /\ reserved' = IF limit.budget = 0 THEN 0 ELSE reserved + Reservation
            /\ MoveTo(r, "spawn")
       ELSE UNCHANGED reserved /\ Ends(r, "finish", "busy")
    /\ UNCHANGED <<now, cur, files, forbidden, limit, slots, lease, child, temp, exports,
                   cache, until, crashes, incidents>>

\* The memory reservation; refused, the slot goes back.
Memory(r) ==
    /\ ReqAt(r, "memory")
    /\ IF Fits
       THEN /\ reserved' = IF limit.budget = 0 THEN 0 ELSE reserved + Reservation
            /\ MoveTo(r, "spawn") /\ UNCHANGED slots
       ELSE UNCHANGED reserved /\ slots' = slots - 1 /\ Ends(r, "finish", "busy")
    /\ UNCHANGED <<now, cur, files, forbidden, limit, lease, child, temp, exports, cache,
                   until, crashes, incidents>>

Timeout(k) == IF k \in {"profile", "export"} THEN LongTimeout ELSE QueryTimeout

\* The spill directory and the child process; starting it may fail.
Spawn(r) ==
    /\ ReqAt(r, "spawn")
    /\ temp' = temp \cup {<<r, "spill">>}
    /\ \/ /\ child' = [child EXCEPT ![r] = "running"]
          /\ req' = [req EXCEPT ![r].pc = "poll", ![r].deadline = now + Timeout(req[r].kind)]
          /\ UNCHANGED incidents
       \/ /\ UNCHANGED child
          /\ Ends(r, "leave", "failed")
          /\ Incident
    /\ UNCHANGED <<now, cur, files, forbidden, limit, slots, reserved, lease, exports, cache,
                   until, crashes>>

\* The child sends its payload and ends.  Only an export refuses its result or reports
\* PII; a data file it does not keep is unlinked by the child.
ChildAnswers(r, p) ==
    /\ child[r] = "running"
    /\ p \in {"refused", "pii"} => req[r].kind = "export"
    /\ child' = [child EXCEPT ![r] = p]
    /\ exports' = IF req[r].kind # "export" THEN exports
                  ELSE [exports EXCEPT ![r].dir = IF p \in {"ok", "pii"} THEN "data" ELSE "made",
                                       ![r].result = p]
    /\ UNCHANGED <<now, cur, files, forbidden, limit, slots, reserved, req, lease, temp,
                   cache, until, crashes, incidents>>

\* Mutant: the parent waits for the payload without a timeout.
PollBlocking(r) ==
    /\ ReqAt(r, "poll") /\ child[r] \in Payloads
    /\ Ends(r, "leave", child[r])
    /\ child' = [child EXCEPT ![r] = "none"]
    /\ UNCHANGED <<now, cur, files, forbidden, limit, slots, reserved, lease, temp, exports,
                   cache, until, crashes, incidents>>

\* parent.poll returned: a payload, or the timeout, when the child is stopped.  A child
\* that survives terminate and kill is given up: the error leaves before the spill
\* directory is removed.
Poll(r) ==
    /\ ReqAt(r, "poll")
    /\ \/ /\ child[r] \in Payloads
          /\ Ends(r, "leave", child[r])
          /\ child' = [child EXCEPT ![r] = "none"]
          /\ UNCHANGED <<until, incidents>>
       \/ /\ child[r] = "running" /\ now >= req[r].deadline
          /\ child' = [child EXCEPT ![r] = "none"]
          /\ Ends(r, "leave", "timeout")
          /\ until' = IF req[r].kind = "profile"
                      THEN [until EXCEPT ![req[r].snap] = now + RetryTicks] ELSE until
          /\ UNCHANGED incidents
       \/ /\ child[r] \in Payloads \/ now >= req[r].deadline
          /\ child' = [child EXCEPT ![r] = "stuck"]
          /\ Ends(r, "leave", "failed")
          /\ Incident
          /\ UNCHANGED until
    /\ UNCHANGED <<now, cur, files, forbidden, limit, slots, reserved, lease, temp, exports,
                   cache, crashes>>

\* The engine's finally, then admission's: the reservation (never below zero) and the
\* slot.
Leave(r) ==
    /\ ReqAt(r, "leave")
    /\ temp' = IF child[r] = "stuck" THEN temp ELSE temp \ {<<r, "spill">>}
    /\ reserved' = IF limit.budget = 0 \/ reserved < Reservation THEN 0 ELSE reserved - Reservation
    /\ slots' = slots - 1
    /\ MoveTo(r, "finish")
    /\ UNCHANGED <<now, cur, files, forbidden, limit, lease, child, exports, cache, until,
                   crashes, incidents>>

\* After the engine: an export is bundled (its data file removed) or its directory is
\* deleted, a profile is cached (or its file cannot be written), the masked copy is closed.
Finish(r) ==
    /\ ReqAt(r, "finish")
    /\ exports' = IF req[r].kind # "export" THEN exports
                  ELSE [exports EXCEPT ![r] = IF req[r].result = "ok"
                                              THEN [@ EXCEPT !.dir = "bundle"] ELSE NoExport]
    /\ cache' \in IF req[r].kind = "profile" /\ req[r].result = "ok"
                  THEN {cache, [cache EXCEPT ![req[r].snap] = TRUE]} ELSE {cache}
    /\ temp' = temp \ {<<r, "masked">>}
    /\ MoveTo(r, IF req[r].kind = "export" /\ req[r].result = "ok" THEN "save" ELSE "unpin")
    /\ UNCHANGED <<now, cur, files, forbidden, limit, slots, reserved, lease, child, until, crashes, incidents>>

\* The export's record is saved by a rename; a failed write removes the directory.
Save(r) ==
    /\ ReqAt(r, "save")
    /\ \/ exports' = [exports EXCEPT ![r].rec = TRUE, ![r].expires = now + Retention]
          /\ MoveTo(r, "unpin") /\ UNCHANGED incidents
       \/ exports' = [exports EXCEPT ![r] = NoExport]
          /\ Ends(r, "unpin", "failed") /\ Incident
    /\ UNCHANGED <<now, cur, files, forbidden, limit, slots, reserved, lease, child, temp,
                   cache, until, crashes>>

Unpin(r) ==
    /\ ReqAt(r, "unpin")
    /\ lease' = [lease EXCEPT ![r] = 0]
    /\ Close(r)
    /\ UNCHANGED <<now, cur, files, forbidden, limit, slots, reserved, child, temp, exports,
                   cache, until, crashes, incidents>>

\* GET of the exports, and a download of an expired one: expired bundles are unlinked.
List ==
    /\ UnlinkExpired # exports
    /\ exports' = UnlinkExpired
    /\ UNCHANGED <<now, cur, files, forbidden, limit, slots, reserved, req, lease, child,
                   temp, cache, until, crashes, incidents>>

Download(e) ==
    /\ exports[e].rec /\ Expired(e) /\ exports[e].dir # "unlinked"
    /\ exports' = [exports EXCEPT ![e].dir = "unlinked"]
    /\ UNCHANGED <<now, cur, files, forbidden, limit, slots, reserved, req, lease, child,
                   temp, cache, until, crashes, incidents>>

\* A download is served from an unexpired record while the terms still allow it.
Servable(e) == exports[e].rec /\ ~Expired(e) /\ ~forbidden /\ exports[e].dir = "bundle"

DeleteExport(e) ==
    /\ exports[e].rec
    /\ exports' = [exports EXCEPT ![e] = NoExport]
    /\ UNCHANGED <<now, cur, files, forbidden, limit, slots, reserved, req, lease, child,
                   temp, cache, until, crashes, incidents>>

\* Another build commits a new snapshot; a collection removes an old one nobody leases;
\* the catalogue declares terms that forbid use.
Refresh == cur = 1 /\ cur' = 2 /\ files' = files \cup {2} /\ Incident /\ UNCHANGED forbidden

CollectOld ==
    \E s \in files \ {cur} :
        /\ \A r \in Requests : req[r].snap = s => lease[r] <= now
        /\ files' = files \ {s} /\ UNCHANGED <<cur, forbidden, incidents>>

Forbid == ~forbidden /\ forbidden' = TRUE /\ Incident /\ UNCHANGED <<cur, files>>

Others ==
    /\ Refresh \/ CollectOld \/ Forbid
    /\ UNCHANGED <<now, limit, slots, reserved, req, lease, child, temp, exports, cache,
                   until, crashes>>

\* The clock waits for every thread that has something to do, and for a parent whose
\* poll has timed out.
Waiting(r) == \/ req[r].pc \in {"idle", "done"}
              \/ ReqAt(r, "poll") /\ child[r] = "running" /\ now < req[r].deadline

Tick ==
    /\ now < MaxTime
    /\ \A r \in Requests : Waiting(r)
    /\ now' = now + 1
    /\ UNCHANGED <<cur, files, forbidden, limit, slots, reserved, req, lease, child, temp,
                   exports, cache, until, crashes, incidents>>

\* The process dies: requests, admission and children are lost, files and leases stay.
Crash ==
    /\ Incident
    /\ crashes' = crashes + 1
    /\ slots' = 0 /\ reserved' = 0
    /\ req' = [r \in Requests |-> IF req[r].pc \in {"idle", "done"} THEN req[r]
                                  ELSE Closed]
    /\ child' = [r \in Requests |-> IF child[r] = "stuck" THEN "stuck" ELSE "none"]
    /\ until' = [s \in Versions |-> 0]
    /\ UNCHANGED <<now, cur, files, forbidden, limit, lease, temp, exports, cache>>

Serve(r) ==
    \/ Quota(r) \/ PinVersion(r) \/ PolicyTable(r) \/ PolicyProfile(r) \/ PolicyExport(r)
    \/ PolicyRun(r) \/ Slot(r) \/ Memory(r) \/ Spawn(r) \/ Poll(r) \/ Leave(r)
    \/ Finish(r) \/ Save(r) \/ Unpin(r)

ReadStep ==
    \/ \E r \in Requests :
         \/ Serve(r) \/ Download(r) \/ DeleteExport(r)
         \/ \E k \in Kinds : Receive(r, k)
         \/ \E p \in Payloads : ChildAnswers(r, p)
    \/ List \/ Others \/ Tick \/ Crash

ReadSpec == ReadsInit /\ [][ReadStep]_readVars

----------------------------------------------------------------------------
Pcs == {"idle", "quota", "pin", "policy", "slot", "memory", "spawn", "poll", "leave", "finish",
        "save", "unpin", "done"}

Results == Payloads \cup {"none", "busy", "timeout", "forbidden", "gone"}

RequestSet == [pc: Pcs, kind: Kinds, snap: Versions \cup {0}, deadline: Nat, result: Results]

ExportSet == [dir: {"none", "made", "data", "bundle", "unlinked"}, rec: BOOLEAN, expires: Nat,
              result: Payloads \cup {"none"}]

ReadTypes ==
    /\ now \in 0..MaxTime /\ cur \in Versions /\ files \subseteq Versions
    /\ forbidden \in BOOLEAN /\ limit \in Limits
    /\ slots \in Nat /\ reserved \in Nat
    /\ crashes \in 0..incidents /\ incidents \in 0..MaxIncidents
    /\ req \in [Requests -> RequestSet] /\ lease \in [Requests -> Nat]
    /\ child \in [Requests -> {"none", "running", "stuck"} \cup Payloads]
    /\ exports \in [Requests -> ExportSet]
    /\ cache \in [Versions -> BOOLEAN] /\ until \in [Versions -> Nat]
    /\ temp \subseteq Requests \X {"spill", "masked"}

Busy == {r \in Requests : req[r].pc \in {"spawn", "poll", "leave"}}

(***************************************************************************)
(* Admission bounds what runs together: the children that are running      *)
(* never outnumber the slots, and their caps together stay within the      *)
(* memory budget (query/service.py, MemoryBudget: "the sum bounds what     *)
(* queries can use together").  A child that survives a kill is outside.   *)
(***************************************************************************)
AdmissionBounds ==
    LET running == {r \in Requests : child[r] = "running"}
    IN  /\ Cardinality(running) <= limit.slots
        /\ limit.budget # 0 => Cardinality(running) * Reservation <= limit.budget
        /\ running \subseteq Busy

(***************************************************************************)
(* Whatever way requests ended, nothing of them is left once none is       *)
(* active: no slot, no reservation, no lease that still holds, no masked   *)
(* copy, no directory of an export that was not recorded; a spill          *)
(* directory only of a child that could not be stopped.  (A crash leaves   *)
(* directories and leases behind and is excluded.)                         *)
(***************************************************************************)
NothingLeft ==
    (\A r \in Requests : req[r].pc \in {"idle", "done"}) =>
        /\ slots = 0 /\ reserved = 0
        /\ crashes = 0 =>
             /\ \A r \in Requests : lease[r] = 0 /\ (exports[r].dir # "none" => exports[r].rec)
             /\ temp \subseteq {<<r, "spill">> : r \in {q \in Requests : child[q] = "stuck"}}

(***************************************************************************)
(* A child that runs reads a snapshot whose files are there: no timeout of *)
(* the engine outlives the lease the request took before it.               *)
(***************************************************************************)
SnapshotUnderChild ==
    \A r \in Requests : child[r] = "running" /\ req[r].kind # "run" => req[r].snap \in files

(***************************************************************************)
(* A recorded export is complete and was allowed out, crash or not: its    *)
(* query answered, was under the limits and the PII scan let it pass.      *)
(***************************************************************************)
ExportAllOrNothing ==
    \A e \in Requests : exports[e].rec =>
        exports[e].dir \in {"bundle", "unlinked"} /\ exports[e].result = "ok"

(***************************************************************************)
(* "A workspace holds at most MAX_LIVE_EXPORTS" (exports_api.py).          *)
(***************************************************************************)
QuotaKept == Cardinality(Live) <= MaxLive

KeepsServable ==
    \A e \in Requests : Servable(e) => exports'[e] = exports[e] \/ exports'[e] = NoExport

(***************************************************************************)
(* An export that can be downloaded stays so until it expires, the terms   *)
(* change or its owner deletes it.                                         *)
(***************************************************************************)
ExportKept == [][KeepsServable]_readVars

\* Reads are contained: all of the above but the quota, which two exports at once exceed
\* (query/service.py, query/engine.py, service/exports_api.py).
ReadsContained ==
    /\ [](ReadTypes /\ AdmissionBounds /\ NothingLeft /\ SnapshotUnderChild /\ ExportAllOrNothing)
    /\ ExportKept

(***************************************************************************)
(* Every request is answered, whatever its child does: requests are served *)
(* once, so no request stays active exactly if none is active again and    *)
(* again.                                                                  *)
(***************************************************************************)
Answered == []<>(\A r \in Requests : req[r].pc \in {"idle", "done"})
=============================================================================
