-------------------------- MODULE QueryReadsProofs --------------------------
(***************************************************************************)
(* Theorems about QueryReads, for every number of requests, every          *)
(* deployment and all timeouts shorter than the lease, with every fault.   *)
(* QInv counts what admission has handed out, and says of each request     *)
(* what its step has secured: the lease it runs under, what its child has  *)
(* answered, what its export holds and what it would leave behind.         *)
(***************************************************************************)
EXTENDS QueryReads, FiniteSetTheorems, TLAPS

Slotted == {"memory", "spawn", "poll", "leave"}
Reserving == {"spawn", "poll", "leave"}
Engine == {"slot", "memory", "spawn", "poll", "leave", "finish"}
Pinned == Engine \cup {"policy", "save", "unpin"}

Admitted == {r \in Requests : req[r].pc \in Slotted}

\* What admission has handed out.
Admission ==
    /\ slots = Cardinality(Admitted) /\ slots <= limit.slots
    /\ limit.budget = 0 => reserved = 0
    /\ limit.budget # 0 => reserved = Cardinality(Busy) * Reservation /\ reserved <= limit.budget

\* What a child has answered and what becomes of it.
Answering(r) ==
    /\ req[r].pc \in {"quota", "pin"} => req[r].kind # "run"
    /\ child[r] \in {"running"} \cup Payloads => req[r].pc = "poll"
    /\ child[r] \in Payloads /\ req[r].kind = "export" => exports[r].result = child[r]
    /\ req[r].pc \in {"leave", "finish"} /\ req[r].kind = "export" /\ req[r].result = "ok" =>
          exports[r].result = "ok"
    /\ req[r].pc = "save" => req[r].kind = "export" /\ exports[r].dir = "bundle" /\ exports[r].result = "ok"
    /\ exports[r].rec => /\ req[r].pc \in {"unpin", "done"}
                         /\ exports[r].dir \in {"bundle", "unlinked"} /\ exports[r].result = "ok"

\* The lease outlives the child.
Leasing(r) ==
    req[r].kind # "run" =>
        /\ req[r].pc \in {"policy", "slot", "memory", "spawn"} => lease[r] = now + LeaseTicks
        /\ req[r].pc \in {"slot", "memory", "spawn"} => req[r].snap \in files
        /\ child[r] = "running" => /\ now <= req[r].deadline /\ req[r].deadline < lease[r]
                                   /\ req[r].snap \in files

\* What is left of a request is still its own.
Tidy(r) ==
    crashes = 0 =>
        /\ lease[r] # 0 => req[r].pc \in Pinned /\ req[r].kind # "run"
        /\ exports[r].dir # "none" =>
              exports[r].rec \/ (req[r].kind = "export" /\ req[r].pc \in Engine \cup {"save"})
        /\ <<r, "masked">> \in temp => req[r].pc \in Engine
        /\ <<r, "spill">> \in temp => req[r].pc \in {"poll", "leave"} \/ child[r] = "stuck"

Served(r) == Answering(r) /\ Leasing(r) /\ Tidy(r)

QInv == ReadTypes /\ Admission /\ \A r \in Requests : Served(r)

\* Nothing happens to a request but that its recorded export is unlinked or deleted.
Keeps(q) ==
    /\ req'[q] = req[q] /\ lease'[q] = lease[q] /\ child'[q] = child[q]
    /\ \/ exports'[q] = exports[q]
       \/ /\ exports[q].rec
          /\ exports'[q] = NoExport \/ exports'[q] = [exports[q] EXCEPT !.dir = "unlinked"]
    /\ \A k \in {"spill", "masked"} : <<q, k>> \in temp' <=> <<q, k>> \in temp

-----------------------------------------------------------------------------
\* Arithmetic and counting.
LEMMA Product == ASSUME NEW n \in Nat, NEW m \in Nat
                 PROVE  n * m \in Nat /\ (n + 1) * m = n * m + m /\ 0 * m = 0
OBVIOUS

LEMMA ProductGrows == ASSUME NEW n \in Nat, NEW k \in Nat, NEW m \in Nat, n <= k
                      PROVE  n * m <= k * m
OBVIOUS

LEMMA RequestCount == IsFiniteSet(Requests)
  BY FS_Interval, ReadsAssumption DEF Requests

LEMMA LimitType == ASSUME ReadTypes
                   PROVE  limit.slots \in Nat /\ limit.budget \in Nat /\ limit.cap \in Nat /\ Reservation \in Nat
<1>1. limit \in [slots: Nat, budget: Nat, cap: Nat]
  BY ReadsAssumption DEF ReadTypes
<1>. QED BY <1>1 DEF Reservation

LEMMA Counts == ASSUME ReadTypes
                PROVE  /\ IsFiniteSet(Admitted) /\ Cardinality(Admitted) \in Nat
                       /\ IsFiniteSet(Busy) /\ Cardinality(Busy) \in Nat
                       /\ Cardinality(Busy) <= Cardinality(Admitted)
<1>1. Admitted \subseteq Requests /\ Busy \subseteq Admitted
  BY DEF Admitted, Busy, Slotted
<1>. QED BY <1>1, RequestCount, FS_Subset, FS_CardinalityType

\* Requests move, but none into or out of admission.
LEMMA SameCounts ==
    ASSUME QInv, UNCHANGED <<slots, reserved, limit>>,
           \A q \in Requests : /\ req'[q].pc \in Slotted <=> req[q].pc \in Slotted
                               /\ req'[q].pc \in Reserving <=> req[q].pc \in Reserving
    PROVE  Admission'
<1>1. Admitted' = Admitted
  BY DEF Admitted
<1>2. Busy' = Busy
  BY DEF Busy, Reserving
<1>. QED BY <1>1, <1>2 DEF QInv, Admission, Reservation

-----------------------------------------------------------------------------
\* How a step changes a request.
LEMMA MoveType ==
    ASSUME ReadTypes, NEW r \in Requests, NEW p \in Pcs, MoveTo(r, p)
    PROVE  /\ req' \in [Requests -> RequestSet] /\ \A q \in Requests \ {r} : req'[q] = req[q]
           /\ req'[r].pc = p /\ req'[r].kind = req[r].kind /\ req'[r].snap = req[r].snap
           /\ req'[r].deadline = req[r].deadline /\ req'[r].result = req[r].result
<1> DEFINE x == [req[r] EXCEPT !.pc = p]
<1>1. req' = [req EXCEPT ![r] = x]
  BY DEF MoveTo
<1>2. req[r] \in RequestSet
  BY DEF ReadTypes
<1>3. /\ x \in RequestSet /\ x.pc = p /\ x.kind = req[r].kind /\ x.snap = req[r].snap
      /\ x.deadline = req[r].deadline /\ x.result = req[r].result
  BY <1>2 DEF RequestSet
<1> HIDE DEF x
<1>. QED BY <1>1, <1>3 DEF ReadTypes

LEMMA EndsType ==
    ASSUME ReadTypes, NEW r \in Requests, NEW p \in Pcs, NEW t \in Results, Ends(r, p, t)
    PROVE  /\ req' \in [Requests -> RequestSet] /\ \A q \in Requests \ {r} : req'[q] = req[q]
           /\ req'[r].pc = p /\ req'[r].kind = req[r].kind /\ req'[r].snap = req[r].snap
           /\ req'[r].deadline = req[r].deadline /\ req'[r].result = t
<1> DEFINE x == [req[r] EXCEPT !.pc = p]
           y == [x EXCEPT !.result = t]
<1>1. req' = [req EXCEPT ![r] = y]
  BY DEF Ends
<1>2. req[r] \in RequestSet
  BY DEF ReadTypes
<1>3. /\ x \in RequestSet /\ x.pc = p /\ x.kind = req[r].kind /\ x.snap = req[r].snap
      /\ x.deadline = req[r].deadline
  BY <1>2 DEF RequestSet
<1> HIDE DEF x
<1>4. /\ y \in RequestSet /\ y.pc = p /\ y.kind = req[r].kind /\ y.snap = req[r].snap
      /\ y.deadline = req[r].deadline /\ y.result = t
  BY <1>3 DEF RequestSet
<1> HIDE DEF y
<1>. QED BY <1>1, <1>4 DEF ReadTypes

LEMMA CloseType ==
    ASSUME ReadTypes, NEW r \in Requests, Close(r)
    PROVE  /\ req' \in [Requests -> RequestSet] /\ \A q \in Requests \ {r} : req'[q] = req[q]
           /\ req'[r].pc = "done" /\ req'[r].kind = "sql" /\ req'[r].result = "none"
<1>1. Closed = [pc |-> "done", kind |-> "sql", snap |-> 0, deadline |-> 0, result |-> "none"]
  BY DEF Closed, NoRequest
<1>2. /\ Closed \in RequestSet /\ Closed.pc = "done" /\ Closed.kind = "sql" /\ Closed.result = "none"
  BY <1>1 DEF RequestSet, Pcs, Kinds, Results
<1>. QED BY <1>2 DEF ReadTypes, Close

LEMMA NoExportType == NoExport \in ExportSet /\ NoExport.dir = "none" /\ NoExport.rec = FALSE
  BY DEF NoExport, ExportSet

\* Bundles of expired exports are unlinked: recorded ones only.
LEMMA UnlinkType ==
    ASSUME ReadTypes
    PROVE  /\ UnlinkExpired \in [Requests -> ExportSet]
           /\ \A e \in Requests :
                 \/ UnlinkExpired[e] = exports[e]
                 \/ /\ exports[e].rec /\ Expired(e)
                    /\ UnlinkExpired[e] = [exports[e] EXCEPT !.dir = "unlinked"]
<1>1. \A e \in Requests : [exports[e] EXCEPT !.dir = "unlinked"] \in ExportSet
  BY DEF ReadTypes, ExportSet
<1>. QED BY <1>1 DEF UnlinkExpired, ReadTypes

\* A request nothing happens to keeps what is said of it.
LEMMA Untouched ==
    ASSUME QInv, NEW q \in Requests, Keeps(q), now' = now, crashes' = crashes, files \subseteq files'
    PROVE  Served(q)'
<1>1. Served(q) /\ exports[q] \in ExportSet
  BY DEF QInv, ReadTypes
<1>2. /\ req'[q] = req[q] /\ lease'[q] = lease[q] /\ child'[q] = child[q]
      /\ <<q, "masked">> \in temp' <=> <<q, "masked">> \in temp
      /\ <<q, "spill">> \in temp' <=> <<q, "spill">> \in temp
  BY DEF Keeps
<1>3. Leasing(q)'
  BY <1>1, <1>2 DEF Served, Leasing
<1>4. CASE exports'[q] = exports[q]
  BY <1>1, <1>2, <1>3, <1>4 DEF Served, Answering, Tidy
<1>5. CASE exports[q].rec /\ exports'[q] = NoExport
  <2>1. req[q].pc \in {"unpin", "done"}
    BY <1>1, <1>5 DEF Served, Answering
  <2>2. Answering(q)'
    BY <1>1, <1>2, <1>5, <2>1, NoExportType DEF Served, Answering
  <2>3. Tidy(q)'
    BY <1>1, <1>2, <1>5, NoExportType DEF Served, Tidy
  <2>. QED BY <1>3, <2>2, <2>3 DEF Served
<1>6. CASE exports[q].rec /\ exports'[q] = [exports[q] EXCEPT !.dir = "unlinked"]
  <2>1. /\ exports'[q].dir = "unlinked" /\ exports'[q].rec = exports[q].rec
        /\ exports'[q].result = exports[q].result
    BY <1>1, <1>6 DEF ExportSet
  <2>2. req[q].pc \in {"unpin", "done"}
    BY <1>1, <1>6 DEF Served, Answering
  <2>3. Answering(q)'
    BY <1>1, <1>2, <1>6, <2>1, <2>2 DEF Served, Answering
  <2>4. Tidy(q)'
    BY <1>1, <1>2, <1>6, <2>1 DEF Served, Tidy
  <2>. QED BY <1>3, <2>3, <2>4 DEF Served
<1>. QED BY <1>4, <1>5, <1>6 DEF Keeps

\* A step of one request.
LEMMA Acts ==
    ASSUME QInv, NEW r \in Requests, ReadTypes', Admission', Served(r)',
           \A q \in Requests \ {r} : Keeps(q), UNCHANGED <<now, files, crashes>>
    PROVE  QInv'
<1>1. \A q \in Requests \ {r} : Served(q)'
  BY Untouched
<1>. QED BY <1>1 DEF QInv

-----------------------------------------------------------------------------
\* The steps before the engine.
LEMMA StepReceive == ASSUME QInv, NEW r \in Requests, NEW k \in Kinds, Receive(r, k) PROVE QInv'
<1> DEFINE p == CASE k = "export" -> "quota" [] k = "run" -> "policy" [] OTHER -> "pin"
           y == [NoRequest EXCEPT !.kind = k]
           x == [y EXCEPT !.pc = p]
<1>0. ReadTypes /\ Served(r) /\ req[r].pc = "idle"
  BY DEF QInv, Receive, ReqAt
<1>1. p \in {"quota", "policy", "pin"} /\ (p = "policy" <=> k = "run")
  BY DEF Kinds
<1>3. req' = [req EXCEPT ![r] = x]
      /\ UNCHANGED <<now, cur, files, forbidden, limit, slots, reserved, lease, child, temp,
                   exports, cache, until, crashes, incidents>>
  BY DEF Receive
<1> HIDE DEF p
<1>2. x \in RequestSet /\ x.pc = p /\ x.kind = k /\ x.result = "none"
  <2>1. y = [pc |-> "idle", kind |-> k, snap |-> 0, deadline |-> 0, result |-> "none"]
    BY DEF NoRequest
  <2>2. y \in RequestSet /\ y.kind = k /\ y.result = "none" /\ p \in Pcs
    BY <1>1, <2>1 DEF RequestSet, Pcs, Results
  <2> HIDE DEF y
  <2>. QED BY <2>2 DEF RequestSet
<1> HIDE DEF x
<1>4. req' \in [Requests -> RequestSet] /\ req'[r] = x /\ \A q \in Requests \ {r} : req'[q] = req[q]
  BY <1>0, <1>2, <1>3 DEF ReadTypes
<1>5. ReadTypes'
  BY <1>0, <1>3, <1>4 DEF ReadTypes
<1>6. Admission'
  BY <1>0, <1>1, <1>2, <1>3, <1>4, SameCounts DEF Slotted, Reserving
<1>7. Served(r)'
  BY <1>0, <1>1, <1>2, <1>3, <1>4 DEF Served, Answering, Leasing, Tidy, Engine, Pinned
<1>8. \A q \in Requests \ {r} : Keeps(q)
  BY <1>3, <1>4 DEF Keeps
<1>. QED BY <1>3, <1>5, <1>6, <1>7, <1>8, Acts

LEMMA StepQuota == ASSUME QInv, NEW r \in Requests, Quota(r) PROVE QInv'
<1>0. ReadTypes /\ Served(r) /\ req[r].pc = "quota"
  BY DEF QInv, Quota, ReqAt
<1>1. /\ exports' = UnlinkExpired /\ (Close(r) \/ MoveTo(r, "pin"))
      /\ UNCHANGED <<now, cur, files, forbidden, limit, slots, reserved, lease, child, temp,
                   cache, until, crashes, incidents>>
  BY DEF Quota
<1>2. "pin" \in Pcs
  BY DEF Pcs
<1>3. /\ req' \in [Requests -> RequestSet] /\ \A q \in Requests \ {r} : req'[q] = req[q]
      /\ req'[r].pc = "done" \/ (req'[r].pc = "pin" /\ req'[r].kind = req[r].kind)
  BY <1>0, <1>1, <1>2, CloseType, MoveType
<1>4. ReadTypes'
  BY <1>0, <1>1, <1>3, UnlinkType DEF ReadTypes
<1>5. Admission'
  BY <1>0, <1>1, <1>3, SameCounts DEF Slotted, Reserving
<1>6. exports'[r] = exports[r] /\ ~exports[r].rec
  BY <1>0, <1>1, UnlinkType DEF Served, Answering
<1>7. Served(r)'
  BY <1>0, <1>1, <1>3, <1>6 DEF Served, Answering, Leasing, Tidy, Engine, Pinned
<1>8. \A q \in Requests \ {r} : Keeps(q)
  BY <1>0, <1>1, <1>3, UnlinkType DEF Keeps
<1>. QED BY <1>1, <1>4, <1>5, <1>7, <1>8, Acts

LEMMA StepPin == ASSUME QInv, NEW r \in Requests, PinVersion(r) PROVE QInv'
<1>0. ReadTypes /\ Served(r) /\ req[r].pc = "pin" /\ now \in Nat /\ LeaseTicks \in Nat
  BY ReadsAssumption DEF QInv, PinVersion, ReqAt, ReadTypes
<1>1. /\ UNCHANGED <<now, cur, files, forbidden, limit, slots, reserved, child, temp,
                   exports, cache, until, crashes, incidents>>
      /\ \E s \in Versions :
           \/ /\ req' = [req EXCEPT ![r].pc = "policy", ![r].snap = s]
              /\ lease' = [lease EXCEPT ![r] = now + LeaseTicks]
           \/ Close(r) /\ UNCHANGED lease
  BY DEF PinVersion
<1>2. CASE Close(r) /\ UNCHANGED lease
  <2>1. /\ req' \in [Requests -> RequestSet] /\ \A q \in Requests \ {r} : req'[q] = req[q]
        /\ req'[r].pc = "done"
    BY <1>0, <1>2, CloseType
  <2>2. ReadTypes'
    BY <1>0, <1>1, <1>2, <2>1 DEF ReadTypes
  <2>3. Admission'
    BY <1>0, <1>1, <2>1, SameCounts DEF Slotted, Reserving
  <2>4. Served(r)'
    BY <1>0, <1>1, <1>2, <2>1 DEF Served, Answering, Leasing, Tidy, Engine, Pinned
  <2>5. \A q \in Requests \ {r} : Keeps(q)
    BY <1>1, <1>2, <2>1 DEF Keeps
  <2>. QED BY <1>1, <2>2, <2>3, <2>4, <2>5, Acts
<1>3. ASSUME NEW s \in Versions, req' = [req EXCEPT ![r].pc = "policy", ![r].snap = s],
             lease' = [lease EXCEPT ![r] = now + LeaseTicks]
      PROVE  QInv'
  <2> DEFINE x == [req[r] EXCEPT !.pc = "policy"]
             y == [x EXCEPT !.snap = s]
  <2>0. req' = [req EXCEPT ![r] = y] /\ req[r] \in RequestSet /\ "policy" \in Pcs
    BY <1>0, <1>3 DEF ReadTypes, Pcs
  <2>1. x \in RequestSet /\ x.pc = "policy" /\ x.kind = req[r].kind
    BY <2>0 DEF RequestSet
  <2> HIDE DEF x
  <2>2. y \in RequestSet /\ y.pc = "policy" /\ y.kind = req[r].kind
    BY <2>1 DEF RequestSet
  <2> HIDE DEF y
  <2>10. /\ req' \in [Requests -> RequestSet] /\ req'[r] = y /\ \A q \in Requests \ {r} : req'[q] = req[q]
    BY <1>0, <2>0, <2>2 DEF ReadTypes
  <2>9. now + LeaseTicks \in Nat
    BY <1>0
  <2>3. /\ req' \in [Requests -> RequestSet] /\ req'[r] = y /\ \A q \in Requests \ {r} : req'[q] = req[q]
        /\ lease' \in [Requests -> Nat] /\ lease'[r] = now + LeaseTicks
        /\ \A q \in Requests \ {r} : lease'[q] = lease[q]
    BY <1>0, <1>3, <2>10, <2>9 DEF ReadTypes
  <2>4. ReadTypes'
    BY <1>0, <1>1, <2>3 DEF ReadTypes
  <2>5. Admission'
    BY <1>0, <1>1, <2>2, <2>3, SameCounts DEF Slotted, Reserving
  <2>6. Served(r)'
    BY <1>0, <1>1, <2>2, <2>3 DEF Served, Answering, Leasing, Tidy, Engine, Pinned
  <2>7. \A q \in Requests \ {r} : Keeps(q)
    BY <1>1, <2>3 DEF Keeps
  <2>. QED BY <1>1, <2>4, <2>5, <2>6, <2>7, Acts
<1>. QED BY <1>1, <1>2, <1>3

\* A request with a lease is let through, or ends.
LEMMA StepPolicy ==
    ASSUME QInv, NEW r \in Requests, PolicyTable(r) \/ PolicyProfile(r) \/ PolicyExport(r)
    PROVE  QInv'
<1>0. ReadTypes /\ Served(r) /\ req[r].pc = "policy" /\ req[r].kind \in {"sql", "profile", "export"}
  BY DEF QInv, PolicyTable, PolicyProfile, PolicyExport, ReqAt
<1>1. /\ UNCHANGED <<now, cur, files, forbidden, limit, slots, reserved, lease, child, temp,
                   cache, until, crashes, incidents>>
      /\ \/ \E t \in {"forbidden", "gone", "ok", "timeout"} : Ends(r, "unpin", t) /\ UNCHANGED exports
         \/ /\ req[r].snap \in files /\ MoveTo(r, "slot")
            /\ \/ UNCHANGED exports
               \/ req[r].kind = "export" /\ exports' = [exports EXCEPT ![r].dir = "made"]
  <2>1. CASE PolicyTable(r)
    BY <2>1 DEF PolicyTable
  <2>2. CASE PolicyProfile(r)
    BY <2>2 DEF PolicyProfile
  <2>3. CASE PolicyExport(r)
    BY <2>3 DEF PolicyExport
  <2>. QED BY <2>1, <2>2, <2>3
<1>2. ASSUME NEW t \in {"forbidden", "gone", "ok", "timeout"}, Ends(r, "unpin", t), UNCHANGED exports
      PROVE  QInv'
  <2>0. "unpin" \in Pcs /\ t \in Results
    BY DEF Pcs, Results, Payloads
  <2>1. /\ req' \in [Requests -> RequestSet] /\ \A q \in Requests \ {r} : req'[q] = req[q]
        /\ req'[r].pc = "unpin" /\ req'[r].kind = req[r].kind
    BY <1>0, <1>2, <2>0, EndsType
  <2>2. ReadTypes'
    BY <1>0, <1>1, <1>2, <2>1 DEF ReadTypes
  <2>3. Admission'
    BY <1>0, <1>1, <2>1, SameCounts DEF Slotted, Reserving
  <2>4. Served(r)'
    BY <1>0, <1>1, <1>2, <2>1 DEF Served, Answering, Leasing, Tidy, Engine, Pinned
  <2>5. \A q \in Requests \ {r} : Keeps(q)
    BY <1>1, <1>2, <2>1 DEF Keeps
  <2>. QED BY <1>1, <2>2, <2>3, <2>4, <2>5, Acts
<1>3. ASSUME req[r].snap \in files, MoveTo(r, "slot"),
             UNCHANGED exports \/ (req[r].kind = "export" /\ exports' = [exports EXCEPT ![r].dir = "made"])
      PROVE  QInv'
  <2>0. "slot" \in Pcs
    BY DEF Pcs
  <2>1. /\ req' \in [Requests -> RequestSet] /\ \A q \in Requests \ {r} : req'[q] = req[q]
        /\ req'[r].pc = "slot" /\ req'[r].kind = req[r].kind /\ req'[r].snap = req[r].snap
    BY <1>0, <1>3, <2>0, MoveType
  <2>2. /\ exports' \in [Requests -> ExportSet] /\ \A q \in Requests \ {r} : exports'[q] = exports[q]
        /\ exports'[r].rec = exports[r].rec /\ exports'[r].result = exports[r].result
        /\ exports'[r].dir # "none" => req[r].kind = "export" \/ exports[r].dir # "none"
    BY <1>0, <1>3 DEF ReadTypes, ExportSet
  <2>3. ReadTypes'
    BY <1>0, <1>1, <2>1, <2>2 DEF ReadTypes
  <2>4. Admission'
    BY <1>0, <1>1, <2>1, SameCounts DEF Slotted, Reserving
  <2>5. Served(r)'
    <3>1. Answering(r)'
      BY <1>0, <1>1, <2>1, <2>2 DEF Served, Answering
    <3>2. Leasing(r)'
      BY <1>0, <1>1, <1>3, <2>1, <2>2 DEF Served, Leasing, Answering
    <3>3. Tidy(r)'
      BY <1>0, <1>1, <2>1, <2>2 DEF Served, Tidy, Engine, Pinned
    <3>. QED BY <3>1, <3>2, <3>3 DEF Served
  <2>6. \A q \in Requests \ {r} : Keeps(q)
    BY <1>1, <2>1, <2>2 DEF Keeps
  <2>. QED BY <1>1, <2>3, <2>4, <2>5, <2>6, Acts
<1>. QED BY <1>1, <1>2, <1>3

LEMMA StepPolicyRun == ASSUME QInv, NEW r \in Requests, PolicyRun(r) PROVE QInv'
<1>0. ReadTypes /\ Served(r) /\ req[r].pc = "policy" /\ req[r].kind = "run"
  BY DEF QInv, PolicyRun, ReqAt
<1>1. /\ UNCHANGED <<now, cur, files, forbidden, limit, slots, reserved, lease, child, exports,
                   cache, until, crashes, incidents>>
      /\ \/ Close(r) /\ UNCHANGED temp
         \/ MoveTo(r, "slot") /\ temp' \in {temp, temp \cup {<<r, "masked">>}}
  BY DEF PolicyRun
<1>2. "slot" \in Pcs
  BY DEF Pcs
<1>3. /\ req' \in [Requests -> RequestSet] /\ \A q \in Requests \ {r} : req'[q] = req[q]
      /\ \/ req'[r].pc = "done" /\ UNCHANGED temp
         \/ /\ req'[r].pc = "slot" /\ req'[r].kind = "run"
            /\ temp' \in {temp, temp \cup {<<r, "masked">>}}
  BY <1>0, <1>1, <1>2, CloseType, MoveType
<1>4. ReadTypes'
  BY <1>0, <1>1, <1>3 DEF ReadTypes
<1>5. Admission'
  BY <1>0, <1>1, <1>3, SameCounts DEF Slotted, Reserving
<1>6. <<r, "spill">> \in temp' <=> <<r, "spill">> \in temp
  BY <1>1
<1>7. Served(r)'
  <2>1. Answering(r)' /\ Leasing(r)'
    BY <1>0, <1>1, <1>3 DEF Served, Answering, Leasing
  <2>2. CASE req'[r].pc = "done" /\ UNCHANGED temp
    BY <1>0, <1>1, <2>1, <2>2 DEF Served, Tidy, Engine, Pinned
  <2>3. CASE req'[r].pc = "slot" /\ req'[r].kind = "run"
    BY <1>0, <1>1, <1>6, <2>1, <2>3 DEF Served, Tidy, Engine, Pinned
  <2>. QED BY <1>3, <2>2, <2>3
<1>8. \A q \in Requests \ {r} : Keeps(q)
  BY <1>1, <1>3 DEF Keeps
<1>. QED BY <1>1, <1>4, <1>5, <1>7, <1>8, Acts

-----------------------------------------------------------------------------
\* Admission hands out and takes back.
LEMMA OneMore ==
    ASSUME QInv, NEW r \in Requests, req[r].pc \notin Slotted, req'[r].pc = "memory",
           \A q \in Requests \ {r} : req'[q] = req[q],
           slots' = slots + 1, slots < limit.slots, UNCHANGED <<reserved, limit>>
    PROVE  Admission'
<1>1. Admitted' = Admitted \cup {r} /\ r \notin Admitted
  BY DEF Admitted, Slotted
<1>2. Busy' = Busy
  BY DEF Busy, Slotted
<1>3. Cardinality(Admitted') = Cardinality(Admitted) + 1
  BY <1>1, Counts, FS_AddElement DEF QInv
<1>4. limit.slots \in Nat /\ slots \in Nat
  BY LimitType DEF QInv, ReadTypes
<1>. QED BY <1>2, <1>3, <1>4 DEF QInv, Admission, Reservation

LEMMA OneLess ==
    ASSUME QInv, NEW r \in Requests, req[r].pc = "memory", req'[r].pc \notin Slotted,
           \A q \in Requests \ {r} : req'[q] = req[q],
           slots' = slots - 1, UNCHANGED <<reserved, limit>>
    PROVE  Admission' /\ slots' \in Nat
<1>1. Admitted' = Admitted \ {r} /\ r \in Admitted
  BY DEF Admitted, Slotted
<1>2. Busy' = Busy
  BY DEF Busy, Slotted
<1>3. Cardinality(Admitted') = Cardinality(Admitted) - 1 /\ Cardinality(Admitted') \in Nat
  BY <1>1, Counts, FS_RemoveElement, FS_CardinalityType DEF QInv
<1>4. limit.slots \in Nat /\ slots \in Nat
  BY LimitType DEF QInv, ReadTypes
<1>. QED BY <1>2, <1>3, <1>4 DEF QInv, Admission, Reservation

LEMMA StepSlot == ASSUME QInv, NEW r \in Requests, Slot(r) PROVE QInv'
<1>0. ReadTypes /\ Served(r) /\ req[r].pc = "slot"
  BY DEF QInv, Slot, ReqAt
<1>1. /\ UNCHANGED <<now, cur, files, forbidden, limit, reserved, lease, child, temp, exports,
                   cache, until, crashes, incidents>>
      /\ \/ slots < limit.slots /\ slots' = slots + 1 /\ MoveTo(r, "memory")
         \/ UNCHANGED slots /\ Ends(r, "finish", "busy")
  BY DEF Slot
<1>2. "memory" \in Pcs /\ "finish" \in Pcs /\ "busy" \in Results
  BY DEF Pcs, Results
<1>3. /\ req' \in [Requests -> RequestSet] /\ \A q \in Requests \ {r} : req'[q] = req[q]
      /\ req'[r].kind = req[r].kind /\ req'[r].snap = req[r].snap
      /\ \/ req'[r].pc = "memory" /\ slots < limit.slots /\ slots' = slots + 1
         \/ req'[r].pc = "finish" /\ req'[r].result = "busy" /\ UNCHANGED slots
  BY <1>0, <1>1, <1>2, EndsType, MoveType
<1>4. ReadTypes'
  BY <1>0, <1>1, <1>3 DEF ReadTypes
<1>5. Admission'
  <2>1. CASE req'[r].pc = "memory" /\ slots < limit.slots /\ slots' = slots + 1
    BY <1>0, <1>1, <1>3, <2>1, OneMore DEF Slotted
  <2>2. CASE req'[r].pc = "finish" /\ UNCHANGED slots
    BY <1>0, <1>1, <1>3, <2>2, SameCounts DEF Slotted, Reserving
  <2>. QED BY <1>3, <2>1, <2>2
<1>6. Served(r)'
  <2>1. Answering(r)'
    BY <1>0, <1>1, <1>3 DEF Served, Answering
  <2>2. Leasing(r)' /\ Tidy(r)'
    BY <1>0, <1>1, <1>3 DEF Served, Leasing, Tidy, Engine, Pinned, Answering
  <2>. QED BY <2>1, <2>2 DEF Served
<1>7. \A q \in Requests \ {r} : Keeps(q)
  BY <1>1, <1>3 DEF Keeps
<1>. QED BY <1>1, <1>4, <1>5, <1>6, <1>7, Acts

LEMMA StepMemory == ASSUME QInv, NEW r \in Requests, Memory(r) PROVE QInv'
<1>0. ReadTypes /\ Served(r) /\ req[r].pc = "memory"
  BY DEF QInv, Memory, ReqAt
<1>1. /\ UNCHANGED <<now, cur, files, forbidden, limit, lease, child, temp, exports,
                   cache, until, crashes, incidents>>
      /\ \/ /\ Fits /\ reserved' = (IF limit.budget = 0 THEN 0 ELSE reserved + Reservation)
            /\ MoveTo(r, "spawn") /\ UNCHANGED slots
         \/ UNCHANGED reserved /\ slots' = slots - 1 /\ Ends(r, "finish", "busy")
  BY DEF Memory
<1>2. "spawn" \in Pcs /\ "finish" \in Pcs /\ "busy" \in Results
  BY DEF Pcs, Results
<1>3. /\ req' \in [Requests -> RequestSet] /\ \A q \in Requests \ {r} : req'[q] = req[q]
      /\ req'[r].kind = req[r].kind /\ req'[r].snap = req[r].snap
      /\ \/ /\ req'[r].pc = "spawn" /\ Fits /\ UNCHANGED slots
            /\ reserved' = (IF limit.budget = 0 THEN 0 ELSE reserved + Reservation)
         \/ req'[r].pc = "finish" /\ req'[r].result = "busy" /\ UNCHANGED reserved /\ slots' = slots - 1
  BY <1>0, <1>1, <1>2, EndsType, MoveType
<1>4. limit.budget \in Nat /\ Reservation \in Nat /\ reserved \in Nat
  BY <1>0, LimitType DEF ReadTypes
<1>5. Admission' /\ slots' \in Nat /\ reserved' \in Nat
  <2>1. CASE req'[r].pc = "spawn"
    <3>1. Admitted' = Admitted
      BY <1>0, <1>3, <2>1 DEF Admitted, Slotted
    <3>2. Busy' = Busy \cup {r} /\ r \notin Busy
      BY <1>0, <1>3, <2>1 DEF Busy
    <3>3. Cardinality(Busy') = Cardinality(Busy) + 1 /\ Cardinality(Busy) \in Nat
      BY <1>0, <3>2, Counts, FS_AddElement
    <3>4. (Cardinality(Busy) + 1) * Reservation = Cardinality(Busy) * Reservation + Reservation
      BY <1>4, <3>3, Product
    <3>5. /\ Fits /\ UNCHANGED slots
          /\ reserved' = IF limit.budget = 0 THEN 0 ELSE reserved + Reservation
      BY <1>3, <2>1
    <3>6. Reservation' = Reservation
      BY <1>1 DEF Reservation
    <3>7. /\ limit'.budget = 0 => reserved' = 0
          /\ limit'.budget # 0 =>
               reserved' = Cardinality(Busy') * Reservation' /\ reserved' <= limit'.budget
      BY <1>1, <3>3, <3>4, <3>5, <3>6 DEF QInv, Admission, Fits
    <3>. QED BY <1>0, <1>1, <1>4, <3>1, <3>5, <3>7 DEF QInv, Admission, ReadTypes
  <2>2. CASE req'[r].pc = "finish"
    BY <1>0, <1>1, <1>3, <1>4, <2>2, OneLess DEF Slotted
  <2>. QED BY <1>3, <2>1, <2>2
<1>6. ReadTypes'
  BY <1>0, <1>1, <1>3, <1>5 DEF ReadTypes
<1>7. Served(r)'
  <2>1. Answering(r)'
    BY <1>0, <1>1, <1>3 DEF Served, Answering
  <2>2. Leasing(r)' /\ Tidy(r)'
    BY <1>0, <1>1, <1>3 DEF Served, Leasing, Tidy, Engine, Pinned, Answering
  <2>. QED BY <2>1, <2>2 DEF Served
<1>8. \A q \in Requests \ {r} : Keeps(q)
  BY <1>1, <1>3 DEF Keeps
<1>. QED BY <1>1, <1>5, <1>6, <1>7, <1>8, Acts

LEMMA StepLeave == ASSUME QInv, NEW r \in Requests, Leave(r) PROVE QInv'
<1>0. ReadTypes /\ Served(r) /\ req[r].pc = "leave"
  BY DEF QInv, Leave, ReqAt
<1>1. /\ UNCHANGED <<now, cur, files, forbidden, limit, lease, child, exports, cache, until,
                   crashes, incidents>>
      /\ temp' = (IF child[r] = "stuck" THEN temp ELSE temp \ {<<r, "spill">>})
      /\ reserved' = (IF limit.budget = 0 \/ reserved < Reservation THEN 0 ELSE reserved - Reservation)
      /\ slots' = slots - 1 /\ MoveTo(r, "finish")
  BY DEF Leave
<1>2. "finish" \in Pcs
  BY DEF Pcs
<1>3. /\ req' \in [Requests -> RequestSet] /\ \A q \in Requests \ {r} : req'[q] = req[q]
      /\ req'[r].kind = req[r].kind /\ req'[r].snap = req[r].snap
      /\ req'[r].pc = "finish" /\ req'[r].result = req[r].result
  BY <1>0, <1>1, <1>2, MoveType
<1>4. limit.budget \in Nat /\ Reservation \in Nat /\ reserved \in Nat /\ limit.slots \in Nat
      /\ slots \in Nat
  BY <1>0, LimitType DEF ReadTypes
<1>5. Admission' /\ slots' \in Nat /\ reserved' \in Nat
  <2>1. Admitted' = Admitted \ {r} /\ r \in Admitted
    BY <1>0, <1>3 DEF Admitted, Slotted
  <2>2. Busy' = Busy \ {r} /\ r \in Busy
    BY <1>0, <1>3 DEF Busy
  <2>3. Cardinality(Admitted') = Cardinality(Admitted) - 1 /\ Cardinality(Admitted') \in Nat
    BY <1>0, <2>1, Counts, FS_RemoveElement, FS_CardinalityType
  <2>4. Cardinality(Busy') = Cardinality(Busy) - 1 /\ Cardinality(Busy') \in Nat
        /\ Cardinality(Busy) \in Nat
    BY <1>0, <2>2, Counts, FS_RemoveElement, FS_CardinalityType
  <2>5. Cardinality(Busy) * Reservation = Cardinality(Busy') * Reservation + Reservation
        /\ Cardinality(Busy') * Reservation \in Nat
    <3>1. Cardinality(Busy) = Cardinality(Busy') + 1
      BY <2>4
    <3>. QED BY <1>4, <2>4, <3>1, Product
  <2>6. Reservation' = Reservation
    BY <1>1 DEF Reservation
  <2>7. limit.budget # 0 =>
            /\ reserved = Cardinality(Busy') * Reservation + Reservation
            /\ reserved <= limit.budget
    BY <2>5 DEF QInv, Admission
  <2> DEFINE m == Cardinality(Busy') * Reservation
  <2> HIDE DEF m
  <2>8. /\ limit.budget = 0 => reserved' = 0
        /\ limit.budget # 0 => reserved' = m /\ reserved' <= limit.budget
        /\ m \in Nat
    BY <1>1, <1>4, <2>5, <2>7 DEF m
  <2>9. slots' = Cardinality(Admitted') /\ slots' <= limit.slots /\ slots' \in Nat
    BY <1>1, <1>4, <2>3 DEF QInv, Admission
  <2>. QED BY <1>1, <2>6, <2>8, <2>9 DEF Admission, m
<1>6. temp' \subseteq temp
  BY <1>1
<1>7. ReadTypes'
  BY <1>0, <1>1, <1>3, <1>5, <1>6 DEF ReadTypes
<1>8. Served(r)'
  <2>1. Answering(r)'
    BY <1>0, <1>1, <1>3 DEF Served, Answering
  <2>2. Leasing(r)'
    BY <1>0, <1>1, <1>3 DEF Served, Leasing, Answering
  <2>3. Tidy(r)'
    BY <1>0, <1>1, <1>3 DEF Served, Tidy, Engine, Pinned
  <2>. QED BY <2>1, <2>2, <2>3 DEF Served
<1>9. \A q \in Requests \ {r} : Keeps(q)
  BY <1>1, <1>3 DEF Keeps
<1>. QED BY <1>1, <1>5, <1>7, <1>8, <1>9, Acts

-----------------------------------------------------------------------------
\* The engine and what follows it.
LEMMA StepSpawn == ASSUME QInv, NEW r \in Requests, Spawn(r) PROVE QInv'
<1>0. ReadTypes /\ Served(r) /\ req[r].pc = "spawn" /\ req[r] \in RequestSet /\ now \in Nat
  BY ReadsAssumption DEF QInv, Spawn, ReqAt, ReadTypes
<1> DEFINE d == now + Timeout(req[r].kind)
<1>1. d \in Nat /\ now <= d /\ d < now + LeaseTicks
  BY <1>0, ReadsAssumption DEF Timeout
<1>2. /\ UNCHANGED <<now, cur, files, forbidden, limit, slots, reserved, lease, exports, cache,
                   until, crashes>>
      /\ temp' = temp \cup {<<r, "spill">>}
      /\ \/ /\ child' = [child EXCEPT ![r] = "running"] /\ UNCHANGED incidents
            /\ req' = [req EXCEPT ![r].pc = "poll", ![r].deadline = d]
         \/ UNCHANGED child /\ Ends(r, "leave", "failed") /\ Incident
  BY DEF Spawn
<1> HIDE DEF d
<1>3. CASE /\ child' = [child EXCEPT ![r] = "running"] /\ UNCHANGED incidents
           /\ req' = [req EXCEPT ![r].pc = "poll", ![r].deadline = d]
  <2> DEFINE x == [req[r] EXCEPT !.pc = "poll"]
             y == [x EXCEPT !.deadline = d]
  <2>1. req' = [req EXCEPT ![r] = y] /\ "poll" \in Pcs
    BY <1>0, <1>3 DEF ReadTypes, Pcs
  <2>2. x \in RequestSet /\ x.pc = "poll" /\ x.kind = req[r].kind /\ x.snap = req[r].snap
    BY <1>0, <2>1 DEF RequestSet
  <2> HIDE DEF x
  <2>3. y \in RequestSet /\ y.pc = "poll" /\ y.kind = req[r].kind /\ y.snap = req[r].snap /\ y.deadline = d
    BY <1>1, <2>2 DEF RequestSet
  <2> HIDE DEF y
  <2>4. req' \in [Requests -> RequestSet] /\ req'[r] = y /\ \A q \in Requests \ {r} : req'[q] = req[q]
    BY <1>0, <2>1, <2>3 DEF ReadTypes
  <2>5. /\ child' \in [Requests -> {"none", "running", "stuck"} \cup Payloads] /\ child'[r] = "running"
        /\ \A q \in Requests \ {r} : child'[q] = child[q]
    BY <1>0, <1>3 DEF ReadTypes
  <2>6. ReadTypes'
    BY <1>0, <1>2, <1>3, <2>4, <2>5 DEF ReadTypes
  <2>7. Admission'
    BY <1>0, <1>2, <2>3, <2>4, SameCounts DEF Slotted, Reserving
  <2>8. Answering(r)'
    BY <1>0, <1>2, <2>3, <2>4, <2>5 DEF Served, Answering, Payloads
  <2>9. Leasing(r)'
    BY <1>0, <1>1, <1>2, <2>3, <2>4, <2>5 DEF Served, Leasing
  <2>10. Tidy(r)'
    BY <1>0, <1>2, <2>3, <2>4, <2>5 DEF Served, Tidy, Engine, Pinned
  <2>11. \A q \in Requests \ {r} : Keeps(q)
    BY <1>2, <2>4, <2>5 DEF Keeps
  <2>. QED BY <1>2, <2>6, <2>7, <2>8, <2>9, <2>10, <2>11, Acts DEF Served
<1>4. CASE UNCHANGED child /\ Ends(r, "leave", "failed") /\ Incident
  <2>1. "leave" \in Pcs /\ "failed" \in Results /\ incidents' \in 0..MaxIncidents /\ incidents <= incidents'
    BY <1>0, <1>4, ReadsAssumption DEF Pcs, Results, Payloads, Incident, ReadTypes
  <2>2. /\ req' \in [Requests -> RequestSet] /\ \A q \in Requests \ {r} : req'[q] = req[q]
        /\ req'[r].pc = "leave" /\ req'[r].kind = req[r].kind /\ req'[r].result = "failed"
    BY <1>0, <1>4, <2>1, EndsType
  <2>3. crashes' \in 0..incidents'
    BY <1>0, <1>2, <2>1, ReadsAssumption DEF ReadTypes
  <2>4. ReadTypes'
    BY <1>0, <1>2, <1>4, <2>1, <2>2, <2>3 DEF ReadTypes
  <2>5. Admission'
    BY <1>0, <1>2, <2>2, SameCounts DEF Slotted, Reserving
  <2>6. Served(r)'
    <3>1. Answering(r)'
      BY <1>0, <1>2, <1>4, <2>2 DEF Served, Answering
    <3>2. Leasing(r)' /\ Tidy(r)'
      BY <1>0, <1>2, <1>4, <2>2 DEF Served, Leasing, Tidy, Engine, Pinned, Answering
    <3>. QED BY <3>1, <3>2 DEF Served
  <2>7. \A q \in Requests \ {r} : Keeps(q)
    BY <1>2, <1>4, <2>2 DEF Keeps
  <2>. QED BY <1>2, <2>4, <2>5, <2>6, <2>7, Acts
<1>. QED BY <1>2, <1>3, <1>4

LEMMA StepAnswers ==
    ASSUME QInv, NEW r \in Requests, NEW p \in Payloads, ChildAnswers(r, p) PROVE QInv'
<1>0. ReadTypes /\ Served(r) /\ child[r] = "running" /\ req[r].pc = "poll" /\ exports[r] \in ExportSet
      /\ ~exports[r].rec
  BY DEF QInv, ChildAnswers, ReadTypes, Served, Answering
<1> DEFINE b == IF p \in {"ok", "pii"} THEN "data" ELSE "made"
<1>1. /\ UNCHANGED <<now, cur, files, forbidden, limit, slots, reserved, req, lease, temp,
                   cache, until, crashes, incidents>>
      /\ child' = [child EXCEPT ![r] = p]
      /\ \/ req[r].kind # "export" /\ UNCHANGED exports
         \/ /\ req[r].kind = "export"
            /\ exports' = [exports EXCEPT ![r].dir = b, ![r].result = p]
  BY DEF ChildAnswers
<1>2. b \in {"data", "made"}
  OBVIOUS
<1> HIDE DEF b
<1> DEFINE x == [exports[r] EXCEPT !.dir = b]
           y == [x EXCEPT !.result = p]
<1>3. x \in ExportSet /\ x.rec = exports[r].rec
  BY <1>0, <1>2 DEF ExportSet
<1> HIDE DEF x
<1>4. y \in ExportSet /\ y.rec = exports[r].rec /\ y.result = p
  BY <1>3 DEF ExportSet
<1>5. req[r].kind = "export" => exports' = [exports EXCEPT ![r] = y]
  BY <1>0, <1>1 DEF ReadTypes, x
<1> HIDE DEF y
<1>6. /\ exports' \in [Requests -> ExportSet] /\ \A q \in Requests \ {r} : exports'[q] = exports[q]
      /\ ~exports'[r].rec
      /\ req[r].kind = "export" => exports'[r].result = p
      /\ req[r].kind # "export" => exports'[r] = exports[r]
  BY <1>0, <1>1, <1>4, <1>5 DEF ReadTypes
<1>7. /\ child' \in [Requests -> {"none", "running", "stuck"} \cup Payloads] /\ child'[r] = p
      /\ \A q \in Requests \ {r} : child'[q] = child[q]
  BY <1>0, <1>1 DEF ReadTypes
<1>8. ReadTypes'
  BY <1>0, <1>1, <1>6, <1>7 DEF ReadTypes
<1>9. Admission'
  BY <1>0, <1>1, SameCounts DEF Slotted, Reserving
<1>10. Answering(r)'
  BY <1>0, <1>1, <1>6, <1>7 DEF Served, Answering, Payloads
<1>11. Leasing(r)'
  BY <1>0, <1>1, <1>7 DEF Leasing, Payloads
<1>12. Tidy(r)'
  BY <1>0, <1>1, <1>6, <1>7 DEF Served, Tidy, Engine, Pinned
<1>13. \A q \in Requests \ {r} : Keeps(q)
  BY <1>1, <1>6, <1>7 DEF Keeps
<1>. QED BY <1>1, <1>8, <1>9, <1>10, <1>11, <1>12, <1>13, Acts DEF Served

LEMMA StepPoll == ASSUME QInv, NEW r \in Requests, Poll(r) PROVE QInv'
<1>0. ReadTypes /\ Served(r) /\ req[r].pc = "poll" /\ now \in Nat
  BY ReadsAssumption DEF QInv, Poll, ReqAt, ReadTypes
<1>1. /\ UNCHANGED <<now, cur, files, forbidden, limit, slots, reserved, lease, temp, exports,
                   cache, crashes>>
      /\ \E t \in Payloads \cup {"timeout"}, c \in {"none", "stuck"} :
           /\ Ends(r, "leave", t) /\ child' = [child EXCEPT ![r] = c]
           /\ t = "ok" => child[r] = "ok"
      /\ until' = until \/ until' = [until EXCEPT ![req[r].snap] = now + RetryTicks]
      /\ UNCHANGED incidents \/ Incident
  BY DEF Poll, Payloads
<1>2. PICK t \in Payloads \cup {"timeout"}, c \in {"none", "stuck"} :
           /\ Ends(r, "leave", t) /\ child' = [child EXCEPT ![r] = c]
           /\ t = "ok" => child[r] = "ok"
  BY <1>1
<1>3. "leave" \in Pcs /\ t \in Results /\ now + RetryTicks \in Nat
  BY <1>0, ReadsAssumption DEF Pcs, Results
<1>4. /\ req' \in [Requests -> RequestSet] /\ \A q \in Requests \ {r} : req'[q] = req[q]
      /\ req'[r].pc = "leave" /\ req'[r].kind = req[r].kind /\ req'[r].result = t
  BY <1>0, <1>2, <1>3, EndsType
<1>5. /\ child' \in [Requests -> {"none", "running", "stuck"} \cup Payloads] /\ child'[r] = c
      /\ \A q \in Requests \ {r} : child'[q] = child[q]
  BY <1>0, <1>2 DEF ReadTypes
<1>6. until' \in [Versions -> Nat]
  BY <1>0, <1>1, <1>3 DEF ReadTypes
<1>7. crashes' \in 0..incidents' /\ incidents' \in 0..MaxIncidents
  BY <1>0, <1>1, ReadsAssumption DEF ReadTypes, Incident
<1>8. ReadTypes'
  BY <1>0, <1>1, <1>4, <1>5, <1>6, <1>7 DEF ReadTypes
<1>9. Admission'
  BY <1>0, <1>1, <1>4, SameCounts DEF Slotted, Reserving
<1>10. c \notin {"running"} \cup Payloads
  BY DEF Payloads
<1>11. Answering(r)'
  BY <1>0, <1>1, <1>2, <1>4, <1>5, <1>10 DEF Served, Answering, Payloads
<1>12. Leasing(r)'
  BY <1>1, <1>4, <1>5, <1>10 DEF Leasing
<1>13. Tidy(r)'
  BY <1>0, <1>1, <1>4, <1>5 DEF Served, Tidy, Engine, Pinned
<1>14. \A q \in Requests \ {r} : Keeps(q)
  BY <1>1, <1>4, <1>5 DEF Keeps
<1>. QED BY <1>1, <1>8, <1>9, <1>11, <1>12, <1>13, <1>14, Acts DEF Served

LEMMA StepFinish == ASSUME QInv, NEW r \in Requests, Finish(r) PROVE QInv'
<1>0. ReadTypes /\ Served(r) /\ req[r].pc = "finish" /\ exports[r] \in ExportSet /\ ~exports[r].rec
  BY DEF QInv, Finish, ReqAt, ReadTypes, Served, Answering
<1> DEFINE saves == req[r].kind = "export" /\ req[r].result = "ok"
           b == [exports[r] EXCEPT !.dir = "bundle"]
<1>1. /\ UNCHANGED <<now, cur, files, forbidden, limit, slots, reserved, lease, child, until,
                   crashes, incidents>>
      /\ exports' = (IF req[r].kind # "export" THEN exports
                     ELSE [exports EXCEPT ![r] = IF saves THEN b ELSE NoExport])
      /\ cache' = cache \/ cache' = [cache EXCEPT ![req[r].snap] = TRUE]
      /\ temp' = temp \ {<<r, "masked">>}
      /\ MoveTo(r, IF saves THEN "save" ELSE "unpin")
  BY <1>0 DEF Finish, ReadTypes
<1>2. b \in ExportSet /\ b.dir = "bundle" /\ b.rec = exports[r].rec /\ b.result = exports[r].result
  BY <1>0 DEF ExportSet
<1> HIDE DEF b
<1>3. "save" \in Pcs /\ "unpin" \in Pcs
  BY DEF Pcs
<1>4. /\ req' \in [Requests -> RequestSet] /\ \A q \in Requests \ {r} : req'[q] = req[q]
      /\ req'[r].pc = (IF saves THEN "save" ELSE "unpin")
      /\ req'[r].kind = req[r].kind
  BY <1>0, <1>1, <1>3, MoveType
<1>5. /\ exports' \in [Requests -> ExportSet] /\ \A q \in Requests \ {r} : exports'[q] = exports[q]
      /\ exports'[r] = IF req[r].kind # "export" THEN exports[r] ELSE IF saves THEN b ELSE NoExport
  BY <1>0, <1>1, <1>2, NoExportType DEF ReadTypes
<1>6. ReadTypes'
  BY <1>0, <1>1, <1>4, <1>5 DEF ReadTypes
<1>7. Admission'
  BY <1>0, <1>1, <1>4, SameCounts DEF Slotted, Reserving
<1>8. ~exports'[r].rec
  BY <1>0, <1>2, <1>5, NoExportType
<1>9. Answering(r)'
  BY <1>0, <1>1, <1>2, <1>4, <1>5, <1>8 DEF Served, Answering
<1>10. Leasing(r)'
  BY <1>0, <1>1, <1>4 DEF Served, Leasing, Answering
<1>11. Tidy(r)'
  BY <1>0, <1>1, <1>4, <1>5, <1>8, NoExportType DEF Served, Tidy, Engine, Pinned
<1>12. \A q \in Requests \ {r} : Keeps(q)
  BY <1>1, <1>4, <1>5 DEF Keeps
<1>. QED BY <1>1, <1>6, <1>7, <1>9, <1>10, <1>11, <1>12, Acts DEF Served

LEMMA StepSave == ASSUME QInv, NEW r \in Requests, Save(r) PROVE QInv'
<1>0. ReadTypes /\ Served(r) /\ req[r].pc = "save" /\ exports[r] \in ExportSet /\ ~exports[r].rec
      /\ now + Retention \in Nat
  BY ReadsAssumption DEF QInv, Save, ReqAt, ReadTypes, Served, Answering
<1> DEFINE x == [exports[r] EXCEPT !.rec = TRUE]
           y == [x EXCEPT !.expires = now + Retention]
<1>1. /\ UNCHANGED <<now, cur, files, forbidden, limit, slots, reserved, lease, child, temp,
                   cache, until, crashes>>
      /\ \/ exports' = [exports EXCEPT ![r] = y] /\ MoveTo(r, "unpin") /\ UNCHANGED incidents
         \/ exports' = [exports EXCEPT ![r] = NoExport] /\ Ends(r, "unpin", "failed") /\ Incident
  BY <1>0 DEF Save, ReadTypes
<1>2. x \in ExportSet /\ x.dir = exports[r].dir /\ x.result = exports[r].result
  BY <1>0 DEF ExportSet
<1> HIDE DEF x
<1>3. y \in ExportSet /\ y.dir = exports[r].dir /\ y.result = exports[r].result
  BY <1>0, <1>2 DEF ExportSet
<1> HIDE DEF y
<1>4. "unpin" \in Pcs /\ "failed" \in Results
  BY DEF Pcs, Results, Payloads
<1>5. /\ req' \in [Requests -> RequestSet] /\ \A q \in Requests \ {r} : req'[q] = req[q]
      /\ req'[r].pc = "unpin" /\ req'[r].kind = req[r].kind
  BY <1>0, <1>1, <1>4, MoveType, EndsType
<1>6. /\ exports' \in [Requests -> ExportSet] /\ \A q \in Requests \ {r} : exports'[q] = exports[q]
      /\ exports'[r] \in {y, NoExport}
  BY <1>0, <1>1, <1>3, NoExportType DEF ReadTypes
<1>7. crashes' \in 0..incidents' /\ incidents' \in 0..MaxIncidents
  BY <1>0, <1>1, ReadsAssumption DEF ReadTypes, Incident
<1>8. ReadTypes'
  BY <1>0, <1>1, <1>5, <1>6, <1>7 DEF ReadTypes
<1>9. Admission'
  BY <1>0, <1>1, <1>5, SameCounts DEF Slotted, Reserving
<1>10. exports[r].dir = "bundle" /\ exports[r].result = "ok" /\ req[r].kind = "export"
  BY <1>0 DEF Served, Answering
<1>11. child[r] \notin {"running"} \cup Payloads
  BY <1>0 DEF Served, Answering
<1>12. Answering(r)'
  BY <1>1, <1>3, <1>5, <1>6, <1>10, <1>11, NoExportType DEF Answering
<1>13. Leasing(r)'
  BY <1>1, <1>5, <1>11 DEF Leasing
<1>14. Tidy(r)'
  <2>1. exports'[r].dir # "none" => exports'[r].rec
    <3>1. CASE exports' = [exports EXCEPT ![r] = y]
      BY <1>0, <3>1 DEF ReadTypes, x, y, ExportSet
    <3>2. CASE exports' = [exports EXCEPT ![r] = NoExport]
      BY <1>0, <3>2, NoExportType DEF ReadTypes
    <3>. QED BY <1>1, <3>1, <3>2
  <2>. QED BY <1>0, <1>1, <1>5, <1>10, <2>1 DEF Served, Tidy, Engine, Pinned
<1>15. \A q \in Requests \ {r} : Keeps(q)
  BY <1>1, <1>5, <1>6 DEF Keeps
<1>. QED BY <1>1, <1>8, <1>9, <1>12, <1>13, <1>14, <1>15, Acts DEF Served

LEMMA StepUnpin == ASSUME QInv, NEW r \in Requests, Unpin(r) PROVE QInv'
<1>0. ReadTypes /\ Served(r) /\ req[r].pc = "unpin"
  BY DEF QInv, Unpin, ReqAt
<1>1. /\ UNCHANGED <<now, cur, files, forbidden, limit, slots, reserved, child, temp, exports,
                   cache, until, crashes, incidents>>
      /\ lease' = [lease EXCEPT ![r] = 0] /\ Close(r)
  BY DEF Unpin
<1>2. /\ req' \in [Requests -> RequestSet] /\ \A q \in Requests \ {r} : req'[q] = req[q]
      /\ req'[r].pc = "done"
  BY <1>0, <1>1, CloseType
<1>3. /\ lease' \in [Requests -> Nat] /\ lease'[r] = 0
      /\ \A q \in Requests \ {r} : lease'[q] = lease[q]
  BY <1>0, <1>1 DEF ReadTypes
<1>4. ReadTypes'
  BY <1>0, <1>1, <1>2, <1>3 DEF ReadTypes
<1>5. Admission'
  BY <1>0, <1>1, <1>2, SameCounts DEF Slotted, Reserving
<1>6. Served(r)'
  <2>1. child[r] \notin {"running"} \cup Payloads
    BY <1>0 DEF Served, Answering
  <2>2. Answering(r)'
    BY <1>0, <1>1, <1>2, <2>1 DEF Served, Answering
  <2>3. Leasing(r)'
    BY <1>1, <1>2, <2>1 DEF Leasing
  <2>4. Tidy(r)'
    BY <1>0, <1>1, <1>2, <1>3 DEF Served, Tidy, Engine
  <2>. QED BY <2>2, <2>3, <2>4 DEF Served
<1>7. \A q \in Requests \ {r} : Keeps(q)
  BY <1>1, <1>2, <1>3 DEF Keeps
<1>. QED BY <1>1, <1>4, <1>5, <1>6, <1>7, Acts

-----------------------------------------------------------------------------
\* What happens beside the requests.
LEMMA StepExports ==
    ASSUME QInv, List \/ (\E e \in Requests : Download(e) \/ DeleteExport(e)) PROVE QInv'
<1>0. ReadTypes
  BY DEF QInv
<1>1. UNCHANGED <<now, cur, files, forbidden, limit, slots, reserved, req, lease, child, temp,
                  cache, until, crashes, incidents>>
  BY DEF List, Download, DeleteExport
<1>2. /\ exports' \in [Requests -> ExportSet]
      /\ \A q \in Requests :
           \/ exports'[q] = exports[q]
           \/ /\ exports[q].rec
              /\ exports'[q] = NoExport \/ exports'[q] = [exports[q] EXCEPT !.dir = "unlinked"]
  <2>1. CASE List
    BY <1>0, <2>1, UnlinkType DEF List
  <2>2. ASSUME NEW e \in Requests, Download(e)
        PROVE  exports[e].rec /\ exports' = [exports EXCEPT ![e] = [exports[e] EXCEPT !.dir = "unlinked"]]
    BY <1>0, <2>2 DEF Download, ReadTypes
  <2>3. ASSUME NEW e \in Requests, DeleteExport(e)
        PROVE  exports[e].rec /\ exports' = [exports EXCEPT ![e] = NoExport]
    BY <2>3 DEF DeleteExport
  <2>4. ASSUME NEW e \in Requests PROVE [exports[e] EXCEPT !.dir = "unlinked"] \in ExportSet
    BY <1>0 DEF ReadTypes, ExportSet
  <2>. QED BY <1>0, <2>1, <2>2, <2>3, <2>4, NoExportType DEF ReadTypes
<1>3. \A q \in Requests : Keeps(q)
  BY <1>1, <1>2 DEF Keeps
<1>4. ReadTypes'
  BY <1>0, <1>1, <1>2 DEF ReadTypes
<1>5. Admission'
  BY <1>1, SameCounts
<1>. QED BY <1>1, <1>3, <1>4, <1>5, Untouched DEF QInv

LEMMA StepOthers == ASSUME QInv, Others PROVE QInv'
<1>0. ReadTypes /\ (\A r \in Requests : Served(r)) /\ now \in Nat
  BY ReadsAssumption DEF QInv, ReadTypes
<1>1. UNCHANGED <<now, limit, slots, reserved, req, lease, child, temp, exports, cache, until, crashes>>
  BY DEF Others
<1>2. ReadTypes'
  <2>1. crashes' \in 0..incidents' /\ incidents' \in 0..MaxIncidents
    BY <1>0, <1>1, ReadsAssumption DEF ReadTypes, Others, Refresh, CollectOld, Forbid, Incident
  <2>2. cur' \in Versions /\ files' \subseteq Versions /\ forbidden' \in BOOLEAN
    BY <1>0 DEF ReadTypes, Others, Refresh, CollectOld, Forbid, Versions
  <2>. QED BY <1>0, <1>1, <2>1, <2>2 DEF ReadTypes
<1>3. Admission'
  BY <1>1, SameCounts
<1>4. ASSUME files \subseteq files' PROVE QInv'
  <2>1. \A q \in Requests : Keeps(q)
    BY <1>1 DEF Keeps
  <2>. QED BY <1>1, <1>2, <1>3, <1>4, <2>1, Untouched DEF QInv
<1>5. CASE CollectOld
  <2>1. PICK s \in files \ {cur} :
           /\ \A r \in Requests : req[r].snap = s => lease[r] <= now
           /\ files' = files \ {s}
    BY <1>5 DEF CollectOld
  <2>2. ASSUME NEW r \in Requests PROVE Served(r)'
    <3>1. Served(r) /\ lease[r] \in Nat /\ req[r].deadline \in Nat
      BY <1>0 DEF ReadTypes, RequestSet
    <3>2. Answering(r)' /\ Tidy(r)'
      BY <1>1, <3>1 DEF Served, Answering, Tidy
    <3>3. lease[r] = now + LeaseTicks \/ (now <= req[r].deadline /\ req[r].deadline < lease[r])
             => req[r].snap # s
      BY <1>0, <2>1, <3>1, ReadsAssumption
    <3>4. Leasing(r)'
      BY <1>1, <2>1, <3>1, <3>3 DEF Served, Leasing
    <3>. QED BY <3>2, <3>4 DEF Served
  <2>. QED BY <1>2, <1>3, <2>2 DEF QInv
<1>6. CASE Refresh \/ Forbid
  BY <1>4, <1>6 DEF Refresh, Forbid
<1>. QED BY <1>5, <1>6 DEF Others

LEMMA StepTick == ASSUME QInv, Tick PROVE QInv'
<1>0. ReadTypes /\ now \in Nat
  BY ReadsAssumption DEF QInv, ReadTypes
<1>1. /\ now' = now + 1 /\ now < MaxTime /\ \A r \in Requests : Waiting(r)
      /\ UNCHANGED <<cur, files, forbidden, limit, slots, reserved, req, lease, child, temp,
                   exports, cache, until, crashes, incidents>>
  BY DEF Tick
<1>2. now' \in 0..MaxTime
  BY <1>0, <1>1, ReadsAssumption
<1>3. ReadTypes'
  BY <1>0, <1>1, <1>2 DEF ReadTypes
<1>4. Admission'
  BY <1>1, SameCounts
<1>5. ASSUME NEW r \in Requests PROVE Served(r)'
  <2>1. Served(r) /\ Waiting(r) /\ req[r].deadline \in Nat
    BY <1>0, <1>1 DEF QInv, ReadTypes, RequestSet
  <2>2. Answering(r)' /\ Tidy(r)'
    BY <1>1, <2>1 DEF Served, Answering, Tidy
  <2>3. req[r].pc \in {"idle", "done"} => Leasing(r)'
    <3>1. req[r].pc \in {"idle", "done"} => child[r] # "running"
      BY <2>1 DEF Served, Answering
    <3>. QED BY <1>1, <3>1 DEF Leasing
  <2>4. ReqAt(r, "poll") /\ child[r] = "running" /\ now < req[r].deadline => Leasing(r)'
    <3>1. now < req[r].deadline => now' <= req[r].deadline
      BY <1>0, <1>1, <2>1
    <3>. QED BY <1>1, <2>1, <3>1 DEF Served, Leasing, ReqAt
  <2>5. Leasing(r)'
    BY <2>1, <2>3, <2>4 DEF Waiting
  <2>. QED BY <2>2, <2>5 DEF Served
<1>. QED BY <1>3, <1>4, <1>5 DEF QInv

LEMMA StepCrash == ASSUME QInv, Crash PROVE QInv'
<1>0. ReadTypes /\ Closed \in RequestSet /\ Closed.pc = "done" /\ Closed.kind = "sql"
  BY DEF QInv, Closed, NoRequest, RequestSet, Pcs, Kinds, Results
<1>1. /\ incidents < MaxIncidents /\ incidents' = incidents + 1 /\ crashes' = crashes + 1
      /\ slots' = 0 /\ reserved' = 0
      /\ req' = [r \in Requests |-> IF req[r].pc \in {"idle", "done"} THEN req[r] ELSE Closed]
      /\ child' = [r \in Requests |-> IF child[r] = "stuck" THEN "stuck" ELSE "none"]
      /\ until' = [s \in Versions |-> 0]
      /\ UNCHANGED <<now, cur, files, forbidden, limit, lease, temp, exports, cache>>
  BY DEF Crash, Incident
<1>2. crashes' \in 0..incidents' /\ incidents' \in 0..MaxIncidents /\ crashes' # 0
  BY <1>0, <1>1, ReadsAssumption DEF ReadTypes
<1>3. req' \in [Requests -> RequestSet]
  BY <1>0, <1>1 DEF ReadTypes
<1>4. child' \in [Requests -> {"none", "running", "stuck"} \cup Payloads]
  BY <1>1
<1>5. ReadTypes'
  BY <1>0, <1>1, <1>2, <1>3, <1>4 DEF ReadTypes
<1>6. \A r \in Requests : req'[r].pc \in {"idle", "done"} /\ child'[r] \in {"stuck", "none"}
  BY <1>0, <1>1
<1>7. Admission'
  <2>1. Admitted' = {} /\ Busy' = {}
    BY <1>6 DEF Admitted, Busy, Slotted
  <2>2. Cardinality({}) = 0
    BY FS_EmptySet
  <2>3. limit.slots \in Nat /\ limit.budget \in Nat /\ Reservation \in Nat /\ Reservation' = Reservation
    BY <1>0, <1>1, LimitType DEF Reservation
  <2>4. 0 * Reservation = 0
    BY <2>3
  <2>. QED BY <1>1, <2>1, <2>2, <2>3, <2>4 DEF Admission
<1>8. ASSUME NEW r \in Requests PROVE Served(r)'
  <2>1. Served(r) /\ exports'[r] = exports[r]
    BY <1>1 DEF QInv
  <2>2. exports[r].rec => req'[r].pc = "done"
    BY <1>0, <1>1, <2>1 DEF Served, Answering
  <2>3. Answering(r)'
    BY <1>6, <2>1, <2>2 DEF Served, Answering, Payloads
  <2>4. Leasing(r)' /\ Tidy(r)'
    BY <1>2, <1>6 DEF Leasing, Tidy
  <2>. QED BY <2>3, <2>4 DEF Served
<1>. QED BY <1>5, <1>7, <1>8 DEF QInv

-----------------------------------------------------------------------------
LEMMA AtFirst == ReadsInit => QInv
<1> SUFFICES ASSUME ReadsInit PROVE QInv
  OBVIOUS
<1>1. /\ NoRequest \in RequestSet /\ NoRequest.pc = "idle" /\ NoExport \in ExportSet
      /\ NoExport.dir = "none" /\ NoExport.rec = FALSE
  BY NoExportType DEF NoRequest, RequestSet, Pcs, Kinds, Results
<1>2. ReadTypes
  <2>1. now \in 0..MaxTime /\ crashes \in 0..incidents /\ incidents \in 0..MaxIncidents
    BY ReadsAssumption DEF ReadsInit
  <2>2. /\ cur \in Versions /\ files \subseteq Versions /\ forbidden \in BOOLEAN /\ limit \in Limits
        /\ slots \in Nat /\ reserved \in Nat
        /\ cache \in [Versions -> BOOLEAN] /\ until \in [Versions -> Nat]
    BY DEF ReadsInit, Versions
  <2>3. /\ req \in [Requests -> RequestSet] /\ lease \in [Requests -> Nat]
        /\ child \in [Requests -> {"none", "running", "stuck"} \cup Payloads]
        /\ exports \in [Requests -> ExportSet]
    BY <1>1 DEF ReadsInit
  <2>4. temp \subseteq Requests \X {"spill", "masked"}
    BY DEF ReadsInit
  <2>. QED BY <2>1, <2>2, <2>3, <2>4 DEF ReadTypes
<1>3. Admission
  <2>1. Admitted = {} /\ Busy = {}
    BY <1>1 DEF ReadsInit, Admitted, Busy, Slotted
  <2>2. Cardinality({}) = 0
    BY FS_EmptySet
  <2>3. limit.slots \in Nat /\ limit.budget \in Nat /\ Reservation \in Nat
    BY <1>2, LimitType
  <2>4. 0 * Reservation = 0
    BY <2>3
  <2>. QED BY <2>1, <2>2, <2>3, <2>4 DEF Admission, ReadsInit
<1>4. \A r \in Requests : Served(r)
  BY <1>1 DEF ReadsInit, Served, Answering, Leasing, Tidy, Payloads
<1>. QED BY <1>2, <1>3, <1>4 DEF QInv

LEMMA Kept == QInv /\ [ReadStep]_readVars => QInv'
<1> SUFFICES ASSUME QInv, [ReadStep]_readVars PROVE QInv'
  OBVIOUS
<1>1. CASE UNCHANGED readVars
  <2>1. /\ ReadTypes' /\ UNCHANGED <<now, crashes, files, slots, reserved, limit, req>>
        /\ \A q \in Requests : Keeps(q)
    BY <1>1 DEF QInv, ReadTypes, readVars, Keeps
  <2>2. Admission'
    BY <2>1, SameCounts
  <2>. QED BY <2>1, <2>2, Untouched DEF QInv
<1>2. ASSUME NEW r \in Requests, Serve(r) PROVE QInv'
  BY <1>2, StepQuota, StepPin, StepPolicy, StepPolicyRun, StepSlot, StepMemory, StepSpawn, StepPoll,
     StepLeave, StepFinish, StepSave, StepUnpin DEF Serve
<1>3. ASSUME NEW r \in Requests, Download(r) \/ DeleteExport(r) PROVE QInv'
  BY <1>3, StepExports
<1>. QED BY <1>1, <1>2, <1>3, StepReceive, StepAnswers, StepExports, StepOthers, StepTick, StepCrash
         DEF ReadStep

-----------------------------------------------------------------------------
\* What the invariant says of the properties.
LEMMA BoundsHold == QInv => AdmissionBounds
<1> SUFFICES ASSUME QInv PROVE AdmissionBounds
  OBVIOUS
<1> DEFINE running == {r \in Requests : child[r] = "running"}
<1>1. ReadTypes /\ Admission /\ \A r \in Requests : Answering(r)
  BY DEF QInv, Served
<1>2. running \subseteq Busy
  BY <1>1 DEF Busy, Answering
<1>3. /\ IsFiniteSet(Busy) /\ Cardinality(Busy) \in Nat
      /\ Cardinality(Admitted) \in Nat /\ Cardinality(Busy) <= Cardinality(Admitted)
  BY <1>1, Counts
<1>4. Cardinality(running) \in Nat /\ Cardinality(running) <= Cardinality(Busy)
  BY <1>2, <1>3, FS_Subset, FS_CardinalityType
<1>5. limit.slots \in Nat /\ limit.budget \in Nat /\ Reservation \in Nat
  BY <1>1, LimitType
<1>6. Cardinality(running) <= limit.slots
  BY <1>1, <1>3, <1>4, <1>5 DEF Admission
<1>7. limit.budget # 0 => Cardinality(running) * Reservation <= limit.budget
  <2>1. Cardinality(running) * Reservation <= Cardinality(Busy) * Reservation
    BY <1>3, <1>4, <1>5, ProductGrows
  <2>2. Cardinality(running) * Reservation \in Nat /\ Cardinality(Busy) * Reservation \in Nat
    BY <1>3, <1>4, <1>5, Product
  <2>. QED BY <1>1, <1>5, <2>1, <2>2 DEF Admission
<1>. QED BY <1>2, <1>6, <1>7 DEF AdmissionBounds

LEMMA NothingIsLeft == QInv => NothingLeft
<1> SUFFICES ASSUME QInv, \A r \in Requests : req[r].pc \in {"idle", "done"}
             PROVE  /\ slots = 0 /\ reserved = 0
                    /\ crashes = 0 =>
                         /\ \A r \in Requests : lease[r] = 0 /\ (exports[r].dir # "none" => exports[r].rec)
                         /\ temp \subseteq {<<r, "spill">> : r \in {q \in Requests : child[q] = "stuck"}}
  BY DEF NothingLeft
<1>1. ReadTypes /\ Admission /\ \A r \in Requests : Tidy(r)
  BY DEF QInv, Served
<1>2. slots = 0 /\ reserved = 0
  <2>1. Admitted = {} /\ Busy = {} /\ Cardinality({}) = 0
    BY FS_EmptySet DEF Admitted, Busy, Slotted
  <2>2. Reservation \in Nat /\ 0 * Reservation = 0
    BY <1>1, LimitType, Product
  <2>. QED BY <1>1, <2>1, <2>2 DEF Admission
<1>3. ASSUME crashes = 0, NEW r \in Requests
      PROVE  /\ lease[r] = 0 /\ (exports[r].dir # "none" => exports[r].rec)
             /\ <<r, "masked">> \notin temp /\ (<<r, "spill">> \in temp => child[r] = "stuck")
  BY <1>1, <1>3 DEF Tidy, Pinned, Engine
<1>4. crashes = 0 => temp \subseteq {<<r, "spill">> : r \in {q \in Requests : child[q] = "stuck"}}
  <2>1. ASSUME crashes = 0, NEW t \in temp
        PROVE  \E q \in Requests : child[q] = "stuck" /\ t = <<q, "spill">>
    <3>1. PICK q \in Requests, k \in {"spill", "masked"} : t = <<q, k>>
      BY <1>1 DEF ReadTypes
    <3>. QED BY <1>3, <2>1, <3>1
  <2>. QED BY <2>1
<1>. QED BY <1>2, <1>3, <1>4

LEMMA ChildReads == QInv => SnapshotUnderChild
  BY DEF QInv, Served, Leasing, SnapshotUnderChild

LEMMA ExportsWhole == QInv => ExportAllOrNothing
  BY DEF QInv, Served, Answering, ExportAllOrNothing

\* Only the owner takes away an export that can be downloaded.
LEMMA ExportsStay ==
    ASSUME QInv, [ReadStep]_readVars, NEW e \in Requests, Servable(e)
    PROVE  exports'[e] = exports[e] \/ exports'[e] = NoExport
<1>1. /\ exports \in [Requests -> ExportSet] /\ ~Expired(e)
      /\ req[e].pc \in {"unpin", "done"} /\ child[e] # "running"
  BY DEF QInv, ReadTypes, Served, Answering, Servable
<1>2. UnlinkExpired[e] = exports[e]
  BY <1>1 DEF UnlinkExpired
<1>3. CASE UNCHANGED readVars
  BY <1>3 DEF readVars
<1>4. ASSUME NEW r \in Requests, Serve(r) PROVE exports'[e] = exports[e]
  <2>1. CASE UNCHANGED exports
    BY <2>1
  <2>2. CASE Quota(r)
    BY <1>2, <2>2 DEF Quota
  <2>3. ASSUME PolicyExport(r) \/ Finish(r) \/ Save(r) PROVE exports'[e] = exports[e]
    <3>1. r # e
      BY <1>1, <2>3 DEF PolicyExport, Finish, Save, ReqAt
    <3>. QED BY <1>1, <2>3, <3>1 DEF PolicyExport, Finish, Save
  <2>4. UNCHANGED exports \/ Quota(r) \/ PolicyExport(r) \/ Finish(r) \/ Save(r)
    BY <1>4 DEF Serve, PinVersion, PolicyTable, PolicyProfile, PolicyRun, Slot, Memory, Spawn, Poll,
                Leave, Unpin
  <2>. QED BY <2>1, <2>2, <2>3, <2>4
<1>5. ASSUME NEW r \in Requests, Download(r) \/ DeleteExport(r)
      PROVE  exports'[e] = exports[e] \/ exports'[e] = NoExport
  BY <1>1, <1>5 DEF Download, DeleteExport
<1>6. ASSUME NEW r \in Requests, NEW p \in Payloads, ChildAnswers(r, p) PROVE exports'[e] = exports[e]
  <2>1. r # e
    BY <1>1, <1>6 DEF ChildAnswers
  <2>. QED BY <1>1, <1>6, <2>1 DEF ChildAnswers
<1>7. ASSUME NEW r \in Requests, NEW k \in Kinds, Receive(r, k) PROVE exports'[e] = exports[e]
  BY <1>7 DEF Receive
<1>8. CASE List
  BY <1>2, <1>8 DEF List
<1>9. CASE Others \/ Tick \/ Crash
  BY <1>9 DEF Others, Tick, Crash
<1>. QED BY <1>3, <1>4, <1>5, <1>6, <1>7, <1>8, <1>9 DEF ReadStep

(***************************************************************************)
(* Reads are contained, for every number of requests, every deployment     *)
(* and all timeouts shorter than the lease: children stay within the slots *)
(* and the memory budget and read files that are there, nothing of a       *)
(* request outlives it, and a recorded export is whole and stays until it  *)
(* expires, the terms change or its owner deletes it (query/service.py,    *)
(* query/engine.py, service/exports_api.py).                               *)
(***************************************************************************)
THEOREM ReadsHeld == ReadSpec => ReadsContained
<1>1. QInv => /\ ReadTypes /\ AdmissionBounds /\ NothingLeft /\ SnapshotUnderChild
              /\ ExportAllOrNothing
  BY BoundsHold, NothingIsLeft, ChildReads, ExportsWhole DEF QInv
<1>2. QInv /\ [ReadStep]_readVars => [KeepsServable]_readVars
  BY ExportsStay DEF KeepsServable
<1>3. ReadSpec => []QInv
  BY AtFirst, Kept, PTL DEF ReadSpec
<1>4. ReadSpec => ExportKept
  BY <1>2, <1>3, PTL DEF ReadSpec, ExportKept
<1>. QED BY <1>1, <1>3, <1>4, PTL DEF ReadsContained
=============================================================================
