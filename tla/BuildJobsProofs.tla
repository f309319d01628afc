--------------------------- MODULE BuildJobsProofs ---------------------------
(***************************************************************************)
(* Theorems about BuildJobs, for every number of runs, requests, workers   *)
(* and cancel threads, every limit and every combination of faults.        *)
(*                                                                         *)
(* LatchAgreement is not inductive: the provers must also know that a run  *)
(* id's registry entry belongs to the request that created it (JobOwner),  *)
(* that a request that has not created its job yet has no latch            *)
(* (FreshLatch), and that threads in the middle of an operation hold a run *)
(* (Busy).  IInv is the conjunction.                                       *)
(*                                                                         *)
(* What needs more of the environment is proved where it is given:         *)
(* submissions that do not fail half way (Calm, RunsExclusive), on top of  *)
(* that a registry that keeps every job of a process that lives (Retained) *)
(* and, with eviction and crashes, an index check that still holds when it *)
(* is used (CheckHolds, StatusSurvives).                                   *)
(***************************************************************************)
EXTENDS BuildJobs, SequenceTheorems, FiniteSetTheorems, TLAPS

\* A registry entry names the request that created it, which targets that run.
JobOwner ==
    \A r \in Runs :
        /\ jobs[r].status = "absent" <=> jobs[r].req = None
        /\ jobs[r].req # None => target[jobs[r].req] = r

\* A request that has not reached try_create owns no job and no request latch.
FreshLatch ==
    \A q \in Requests : pc[q] \in {"idle", "create"} =>
        /\ q \notin requested
        /\ \A r \in Runs : jobs[r].req # q

\* A thread in the middle of its operation knows its run id; a worker past the
\* sources has a run status.
Busy ==
    /\ \A c \in Cancellers : can[c].pc # "idle" => can[c].run \in Runs
    /\ \A w \in Workers :
          /\ work[w].pc # "idle" => work[w].req \in Requests
          /\ work[w].pc \in {"commit", "record", "materialize", "respond"} =>
                 work[w].res \in RunStatuses

IInv == TypeOK /\ JobOwner /\ FreshLatch /\ Busy /\ LatchAgreement

-----------------------------------------------------------------------------
\* What _retire_locked leaves of the completion order is a sequence of runs
\* within the limit.
LEMMA KeptOrderType ==
    ASSUME NEW o \in Seq(Runs)
    PROVE  /\ KeptOrder(o) \in Seq(Runs)
           /\ Len(KeptOrder(o)) <= MaxTerminal
<1>1. Len(o) \in Nat /\ Overflow(o) \in 0..Len(o) /\ Len(o) - Overflow(o) <= MaxTerminal
  BY LenProperties, BoundsAssumption DEF Overflow
<1>2. \A i \in (Overflow(o) + 1)..Len(o) : o[i] \in Runs
  BY <1>1, ElementOfSeq
<1>3. /\ SubSeq(o, Overflow(o) + 1, Len(o)) \in Seq(Runs)
      /\ Len(SubSeq(o, Overflow(o) + 1, Len(o))) =
            IF Overflow(o) + 1 <= Len(o) THEN Len(o) - (Overflow(o) + 1) + 1 ELSE 0
  BY <1>1, <1>2, SubSeqProperties
<1> QED BY <1>1, <1>3, BoundsAssumption DEF KeptOrder

\* Evicting terminal jobs keeps each entry or clears it.
LEMMA EvictedEntries ==
    ASSUME NEW o, NEW js
    PROVE  /\ DOMAIN Evicted(o, js) = Runs
           /\ \A r \in Runs : Evicted(o, js)[r] = js[r]
                              \/ (js[r].status \in Terminal /\ Evicted(o, js)[r] = NoJob)
BY DEF Evicted

\* Terminating a job of a well-formed registry: the run's entry becomes
\* terminal or is evicted, every other entry is kept or, if terminal, evicted.
LEMMA TerminateEntries ==
    ASSUME TypeOK, NEW r \in Runs, NEW st \in Terminal, Terminate(r, st),
           jobs[r].status # "absent"
    PROVE  /\ jobs' \in [Runs -> [req : Requests \cup {None},
                                  status : Live \cup Terminal \cup {"absent"}]]
           /\ order' \in Seq(Runs)
           /\ Len(order') <= MaxTerminal
           /\ reported' \in [Runs -> Terminal \cup {"none"}]
           /\ \A s \in Runs :
                 \/ jobs'[s].req = None /\ jobs'[s].status = "absent"
                 \/ /\ jobs'[s].req = jobs[s].req
                    /\ jobs'[s].status = IF s = r THEN st ELSE jobs[s].status
<1> DEFINE o == RetiredOrder(r)
           js == [jobs EXCEPT ![r].status = st]
<1>1. jobs' = Evicted(o, js) /\ order' = KeptOrder(o)
      /\ reported' = [reported EXCEPT ![r] = st]
  BY DEF Terminate
<1>2. o \in Seq(Runs)
  BY DEF TypeOK, RetiredOrder
<1>3. js \in [Runs -> [req : Requests \cup {None}, status : Live \cup Terminal \cup {"absent"}]]
      /\ js[r] = [req |-> jobs[r].req, status |-> st]
      /\ \A s \in Runs : s # r => js[s] = jobs[s]
  BY DEF TypeOK
<1>4. NoJob \in [req : Requests \cup {None}, status : Live \cup Terminal \cup {"absent"}]
  BY DEF NoJob
<1> HIDE DEF o, js
<1>5. \A s \in Runs : Evicted(o, js)[s] = js[s]
                      \/ (js[s].status \in Terminal /\ Evicted(o, js)[s] = NoJob)
  BY EvictedEntries
<1>6. jobs' \in [Runs -> [req : Requests \cup {None}, status : Live \cup Terminal \cup {"absent"}]]
  <2>1. jobs' = [s \in Runs |-> jobs'[s]]
    BY <1>1 DEF Evicted
  <2>2. \A s \in Runs : jobs'[s] \in [req : Requests \cup {None},
                                      status : Live \cup Terminal \cup {"absent"}]
    BY <1>1, <1>3, <1>4, <1>5
  <2> QED BY <2>1, <2>2
<1>7. order' \in Seq(Runs) /\ Len(order') <= MaxTerminal
  BY <1>1, <1>2, KeptOrderType
<1>8. reported' \in [Runs -> Terminal \cup {"none"}]
  BY <1>1 DEF TypeOK
<1>9. \A s \in Runs :
         \/ jobs'[s].req = None /\ jobs'[s].status = "absent"
         \/ /\ jobs'[s].req = jobs[s].req
            /\ jobs'[s].status = IF s = r THEN st ELSE jobs[s].status
  BY <1>1, <1>3, <1>5 DEF NoJob
<1> QED BY <1>6, <1>7, <1>8, <1>9
\* Appending to the event log keeps it a log of known events.
LEMMA AppendType ==
    ASSUME events \in [Runs -> Seq(EventNames)], NEW r \in Runs, NEW e \in EventNames,
           AppendAbsorbed(r, e)
    PROVE  events' \in [Runs -> Seq(EventNames)]
<1>1. Append(events[r], e) \in Seq(EventNames)
  OBVIOUS
<1> QED BY <1>1 DEF AppendAbsorbed

-----------------------------------------------------------------------------
\* The initial registry is empty and nobody has asked for anything.
LEMMA InitIInv == Init => IInv
<1> SUFFICES ASSUME Init PROVE IInv
  OBVIOUS
<1>1. TypeOK
  BY NoneAssumption DEF Init, TypeOK, NoJob, IdleCanceller, IdleWorker, RequestPcs, CancellerPcs,
     WorkerPcs
<1>2. JobOwner /\ FreshLatch /\ LatchAgreement
  BY NoneAssumption DEF Init, JobOwner, FreshLatch, LatchAgreement, NoJob
<1>3. Busy
  BY DEF Init, Busy, IdleCanceller, IdleWorker
<1> QED BY <1>1, <1>2, <1>3 DEF IInv

\* Each step of a POST /builds thread preserves the invariant.
LEMMA SubmitIInv ==
    ASSUME IInv, NEW q \in Requests, Submit(q)
    PROVE  IInv'
<1> USE NoneAssumption DEF IInv
<1>t. target[q] \in Runs /\ events \in [Runs -> Seq(EventNames)]
  BY DEF TypeOK
<1>j. jobs \in [Runs -> [req : Requests \cup {None}, status : Live \cup Terminal \cup {"absent"}]]
      /\ pc \in [Requests -> RequestPcs]
  BY DEF TypeOK
<1>e. "run_submitted" \in EventNames /\ "run_failed" \in EventNames
  BY DEF EventNames, TerminalEvents
<1>1. CASE CheckIndex(q)
  <2>1. TypeOK'
    BY <1>1 DEF CheckIndex, TypeOK, RequestPcs, regVars, keyVars, diskVars, lifeVars
  <2>2. JobOwner' /\ FreshLatch' /\ Busy' /\ LatchAgreement'
    BY <1>1 DEF CheckIndex, TypeOK, RequestPcs, regVars, keyVars, diskVars, lifeVars,
       JobOwner, FreshLatch, Busy, LatchAgreement
  <2> QED BY <2>1, <2>2
<1>2. CASE TryCreate(q)
  <2>1. CASE UNCHANGED <<jobs, reported>> /\ pc' = [pc EXCEPT ![q] = "done"]
    <3>1. TypeOK'
      BY <1>2, <2>1 DEF TryCreate, TypeOK, RequestPcs, keyVars, diskVars, lifeVars
    <3>2. JobOwner' /\ FreshLatch' /\ Busy' /\ LatchAgreement'
      BY <1>2, <2>1 DEF TryCreate, TypeOK, RequestPcs, keyVars, diskVars, lifeVars,
         JobOwner, FreshLatch, Busy, LatchAgreement
    <3> QED BY <3>1, <3>2
  <2>2. CASE /\ jobs' = [jobs EXCEPT ![target[q]] = [req |-> q, status |-> "queued"]]
             /\ pc' = [pc EXCEPT ![q] = "accept"]
             /\ reported' = [reported EXCEPT ![target[q]] = "none"]
    <3>1. TypeOK'
      BY <1>t, <1>2, <2>2 DEF TryCreate, TypeOK, RequestPcs, Live, keyVars, diskVars, lifeVars
    <3>2. JobOwner'
      BY <1>t, <1>2, <2>2 DEF TryCreate, TypeOK, JobOwner
    <3>3. FreshLatch'
      BY <1>t, <1>2, <2>2 DEF TryCreate, TypeOK, FreshLatch
    <3>4. Busy'
      BY <1>2 DEF TryCreate, Busy
    <3>5. LatchAgreement'
      BY <1>t, <1>2, <2>2 DEF TryCreate, TypeOK, FreshLatch, LatchAgreement
    <3> QED BY <3>1, <3>2, <3>3, <3>4, <3>5
  <2> QED BY <1>2, <2>1, <2>2 DEF TryCreate
<1>3. CASE Accept(q)
  <2>1. CASE /\ events' = [events EXCEPT ![target[q]] = Append(@, "run_submitted")]
             /\ pc' = [pc EXCEPT ![q] = "bind"]
             /\ UNCHANGED jobs
    <3>1. events' \in [Runs -> Seq(EventNames)]
      BY <1>t, <1>e, <2>1, AppendType DEF AppendAbsorbed
    <3>2. TypeOK'
      BY <1>3, <2>1, <3>1 DEF Accept, TypeOK, RequestPcs, keyVars, lifeVars
    <3>3. JobOwner' /\ FreshLatch' /\ Busy' /\ LatchAgreement'
      BY <1>j, <1>3, <2>1 DEF Accept, JobOwner, FreshLatch, Busy, LatchAgreement
    <3> QED BY <3>2, <3>3
  <2>2. CASE /\ jobs' = [jobs EXCEPT ![target[q]] = NoJob]
             /\ pc' = [pc EXCEPT ![q] = "done"]
             /\ UNCHANGED events
    <3>1. jobs' \in [Runs -> [req : Requests \cup {None},
                              status : Live \cup Terminal \cup {"absent"}]]
          /\ \A r \in Runs : jobs'[r] = IF r = target[q] THEN NoJob ELSE jobs[r]
      BY <1>t, <1>j, <2>2 DEF NoJob
    <3>2. TypeOK'
      BY <1>3, <2>2, <3>1 DEF Accept, TypeOK, RequestPcs, keyVars, lifeVars
    <3>3. JobOwner' /\ FreshLatch' /\ Busy' /\ LatchAgreement'
      BY <1>j, <1>3, <2>2, <3>1 DEF Accept, NoJob, JobOwner, FreshLatch, Busy, LatchAgreement
    <3> QED BY <3>2, <3>3
  <2> QED BY <1>3, <2>1, <2>2 DEF Accept
<1>4. CASE BindKeys(q)
  <2>1. TypeOK'
    BY <1>t, <1>4 DEF BindKeys, TypeOK, RequestPcs, regVars, diskVars, lifeVars
  <2>2. JobOwner' /\ FreshLatch' /\ Busy' /\ LatchAgreement'
    BY <1>4 DEF BindKeys, TypeOK, regVars, JobOwner, FreshLatch, Busy, LatchAgreement
  <2> QED BY <2>1, <2>2
<1>5. CASE Enqueue(q)
  <2>1. TypeOK'
    <3>1. pool' \in Seq(Requests)
      <4>1. pool \in Seq(Requests)
        BY DEF TypeOK
      <4> QED BY <1>5, <4>1 DEF Enqueue
    <3> QED BY <1>5, <3>1 DEF Enqueue, TypeOK, RequestPcs, regVars, keyVars, diskVars, lifeVars
  <2>2. JobOwner' /\ FreshLatch' /\ Busy' /\ LatchAgreement'
    BY <1>5 DEF Enqueue, TypeOK, regVars, JobOwner, FreshLatch, Busy, LatchAgreement
  <2> QED BY <2>1, <2>2
<1>6. CASE MarkFailed(q)
  <2>1. CASE jobs[target[q]].status \in Live
    <3>1. Terminate(target[q], "failed")
      BY <1>6, <2>1 DEF MarkFailed
    <3>2. /\ jobs' \in [Runs -> [req : Requests \cup {None},
                                 status : Live \cup Terminal \cup {"absent"}]]
          /\ order' \in Seq(Runs)
          /\ reported' \in [Runs -> Terminal \cup {"none"}]
          /\ \A s \in Runs :
                \/ jobs'[s].req = None /\ jobs'[s].status = "absent"
                \/ /\ jobs'[s].req = jobs[s].req
                   /\ jobs'[s].status = IF s = target[q] THEN "failed" ELSE jobs[s].status
      BY <1>t, <2>1, <3>1, TerminateEntries DEF Terminal, Live
    <3>3. TypeOK'
      BY <1>6, <3>2 DEF MarkFailed, TypeOK, RequestPcs, keyVars, diskVars, lifeVars
    <3>u. UNCHANGED <<requested, committed, target, can, work>>
          /\ \A p \in Requests : pc'[p] \in {"idle", "create"} => pc[p] \in {"idle", "create"}
      BY <1>j, <1>6 DEF MarkFailed
    <3>4. JobOwner'
      BY <2>1, <3>2, <3>u DEF JobOwner, Live
    <3>5. FreshLatch'
      BY <3>2, <3>u DEF FreshLatch
    <3>6. Busy'
      BY <3>u DEF Busy
    <3>7. LatchAgreement'
      BY <3>2, <3>u DEF LatchAgreement
    <3> QED BY <3>3, <3>4, <3>5, <3>6, <3>7
  <2>2. CASE jobs[target[q]].status \notin Live
    <3>1. TypeOK'
      BY <1>6, <2>2 DEF MarkFailed, TypeOK, RequestPcs, keyVars, diskVars, lifeVars
    <3>2. JobOwner' /\ FreshLatch' /\ Busy' /\ LatchAgreement'
      BY <1>6, <2>2 DEF MarkFailed, TypeOK, JobOwner, FreshLatch, Busy, LatchAgreement
    <3> QED BY <3>1, <3>2
  <2> QED BY <2>1, <2>2
<1>7. CASE RecordEnqueueFailure(q)
  <2>1. TypeOK'
    <3>1. events' \in [Runs -> Seq(EventNames)]
      BY <1>t, <1>e, <1>7, AppendType DEF RecordEnqueueFailure
    <3>2. keys' \in [Runs -> Requests \cup {None}]
      BY <1>t, <1>7 DEF RecordEnqueueFailure, DiscardKeys, TypeOK
    <3> QED BY <1>7, <3>1, <3>2 DEF RecordEnqueueFailure, TypeOK, RequestPcs, regVars, lifeVars
  <2>2. JobOwner' /\ FreshLatch' /\ Busy' /\ LatchAgreement'
    BY <1>7 DEF RecordEnqueueFailure, TypeOK, regVars, JobOwner, FreshLatch, Busy, LatchAgreement
  <2> QED BY <2>1, <2>2
<1> QED BY <1>1, <1>2, <1>3, <1>4, <1>5, <1>6, <1>7 DEF Submit
\* A step that leaves the registry, the latches and the submissions alone
\* preserves the parts of the invariant about them.
LEMMA QuietStep ==
    ASSUME IInv, UNCHANGED <<jobs, requested, committed, pc, target>>
    PROVE  JobOwner' /\ FreshLatch' /\ LatchAgreement'
BY DEF IInv, JobOwner, FreshLatch, LatchAgreement

\* Each step of a cancel thread preserves the invariant.
LEMMA CancelIInv ==
    ASSUME IInv, NEW c \in Cancellers,
           (\E r \in Runs : CancelGuard(c, r)) \/ CancelStep(c)
    PROVE  IInv'
<1> USE NoneAssumption DEF IInv
<1>j. /\ jobs \in [Runs -> [req : Requests \cup {None},
                            status : Live \cup Terminal \cup {"absent"}]]
      /\ can \in [Cancellers -> [pc : CancellerPcs, run : Runs \cup {None}]]
      /\ events \in [Runs -> Seq(EventNames)]
      /\ "run_cancelled" \in EventNames
  BY DEF TypeOK, EventNames, TerminalEvents
<1>1. ASSUME NEW r \in Runs, CancelGuard(c, r) PROVE IInv'
  <2>1. can' \in [Cancellers -> [pc : CancellerPcs, run : Runs \cup {None}]] /\ Busy'
    BY <1>j, <1>1 DEF CancelGuard, CancellerPcs, Busy
  <2>2. TypeOK'
    BY <1>1, <2>1 DEF CancelGuard, TypeOK, regVars, reqVars, keyVars, diskVars, lifeVars
  <2>3. JobOwner' /\ FreshLatch' /\ LatchAgreement'
    BY <1>1, QuietStep DEF CancelGuard, regVars, reqVars
  <2> QED BY <2>1, <2>2, <2>3
<1>2. CASE RequestCancel(c)
  <2> DEFINE r == can[c].run
  <2>1. r \in Runs
    BY <1>2 DEF RequestCancel, Busy
  <2>2. /\ can' \in [Cancellers -> [pc : CancellerPcs, run : Runs \cup {None}]]
        /\ Busy'
    <3>1. PICK p \in {"record", "discard"} : can' = [can EXCEPT ![c].pc = p]
      BY <1>2 DEF RequestCancel
    <3>2. UNCHANGED work
      BY <1>2 DEF RequestCancel
    <3> QED BY <1>j, <2>1, <3>1, <3>2 DEF CancellerPcs, Busy
  <2>3. /\ requested' = IF Grantable(r) THEN requested \cup {jobs[r].req} ELSE requested
        /\ UNCHANGED <<committed, pc, target, pool, work, keys, got, events, manifest, index,
                       up, crashes>>
    BY <1>2 DEF RequestCancel, reqVars, keyVars, diskVars, lifeVars
  <2>4. /\ jobs' \in [Runs -> [req : Requests \cup {None},
                               status : Live \cup Terminal \cup {"absent"}]]
        /\ order' \in Seq(Runs)
        /\ reported' \in [Runs -> Terminal \cup {"none"}]
        /\ \A s \in Runs :
              \/ jobs'[s].req = None /\ jobs'[s].status = "absent"
              \/ /\ jobs'[s].req = jobs[s].req
                 /\ jobs'[s].status = IF s = r /\ Grantable(r)
                                      THEN IF jobs[r].status = "queued" THEN "cancelled"
                                           ELSE "cancelling"
                                      ELSE jobs[s].status
    <3>1. CASE Grantable(r) /\ jobs[r].status = "queued"
      <4>1. Terminate(r, "cancelled") /\ jobs[r].status # "absent" /\ "cancelled" \in Terminal
        BY <1>2, <3>1 DEF RequestCancel, Terminal
      <4>2. TypeOK
        OBVIOUS
      <4> HIDE DEF r
      <4> QED BY <2>1, <3>1, <4>1, <4>2, TerminateEntries
    <3>2. CASE ~(Grantable(r) /\ jobs[r].status = "queued")
      <4>1. /\ jobs' = IF Grantable(r) THEN [jobs EXCEPT ![r].status = "cancelling"] ELSE jobs
            /\ UNCHANGED <<order, reported>>
        BY <1>2, <3>2 DEF RequestCancel
      <4>2. order \in Seq(Runs) /\ reported \in [Runs -> Terminal \cup {"none"}]
        BY DEF TypeOK
      <4> HIDE DEF r
      <4> QED BY <1>j, <2>1, <3>2, <4>1, <4>2 DEF Live
    <3> QED BY <3>1, <3>2
  <2> HIDE DEF r
  <2>5. Grantable(r) => jobs[r].req \in Requests /\ jobs[r].req \notin committed
                        /\ jobs[r].status \in Live
    BY <1>j, <2>1 DEF Grantable, JobOwner, Live
  <2>6. TypeOK'
    BY <2>2, <2>3, <2>4, <2>5 DEF TypeOK
  <2>7. JobOwner'
    BY <2>3, <2>4, <2>5 DEF JobOwner, Live
  <2>8. FreshLatch'
    BY <2>1, <2>3, <2>4 DEF FreshLatch
  <2>9. LatchAgreement'
    <3> SUFFICES ASSUME NEW s \in Runs
                 PROVE  /\ jobs'[s].status \in {"queued", "running", "succeeded"} =>
                              jobs'[s].req \notin requested'
                        /\ jobs'[s].status = "succeeded" => jobs'[s].req \in committed'
                        /\ jobs'[s].status = "cancelling" =>
                              jobs'[s].req \in requested' /\ jobs'[s].req \notin committed'
                        /\ jobs'[s].status = "cancelled" => jobs'[s].req \in requested'
      BY DEF LatchAgreement
    <3>1. CASE s = r
      BY <2>1, <2>3, <2>4, <2>5, <3>1 DEF LatchAgreement, Live
    <3>2. CASE s # r
      <4>1. jobs[s].status # "absent" /\ Grantable(r) => jobs[s].req # jobs[r].req
        BY <2>1, <2>5, <3>2 DEF JobOwner
      <4> QED BY <2>3, <2>4, <3>2, <4>1 DEF LatchAgreement
    <3> QED BY <3>1, <3>2
  <2> QED BY <2>2, <2>6, <2>7, <2>8, <2>9
<1>3. CASE RecordCancelled(c)
  <2>1. can[c].run \in Runs
    BY <1>3 DEF RecordCancelled, Busy
  <2>2. events' \in [Runs -> Seq(EventNames)]
    BY <1>j, <1>3, <2>1, AppendType DEF RecordCancelled
  <2>3. can' \in [Cancellers -> [pc : CancellerPcs, run : Runs \cup {None}]] /\ Busy'
    BY <1>j, <1>3 DEF RecordCancelled, CancellerPcs, Busy
  <2>4. TypeOK'
    BY <1>3, <2>2, <2>3 DEF RecordCancelled, TypeOK, regVars, reqVars, keyVars, lifeVars
  <2>5. JobOwner' /\ FreshLatch' /\ LatchAgreement'
    BY <1>3, QuietStep DEF RecordCancelled, regVars, reqVars
  <2> QED BY <2>3, <2>4, <2>5
<1>4. CASE CancelDiscardKeys(c)
  <2>1. can' \in [Cancellers -> [pc : CancellerPcs, run : Runs \cup {None}]] /\ Busy'
    BY <1>j, <1>4 DEF CancelDiscardKeys, IdleCanceller, CancellerPcs, Busy
  <2>2. keys' \in [Runs -> Requests \cup {None}]
    <3>1. keys \in [Runs -> Requests \cup {None}]
      BY DEF TypeOK
    <3> QED BY <1>4, <3>1 DEF CancelDiscardKeys, DiscardKeys
  <2>3. TypeOK'
    BY <1>4, <2>1, <2>2 DEF CancelDiscardKeys, TypeOK, regVars, reqVars, diskVars, lifeVars
  <2>4. JobOwner' /\ FreshLatch' /\ LatchAgreement'
    BY <1>4, QuietStep DEF CancelDiscardKeys, regVars, reqVars
  <2> QED BY <2>1, <2>3, <2>4
<1> QED BY <1>1, <1>2, <1>3, <1>4 DEF CancelStep
WorkType == [Workers -> [pc : WorkerPcs, req : Requests \cup {None}, tok : Requests \cup {None},
                         res : RunStatuses \cup {"none"}, fail : BOOLEAN]]
ResultPcs == {"commit", "record", "materialize", "respond"}

\* A worker step that leaves the registry, the latches and the submissions
\* alone preserves the invariant when it keeps its own and the disk's types.
LEMMA QuietWork ==
    ASSUME IInv,
           UNCHANGED <<jobs, requested, committed, order, pc, target, can, up, crashes, reported>>,
           pool' \in Seq(Requests),
           work' \in WorkType,
           keys' \in [Runs -> Requests \cup {None}],
           got' \subseteq Requests,
           events' \in [Runs -> Seq(EventNames)],
           manifest' \in [Runs -> RunStatuses \cup {"none"}],
           index' \in [Runs -> RunStatuses \cup {"none"}],
           Busy'
    PROVE  IInv'
<1>1. TypeOK'
  BY DEF IInv, TypeOK, WorkType
<1>2. JobOwner' /\ FreshLatch' /\ LatchAgreement'
  BY QuietStep
<1> QED BY <1>1, <1>2 DEF IInv

\* The ways a busy worker's own record changes in one step.
LEMMA WorkMoves ==
    ASSUME work \in WorkType, Busy, UNCHANGED can, NEW w \in Workers, work[w].req \in Requests,
           NEW p \in WorkerPcs, NEW t \in Requests \cup {None}, NEW st \in RunStatuses,
           NEW f \in BOOLEAN,
           \/ /\ \/ work' = [work EXCEPT ![w].pc = p]
                 \/ work' = [work EXCEPT ![w].pc = p, ![w].fail = f]
                 \/ work' = [work EXCEPT ![w].pc = p, ![w].tok = t]
              /\ p \in ResultPcs => work[w].res \in RunStatuses
           \/ work' = [work EXCEPT ![w].pc = p, ![w].res = st]
           \/ work' = [work EXCEPT ![w] = IdleWorker]
    PROVE  work' \in WorkType /\ Busy'
<1>1. IdleWorker \in [pc : WorkerPcs, req : Requests \cup {None}, tok : Requests \cup {None},
                      res : RunStatuses \cup {"none"}, fail : BOOLEAN]
  BY DEF IdleWorker, WorkerPcs
<1>2. work' \in WorkType
  BY <1>1 DEF WorkType
<1>3. /\ \A v \in Workers : v # w => work'[v] = work[v]
      /\ \/ work'[w].req \in Requests /\ (work'[w].pc \in ResultPcs => work'[w].res \in RunStatuses)
         \/ work'[w].pc = "idle"
  BY DEF WorkType, IdleWorker
<1>4. Busy'
  BY <1>3 DEF Busy, ResultPcs
<1> QED BY <1>2, <1>4

\* Each step of a pool thread preserves the invariant.
LEMMA WorkIInv ==
    ASSUME IInv, NEW w \in Workers, Work(w)
    PROVE  IInv'
<1> USE NoneAssumption
<1>j. /\ jobs \in [Runs -> [req : Requests \cup {None},
                            status : Live \cup Terminal \cup {"absent"}]]
      /\ pool \in Seq(Requests)
      /\ work \in WorkType
      /\ keys \in [Runs -> Requests \cup {None}]
      /\ got \subseteq Requests
      /\ target \in [Requests -> Runs]
      /\ committed \subseteq Requests \cup {None}
      /\ requested \subseteq Requests
      /\ TypeOK /\ JobOwner /\ FreshLatch /\ Busy /\ LatchAgreement
  BY DEF IInv, TypeOK, WorkType
<1>d. /\ events \in [Runs -> Seq(EventNames)]
      /\ manifest \in [Runs -> RunStatuses \cup {"none"}]
      /\ index \in [Runs -> RunStatuses \cup {"none"}]
  BY DEF IInv, TypeOK
<1>e. EventNames = {"run_submitted", "run_started", "run_finished", "run_failed", "run_cancelled"}
  BY DEF EventNames, TerminalEvents
<1>p. {"idle", "begun", "prepare", "sources", "commit", "record", "materialize", "respond", "drop",
       "finish", "hook"} = WorkerPcs /\ ResultPcs = {"commit", "record", "materialize", "respond"}
      /\ TRUE \in BOOLEAN /\ FALSE \in BOOLEAN /\ None \in Requests \cup {None}
      /\ RunStatuses = {"ok", "failed", "cancelled"}
  BY DEF WorkerPcs, ResultPcs, RunStatuses
<1>r. work[w].pc # "idle" => work[w].req \in Requests /\ RunOf(w) \in Runs
  BY <1>j DEF RunOf, Busy
<1>1. CASE BeginRun(w)
  <2>1. CASE UNCHANGED <<jobs, work>>
    <3>1. pool' \in Seq(Requests)
      BY <1>j, <1>1, HeadTailProperties DEF BeginRun
    <3>2. Busy'
      BY <1>j, <1>1, <2>1 DEF BeginRun, Busy
    <3> QED BY <1>1, <1>j, <1>d, <2>1, <3>1, <3>2, QuietWork
            DEF BeginRun, reqVars, keyVars, diskVars, lifeVars
  <2>2. CASE ~UNCHANGED <<jobs, work>>
    <3> DEFINE q == Head(pool)
    <3>1. /\ q \in Requests /\ target[q] \in Runs
          /\ jobs[target[q]].status = "queued"
          /\ jobs' = [jobs EXCEPT ![target[q]].status = "running"]
          /\ work' = [work EXCEPT ![w] = [IdleWorker EXCEPT !.pc = "begun", !.req = q]]
          /\ pool' \in Seq(Requests)
          /\ UNCHANGED <<requested, committed, order, pc, target, can, keys, got, events,
                         manifest, index, up, crashes, reported>>
      BY <1>j, <1>1, <2>2, HeadTailProperties
         DEF BeginRun, reqVars, keyVars, diskVars, lifeVars
    <3> HIDE DEF q
    <3>2. work' \in WorkType /\ Busy'
      BY <1>j, <1>p, <3>1 DEF IdleWorker, WorkType, Busy
    <3>3. jobs' \in [Runs -> [req : Requests \cup {None},
                              status : Live \cup Terminal \cup {"absent"}]]
          /\ \A s \in Runs : /\ jobs'[s].req = jobs[s].req
                             /\ jobs'[s].status = IF s = target[q] THEN "running"
                                                  ELSE jobs[s].status
      BY <1>j, <3>1 DEF Live
    <3>4. TypeOK'
      BY <1>j, <3>1, <3>2, <3>3 DEF TypeOK, WorkType
    <3>5. JobOwner' /\ FreshLatch' /\ LatchAgreement'
      BY <1>j, <3>1, <3>3 DEF JobOwner, FreshLatch, LatchAgreement
    <3> QED BY <3>2, <3>4, <3>5 DEF IInv
  <2> QED BY <2>1, <2>2
<1>2. CASE TakeKeys(w)
  <2>1. /\ keys' \in [Runs -> Requests \cup {None}]
        /\ got' \subseteq Requests
        /\ jobs[RunOf(w)].req \in Requests \cup {None}
    BY <1>j, <1>r, <1>2 DEF TakeKeys, DiscardKeys
  <2>2. work' \in WorkType /\ Busy'
    <3>1. /\ work' = [work EXCEPT ![w].pc = "prepare", ![w].tok = jobs[RunOf(w)].req]
          /\ UNCHANGED can
          /\ work[w].pc = "begun"
      BY <1>2 DEF TakeKeys
    <3>2. "prepare" \in WorkerPcs /\ "prepare" \notin ResultPcs
      BY DEF WorkerPcs, ResultPcs
    <3>3. "ok" \in RunStatuses /\ work[w].req \in Requests
      BY <1>r, <3>1 DEF RunStatuses
    <3> QED BY <1>j, <2>1, <3>1, <3>2, <3>3, WorkMoves
  <2> QED BY <1>2, <1>j, <1>d, <2>1, <2>2, QuietWork
          DEF TakeKeys, regVars, reqVars, diskVars, lifeVars
<1>3. CASE StartPipeline(w)
  <2>1. events' \in [Runs -> Seq(EventNames)]
    BY <1>d, <1>e, <1>r, <1>3, AppendType DEF StartPipeline
  <2>2. work' \in WorkType /\ Busy'
    BY <1>j, <1>p, <1>r, <1>3, WorkMoves DEF StartPipeline
  <2> QED BY <1>3, <1>j, <1>d, <2>1, <2>2, QuietWork
          DEF StartPipeline, regVars, reqVars, keyVars, lifeVars
<1>4. CASE RunSources(w)
  <2>1. work' \in WorkType /\ Busy'
    <3>1. CASE \E st \in RunStatuses :
                   work' = [work EXCEPT ![w].pc = "commit", ![w].res = st]
      BY <1>j, <1>p, <1>r, <1>4, <3>1, WorkMoves DEF RunSources
    <3>2. CASE work' = [work EXCEPT ![w].pc = "drop", ![w].fail = TRUE]
      BY <1>j, <1>p, <1>r, <1>4, <3>2, WorkMoves DEF RunSources
    <3> QED BY <1>4, <3>1, <3>2 DEF RunSources, RunStatuses
  <2> QED BY <1>4, <1>j, <1>d, <2>1, QuietWork
          DEF RunSources, regVars, reqVars, keyVars, diskVars, lifeVars
<1>5. CASE Commit(w)
  <2>1. PICK st \in RunStatuses : work' = [work EXCEPT ![w].pc = "record", ![w].res = st]
    BY <1>j, <1>5 DEF Commit, RunStatuses, Busy
  <2>2. UNCHANGED <<jobs, requested, order, pool, pc, target, can, keys, got, events, manifest,
                    index, up, crashes, reported>>
    BY <1>5 DEF Commit, reqVars, keyVars, diskVars, lifeVars
  <2>3. work' \in WorkType /\ Busy'
    BY <1>j, <1>p, <1>r, <1>5, <2>1, <2>2, WorkMoves DEF Commit
  <2>4. \/ committed' = committed
        \/ committed' = committed \cup {work[w].tok} /\ work[w].tok \notin requested
    BY <1>5 DEF Commit
  <2>5. work[w].tok \in Requests \cup {None}
    BY <1>j DEF WorkType
  <2>6. TypeOK'
    BY <1>j, <2>2, <2>3, <2>4, <2>5 DEF TypeOK, WorkType
  <2>7. JobOwner' /\ FreshLatch' /\ LatchAgreement'
    BY <1>j, <2>2, <2>4 DEF JobOwner, FreshLatch, LatchAgreement
  <2> QED BY <2>3, <2>6, <2>7 DEF IInv
<1>6. CASE RecordOutcome(w)
  <2>1. events' \in [Runs -> Seq(EventNames)]
    BY <1>d, <1>e, <1>r, <1>6, AppendType DEF RecordOutcome
  <2>2. work' \in WorkType /\ Busy'
    <3>1. work[w].res \in RunStatuses
      BY <1>j, <1>6 DEF RecordOutcome, Busy
    <3> QED BY <1>j, <1>p, <1>r, <1>6, <3>1, WorkMoves DEF RecordOutcome
  <2> QED BY <1>6, <1>j, <1>d, <2>1, <2>2, QuietWork
          DEF RecordOutcome, regVars, reqVars, keyVars, lifeVars
<1>7. CASE WriteManifest(w)
  <2>1. manifest' \in [Runs -> RunStatuses \cup {"none"}]
    BY <1>j, <1>d, <1>r, <1>7 DEF WriteManifest, Busy
  <2>2. PICK p \in {"respond", "drop"}, f \in BOOLEAN :
            work' = [work EXCEPT ![w].pc = p, ![w].fail = f]
    BY <1>7 DEF WriteManifest
  <2>3. work[w].res \in RunStatuses /\ UNCHANGED can
    BY <1>j, <1>7 DEF WriteManifest, Busy
  <2>4. work' \in WorkType /\ Busy'
    BY <1>j, <1>p, <1>r, <1>7, <2>2, <2>3, WorkMoves DEF WriteManifest
  <2> QED BY <1>7, <1>j, <1>d, <2>1, <2>4, QuietWork
          DEF WriteManifest, regVars, reqVars, keyVars, lifeVars
<1>8. CASE Respond(w)
  <2>1. index' \in [Runs -> RunStatuses \cup {"none"}]
    BY <1>j, <1>d, <1>r, <1>8 DEF Respond, Busy
  <2>2. work' \in WorkType /\ Busy'
    BY <1>j, <1>p, <1>r, <1>8, WorkMoves DEF Respond
  <2> QED BY <1>8, <1>j, <1>d, <2>1, <2>2, QuietWork
          DEF Respond, regVars, reqVars, keyVars, lifeVars
<1>9. CASE DropKeys(w)
  <2>1. keys' \in [Runs -> Requests \cup {None}]
    BY <1>j, <1>9 DEF DropKeys, DiscardKeys
  <2>2. work' \in WorkType /\ Busy'
    BY <1>j, <1>p, <1>r, <1>9, WorkMoves DEF DropKeys
  <2> QED BY <1>9, <1>j, <1>d, <2>1, <2>2, QuietWork
          DEF DropKeys, regVars, reqVars, diskVars, lifeVars
<1>10. CASE Finish(w)
  <2> DEFINE r == RunOf(w)
  <2>1. r \in Runs
    BY <1>r, <1>10 DEF Finish
  <2>2. work' \in WorkType /\ Busy'
    BY <1>j, <1>p, <1>r, <1>10, WorkMoves DEF Finish
  <2>3. UNCHANGED <<requested, pool, pc, target, can, keys, got, events, manifest, index, up,
                    crashes>>
    BY <1>10 DEF Finish, reqVars, keyVars, diskVars, lifeVars
  <2>4. CASE jobs[r].status \in Live
    <3> DEFINE st == FinishStatus(r, work[w].fail)
    <3>1. Terminate(r, st) /\ committed' = committed \cup {jobs[r].req}
      BY <1>10, <2>4 DEF Finish
    <3>2. st \in Terminal /\ (st = "cancelled" <=> jobs[r].req \in requested)
      BY DEF FinishStatus, Terminal
    <3>3. jobs[r].req \in Requests
      BY <1>j, <2>1, <2>4 DEF JobOwner, Live
    <3> HIDE DEF st, r
    <3>4. /\ jobs' \in [Runs -> [req : Requests \cup {None},
                                 status : Live \cup Terminal \cup {"absent"}]]
          /\ order' \in Seq(Runs)
          /\ reported' \in [Runs -> Terminal \cup {"none"}]
          /\ \A s \in Runs :
                \/ jobs'[s].req = None /\ jobs'[s].status = "absent"
                \/ /\ jobs'[s].req = jobs[s].req
                   /\ jobs'[s].status = IF s = r THEN st ELSE jobs[s].status
      BY <1>j, <2>1, <2>4, <3>1, <3>2, TerminateEntries DEF Live
    <3>5. TypeOK'
      BY <1>j, <2>2, <2>3, <3>1, <3>3, <3>4 DEF TypeOK, WorkType
    <3>6. JobOwner' /\ FreshLatch'
      BY <1>j, <2>3, <3>2, <3>3, <3>4 DEF JobOwner, FreshLatch, Terminal
    <3>7. LatchAgreement'
      <4> SUFFICES ASSUME NEW s \in Runs
                   PROVE  /\ jobs'[s].status \in {"queued", "running", "succeeded"} =>
                                jobs'[s].req \notin requested'
                          /\ jobs'[s].status = "succeeded" => jobs'[s].req \in committed'
                          /\ jobs'[s].status = "cancelling" =>
                                jobs'[s].req \in requested' /\ jobs'[s].req \notin committed'
                          /\ jobs'[s].status = "cancelled" => jobs'[s].req \in requested'
        BY DEF LatchAgreement
      <4>1. CASE s = r
        BY <2>3, <3>1, <3>2, <3>4, <4>1 DEF Terminal
      <4>2. CASE s # r
        <5>1. jobs[s].req # jobs[r].req \/ jobs[s].status = "absent"
          BY <1>j, <2>1, <3>3, <4>2 DEF JobOwner
        <5> QED BY <1>j, <2>3, <3>1, <3>4, <4>2, <5>1 DEF LatchAgreement
      <4> QED BY <4>1, <4>2
    <3> QED BY <2>2, <3>5, <3>6, <3>7 DEF IInv
  <2>5. CASE jobs[r].status \notin Live
    <3>1. UNCHANGED <<jobs, order, reported, committed>>
      BY <1>10, <2>5 DEF Finish
    <3> QED BY <1>j, <1>d, <2>2, <2>3, <3>1, QuietWork
  <2> QED BY <2>4, <2>5
<1>11. CASE CancelledHook(w)
  <2>1. events' \in [Runs -> Seq(EventNames)]
    BY <1>d, <1>e, <1>r, <1>11, AppendType DEF CancelledHook
  <2>2. work' \in WorkType /\ Busy'
    BY <1>j, <1>p, <1>r, <1>11, WorkMoves DEF CancelledHook
  <2> QED BY <1>11, <1>j, <1>d, <2>1, <2>2, QuietWork
          DEF CancelledHook, regVars, reqVars, keyVars, lifeVars
<1> QED BY <1>1, <1>2, <1>3, <1>4, <1>5, <1>6, <1>7, <1>8, <1>9, <1>10, <1>11 DEF Work

\* A crash empties memory; recovery only appends to the log and opens the port.
LEMMA LifeIInv ==
    ASSUME IInv, Crash \/ Recover
    PROVE  IInv'
<1> USE NoneAssumption DEF IInv
<1>1. CASE Crash
  <2>1. TypeOK'
    <3>1. jobs' \in [Runs -> [req : Requests \cup {None},
                              status : Live \cup Terminal \cup {"absent"}]]
      BY <1>1 DEF Crash, NoJob
    <3>2. work' \in WorkType
      BY <1>1 DEF Crash, WorkType, IdleWorker, WorkerPcs
    <3>3. can' \in [Cancellers -> [pc : CancellerPcs, run : Runs \cup {None}]]
      BY <1>1 DEF Crash, IdleCanceller, CancellerPcs
    <3>4. pc' \in [Requests -> RequestPcs]
      BY <1>1 DEF Crash, RequestPcs
    <3>5. order' \in Seq(Runs) /\ pool' \in Seq(Requests) /\ crashes' \in Nat
      BY <1>1, EmptySeq DEF Crash, TypeOK
    <3> QED BY <1>1, <3>1, <3>2, <3>3, <3>4, <3>5 DEF Crash, TypeOK, WorkType, diskVars
  <2>2. JobOwner' /\ FreshLatch' /\ LatchAgreement' /\ Busy'
    BY <1>1 DEF Crash, NoJob, IdleCanceller, IdleWorker, JobOwner, FreshLatch, LatchAgreement, Busy
  <2> QED BY <2>1, <2>2
<1>2. CASE Boot
  <2>1. TypeOK'
    BY <1>2 DEF Boot, TypeOK, regVars, reqVars, keyVars, diskVars
  <2>2. JobOwner' /\ FreshLatch' /\ LatchAgreement' /\ Busy'
    BY <1>2, QuietStep DEF Boot, regVars, reqVars, Busy
  <2> QED BY <2>1, <2>2
<1>3. ASSUME NEW r \in Runs, MarkInterrupted(r) PROVE IInv'
  <2>1. events \in [Runs -> Seq(EventNames)] /\ "run_failed" \in EventNames
    BY DEF TypeOK, EventNames, TerminalEvents
  <2>2. events' \in [Runs -> Seq(EventNames)]
    BY <1>3, <2>1, AppendType DEF MarkInterrupted, AppendAbsorbed
  <2>3. TypeOK'
    BY <1>3, <2>2 DEF MarkInterrupted, TypeOK, regVars, reqVars, keyVars, lifeVars
  <2>4. JobOwner' /\ FreshLatch' /\ LatchAgreement' /\ Busy'
    BY <1>3, QuietStep DEF MarkInterrupted, regVars, reqVars, Busy
  <2> QED BY <2>3, <2>4
<1> QED BY <1>1, <1>2, <1>3 DEF Recover

\* A stuttering step changes nothing the invariant reads.
LEMMA StutterIInv ==
    ASSUME IInv, UNCHANGED vars
    PROVE  IInv'
<1>1. TypeOK'
  BY DEF IInv, vars, TypeOK, regVars, reqVars, keyVars, diskVars, lifeVars
<1>2. JobOwner' /\ FreshLatch' /\ LatchAgreement' /\ Busy'
  BY QuietStep DEF IInv, vars, Busy, regVars, reqVars
<1> QED BY <1>1, <1>2 DEF IInv

\* The steps that terminate a job, or change nothing of it, respect the order
\* of statuses; the remaining steps move a single live job forward.
LEMMA NoReversalAll ==
    ASSUME IInv, [Next]_vars
    PROVE  NoReversalStep
<1> USE NoneAssumption
<1>j. /\ jobs \in [Runs -> [req : Requests \cup {None},
                            status : Live \cup Terminal \cup {"absent"}]]
      /\ target \in [Requests -> Runs]
      /\ pool \in Seq(Requests)
      /\ TypeOK /\ JobOwner /\ FreshLatch /\ LatchAgreement /\ Busy
  BY DEF IInv, TypeOK
<1>1. CASE UNCHANGED jobs
  BY <1>1 DEF NoReversalStep
<1>2. ASSUME NEW r \in Runs, NEW st \in Terminal, Terminate(r, st), jobs[r].status \in Live,
             jobs[r].status = "cancelling" => st # "succeeded",
             jobs[r].status = "running" => st # "cancelled"
      PROVE  NoReversalStep
  <2>1. \A s \in Runs :
           \/ jobs'[s].req = None /\ jobs'[s].status = "absent"
           \/ /\ jobs'[s].req = jobs[s].req
              /\ jobs'[s].status = IF s = r THEN st ELSE jobs[s].status
    BY <1>j, <1>2, TerminateEntries DEF Live
  <2> QED BY <1>2, <2>1 DEF NoReversalStep, Live, Terminal
<1>3. ASSUME NEW q \in Requests, Submit(q) PROVE NoReversalStep
  <2>1. CASE TryCreate(q)
    <3>1. \A r \in Runs : jobs'[r] = jobs[r] \/ jobs'[r].req = q
      BY <1>j, <2>1 DEF TryCreate
    <3>2. \A r \in Runs : jobs[r].req # q
      BY <1>j, <2>1 DEF TryCreate, FreshLatch
    <3> QED BY <3>1, <3>2 DEF NoReversalStep
  <2>2. CASE Accept(q)
    <3>1. \A r \in Runs : jobs'[r] = jobs[r] \/ jobs'[r].req = None
      BY <1>j, <2>2 DEF Accept, NoJob
    <3> QED BY <3>1 DEF NoReversalStep
  <2>3. CASE MarkFailed(q)
    <3>1. target[q] \in Runs /\ "failed" \in Terminal
      BY <1>j DEF Terminal
    <3> QED BY <1>1, <1>2, <2>3, <3>1 DEF MarkFailed
  <2>4. CASE CheckIndex(q) \/ BindKeys(q) \/ Enqueue(q) \/ RecordEnqueueFailure(q)
    BY <1>1, <2>4 DEF CheckIndex, BindKeys, Enqueue, RecordEnqueueFailure, regVars
  <2> QED BY <1>3, <2>1, <2>2, <2>3, <2>4 DEF Submit
<1>4. ASSUME NEW c \in Cancellers, CancelStep(c) PROVE NoReversalStep
  <2>1. CASE RequestCancel(c)
    <3> DEFINE r == can[c].run
    <3>1. r \in Runs /\ "cancelled" \in Terminal
      BY <1>j, <2>1 DEF RequestCancel, Busy, Terminal
    <3>2. CASE Grantable(r) /\ jobs[r].status = "queued"
      BY <1>2, <2>1, <3>1, <3>2 DEF RequestCancel, Grantable
    <3>3. CASE ~(Grantable(r) /\ jobs[r].status = "queued")
      <4>1. /\ jobs' = IF Grantable(r) THEN [jobs EXCEPT ![r].status = "cancelling"] ELSE jobs
            /\ Grantable(r) => jobs[r].status \in {"running", "cancelling"}
        BY <2>1, <3>3 DEF RequestCancel, Grantable, Live
      <4> HIDE DEF r
      <4> QED BY <1>j, <3>1, <4>1 DEF NoReversalStep, Terminal
    <3> QED BY <3>2, <3>3
  <2>2. CASE RecordCancelled(c) \/ CancelDiscardKeys(c)
    BY <1>1, <2>2 DEF RecordCancelled, CancelDiscardKeys, regVars
  <2> QED BY <1>4, <2>1, <2>2 DEF CancelStep
<1>5. ASSUME NEW w \in Workers, Work(w) PROVE NoReversalStep
  <2>1. CASE BeginRun(w)
    <3>1. CASE pool # <<>> /\ jobs[target[Head(pool)]].status = "queued"
      <4>1. target[Head(pool)] \in Runs
        BY <1>j, <3>1, HeadTailProperties
      <4>2. jobs' = [jobs EXCEPT ![target[Head(pool)]].status = "running"]
        BY <2>1, <3>1 DEF BeginRun
      <4> QED BY <1>j, <3>1, <4>1, <4>2 DEF NoReversalStep, Terminal
    <3> QED BY <1>1, <2>1, <3>1 DEF BeginRun
  <2>2. CASE Finish(w)
    <3> DEFINE r == RunOf(w)
    <3>1. r \in Runs
      BY <1>j, <2>2 DEF Finish, RunOf, Busy
    <3>2. CASE jobs[r].status \in Live
      <4>1. Terminate(r, FinishStatus(r, work[w].fail))
        BY <2>2, <3>2 DEF Finish
      <4>2. /\ FinishStatus(r, work[w].fail) \in Terminal
            /\ FinishStatus(r, work[w].fail) = "cancelled" <=> jobs[r].req \in requested
        BY DEF FinishStatus, Terminal
      <4>3. /\ jobs[r].status = "cancelling" => jobs[r].req \in requested
            /\ jobs[r].status = "running" => jobs[r].req \notin requested
        BY <1>j, <3>1 DEF LatchAgreement
      <4> HIDE DEF r
      <4> QED BY <1>2, <3>1, <3>2, <4>1, <4>2, <4>3
    <3>3. CASE jobs[r].status \notin Live
      BY <1>1, <2>2, <3>3 DEF Finish
    <3> QED BY <3>2, <3>3
  <2>3. CASE \/ TakeKeys(w) \/ StartPipeline(w) \/ RunSources(w) \/ Commit(w) \/ RecordOutcome(w)
             \/ WriteManifest(w) \/ Respond(w) \/ DropKeys(w) \/ CancelledHook(w)
    BY <1>1, <2>3 DEF TakeKeys, StartPipeline, RunSources, Commit, RecordOutcome, WriteManifest,
       Respond, DropKeys, CancelledHook, regVars
  <2> QED BY <1>5, <2>1, <2>2, <2>3 DEF Work
<1>6. CASE Crash
  BY <1>6 DEF Crash, NoReversalStep, NoJob
<1>7. CASE Recover \/ (\E c \in Cancellers, r \in Runs : CancelGuard(c, r)) \/ UNCHANGED vars
  BY <1>1, <1>7 DEF Recover, Boot, MarkInterrupted, CancelGuard, vars, regVars
<1> QED BY <1>3, <1>4, <1>5, <1>6, <1>7 DEF Next

\* The inductive invariant holds in every reachable state.
THEOREM Invariance == Spec => []IInv
<1>1. IInv /\ [Next]_vars => IInv'
  BY SubmitIInv, CancelIInv, WorkIInv, LifeIInv, StutterIInv DEF Next
<1> QED BY <1>1, InitIInv, PTL DEF Spec

\* Every variable keeps its type under every interleaving, fault and crash.
THEOREM TypeCorrect == Spec => []TypeOK
<1>1. IInv => TypeOK
  BY DEF IInv
<1> QED BY <1>1, Invariance, PTL

\* For any number of clients, workers and cancel calls, a job's status and its
\* cancellation latches agree: request_cancel, commit and finish never grant
\* both a cancellation and a normal end.
THEOREM LatchesAgree == Spec => []LatchAgreement
<1>1. IInv => LatchAgreement
  BY DEF IInv
<1> QED BY <1>1, Invariance, PTL
\* For any number of clients, workers and cancel calls, no step reverses a
\* status: terminal is final, cancelling never runs on or succeeds, running is
\* never cancelled without passing through cancelling.
THEOREM StatusesNeverReverse == Spec => NoReversal
<1>1. IInv /\ [Next]_vars => [NoReversalStep]_vars
  BY NoReversalAll
<1> QED BY <1>1, Invariance, PTL DEF Spec, NoReversal
-----------------------------------------------------------------------------
(***************************************************************************)
(* Two narrower regimes.                                                   *)
(*                                                                         *)
(* Calm: the event log and the pool accept every submission, so that no    *)
(* job is discarded or failed behind a worker's back.  Crashes, eviction   *)
(* and every fault of a build remain, and one worker at most runs a job.   *)
(*                                                                         *)
(* Retained: moreover the process does not crash and the registry keeps    *)
(* every finished job.  Then a run id belongs to one request for good, and *)
(* what the registry, the manifest and the event log say agree.  RInv is   *)
(* the invariant: each part says what one variable may hold while some     *)
(* thread still acts for a job.                                            *)
(***************************************************************************)

\* No call of POST /builds fails once the job exists.
Calm == "submit" \notin Faults /\ "enqueue" \notin Faults

\* The process does not crash and the registry is large enough for every job.
Retained ==
    /\ Calm
    /\ MaxCrashes = 0
    /\ IsFiniteSet(Requests) /\ Cardinality(Requests) <= MaxTerminal

JobType == [Runs -> [req : Requests \cup {None}, status : Live \cup Terminal \cup {"absent"}]]

\* No thread is on the path of a failed hand-over.
HandedOver == \A q \in Requests : pc[q] \notin {"enqfail", "enqhook"}

AInv == IInv /\ HandedOver /\ OneWorkerPerRun

-----------------------------------------------------------------------------
\* Terminating a job changes it alone; what eviction drops was terminal.
LEMMA TerminateKeepsLive ==
    ASSUME TypeOK, NEW r \in Runs, NEW st \in Terminal, Terminate(r, st)
    PROVE  \A s \in Runs : s # r /\ jobs[s].status \in Live => jobs'[s] = jobs[s]
<1> DEFINE o == RetiredOrder(r)
           js == [jobs EXCEPT ![r].status = st]
<1>1. jobs' = Evicted(o, js)
  BY DEF Terminate
<1>2. \A s \in Runs : s # r => js[s] = jobs[s]
  BY DEF TypeOK
<1> HIDE DEF o, js
<1>3. \A s \in Runs : Evicted(o, js)[s] = js[s] \/ js[s].status \in Terminal
  BY EvictedEntries
<1> QED BY <1>1, <1>2, <1>3 DEF Live, Terminal

\* Without a failed submission no thread takes the failure path.
LEMMA HandedOverStep ==
    ASSUME Calm, IInv, HandedOver, [Next]_vars
    PROVE  HandedOver'
<1>t. pc \in [Requests -> RequestPcs]
  BY DEF IInv, TypeOK
<1>1. ASSUME NEW q \in Requests, Submit(q) PROVE HandedOver'
  <2>1. PICK p \in RequestPcs : pc' = [pc EXCEPT ![q] = p] /\ p \notin {"enqfail", "enqhook"}
    BY <1>1 DEF Calm, HandedOver, Submit, CheckIndex, TryCreate, Accept, BindKeys, Enqueue, MarkFailed,
       RecordEnqueueFailure, RequestPcs
  <2> QED BY <1>t, <2>1 DEF HandedOver
<1>2. ASSUME NEW c \in Cancellers, (\E r \in Runs : CancelGuard(c, r)) \/ CancelStep(c)
      PROVE  HandedOver'
  BY <1>2 DEF HandedOver, CancelGuard, CancelStep, RequestCancel, RecordCancelled, CancelDiscardKeys, reqVars
<1>3. ASSUME NEW w \in Workers, Work(w) PROVE HandedOver'
  BY <1>3 DEF HandedOver, Work, BeginRun, TakeKeys, StartPipeline, RunSources, Commit, RecordOutcome,
     WriteManifest, Respond, DropKeys, Finish, CancelledHook, reqVars
<1>4. CASE Crash
  BY <1>4 DEF HandedOver, Crash
<1>5. CASE Recover \/ UNCHANGED vars
  BY <1>5 DEF HandedOver, Recover, Boot, MarkInterrupted, vars, reqVars
<1> QED BY <1>1, <1>2, <1>3, <1>4, <1>5 DEF Next

\* A step that changes neither jobs nor workers, or adds and removes none of
\* the workers' runs, keeps the exclusion.
LEMMA SameWorkers ==
    ASSUME OneWorkerPerRun, UNCHANGED target,
           \A w \in Workers : work'[w].pc \in Pipeline =>
               work[w].pc \in Pipeline /\ work'[w].req = work[w].req,
           \A w \in Workers : work'[w].pc \in Pipeline =>
               jobs'[RunOf(w)].status \in {"running", "cancelling"}
    PROVE  OneWorkerPerRun'
BY DEF OneWorkerPerRun, RunOf

\* A worker begins a job only from the queue, where no worker has it.
LEMMA OneWorkerStep ==
    ASSUME Calm, AInv, [Next]_vars
    PROVE  OneWorkerPerRun'
<1> USE NoneAssumption
<1>j. /\ jobs \in JobType /\ target \in [Requests -> Runs] /\ pool \in Seq(Requests)
      /\ work \in WorkType /\ TypeOK /\ JobOwner /\ Busy /\ HandedOver /\ OneWorkerPerRun
  BY DEF AInv, IInv, TypeOK, WorkType, JobType
<1>r. \A w \in Workers : work[w].pc \in Pipeline =>
          /\ RunOf(w) \in Runs /\ work[w].req \in Requests
          /\ jobs[RunOf(w)].status \in {"running", "cancelling"}
  BY <1>j DEF Busy, RunOf, Pipeline, OneWorkerPerRun
<1>1. CASE UNCHANGED <<jobs, target, work>>
  BY <1>j, <1>1 DEF OneWorkerPerRun, RunOf
<1>2. ASSUME NEW q \in Requests, TryCreate(q) PROVE OneWorkerPerRun'
  <2>1. \A r \in Runs : jobs'[r] = jobs[r] \/ jobs[r].status = "absent"
    BY <1>j, <1>2 DEF TryCreate, JobType
  <2>2. UNCHANGED <<target, work>>
    BY <1>2 DEF TryCreate
  <2> QED BY <1>j, <1>r, <2>1, <2>2, SameWorkers
<1>3. ASSUME NEW q \in Requests, Submit(q), ~TryCreate(q) PROVE OneWorkerPerRun'
  <2>1. ~MarkFailed(q) /\ ~RecordEnqueueFailure(q)
    BY <1>j DEF HandedOver, MarkFailed, RecordEnqueueFailure
  <2>2. UNCHANGED <<jobs, target, work>>
    BY <1>3, <2>1 DEF Calm, Submit, CheckIndex, Accept, BindKeys, Enqueue, regVars, reqVars
  <2> QED BY <1>1, <2>2
<1>4. ASSUME NEW c \in Cancellers, RequestCancel(c) PROVE OneWorkerPerRun'
  <2> DEFINE r == can[c].run
  <2>1. r \in Runs /\ UNCHANGED <<target, work>>
    BY <1>j, <1>4 DEF RequestCancel, Busy, reqVars
  <2>2. CASE Grantable(r) /\ jobs[r].status = "queued"
    <3>1. Terminate(r, "cancelled") /\ "cancelled" \in Terminal
      BY <1>4, <2>2 DEF RequestCancel, Terminal
    <3> HIDE DEF r
    <3>2. \A s \in Runs : s # r /\ jobs[s].status \in Live => jobs'[s] = jobs[s]
      BY <1>j, <2>1, <3>1, TerminateKeepsLive
    <3> QED BY <1>j, <1>r, <2>1, <2>2, <3>2, SameWorkers DEF Live
  <2>3. CASE ~(Grantable(r) /\ jobs[r].status = "queued")
    <3>1. jobs' = IF Grantable(r) THEN [jobs EXCEPT ![r].status = "cancelling"] ELSE jobs
      BY <1>4, <2>3 DEF RequestCancel
    <3> HIDE DEF r
    <3>2. \A s \in Runs : jobs'[s] = jobs[s] \/ jobs'[s].status = "cancelling"
      BY <1>j, <3>1 DEF JobType
    <3> QED BY <1>j, <1>r, <2>1, <3>2, SameWorkers
  <2> QED BY <2>2, <2>3
<1>5. ASSUME NEW c \in Cancellers,
             (\E r \in Runs : CancelGuard(c, r)) \/ RecordCancelled(c) \/ CancelDiscardKeys(c)
      PROVE  OneWorkerPerRun'
  BY <1>1, <1>5 DEF CancelGuard, RecordCancelled, CancelDiscardKeys, regVars, reqVars
<1>6. ASSUME NEW w \in Workers, BeginRun(w) PROVE OneWorkerPerRun'
  <2>1. CASE UNCHANGED <<jobs, work>>
    BY <1>1, <1>6, <2>1 DEF BeginRun, reqVars
  <2>2. CASE ~UNCHANGED <<jobs, work>>
    <3> DEFINE q == Head(pool)
    <3>1. /\ q \in Requests /\ target[q] \in Runs /\ jobs[target[q]].status = "queued"
          /\ jobs' = [jobs EXCEPT ![target[q]].status = "running"]
          /\ work' = [work EXCEPT ![w] = [IdleWorker EXCEPT !.pc = "begun", !.req = q]]
          /\ UNCHANGED target /\ work[w].pc = "idle"
      BY <1>j, <1>6, <2>2, HeadTailProperties DEF BeginRun, reqVars
    <3> HIDE DEF q
    <3>2. /\ work'[w].pc = "begun" /\ work'[w].req = q
          /\ \A v \in Workers : v # w => work'[v] = work[v]
      BY <1>j, <3>1 DEF WorkType, IdleWorker
    <3>3. \A v \in Workers : v # w /\ work[v].pc \in Pipeline => RunOf(v) # target[q]
      BY <1>r, <3>1
    <3>4. \A s \in Runs : jobs'[s].status = IF s = target[q] THEN "running" ELSE jobs[s].status
      BY <1>j, <3>1 DEF JobType
    <3> QED BY <1>j, <1>r, <3>1, <3>2, <3>3, <3>4 DEF OneWorkerPerRun, RunOf
  <2> QED BY <2>1, <2>2
<1>7. ASSUME NEW w \in Workers, Finish(w) PROVE OneWorkerPerRun'
  <2> DEFINE r == RunOf(w)
             st == FinishStatus(r, work[w].fail)
  <2>1. r \in Runs /\ jobs[r].status \in Live /\ work[w].pc = "finish" /\ UNCHANGED target
    BY <1>r, <1>7 DEF Finish, Pipeline, Live, reqVars
  <2>2. Terminate(r, st) /\ st \in Terminal
    BY <1>7, <2>1 DEF Finish, FinishStatus, Terminal
  <2>3. /\ \A v \in Workers : v # w => work'[v] = work[v]
        /\ work'[w].pc \notin Pipeline
    BY <1>j, <1>7 DEF Finish, WorkType, IdleWorker, Pipeline
  <2>4. \A v \in Workers : v # w /\ work[v].pc \in Pipeline => RunOf(v) # r
    BY <1>j, <2>1 DEF OneWorkerPerRun, Pipeline
  <2> HIDE DEF r, st
  <2>5. \A s \in Runs : s # r /\ jobs[s].status \in Live => jobs'[s] = jobs[s]
    BY <1>j, <2>1, <2>2, TerminateKeepsLive
  <2> QED BY <1>j, <1>r, <2>1, <2>3, <2>4, <2>5, SameWorkers DEF Live
<1>8. ASSUME NEW w \in Workers, Work(w), ~BeginRun(w), ~Finish(w) PROVE OneWorkerPerRun'
  <2>1. UNCHANGED <<jobs, target>>
    BY <1>8 DEF Work, TakeKeys, StartPipeline, RunSources, Commit, RecordOutcome, WriteManifest, Respond,
       DropKeys, CancelledHook, regVars, reqVars
  <2>2. \A v \in Workers : work'[v].pc \in Pipeline =>
            work[v].pc \in Pipeline /\ work'[v].req = work[v].req
    <3>1. CASE CancelledHook(w)
      BY <1>j, <3>1 DEF CancelledHook, WorkType, IdleWorker, Pipeline
    <3>2. CASE TakeKeys(w) \/ StartPipeline(w) \/ RunSources(w) \/ Commit(w) \/ RecordOutcome(w)
      BY <1>j, <3>2 DEF TakeKeys, StartPipeline, RunSources, Commit, RecordOutcome, WorkType, Pipeline
    <3>3. CASE WriteManifest(w) \/ Respond(w) \/ DropKeys(w)
      BY <1>j, <3>3 DEF WriteManifest, Respond, DropKeys, WorkType, Pipeline
    <3> QED BY <1>8, <3>1, <3>2, <3>3 DEF Work
  <2> QED BY <1>j, <1>r, <2>1, <2>2, SameWorkers
<1>9. CASE Crash
  BY <1>9 DEF Crash, OneWorkerPerRun, IdleWorker, Pipeline
<1>10. CASE Recover \/ UNCHANGED vars
  BY <1>1, <1>10 DEF Recover, Boot, MarkInterrupted, vars, regVars, reqVars
<1> QED BY <1>2, <1>3, <1>4, <1>5, <1>6, <1>7, <1>8, <1>9, <1>10 DEF Next, CancelStep

\* When no submission fails half way, and whatever crashes, is evicted or
\* cancelled, at most one worker executes a run id, and only while its job is
\* running or cancelling.
THEOREM RunsExclusive == ASSUME Calm PROVE Spec => []OneWorkerPerRun
<1>1. Init => AInv
  BY InitIInv DEF Init, AInv, HandedOver, OneWorkerPerRun, IdleWorker, Pipeline
<1>2. AInv /\ [Next]_vars => AInv'
  <2>1. IInv /\ [Next]_vars => IInv'
    BY SubmitIInv, CancelIInv, WorkIInv, LifeIInv, StutterIInv DEF Next
  <2> QED BY <2>1, HandedOverStep, OneWorkerStep DEF AInv
<1>3. AInv => OneWorkerPerRun
  BY DEF AInv
<1> QED BY <1>1, <1>2, <1>3, PTL DEF Spec
-----------------------------------------------------------------------------
(* The retained regime: the parts of the invariant.                        *)

\* The completion order holds each finished job once.
Settled ==
    /\ \A i \in DOMAIN order : jobs[order[i]].status \in Terminal
    /\ \A i, j \in DOMAIN order : order[i] = order[j] => i = j

\* Whoever still acts for a request acts for the job its run id has.
Owned ==
    /\ \A q \in Requests : pc[q] \in {"accept", "bind", "enqueue"} =>
          jobs[target[q]].req = q /\ jobs[target[q]].status \in {"queued", "cancelled"}
    /\ \A i \in DOMAIN pool : pc[pool[i]] = "done" /\ jobs[target[pool[i]]].req = pool[i]
    /\ \A w \in Workers : work[w].pc # "idle" =>
          /\ jobs[RunOf(w)].req = work[w].req
          /\ work[w].pc # "begun" => work[w].tok = work[w].req

\* A busy worker's job is running or cancelling until it is finished, and nobody else works on it.
Executing ==
    /\ \A w \in Workers :
          /\ work[w].pc \in Pipeline => jobs[RunOf(w)].status \in {"running", "cancelling"}
          /\ work[w].pc = "hook" => jobs[RunOf(w)].status = "cancelled"
    /\ \A v, w \in Workers :
          work[v].pc # "idle" /\ work[w].pc # "idle" /\ work[v].req = work[w].req => v = w

\* What the latches say of jobs, submissions and workers.
Latched ==
    /\ \A q \in Requests : pc[q] \in {"idle", "create"} => q \notin committed
    /\ \A r \in Runs :
          /\ jobs[r].status = "queued" => jobs[r].req \notin committed
          /\ jobs[r].status = "failed" => jobs[r].req \notin requested
    /\ \A w \in Workers : LET q == work[w].req IN
          /\ work[w].pc \in {"begun", "prepare", "sources", "commit"} => q \notin committed
          /\ work[w].pc = "commit" /\ work[w].res = "cancelled" => q \in requested
          /\ work[w].pc \in {"record", "materialize", "respond"} =>
                IF work[w].res = "cancelled" THEN q \in requested
                ELSE q \in committed /\ q \notin requested

\* A cancel thread past its decision: the job is not queued, and the thread that records the
\* cancellation of a queued job is the only one that has anything to record.
Answered ==
    /\ \A c \in Cancellers : LET r == can[c].run IN
          /\ can[c].pc # "idle" => jobs[r].status # "absent"
          /\ can[c].pc \in {"record", "discard"} =>
                jobs[r].status # "queued" /\ (jobs[r].status \in Terminal
                                              \/ jobs[r].req \in requested \cup committed)
          /\ can[c].pc = "record" => /\ jobs[r].status = "cancelled"
                                     /\ \A w \in Workers : work[w].pc # "idle" => RunOf(w) # r
    /\ \A c, d \in Cancellers :
          can[c].pc = "record" /\ can[d].pc = "record" /\ can[c].run = can[d].run => c = d

\* The manifest is written once, by the worker of the run, with an outcome the latches allow.
Recorded ==
    /\ \A r \in Runs :
          /\ jobs[r].status \in {"absent", "queued"} => manifest[r] = "none"
          /\ manifest[r] \in {"ok", "failed"} => jobs[r].req \in committed /\ jobs[r].req \notin requested
          /\ manifest[r] = "cancelled" => jobs[r].req \in requested
          /\ jobs[r].status = "succeeded" => manifest[r] = "ok"
    /\ \A w \in Workers :
          /\ work[w].pc \in {"begun", "prepare", "sources", "commit", "record", "materialize"} =>
                manifest[RunOf(w)] = "none"
          /\ work[w].pc \in {"respond", "drop", "finish"} /\ ~work[w].fail => manifest[RunOf(w)] = "ok"

\* The runs whose log has no terminal event, and those whose log has at most one.
Unended == {r \in Runs : \A i \in DOMAIN events[r] : events[r][i] \notin TerminalEvents}
EndsOnce ==
    {r \in Runs : \A i, j \in DOMAIN events[r] :
        events[r][i] \in TerminalEvents /\ events[r][j] \in TerminalEvents => i = j}

\* A run's log has no terminal event before the one thread that may append it does.
Ended ==
    /\ \A r \in Runs : r \in EndsOnce /\ (jobs[r].status \in {"absent", "queued"} => r \in Unended)
    /\ \A w \in Workers :
          /\ work[w].pc \in Pipeline =>
                \/ RunOf(w) \in Unended
                \/ /\ work[w].pc \in {"materialize", "respond", "drop", "finish"}
                   /\ work[w].req \in committed /\ work[w].req \notin requested
          /\ work[w].pc = "hook" => RunOf(w) \in Unended
    /\ \A c \in Cancellers : can[c].pc = "record" => can[c].run \in Unended

\* Keys stay bound from the hand-over of a queued job until its worker takes them.
Keyed ==
    MultiUser =>
        /\ \A q \in Requests :
              pc[q] = "enqueue" /\ jobs[target[q]].status = "queued" => keys[target[q]] = q
        /\ \A i \in DOMAIN pool :
              jobs[target[pool[i]]].status = "queued" => keys[target[pool[i]]] = pool[i]
        /\ \A w \in Workers : work[w].req \notin requested =>
              /\ work[w].pc = "begun" => keys[RunOf(w)] = work[w].req
              /\ work[w].pc \in Pipeline \ {"begun"} => work[w].req \in got

RInv ==
    /\ IInv /\ HandedOver /\ up
    /\ Settled /\ Owned /\ Executing /\ Latched /\ Answered /\ Recorded /\ Ended /\ Keyed

\* The first state has no job, no busy thread and nothing on disk.
LEMMA RetainedInit == Init => RInv
<1> SUFFICES ASSUME Init PROVE RInv
  OBVIOUS
<1>1. IInv /\ HandedOver /\ up
  BY InitIInv DEF Init, HandedOver
<1>2. Settled /\ Owned /\ Executing /\ Latched
  BY NoneAssumption DEF Init, Settled, Owned, Executing, Latched, NoJob, IdleWorker, Pipeline
<1>3. Answered /\ Recorded /\ Ended /\ Keyed
  BY NoneAssumption DEF Init, Answered, Recorded, Ended, Keyed, Unended, EndsOnce, NoJob, IdleWorker,
     IdleCanceller, Pipeline
<1> QED BY <1>1, <1>2, <1>3 DEF RInv

\* A registry that never drops a job: terminating one replaces its status and appends its
\* run id to the completion order, which never grows beyond the requests.
LEMMA TerminateRetained ==
    ASSUME Retained, TypeOK, JobOwner, Settled, NEW r \in Runs, NEW st \in Terminal,
           Terminate(r, st), jobs[r].status \in Live
    PROVE  jobs' = [jobs EXCEPT ![r].status = st] /\ Settled'
<1> DEFINE o == Append(order, r)
           js == [jobs EXCEPT ![r].status = st]
           f == [i \in 1..Len(o) |-> jobs[o[i]].req]
<1>1. /\ order \in Seq(Runs) /\ o \in Seq(Runs) /\ Len(o) = Len(order) + 1 /\ Len(order) \in Nat
      /\ DOMAIN order = 1..Len(order)
      /\ \A i \in 1..Len(order) : o[i] = order[i]
      /\ o[Len(order) + 1] = r
  BY AppendProperties, LenProperties DEF TypeOK
<1>2. /\ jobs \in JobType /\ js \in JobType
      /\ js[r] = [req |-> jobs[r].req, status |-> st]
      /\ \A s \in Runs : s # r => js[s] = jobs[s]
  <2>1. jobs \in JobType
    BY DEF TypeOK, JobType
  <2> QED BY <2>1 DEF JobType
<1> HIDE DEF o, js, f
<1>3. \A i \in 1..Len(o) : o[i] \in Runs /\ jobs[o[i]].status # "absent" /\ jobs[o[i]].req \in Requests
  <2>1. \A i \in 1..Len(o) : o[i] \in Runs
    BY <1>1, ElementOfSeq
  <2>2. \A i \in 1..Len(o) : jobs[o[i]].status \in Live \cup Terminal
    BY <1>1 DEF Settled
  <2>3. \A s \in Runs : jobs[s].status # "absent" => jobs[s].req \in Requests
    BY <1>2, NoneAssumption DEF JobOwner, JobType
  <2> QED BY <2>1, <2>2, <2>3 DEF Live, Terminal
<1>4. \A i, j \in 1..Len(o) : o[i] = o[j] => i = j
  BY <1>1 DEF Settled, Live, Terminal
<1>5. f \in [1..Len(o) -> Requests] /\ \A i, j \in 1..Len(o) : f[i] = f[j] => i = j
  BY <1>2, <1>3, <1>4, NoneAssumption DEF f, JobOwner
<1>6. f \in Injection(1..Len(o), Requests)
  BY <1>5 DEF Injection, IsInjective
<1>7. Cardinality(1..Len(o)) <= Cardinality(Requests)
  BY <1>6, FS_Injection DEF Retained
<1>8. Len(o) <= MaxTerminal
  <2>1. Cardinality(1..Len(o)) = Len(o)
    BY <1>1, FS_Interval
  <2>2. Cardinality(Requests) \in Nat
    BY FS_CardinalityType DEF Retained
  <2> QED BY <1>1, <1>7, <2>1, <2>2, BoundsAssumption DEF Retained
<1>9. Overflow(o) = 0
  BY <1>1, <1>8, BoundsAssumption DEF Overflow
<1>10. jobs' = js
  <2>1. jobs' = Evicted(o, js)
    BY DEF Terminate, RetiredOrder, o, js
  <2>2. Evicted(o, js) = [s \in Runs |-> js[s]]
    BY <1>9 DEF Evicted
  <2> QED BY <1>2, <2>1, <2>2 DEF JobType
<1>11. DOMAIN order' = 1..Len(o) /\ \A i \in 1..Len(o) : order'[i] = o[i]
  <2>1. order' = SubSeq(o, 1, Len(o))
    BY <1>9 DEF Terminate, RetiredOrder, KeptOrder, o
  <2>2. \A i \in 1..Len(o) : o[i] \in Runs
    BY <1>3
  <2> QED BY <1>1, <2>1, <2>2, SubSeqProperties, LenProperties
<1>12. Settled'
  <2>1. \A i \in 1..Len(o) : jobs'[o[i]].status \in Terminal
    BY <1>1, <1>2, <1>3, <1>10 DEF Settled
  <2> QED BY <1>4, <1>11, <2>1 DEF Settled
<1> QED BY <1>10, <1>12 DEF js

\* What one append to the event log does to the terminal events of each run.
LEMMA EventEffect ==
    ASSUME events \in [Runs -> Seq(EventNames)], NEW r \in Runs, NEW e \in EventNames,
           AppendAbsorbed(r, e)
    PROVE  /\ \A s \in Runs : s # r => (s \in Unended <=> s \in Unended') /\ (s \in EndsOnce => s \in EndsOnce')
           /\ r \in Unended => r \in EndsOnce'
           /\ e \notin TerminalEvents => (r \in Unended => r \in Unended') /\ (r \in EndsOnce => r \in EndsOnce')
<1>1. \A s \in Runs : s # r => events'[s] = events[s]
  BY DEF AppendAbsorbed
<1>2. events[r] \in Seq(EventNames)
  OBVIOUS
<1>3. CASE events' = events
  BY <1>3 DEF Unended, EndsOnce
<1>4. CASE events' = [events EXCEPT ![r] = Append(@, e)]
  <2>1. /\ events'[r] = Append(events[r], e)
        /\ DOMAIN events[r] = 1..Len(events[r]) /\ Len(events[r]) \in Nat
        /\ DOMAIN events'[r] = 1..(Len(events[r]) + 1)
        /\ \A i \in 1..Len(events[r]) : events'[r][i] = events[r][i]
        /\ events'[r][Len(events[r]) + 1] = e
    BY <1>2, <1>4, AppendProperties, LenProperties
  <2>2. \A i \in DOMAIN events'[r] : i \in DOMAIN events[r] \/ i = Len(events[r]) + 1
    BY <2>1
  <2> QED BY <1>1, <2>1, <2>2 DEF Unended, EndsOnce
<1> QED BY <1>3, <1>4 DEF AppendAbsorbed

\* A step that changes submissions and keys only.
LEMMA QuietRegistry ==
    ASSUME Settled, Executing, Answered, Recorded, Ended,
           UNCHANGED <<jobs, requested, committed, order, target, can, work, events, manifest>>
    PROVE  Settled' /\ Executing' /\ Answered' /\ Recorded' /\ Ended'
<1>1. Settled' /\ Executing' /\ Answered' /\ Recorded'
  BY DEF Settled, Executing, Answered, Recorded, RunOf
<1>2. Unended' = Unended /\ EndsOnce' = EndsOnce
  BY DEF Unended, EndsOnce
<1>3. Ended'
  BY <1>2 DEF Ended, RunOf
<1> QED BY <1>1, <1>3

RParts == Settled /\ Owned /\ Executing /\ Latched /\ Answered /\ Recorded /\ Ended /\ Keyed

\* Creating a job touches no run id anybody acts for.
LEMMA RetainedCreate ==
    ASSUME RInv, NEW q \in Requests, TryCreate(q), jobs' # jobs
    PROVE  RParts'
<1> USE NoneAssumption DEF RInv
<1> DEFINE r == target[q]
<1>j. /\ jobs \in JobType /\ target \in [Requests -> Runs] /\ pc \in [Requests -> RequestPcs]
      /\ r \in Runs /\ order \in Seq(Runs) /\ pool \in Seq(Requests)
      /\ DOMAIN order = 1..Len(order) /\ DOMAIN pool = 1..Len(pool)
      /\ JobOwner /\ FreshLatch /\ Busy
  BY LenProperties DEF IInv, TypeOK, JobType
<1>1. /\ jobs[r].status = "absent" /\ jobs[r].req = None
      /\ jobs'[r] = [req |-> q, status |-> "queued"]
      /\ \A s \in Runs : s # r => jobs'[s] = jobs[s]
      /\ pc[q] = "create" /\ pc'[q] = "accept" /\ \A p \in Requests : p # q => pc'[p] = pc[p]
      /\ UNCHANGED <<requested, committed, order, pool, target, can, work, keys, got, events, manifest>>
  <2>1. /\ jobs' = [jobs EXCEPT ![r] = [req |-> q, status |-> "queued"]]
        /\ pc' = [pc EXCEPT ![q] = "accept"]
        /\ jobs[r].status = "absent" /\ pc[q] = "create"
        /\ UNCHANGED <<requested, committed, order, pool, target, can, work, keys, got, events, manifest>>
    BY DEF TryCreate, keyVars, diskVars
  <2> QED BY <1>j, <2>1 DEF JobOwner, JobType
<1>2. /\ q \notin requested /\ q \notin committed
      /\ manifest[r] = "none" /\ r \in Unended
  BY <1>j, <1>1 DEF FreshLatch, Latched, Recorded, Ended
<1>3. /\ \A p \in Requests : pc[p] \in {"accept", "bind", "enqueue"} => target[p] # r
      /\ \A i \in DOMAIN pool : pool[i] \in Requests /\ pool[i] # q /\ target[pool[i]] # r
      /\ \A w \in Workers : work[w].pc # "idle" => RunOf(w) \in Runs /\ RunOf(w) # r
      /\ \A c \in Cancellers : can[c].pc # "idle" => can[c].run \in Runs /\ can[c].run # r
  <2>1. \A i \in DOMAIN pool : pool[i] \in Requests
    BY <1>j, ElementOfSeq
  <2> QED BY <1>j, <1>1, <2>1 DEF Owned, Answered, Busy, RunOf
<1>4. Unended' = Unended /\ EndsOnce' = EndsOnce
  BY <1>1 DEF Unended, EndsOnce
<1> HIDE DEF r
<1>5. Settled'
  <2>1. \A i \in DOMAIN order : order[i] \in Runs /\ order[i] # r
    BY <1>j, <1>1, ElementOfSeq DEF Settled, Terminal
  <2> QED BY <1>1, <2>1 DEF Settled
<1>6. Owned'
  <2>1. target[q] = r
    BY DEF r
  <2>2. \A p \in Requests : pc'[p] \in {"accept", "bind", "enqueue"} =>
            jobs'[target[p]].req = p /\ jobs'[target[p]].status \in {"queued", "cancelled"}
    BY <1>j, <1>1, <1>3, <2>1 DEF Owned
  <2>3. \A i \in DOMAIN pool : pc'[pool[i]] = "done" /\ jobs'[target[pool[i]]].req = pool[i]
    BY <1>j, <1>1, <1>3 DEF Owned
  <2>4. \A w \in Workers : work[w].pc # "idle" =>
            /\ jobs'[RunOf(w)].req = work[w].req
            /\ work[w].pc # "begun" => work[w].tok = work[w].req
    BY <1>1, <1>3 DEF Owned
  <2> QED BY <1>1, <2>2, <2>3, <2>4 DEF Owned, RunOf
<1>7. Executing'
  BY <1>j, <1>1, <1>3 DEF Executing, RunOf, Pipeline
<1>8. Latched'
  BY <1>j, <1>1, <1>2 DEF Latched
<1>9. Answered'
  BY <1>j, <1>1, <1>3 DEF Answered, RunOf
<1>10. Recorded'
  BY <1>j, <1>1, <1>2 DEF Recorded, RunOf
<1>11. Ended'
  BY <1>j, <1>1, <1>2, <1>4 DEF Ended, RunOf
<1>12. Keyed'
  BY <1>j, <1>1, <1>3 DEF Keyed, RunOf, Pipeline
<1> QED BY <1>5, <1>6, <1>7, <1>8, <1>9, <1>10, <1>11, <1>12 DEF RParts

\* Each step of a POST /builds thread preserves the retained invariant's parts.
LEMMA RetainedSubmit ==
    ASSUME Retained, RInv, NEW q \in Requests, Submit(q)
    PROVE  RParts'
<1> USE NoneAssumption DEF RInv
<1>j. /\ jobs \in JobType /\ target \in [Requests -> Runs] /\ pc \in [Requests -> RequestPcs]
      /\ target[q] \in Runs /\ pool \in Seq(Requests) /\ DOMAIN pool = 1..Len(pool)
      /\ keys \in [Runs -> Requests \cup {None}]
      /\ events \in [Runs -> Seq(EventNames)] /\ work \in WorkType
      /\ JobOwner /\ FreshLatch /\ Busy
  BY LenProperties DEF IInv, TypeOK, JobType, WorkType
<1>k. \A i \in DOMAIN pool : pool[i] \in Requests
  BY <1>j, ElementOfSeq
<1>1. CASE CheckIndex(q) \/ (TryCreate(q) /\ jobs' = jobs)
  <2>1. PICK p \in {"create", "done"} : pc' = [pc EXCEPT ![q] = p] /\ pc[q] \in {"idle", "create"}
    BY <1>j, <1>1 DEF CheckIndex, TryCreate, JobType
  <2>2. UNCHANGED <<jobs, requested, committed, order, pool, target, can, work, keys, got, events, manifest>>
    BY <1>1 DEF CheckIndex, TryCreate, regVars, keyVars, diskVars
  <2>3. Settled' /\ Executing' /\ Answered' /\ Recorded' /\ Ended'
    BY <2>2, QuietRegistry
  <2>4. Owned' /\ Latched' /\ Keyed'
    BY <1>j, <1>k, <2>1, <2>2 DEF Owned, Latched, Keyed, RunOf
  <2> QED BY <2>3, <2>4 DEF RParts
<1>2. CASE TryCreate(q) /\ jobs' # jobs
  BY <1>2, RetainedCreate
<1>3. CASE Accept(q)
  <2>1. /\ events' = [events EXCEPT ![target[q]] = Append(@, "run_submitted")]
        /\ pc' = [pc EXCEPT ![q] = "bind"] /\ pc[q] = "accept"
        /\ UNCHANGED <<jobs, requested, committed, order, pool, target, can, work, keys, got, manifest>>
    BY <1>3 DEF Accept, Retained, Calm, keyVars
  <2>2. \A s \in Runs : (s \in Unended => s \in Unended') /\ (s \in EndsOnce => s \in EndsOnce')
    <3>1. "run_submitted" \in EventNames /\ "run_submitted" \notin TerminalEvents
      BY DEF EventNames, TerminalEvents
    <3> QED BY <1>j, <2>1, <3>1, EventEffect DEF AppendAbsorbed
  <2>3. Settled' /\ Executing' /\ Answered' /\ Recorded'
    BY <2>1 DEF Settled, Executing, Answered, Recorded, RunOf
  <2>4. Owned' /\ Latched' /\ Keyed'
    BY <1>j, <1>k, <2>1 DEF Owned, Latched, Keyed, RunOf
  <2>u. UNCHANGED <<jobs, requested, committed, target, can, work>>
    BY <2>1
  <2>5. Ended'
    <3>1. \A c \in Cancellers : can[c].pc = "record" => can[c].run \in Runs
      BY <1>j DEF Busy
    <3>2. \A w \in Workers : work[w].pc \in Pipeline \cup {"hook"} =>
              RunOf(w) \in Runs /\ RunOf(w)' = RunOf(w)
      BY <1>j, <2>u DEF Busy, RunOf, Pipeline
    <3>3. \A r \in Runs : r \in EndsOnce' /\ (jobs'[r].status \in {"absent", "queued"} => r \in Unended')
      BY <2>2, <2>u DEF Ended
    <3>4. \A w \in Workers :
            /\ work'[w].pc \in Pipeline =>
                  \/ RunOf(w)' \in Unended'
                  \/ /\ work'[w].pc \in {"materialize", "respond", "drop", "finish"}
                     /\ work'[w].req \in committed' /\ work'[w].req \notin requested'
            /\ work'[w].pc = "hook" => RunOf(w)' \in Unended'
      BY <2>2, <2>u, <3>2 DEF Ended
    <3>5. \A c \in Cancellers : can'[c].pc = "record" => can'[c].run \in Unended'
      BY <2>2, <2>u, <3>1 DEF Ended
    <3> QED BY <3>3, <3>4, <3>5 DEF Ended
  <2> QED BY <2>3, <2>4, <2>5 DEF RParts
<1>4. CASE BindKeys(q)
  <2>1. /\ keys' = IF MultiUser THEN [keys EXCEPT ![target[q]] = q] ELSE keys
        /\ pc' = [pc EXCEPT ![q] = "enqueue"] /\ pc[q] = "bind"
        /\ UNCHANGED <<jobs, requested, committed, order, pool, target, can, work, got, events, manifest>>
    BY <1>4 DEF BindKeys, regVars, diskVars
  <2>2. Settled' /\ Executing' /\ Answered' /\ Recorded' /\ Ended'
    BY <2>1, QuietRegistry
  <2>3. Owned' /\ Latched'
    BY <1>j, <1>k, <2>1 DEF Owned, Latched, RunOf
  <2>4. Keyed'
    <3>1. jobs[target[q]].req = q /\ jobs[target[q]].status \in {"queued", "cancelled"}
      BY <2>1 DEF Owned
    <3>2. \A p \in Requests : pc[p] = "enqueue" \/ (\E i \in DOMAIN pool : pool[i] = p) => jobs[target[p]].req = p
      BY DEF Owned
    <3>3. \A w \in Workers : work[w].pc = "begun" => RunOf(w) # target[q] /\ RunOf(w) \in Runs
      BY <1>j, <3>1 DEF Executing, Pipeline, Busy, RunOf
    <3> QED BY <1>j, <1>k, <2>1, <3>1, <3>2, <3>3 DEF Keyed, RunOf
  <2> QED BY <2>2, <2>3, <2>4 DEF RParts
<1>5. CASE Enqueue(q)
  <2>1. /\ pool' = Append(pool, q)
        /\ pc' = [pc EXCEPT ![q] = "done"] /\ pc[q] = "enqueue"
        /\ UNCHANGED <<jobs, requested, committed, order, target, can, work, keys, got, events, manifest>>
    BY <1>5 DEF Enqueue, Retained, Calm, regVars, keyVars, diskVars
  <2>2. \A i \in DOMAIN pool' : (i \in DOMAIN pool /\ pool'[i] = pool[i]) \/ pool'[i] = q
    BY <1>j, <2>1, AppendProperties
  <2>3. Settled' /\ Executing' /\ Answered' /\ Recorded' /\ Ended'
    BY <2>1, QuietRegistry
  <2>4. Owned' /\ Latched' /\ Keyed'
    BY <1>j, <1>k, <2>1, <2>2 DEF Owned, Latched, Keyed, RunOf
  <2> QED BY <2>3, <2>4 DEF RParts
<1>6. ~MarkFailed(q) /\ ~RecordEnqueueFailure(q)
  BY DEF HandedOver, MarkFailed, RecordEnqueueFailure
<1> QED BY <1>1, <1>2, <1>3, <1>4, <1>5, <1>6 DEF Submit

\* Distinct runs have jobs of distinct requests.
LEMMA OneRunPerRequest ==
    ASSUME JobOwner, NEW r \in Runs, NEW s \in Runs, jobs[r].req = jobs[s].req, jobs[r].req # None
    PROVE  r = s
BY DEF JobOwner

\* Granting a cancellation: what the latches, the disk and the workers of other runs say is
\* untouched, and the run's own worker has not committed.
LEMMA RetainedGrant ==
    ASSUME Retained, RInv, NEW c \in Cancellers, RequestCancel(c), Grantable(can[c].run)
    PROVE  RParts'
<1> USE NoneAssumption DEF RInv
<1> DEFINE r == can[c].run
           q == jobs[r].req
           st == IF jobs[r].status = "queued" THEN "cancelled" ELSE "cancelling"
<1>j. /\ jobs \in JobType /\ target \in [Requests -> Runs] /\ order \in Seq(Runs)
      /\ can \in [Cancellers -> [pc : CancellerPcs, run : Runs \cup {None}]]
      /\ work \in WorkType /\ pool \in Seq(Requests) /\ DOMAIN pool = 1..Len(pool)
      /\ TypeOK /\ JobOwner /\ Busy
  BY LenProperties DEF IInv, TypeOK, JobType, WorkType
<1>1. /\ r \in Runs /\ q \in Requests /\ q \notin committed /\ jobs[r].status \in Live
      /\ can[c].pc = "request"
  BY <1>j DEF RequestCancel, Busy, Grantable, JobOwner, JobType, Live
<1>2. /\ \A s \in Runs : /\ jobs'[s].req = jobs[s].req
                         /\ jobs'[s].status = IF s = r THEN st ELSE jobs[s].status
      /\ Settled'
  <2>1. CASE jobs[r].status = "queued"
    <3>1. Terminate(r, "cancelled") /\ "cancelled" \in Terminal
      BY <2>1 DEF RequestCancel, Terminal
    <3> HIDE DEF r
    <3>2. jobs' = [jobs EXCEPT ![r].status = "cancelled"] /\ Settled'
      BY <1>1, <1>j, <3>1, TerminateRetained
    <3> QED BY <1>1, <1>j, <2>1, <3>2 DEF JobType
  <2>2. CASE jobs[r].status # "queued"
    <3>1. jobs' = [jobs EXCEPT ![r].status = "cancelling"] /\ order' = order
      BY <2>2 DEF RequestCancel
    <3> HIDE DEF r
    <3>2. \A s \in Runs : /\ jobs'[s].req = jobs[s].req
                         /\ jobs'[s].status = IF s = r THEN st ELSE jobs[s].status
      BY <1>1, <1>j, <2>2, <3>1 DEF JobType
    <3>3. \A i \in DOMAIN order : order[i] \in Runs /\ order[i] # r
      BY <1>1, <1>j, ElementOfSeq DEF Settled, Live, Terminal
    <3>4. Settled'
      BY <3>1, <3>2, <3>3 DEF Settled
    <3> QED BY <3>2, <3>4
  <2> QED BY <2>1, <2>2
<1>3. /\ can'[c].run = r /\ can'[c].pc = IF st = "cancelled" THEN "record" ELSE "discard"
      /\ \A d \in Cancellers : d # c => can'[d] = can[d]
  BY <1>j DEF RequestCancel
<1>4. /\ requested' = requested \cup {q}
      /\ UNCHANGED <<committed, pool, pc, target, work, keys, got, events, manifest>>
  BY DEF RequestCancel, reqVars, keyVars, diskVars
<1>5. /\ \A s \in Runs : jobs[s].req = q => s = r
      /\ \A w \in Workers : work[w].pc # "idle" =>
            /\ RunOf(w) \in Runs /\ (work[w].req = q <=> RunOf(w) = r) /\ RunOf(w)' = RunOf(w)
            /\ jobs[r].status = "queued" => RunOf(w) # r
  <2>1. \A s \in Runs : jobs[s].req = q => s = r
    BY <1>1, <1>j, OneRunPerRequest
  <2>2. \A w \in Workers : work[w].pc # "idle" => RunOf(w) \in Runs /\ jobs[RunOf(w)].req = work[w].req
    BY <1>j DEF Busy, RunOf, Owned
  <2>3. \A w \in Workers : RunOf(w)' = RunOf(w)
    BY <1>4 DEF RunOf
  <2>4. \A w \in Workers : work[w].pc # "idle" => jobs[RunOf(w)].status # "queued"
    BY <1>j DEF Executing, Pipeline, WorkType, WorkerPcs
  <2> QED BY <2>1, <2>2, <2>3, <2>4
<1>6. Unended' = Unended /\ EndsOnce' = EndsOnce
  BY <1>4 DEF Unended, EndsOnce
<1>7. st \in {"cancelled", "cancelling"} /\ (st = "cancelled" <=> jobs[r].status = "queued")
  OBVIOUS
<1>8. \A d \in Cancellers : can[d].pc # "idle" => can[d].run \in Runs
  BY <1>j DEF Busy
<1> HIDE DEF r, q, st
<1>9. Owned'
  <2>1. \A p \in Requests : pc[p] \in {"accept", "bind", "enqueue"} =>
            jobs'[target[p]].req = p /\ jobs'[target[p]].status \in {"queued", "cancelled"}
    BY <1>1, <1>2, <1>7, <1>j DEF Owned, Live
  <2>2. \A i \in DOMAIN pool : pc[pool[i]] = "done" /\ jobs'[target[pool[i]]].req = pool[i]
    <3>1. \A i \in DOMAIN pool : target[pool[i]] \in Runs
      BY <1>j, ElementOfSeq
    <3> QED BY <1>2, <3>1 DEF Owned
  <2>3. \A w \in Workers : work[w].pc # "idle" =>
            jobs'[RunOf(w)].req = work[w].req /\ (work[w].pc # "begun" => work[w].tok = work[w].req)
    BY <1>2, <1>5 DEF Owned
  <2> QED BY <1>4, <2>1, <2>2, <2>3 DEF Owned, RunOf
<1>10. Executing'
  <2>1. \A w \in Workers :
          /\ work[w].pc \in Pipeline => jobs'[RunOf(w)].status \in {"running", "cancelling"}
          /\ work[w].pc = "hook" => jobs'[RunOf(w)].status = "cancelled"
    BY <1>1, <1>2, <1>5, <1>7 DEF Executing, Live, Pipeline
  <2> QED BY <1>4, <2>1 DEF Executing, RunOf
<1>11. Latched'
  <2>1. /\ \A p \in Requests : pc[p] \in {"idle", "create"} => p \notin committed
        /\ \A s \in Runs :
              /\ jobs'[s].status = "queued" => jobs'[s].req \notin committed
              /\ jobs'[s].status = "failed" => jobs'[s].req \notin requested'
    <3>1. \A s \in Runs : s # r => jobs[s].req # q
      BY <1>5
    <3> QED BY <1>2, <1>4, <1>7, <3>1 DEF Latched
  <2>2. \A w \in Workers :
          /\ work[w].pc \in {"begun", "prepare", "sources", "commit"} => work[w].req \notin committed
          /\ work[w].pc = "commit" /\ work[w].res = "cancelled" => work[w].req \in requested'
          /\ work[w].pc \in {"record", "materialize", "respond"} =>
                IF work[w].res = "cancelled" THEN work[w].req \in requested'
                ELSE work[w].req \in committed /\ work[w].req \notin requested'
    BY <1>1, <1>4 DEF Latched
  <2> QED BY <1>4, <2>1, <2>2 DEF Latched
<1>12. Answered'
  <2>1. \A d \in Cancellers : can'[d].pc # "idle" => can'[d].run \in Runs /\ jobs'[can'[d].run].status # "absent"
    BY <1>1, <1>2, <1>3, <1>7, <1>8 DEF Answered
  <2>2. \A d \in Cancellers : can'[d].pc \in {"record", "discard"} =>
            jobs'[can'[d].run].status # "queued"
            /\ (jobs'[can'[d].run].status \in Terminal
                \/ jobs'[can'[d].run].req \in requested' \cup committed)
    <3>1. ASSUME NEW d \in Cancellers, can'[d].pc \in {"record", "discard"}, d # c
          PROVE  jobs'[can'[d].run].status # "queued"
                 /\ (jobs'[can'[d].run].status \in Terminal
                     \/ jobs'[can'[d].run].req \in requested' \cup committed)
      <4>1. can'[d] = can[d] /\ can[d].run \in Runs
        BY <1>3, <1>8, <3>1
      <4>2. CASE can[d].run = r
        BY <1>1, <1>2, <1>4, <1>7, <4>1, <4>2 DEF q
      <4>3. CASE can[d].run # r
        BY <1>2, <1>4, <3>1, <4>1, <4>3 DEF Answered
      <4> QED BY <4>2, <4>3
    <3>2. jobs'[r].status # "queued" /\ jobs'[r].req \in requested'
      BY <1>1, <1>2, <1>4, <1>7 DEF q
    <3> QED BY <1>3, <3>1, <3>2
  <2>3. \A d \in Cancellers : can'[d].pc = "record" =>
            /\ jobs'[can'[d].run].status = "cancelled"
            /\ \A w \in Workers : work[w].pc # "idle" => RunOf(w) # can'[d].run
    <3>1. ASSUME NEW d \in Cancellers, can'[d].pc = "record", d # c
          PROVE  /\ jobs'[can'[d].run].status = "cancelled"
                 /\ \A w \in Workers : work[w].pc # "idle" => RunOf(w) # can'[d].run
      <4>1. can'[d] = can[d] /\ can[d].run \in Runs
        BY <1>3, <1>8, <3>1
      <4>2. jobs[can[d].run].status = "cancelled" /\ can[d].run # r
        BY <1>1, <3>1, <4>1 DEF Answered, Live
      <4> QED BY <1>2, <3>1, <4>1, <4>2 DEF Answered
    <3>2. can'[c].pc = "record" =>
            /\ jobs'[r].status = "cancelled"
            /\ \A w \in Workers : work[w].pc # "idle" => RunOf(w) # r
      BY <1>1, <1>2, <1>3, <1>5, <1>7
    <3> QED BY <1>3, <3>1, <3>2
  <2>4. \A d, e \in Cancellers :
            can'[d].pc = "record" /\ can'[e].pc = "record" /\ can'[d].run = can'[e].run => d = e
    <3>1. \A d \in Cancellers : d # c /\ can'[d].pc = "record" => can'[d].run # r
      BY <1>1, <1>3 DEF Answered, Live
    <3> QED BY <1>3, <3>1 DEF Answered
  <2> QED BY <1>4, <2>1, <2>2, <2>3, <2>4 DEF Answered, RunOf
<1>13. Recorded'
  <2>1. \A s \in Runs :
          /\ jobs'[s].status \in {"absent", "queued"} => manifest[s] = "none"
          /\ manifest[s] \in {"ok", "failed"} => jobs'[s].req \in committed /\ jobs'[s].req \notin requested'
          /\ manifest[s] = "cancelled" => jobs'[s].req \in requested'
          /\ jobs'[s].status = "succeeded" => manifest[s] = "ok"
    BY <1>1, <1>2, <1>4, <1>7 DEF Recorded
  <2> QED BY <1>4, <2>1 DEF Recorded, RunOf
<1>14. Ended'
  <2>1. \A s \in Runs : s \in EndsOnce /\ (jobs'[s].status \in {"absent", "queued"} => s \in Unended)
    BY <1>1, <1>2, <1>7 DEF Ended
  <2>2. \A w \in Workers :
          /\ work[w].pc \in Pipeline =>
                \/ RunOf(w) \in Unended
                \/ /\ work[w].pc \in {"materialize", "respond", "drop", "finish"}
                   /\ work[w].req \in committed /\ work[w].req \notin requested'
          /\ work[w].pc = "hook" => RunOf(w) \in Unended
    BY <1>1, <1>4 DEF Ended
  <2>3. \A d \in Cancellers : can'[d].pc = "record" => can'[d].run \in Unended
    BY <1>1, <1>3, <1>7 DEF Ended
  <2> QED BY <1>4, <1>6, <2>1, <2>2, <2>3 DEF Ended, RunOf
<1>15. Keyed'
  <2>1. \A s \in Runs : jobs'[s].status = "queued" => jobs[s].status = "queued"
    BY <1>2, <1>7
  <2>2. /\ \A p \in Requests : target[p] \in Runs
        /\ \A i \in DOMAIN pool : target[pool[i]] \in Runs
    BY <1>j, ElementOfSeq
  <2> QED BY <1>4, <2>1, <2>2 DEF Keyed, RunOf
<1> QED BY <1>2, <1>9, <1>10, <1>11, <1>12, <1>13, <1>14, <1>15 DEF RParts

\* Each step of a cancel thread preserves the retained invariant's parts.
LEMMA RetainedCancel ==
    ASSUME Retained, RInv, NEW c \in Cancellers,
           (\E r \in Runs : CancelGuard(c, r)) \/ CancelStep(c)
    PROVE  RParts'
<1> USE NoneAssumption DEF RInv
<1>j. /\ jobs \in JobType /\ target \in [Requests -> Runs] /\ keys \in [Runs -> Requests \cup {None}]
      /\ can \in [Cancellers -> [pc : CancellerPcs, run : Runs \cup {None}]]
      /\ events \in [Runs -> Seq(EventNames)]
      /\ work \in WorkType /\ pool \in Seq(Requests) /\ DOMAIN pool = 1..Len(pool)
      /\ JobOwner /\ Busy
  BY LenProperties DEF IInv, TypeOK, JobType, WorkType
<1>1. ASSUME NEW r \in Runs, CancelGuard(c, r) PROVE RParts'
  <2>1. /\ UNCHANGED <<jobs, requested, committed, order, pool, pc, target, work, keys, got, events, manifest>>
        /\ can'[c] = [pc |-> "request", run |-> r]
        /\ \A d \in Cancellers : d # c => can'[d] = can[d]
        /\ jobs[r].status # "absent"
    BY <1>1, <1>j DEF CancelGuard, Recorded, regVars, reqVars, keyVars, diskVars
  <2>2. Unended' = Unended /\ EndsOnce' = EndsOnce
    BY <2>1 DEF Unended, EndsOnce
  <2>3. Settled' /\ Owned' /\ Executing' /\ Latched' /\ Recorded' /\ Keyed'
    BY <2>1 DEF Settled, Owned, Executing, Latched, Recorded, Keyed, RunOf
  <2>4. Answered'
    BY <2>1 DEF Answered, RunOf
  <2>5. Ended'
    BY <2>1, <2>2 DEF Ended, RunOf
  <2> QED BY <2>3, <2>4, <2>5 DEF RParts
<1>2. CASE RequestCancel(c)
  <2>1. CASE Grantable(can[c].run)
    BY <1>2, <2>1, RetainedGrant
  <2>2. CASE ~Grantable(can[c].run)
    <3>1. /\ UNCHANGED <<jobs, requested, committed, order, pool, pc, target, work, keys, got, events, manifest>>
          /\ can'[c].pc = "discard" /\ can'[c].run = can[c].run /\ can[c].pc = "request"
          /\ \A d \in Cancellers : d # c => can'[d] = can[d]
      BY <1>2, <1>j, <2>2 DEF RequestCancel, reqVars, keyVars, diskVars
    <3>2. Unended' = Unended /\ EndsOnce' = EndsOnce
      BY <3>1 DEF Unended, EndsOnce
    <3>3. Settled' /\ Owned' /\ Executing' /\ Latched' /\ Recorded' /\ Keyed'
      BY <3>1 DEF Settled, Owned, Executing, Latched, Recorded, Keyed, RunOf
    <3>4. LET r == can[c].run IN
          /\ jobs[r].status \notin {"absent", "queued"}
          /\ jobs[r].status \in Terminal \/ jobs[r].req \in requested \cup committed
      <4>1. can[c].run \in Runs /\ jobs[can[c].run].status # "absent"
        BY <1>j, <3>1 DEF Busy, Answered
      <4> QED BY <1>j, <2>2, <4>1 DEF Grantable, Latched, JobType, Live
    <3>5. Answered'
      BY <3>1, <3>4 DEF Answered, RunOf
    <3>6. Ended'
      BY <3>1, <3>2 DEF Ended, RunOf
    <3> QED BY <3>3, <3>5, <3>6 DEF RParts
  <2> QED BY <2>1, <2>2
<1>3. CASE RecordCancelled(c)
  <2> DEFINE r == can[c].run
  <2>1. /\ UNCHANGED <<jobs, requested, committed, order, pool, pc, target, work, keys, got, manifest>>
        /\ AppendAbsorbed(r, "run_cancelled") /\ can[c].pc = "record"
        /\ can'[c].pc = "discard" /\ can'[c].run = r
        /\ \A d \in Cancellers : d # c => can'[d] = can[d]
    BY <1>3, <1>j DEF RecordCancelled, regVars, reqVars, keyVars
  <2>2. /\ r \in Runs /\ r \in Unended /\ jobs[r].status = "cancelled" /\ "run_cancelled" \in EventNames
        /\ \A w \in Workers : work[w].pc # "idle" => RunOf(w) # r /\ RunOf(w) \in Runs
        /\ \A d \in Cancellers : d # c /\ can[d].pc = "record" => can[d].run # r /\ can[d].run \in Runs
    BY <1>j, <2>1 DEF Busy, Ended, Answered, EventNames, TerminalEvents, RunOf
  <2>3. /\ \A s \in Runs : s # r => (s \in Unended => s \in Unended')
        /\ \A s \in Runs : s \in EndsOnce'
    BY <1>j, <2>1, <2>2, EventEffect DEF Ended
  <2>4. Settled' /\ Owned' /\ Executing' /\ Latched' /\ Recorded' /\ Keyed'
    BY <2>1 DEF Settled, Owned, Executing, Latched, Recorded, Keyed, RunOf
  <2>5. Answered'
    BY <2>1, <2>2 DEF Answered, RunOf, Terminal
  <2>u. UNCHANGED <<jobs, requested, committed, target, work>>
    BY <2>1
  <2>6. Ended'
    <3>1. \A s \in Runs : s \in EndsOnce' /\ (jobs'[s].status \in {"absent", "queued"} => s \in Unended')
      BY <2>2, <2>3, <2>u DEF Ended
    <3>2. \A w \in Workers :
            /\ work'[w].pc \in Pipeline =>
                  \/ RunOf(w)' \in Unended'
                  \/ /\ work'[w].pc \in {"materialize", "respond", "drop", "finish"}
                     /\ work'[w].req \in committed' /\ work'[w].req \notin requested'
            /\ work'[w].pc = "hook" => RunOf(w)' \in Unended'
      <4>1. \A w \in Workers : RunOf(w)' = RunOf(w)
        BY <2>u DEF RunOf
      <4> QED BY <2>2, <2>3, <2>u, <4>1 DEF Ended, Pipeline
    <3>3. \A d \in Cancellers : can'[d].pc = "record" => can'[d].run \in Unended'
      BY <2>1, <2>2, <2>3 DEF Ended
    <3> QED BY <3>1, <3>2, <3>3 DEF Ended
  <2> QED BY <2>4, <2>5, <2>6 DEF RParts
<1>4. CASE CancelDiscardKeys(c)
  <2> DEFINE r == can[c].run
  <2>1. /\ UNCHANGED <<jobs, requested, committed, order, pool, pc, target, work, got, events, manifest>>
        /\ can[c].pc = "discard" /\ can'[c] = IdleCanceller
        /\ \A d \in Cancellers : d # c => can'[d] = can[d]
    BY <1>4, <1>j DEF CancelDiscardKeys, regVars, reqVars, diskVars
  <2>2. \A s \in Runs : s # r => keys'[s] = keys[s]
    BY <1>4, <1>j DEF CancelDiscardKeys, DiscardKeys
  <2>3. Unended' = Unended /\ EndsOnce' = EndsOnce
    BY <2>1 DEF Unended, EndsOnce
  <2>4. Settled' /\ Owned' /\ Executing' /\ Latched' /\ Recorded'
    BY <2>1 DEF Settled, Owned, Executing, Latched, Recorded, RunOf
  <2>5. Answered'
    BY <2>1 DEF Answered, IdleCanceller, RunOf
  <2>6. Ended'
    BY <2>1, <2>3 DEF Ended, IdleCanceller, RunOf
  <2>7. Keyed'
    <3>1. r \in Runs /\ jobs[r].status # "queued"
          /\ (jobs[r].status \in Terminal \/ jobs[r].req \in requested \cup committed)
      BY <1>j, <2>1 DEF Busy, Answered
    <3>2. /\ \A p \in Requests : target[p] \in Runs
          /\ \A i \in DOMAIN pool : target[pool[i]] \in Runs
      BY <1>j, ElementOfSeq
    <3>3. \A w \in Workers : work[w].pc = "begun" /\ work[w].req \notin requested =>
              RunOf(w) # r /\ RunOf(w) \in Runs
      <4>1. \A w \in Workers : work[w].pc = "begun" =>
                /\ RunOf(w) \in Runs /\ jobs[RunOf(w)].req = work[w].req
                /\ work[w].req \notin committed
                /\ jobs[RunOf(w)].status \in {"running", "cancelling"}
        BY <1>j DEF Busy, RunOf, Owned, Latched, Executing, Pipeline
      <4> QED BY <3>1, <4>1 DEF Terminal
    <3> HIDE DEF r
    <3>4. \A w \in Workers : RunOf(w)' = RunOf(w)
      BY <2>1 DEF RunOf
    <3> QED BY <2>1, <2>2, <3>1, <3>2, <3>3, <3>4 DEF Keyed
  <2> QED BY <2>4, <2>5, <2>6, <2>7 DEF RParts
<1> QED BY <1>1, <1>2, <1>3, <1>4 DEF CancelStep

\* What the invariant says of a busy worker, its run and the workers beside it.
LEMMA BusyWorker ==
    ASSUME RInv, NEW w \in Workers, work[w].pc # "idle"
    PROVE  /\ RunOf(w) \in Runs /\ work[w].req \in Requests /\ jobs[RunOf(w)].req = work[w].req
           /\ jobs[RunOf(w)].status \in {"running", "cancelling", "cancelled"}
           /\ work[w].pc \in Pipeline => jobs[RunOf(w)].status \in {"running", "cancelling"}
           /\ \A s \in Runs : jobs[s].req = work[w].req => s = RunOf(w)
           /\ \A v \in Workers : v # w /\ work[v].pc # "idle" =>
                 work[v].req # work[w].req /\ RunOf(v) # RunOf(w) /\ RunOf(v) \in Runs
<1> USE NoneAssumption DEF RInv
<1>1. /\ target \in [Requests -> Runs] /\ JobOwner /\ work \in WorkType
      /\ \A v \in Workers : work[v].pc # "idle" => work[v].req \in Requests
  BY DEF IInv, TypeOK, WorkType, Busy
<1>2. \A v \in Workers : work[v].pc # "idle" => RunOf(v) \in Runs /\ jobs[RunOf(v)].req = work[v].req
  BY <1>1 DEF RunOf, Owned
<1>3. work[w].pc \in Pipeline \cup {"hook"}
  BY <1>1 DEF WorkType, WorkerPcs, Pipeline
<1>4. \A s \in Runs : jobs[s].req = work[w].req => s = RunOf(w)
  BY <1>1 DEF JobOwner, RunOf
<1> QED BY <1>1, <1>2, <1>3, <1>4 DEF Executing

\* A worker that moves on within a run leaves the registry, the submissions and the cancel
\* threads as they are.
LEMMA PipelineMove ==
    ASSUME RInv, NEW w \in Workers, work[w].pc \in Pipeline,
           UNCHANGED <<jobs, requested, order, pool, pc, target, can>>, committed \subseteq committed',
           \A v \in Workers : v # w => work'[v] = work[v],
           work'[w].req = work[w].req, work'[w].tok = work[w].req, work'[w].pc \in Pipeline
    PROVE  Settled' /\ Owned' /\ Executing' /\ Answered'
<1> USE DEF RInv
<1>1. \A v \in Workers : /\ RunOf(v)' = RunOf(v) /\ work'[v].req = work[v].req
                         /\ work'[v].pc # "idle" <=> work[v].pc # "idle"
  BY DEF RunOf, Pipeline
<1>2. work[w].pc # "idle" /\ work[w].pc # "hook" /\ work'[w].pc # "hook"
  BY DEF Pipeline
<1>3. Settled'
  BY DEF Settled
<1>4. Owned'
  <2>1. \A v \in Workers : work'[v].pc # "idle" =>
            /\ jobs[RunOf(v)].req = work[v].req
            /\ work'[v].pc # "begun" => work'[v].tok = work[v].req
    BY <1>1 DEF Owned
  <2> QED BY <1>1, <2>1 DEF Owned
<1>5. Executing'
  <2>1. \A v \in Workers :
          /\ work'[v].pc \in Pipeline => jobs[RunOf(v)].status \in {"running", "cancelling"}
          /\ work'[v].pc = "hook" => jobs[RunOf(v)].status = "cancelled"
    BY <1>1, <1>2 DEF Executing
  <2> QED BY <1>1, <2>1 DEF Executing
<1>6. Answered'
  BY <1>1 DEF Answered
<1> QED BY <1>3, <1>4, <1>5, <1>6

\* The parts of Latched, Recorded and Ended that speak of one worker's progress.
OnTrack(w) ==
    /\ work[w].pc \in {"begun", "prepare", "sources", "commit"} => work[w].req \notin committed
    /\ work[w].pc = "commit" /\ work[w].res = "cancelled" => work[w].req \in requested
    /\ work[w].pc \in {"record", "materialize", "respond"} =>
          IF work[w].res = "cancelled" THEN work[w].req \in requested
          ELSE work[w].req \in committed /\ work[w].req \notin requested
    /\ work[w].pc \in {"begun", "prepare", "sources", "commit", "record", "materialize"} =>
          manifest[RunOf(w)] = "none"
    /\ work[w].pc \in {"respond", "drop", "finish"} /\ ~work[w].fail => manifest[RunOf(w)] = "ok"
    /\ work[w].pc \in Pipeline =>
          \/ RunOf(w) \in Unended
          \/ /\ work[w].pc \in {"materialize", "respond", "drop", "finish"}
             /\ work[w].req \in committed /\ work[w].req \notin requested
    /\ work[w].pc = "hook" => RunOf(w) \in Unended

\* A step of one worker, on its own run's latch, manifest and log, disturbs no other worker.
LEMMA OtherWorkers ==
    ASSUME RInv, NEW w \in Workers, work[w].pc # "idle", UNCHANGED <<requested, target>>,
           \A v \in Workers : v # w => work'[v] = work[v],
           committed' \in {committed, committed \cup {work[w].req}},
           \A s \in Runs : s # RunOf(w) =>
               /\ manifest'[s] = manifest[s]
               /\ s \in Unended => s \in Unended',
           NEW v \in Workers, v # w
    PROVE  OnTrack(v)'
<1> USE DEF RInv
<1>1. RunOf(v)' = RunOf(v) /\ work'[v] = work[v]
  BY DEF RunOf
<1>2. work[v].pc # "idle" =>
          /\ RunOf(v) \in Runs /\ RunOf(v) # RunOf(w)
          /\ work[v].req \in committed' <=> work[v].req \in committed
  BY BusyWorker
<1>3. work[v].pc # "idle" => manifest'[RunOf(v)] = manifest[RunOf(v)]
                             /\ (RunOf(v) \in Unended => RunOf(v) \in Unended')
  BY <1>2
<1>4. /\ work[v].pc \in {"begun", "prepare", "sources", "commit"} => work[v].req \notin committed'
      /\ work[v].pc = "commit" /\ work[v].res = "cancelled" => work[v].req \in requested
      /\ work[v].pc \in {"record", "materialize", "respond"} =>
            IF work[v].res = "cancelled" THEN work[v].req \in requested
            ELSE work[v].req \in committed' /\ work[v].req \notin requested
  BY <1>2 DEF Latched
<1>5. /\ work[v].pc \in {"begun", "prepare", "sources", "commit", "record", "materialize"} =>
            manifest'[RunOf(v)] = "none"
      /\ work[v].pc \in {"respond", "drop", "finish"} /\ ~work[v].fail => manifest'[RunOf(v)] = "ok"
  BY <1>3 DEF Recorded
<1>6. /\ work[v].pc \in Pipeline =>
            \/ RunOf(v) \in Unended'
            \/ /\ work[v].pc \in {"materialize", "respond", "drop", "finish"}
               /\ work[v].req \in committed' /\ work[v].req \notin requested
      /\ work[v].pc = "hook" => RunOf(v) \in Unended'
  BY <1>2, <1>3 DEF Ended, Pipeline
<1> QED BY <1>1, <1>4, <1>5, <1>6 DEF OnTrack

\* A worker's step within its run preserves every part but Keyed when it keeps the worker on
\* track, writes a manifest the latches allow and leaves one terminal event at most.
LEMMA PipelineParts ==
    ASSUME RInv, NEW w \in Workers, work[w].pc \in Pipeline,
           UNCHANGED <<jobs, requested, order, pool, pc, target, can>>,
           \A v \in Workers : v # w => work'[v] = work[v],
           work'[w].req = work[w].req, work'[w].tok = work[w].req, work'[w].pc \in Pipeline,
           committed' \in {committed, committed \cup {work[w].req}},
           \A s \in Runs : s # RunOf(w) =>
               /\ manifest'[s] = manifest[s]
               /\ s \in Unended => s \in Unended',
           manifest'[RunOf(w)] \in {"ok", "failed"} =>
               work[w].req \in committed' /\ work[w].req \notin requested,
           manifest'[RunOf(w)] = "cancelled" => work[w].req \in requested,
           \A s \in Runs : s \in EndsOnce',
           OnTrack(w)'
    PROVE  Settled' /\ Owned' /\ Executing' /\ Latched' /\ Answered' /\ Recorded' /\ Ended'
<1> USE DEF RInv
<1> DEFINE r == RunOf(w)
<1>1. /\ work[w].pc # "idle" /\ r \in Runs /\ jobs[r].req = work[w].req
      /\ jobs[r].status \in {"running", "cancelling"}
      /\ \A s \in Runs : jobs[s].req = work[w].req => s = r
  BY BusyWorker DEF Pipeline
<1>2. Settled' /\ Owned' /\ Executing' /\ Answered'
  BY PipelineMove
<1>3. \A v \in Workers : OnTrack(v)'
  BY <1>1, OtherWorkers
<1>4. \A q \in Requests : pc[q] \in {"idle", "create"} => q # work[w].req
  BY <1>1 DEF IInv, FreshLatch
<1>5. Latched'
  <2>1. \A s \in Runs :
           /\ jobs[s].status = "queued" => jobs[s].req \notin committed'
           /\ jobs[s].status = "failed" => jobs[s].req \notin requested
    BY <1>1 DEF Latched
  <2>2. \A q \in Requests : pc[q] \in {"idle", "create"} => q \notin committed'
    BY <1>4 DEF Latched
  <2> QED BY <1>3, <2>1, <2>2 DEF Latched, OnTrack
<1> HIDE DEF r
<1>6. Recorded'
  <2>1. \A s \in Runs :
          /\ jobs[s].status \in {"absent", "queued"} => manifest'[s] = "none"
          /\ manifest'[s] \in {"ok", "failed"} => jobs[s].req \in committed' /\ jobs[s].req \notin requested
          /\ manifest'[s] = "cancelled" => jobs[s].req \in requested
          /\ jobs[s].status = "succeeded" => manifest'[s] = "ok"
    BY <1>1 DEF Recorded, r
  <2> QED BY <1>3, <2>1 DEF Recorded, OnTrack
<1>7. Ended'
  <2>1. \A s \in Runs : jobs[s].status \in {"absent", "queued"} => s \in Unended'
    BY <1>1 DEF Ended, r
  <2>2. \A c \in Cancellers : can[c].pc = "record" => can[c].run \in Unended'
    <3>1. \A c \in Cancellers : can[c].pc = "record" => can[c].run \in Runs /\ can[c].run # r
      BY <1>1 DEF Answered, IInv, Busy
    <3> QED BY <3>1 DEF Ended, r
  <2> QED BY <1>3, <2>1, <2>2 DEF Ended, OnTrack
<1> QED BY <1>2, <1>5, <1>6, <1>7

\* A step that leaves the keys alone, of a worker that has taken its own, keeps them delivered.
LEMMA KeyedMove ==
    ASSUME RInv, NEW w \in Workers, work[w].pc \in Pipeline \ {"begun"},
           UNCHANGED <<jobs, requested, pool, pc, target, keys, got>>,
           \A v \in Workers : v # w => work'[v] = work[v],
           work'[w].req = work[w].req, work'[w].pc # "begun"
    PROVE  Keyed'
<1>1. \A v \in Workers : RunOf(v)' = RunOf(v)
  BY DEF RunOf
<1>2. /\ \A v \in Workers : work'[v].req = work[v].req
      /\ \A v \in Workers : work'[v].pc = "begun" => work[v].pc = "begun"
      /\ \A v \in Workers : work'[v].pc \in Pipeline \ {"begun"} /\ v # w =>
            work[v].pc \in Pipeline \ {"begun"}
  OBVIOUS
<1> QED BY <1>1, <1>2 DEF RInv, Keyed

\* A worker's steps between taking its keys and finishing preserve the retained invariant's parts.
LEMMA RetainedPipeline ==
    ASSUME RInv, NEW w \in Workers,
           \/ TakeKeys(w) \/ StartPipeline(w) \/ RunSources(w) \/ Commit(w) \/ RecordOutcome(w)
           \/ WriteManifest(w) \/ Respond(w) \/ DropKeys(w)
    PROVE  RParts'
<1> USE NoneAssumption DEF RInv
<1> DEFINE r == RunOf(w)
           q == work[w].req
<1>j. /\ work \in WorkType /\ keys \in [Runs -> Requests \cup {None}]
      /\ manifest \in [Runs -> RunStatuses \cup {"none"}]
      /\ events \in [Runs -> Seq(EventNames)] /\ target \in [Requests -> Runs]
      /\ pool \in Seq(Requests) /\ DOMAIN pool = 1..Len(pool) /\ Busy
  BY LenProperties DEF IInv, TypeOK, WorkType
<1>p. work[w].pc \in Pipeline
  BY DEF TakeKeys, StartPipeline, RunSources, Commit, RecordOutcome, WriteManifest, Respond, DropKeys, Pipeline
<1>b. /\ work[w].pc # "idle" /\ r \in Runs /\ q \in Requests /\ jobs[r].req = q
      /\ jobs[r].status \in {"running", "cancelling"}
      /\ work[w].pc # "begun" => work[w].tok = q
  BY <1>p, BusyWorker DEF Owned, Pipeline
<1>v. /\ \A v \in Workers : v # w => work'[v] = work[v]
      /\ work'[w].req = q /\ work'[w].tok = q /\ work'[w].pc \in Pipeline \ {"begun"}
  BY <1>j, <1>b DEF TakeKeys, StartPipeline, RunSources, Commit, RecordOutcome, WriteManifest, Respond,
     DropKeys, Pipeline, WorkType
<1>u. UNCHANGED <<jobs, requested, order, pool, pc, target, can>> /\ r' = r
  BY <1>v DEF TakeKeys, StartPipeline, RunSources, Commit, RecordOutcome, WriteManifest, Respond, DropKeys,
     regVars, reqVars, RunOf
<1>e. \A s \in Runs : s \in EndsOnce
  BY DEF Ended
<1>m. /\ manifest[r] \in {"ok", "failed"} => q \in committed /\ q \notin requested
      /\ manifest[r] = "cancelled" => q \in requested
  BY <1>b DEF Recorded
<1>o. OnTrack(w)
  BY <1>p DEF Latched, Recorded, Ended, OnTrack
<1> DEFINE Still == UNCHANGED <<manifest, events>>
<1>s. ASSUME Still PROVE Unended' = Unended /\ EndsOnce' = EndsOnce
  BY <1>s DEF Unended, EndsOnce
<1>d. ASSUME \A s \in Runs : s # r => keys'[s] = keys[s],
             work[w].pc = "begun" => (q \in requested \/ q \in got'), got \subseteq got'
      PROVE  Keyed'
  <2>1. /\ \A p \in Requests : target[p] \in Runs
        /\ \A i \in DOMAIN pool : target[pool[i]] \in Runs
    BY <1>j, ElementOfSeq
  <2>2. \A v \in Workers : v # w /\ work[v].pc # "idle" => RunOf(v) # r /\ RunOf(v) \in Runs
    BY <1>b, BusyWorker
  <2>3. \A v \in Workers : RunOf(v)' = RunOf(v)
    BY <1>u, <1>v DEF RunOf
  <2> HIDE DEF r, q
  <2>4. MultiUser => /\ \A p \in Requests : pc[p] = "enqueue" /\ jobs[target[p]].status = "queued" => keys'[target[p]] = p
                     /\ \A i \in DOMAIN pool : jobs[target[pool[i]]].status = "queued" => keys'[target[pool[i]]] = pool[i]
    BY <1>b, <1>d, <2>1 DEF Keyed
  <2>5. MultiUser => \A v \in Workers : v # w /\ work[v].req \notin requested =>
              /\ work[v].pc = "begun" => keys'[RunOf(v)] = work[v].req
              /\ work[v].pc \in Pipeline \ {"begun"} => work[v].req \in got'
    BY <1>d, <2>2 DEF Keyed
  <2>6. MultiUser => (q \notin requested => q \in got')
    BY <1>d, <1>p DEF Keyed, q
  <2> QED BY <1>u, <1>v, <2>3, <2>4, <2>5, <2>6 DEF Keyed
<1> HIDE DEF r, q, Still
<1>1. CASE TakeKeys(w)
  <2>1. /\ work[w].pc = "begun" /\ work'[w].pc = "prepare"
        /\ got' = IF keys[r] # None /\ keys[r] = jobs[r].req THEN got \cup {keys[r]} ELSE got
        /\ keys' = [keys EXCEPT ![r] = None]
        /\ Still /\ UNCHANGED committed
    BY <1>1, <1>j DEF TakeKeys, DiscardKeys, regVars, diskVars, WorkType, r, Still
  <2>2. OnTrack(w)'
    BY <1>o, <1>s, <1>u, <1>v, <2>1 DEF OnTrack, Pipeline, Still, r, q
  <2>3. Settled' /\ Owned' /\ Executing' /\ Latched' /\ Answered' /\ Recorded' /\ Ended'
    BY <1>p, <1>v, <1>u, <1>e, <1>m, <1>s, <2>1, <2>2, PipelineParts DEF Still, r, q
  <2>4. MultiUser /\ q \notin requested => q \in got'
    BY <1>b, <2>1 DEF Keyed, r, q
  <2>5. Keyed'
    <3>1. CASE MultiUser
      BY <1>d, <1>j, <2>1, <2>4, <3>1
    <3>2. CASE ~MultiUser
      BY <3>2 DEF Keyed
    <3> QED BY <3>1, <3>2
  <2> QED BY <2>3, <2>5 DEF RParts
<1>2. CASE StartPipeline(w)
  <2>1. /\ work[w].pc = "prepare"
        /\ Still \/ (UNCHANGED manifest /\ AppendAbsorbed(r, "run_started"))
        /\ work'[w].pc = "sources" \/ (work'[w].pc = "drop" /\ work'[w].fail)
        /\ UNCHANGED <<committed, keys, got>>
    BY <1>2, <1>j DEF StartPipeline, regVars, keyVars, WorkType, r, Still
  <2>2. \A s \in Runs : (s \in Unended => s \in Unended') /\ s \in EndsOnce'
    <3>1. CASE Still
      BY <1>e, <1>s, <3>1
    <3>2. CASE AppendAbsorbed(r, "run_started")
      <4>1. "run_started" \in EventNames /\ "run_started" \notin TerminalEvents
        BY DEF EventNames, TerminalEvents
      <4> QED BY <1>e, <1>b, <1>j, <3>2, <4>1, EventEffect
    <3> QED BY <2>1, <3>1, <3>2
  <2>3. UNCHANGED manifest /\ work[w].pc = "prepare"
    BY <1>2, <2>1 DEF StartPipeline, Still
  <2>4. OnTrack(w)'
    <3>1. r \in Unended'
      BY <1>o, <1>b, <2>2, <2>3 DEF OnTrack, Pipeline, r
    <3> QED BY <1>o, <1>u, <1>v, <2>1, <2>3, <3>1 DEF OnTrack, r, q
  <2>5. Settled' /\ Owned' /\ Executing' /\ Latched' /\ Answered' /\ Recorded' /\ Ended'
    BY <1>p, <1>v, <1>u, <1>m, <2>1, <2>2, <2>3, <2>4, PipelineParts DEF r, q
  <2>6. Keyed'
    BY <1>d, <2>1, <2>3
  <2> QED BY <2>5, <2>6 DEF RParts
<1>3. CASE RunSources(w)
  <2>1. /\ work[w].pc = "sources"
        /\ \/ work'[w].pc = "commit" /\ (work'[w].res = "cancelled" => q \in requested)
           \/ work'[w].pc = "drop" /\ work'[w].fail
        /\ Still /\ UNCHANGED <<committed, keys, got>>
    BY <1>3, <1>j, <1>b DEF RunSources, regVars, keyVars, diskVars, WorkType, q, Still
  <2>2. OnTrack(w)'
    BY <1>o, <1>s, <1>u, <1>v, <2>1 DEF OnTrack, Pipeline, Still, r, q
  <2>3. Settled' /\ Owned' /\ Executing' /\ Latched' /\ Answered' /\ Recorded' /\ Ended'
    BY <1>p, <1>v, <1>u, <1>e, <1>m, <1>s, <2>1, <2>2, PipelineParts DEF Still, r, q
  <2>4. Keyed'
    BY <1>d, <2>1
  <2> QED BY <2>3, <2>4 DEF RParts
<1>4. CASE Commit(w)
  <2>1. /\ work[w].pc = "commit" /\ work'[w].pc = "record"
        /\ committed' = IF work[w].res # "cancelled" /\ q \notin requested THEN committed \cup {q} ELSE committed
        /\ IF work[w].res # "cancelled" /\ q \notin requested THEN work'[w].res \in {work[w].res, "failed"}
           ELSE work'[w].res = "cancelled"
        /\ Still /\ UNCHANGED <<keys, got>>
    <3>1. work[w].pc = "commit" /\ work[w].tok = q
      BY <1>4, <1>b DEF Commit
    <3>2. PICK st \in IF work[w].res # "cancelled" /\ q \notin requested THEN {work[w].res, "failed"} ELSE {"cancelled"} :
              work' = [work EXCEPT ![w].pc = "record", ![w].res = st]
      BY <1>4, <3>1 DEF Commit
    <3>3. work'[w].pc = "record" /\ work'[w].res = st
      BY <1>j, <3>2 DEF WorkType
    <3>4. committed' = IF work[w].res # "cancelled" /\ q \notin requested THEN committed \cup {q} ELSE committed
      BY <1>4, <3>1 DEF Commit
    <3>5. Still /\ UNCHANGED <<keys, got>>
      BY <1>4 DEF Commit, keyVars, diskVars, Still
    <3>6. IF work[w].res # "cancelled" /\ q \notin requested THEN work'[w].res \in {work[w].res, "failed"}
          ELSE work'[w].res = "cancelled"
      BY <3>2, <3>3
    <3> QED BY <3>1, <3>3, <3>4, <3>5, <3>6
  <2>2. OnTrack(w)'
    BY <1>o, <1>s, <1>u, <1>v, <2>1 DEF OnTrack, Pipeline, Still, r, q
  <2>3. committed' \in {committed, committed \cup {q}}
    BY <2>1
  <2>4. Settled' /\ Owned' /\ Executing' /\ Latched' /\ Answered' /\ Recorded' /\ Ended'
    BY <1>p, <1>v, <1>u, <1>e, <1>m, <1>s, <2>1, <2>2, <2>3, PipelineParts DEF Still, r, q
  <2>5. Keyed'
    BY <1>d, <2>1
  <2> QED BY <2>4, <2>5 DEF RParts
<1>5. CASE RecordOutcome(w)
  <2>1. /\ work[w].pc = "record" /\ work'[w].pc = "materialize"
        /\ UNCHANGED <<committed, manifest, keys, got>>
    BY <1>5, <1>j DEF RecordOutcome, regVars, keyVars, WorkType
  <2>2. /\ r \in Unended /\ manifest[r] = "none" /\ work'[w].res = work[w].res
        /\ IF work[w].res = "cancelled" THEN q \in requested ELSE q \in committed /\ q \notin requested
    BY <1>5, <1>j, <1>o, <2>1 DEF RecordOutcome, OnTrack, Pipeline, WorkType, r, q
  <2>3. /\ \A s \in Runs : s # r => (s \in Unended => s \in Unended')
        /\ \A s \in Runs : s \in EndsOnce'
        /\ work[w].res = "cancelled" => r \in Unended'
    <3>1. CASE UNCHANGED events
      BY <1>e, <1>s, <2>1, <2>2, <3>1 DEF Still
    <3>2. CASE work[w].res # "cancelled" /\ ~UNCHANGED events
      <4>1. PICK e \in {"run_finished", "run_failed"} : AppendAbsorbed(r, e)
        BY <1>5, <3>2 DEF RecordOutcome, r
      <4>2. e \in EventNames
        BY <4>1 DEF EventNames, TerminalEvents
      <4> QED BY <1>e, <1>b, <1>j, <2>2, <3>2, <4>1, <4>2, EventEffect
    <3> QED BY <1>5, <3>1, <3>2 DEF RecordOutcome
  <2>4. OnTrack(w)'
    BY <1>u, <1>v, <2>1, <2>2, <2>3 DEF OnTrack, Pipeline, r, q
  <2>5. Settled' /\ Owned' /\ Executing' /\ Latched' /\ Answered' /\ Recorded' /\ Ended'
    BY <1>p, <1>v, <1>u, <1>m, <2>1, <2>3, <2>4, PipelineParts DEF r, q
  <2>6. Keyed'
    BY <1>d, <2>1
  <2> QED BY <2>5, <2>6 DEF RParts
<1>6. CASE WriteManifest(w)
  <2>1. /\ work[w].pc = "materialize"
        /\ \/ /\ work'[w].pc = "respond" /\ manifest' = [manifest EXCEPT ![r] = work[w].res]
              /\ work'[w].res = work[w].res /\ (~work'[w].fail => work[w].res = "ok")
           \/ work'[w].pc = "drop" /\ work'[w].fail /\ UNCHANGED manifest
        /\ UNCHANGED <<committed, events, keys, got>>
    BY <1>6, <1>j DEF WriteManifest, regVars, keyVars, WorkType, r
  <2>2. /\ IF work[w].res = "cancelled" THEN q \in requested ELSE q \in committed /\ q \notin requested
        /\ r \in Unended \/ (q \in committed /\ q \notin requested)
        /\ manifest[r] = "none"
    BY <1>o, <2>1 DEF OnTrack, Pipeline, r, q
  <2>3. Unended' = Unended /\ EndsOnce' = EndsOnce
    BY <2>1 DEF Unended, EndsOnce
  <2>4. /\ \A s \in Runs : s # r => manifest'[s] = manifest[s]
        /\ manifest'[r] = work[w].res \/ manifest'[r] = "none"
        /\ work'[w].pc = "respond" => manifest'[r] = work[w].res
    BY <1>b, <1>j, <2>1, <2>2
  <2>5. OnTrack(w)'
    BY <1>u, <1>v, <2>1, <2>2, <2>3, <2>4 DEF OnTrack, Pipeline, r, q
  <2>6. Settled' /\ Owned' /\ Executing' /\ Latched' /\ Answered' /\ Recorded' /\ Ended'
    BY <1>p, <1>v, <1>u, <1>e, <2>1, <2>2, <2>3, <2>4, <2>5, PipelineParts DEF r, q
  <2>7. Keyed'
    BY <1>d, <2>1
  <2> QED BY <2>6, <2>7 DEF RParts
<1>7. CASE Respond(w)
  <2>1. /\ work[w].pc = "respond" /\ work'[w].pc = "drop" /\ (work'[w].fail = work[w].fail \/ work'[w].fail = TRUE)
        /\ Still /\ UNCHANGED <<committed, keys, got>>
    <3>1. \/ work' = [work EXCEPT ![w].pc = "drop"]
          \/ work' = [work EXCEPT ![w].pc = "drop", ![w].fail = TRUE]
      BY <1>7 DEF Respond
    <3>2. CASE work' = [work EXCEPT ![w].pc = "drop"]
      <4>1. work'[w] = [work[w] EXCEPT !.pc = "drop"]
        BY <1>j, <3>2 DEF WorkType
      <4>2. work'[w].pc = "drop" /\ work'[w].fail = work[w].fail
        BY <1>j, <4>1 DEF WorkType
      <4> QED BY <1>7, <4>2 DEF Respond, regVars, keyVars, Still
    <3>3. CASE work' = [work EXCEPT ![w].pc = "drop", ![w].fail = TRUE]
      <4>1. work'[w].pc = "drop" /\ work'[w].fail = TRUE
        BY <1>j, <3>3 DEF WorkType
      <4> QED BY <1>7, <4>1 DEF Respond, regVars, keyVars, Still
    <3> QED BY <3>1, <3>2, <3>3
  <2>2. OnTrack(w)'
    BY <1>o, <1>s, <1>u, <1>v, <2>1 DEF OnTrack, Pipeline, Still, r, q
  <2>3. Settled' /\ Owned' /\ Executing' /\ Latched' /\ Answered' /\ Recorded' /\ Ended'
    BY <1>p, <1>v, <1>u, <1>e, <1>m, <1>s, <2>1, <2>2, PipelineParts DEF Still, r, q
  <2>4. Keyed'
    BY <1>d, <2>1
  <2> QED BY <2>3, <2>4 DEF RParts
<1>8. CASE DropKeys(w)
  <2>1. /\ work[w].pc = "drop" /\ work'[w].pc = "finish" /\ work'[w].fail = work[w].fail
        /\ keys' = [keys EXCEPT ![r] = None]
        /\ Still /\ UNCHANGED <<committed, got>>
    BY <1>8, <1>j DEF DropKeys, DiscardKeys, regVars, diskVars, WorkType, r, Still
  <2>2. OnTrack(w)'
    BY <1>o, <1>s, <1>u, <1>v, <2>1 DEF OnTrack, Pipeline, Still, r, q
  <2>3. Settled' /\ Owned' /\ Executing' /\ Latched' /\ Answered' /\ Recorded' /\ Ended'
    BY <1>p, <1>v, <1>u, <1>e, <1>m, <1>s, <2>1, <2>2, PipelineParts DEF Still, r, q
  <2>4. Keyed'
    BY <1>d, <1>j, <2>1
  <2> QED BY <2>3, <2>4 DEF RParts
<1> QED BY <1>1, <1>2, <1>3, <1>4, <1>5, <1>6, <1>7, <1>8

\* Taking a work item: a job still queued becomes its worker's, and no worker has it yet.
LEMMA RetainedBegin ==
    ASSUME RInv, NEW w \in Workers, BeginRun(w)
    PROVE  RParts'
<1> USE NoneAssumption DEF RInv
<1> DEFINE q == Head(pool)
           r == target[q]
<1>j. /\ work \in WorkType /\ jobs \in JobType /\ target \in [Requests -> Runs]
      /\ pool \in Seq(Requests) /\ DOMAIN pool = 1..Len(pool) /\ order \in Seq(Runs)
      /\ JobOwner /\ Busy
  BY LenProperties DEF IInv, TypeOK, WorkType, JobType
<1>1. /\ work[w].pc = "idle" /\ pool # <<>> /\ pool' = Tail(pool)
      /\ UNCHANGED <<requested, committed, order, pc, target, can, keys, got, events, manifest>>
  BY DEF BeginRun, reqVars, keyVars, diskVars
<1>2. /\ q \in Requests /\ r \in Runs /\ jobs[r].req = q
      /\ \A i \in DOMAIN pool' : \E j \in DOMAIN pool : pool'[i] = pool[j]
      /\ \E j \in DOMAIN pool : pool[j] = q
  <2>1. Len(pool) \in Nat /\ Len(pool) > 0 /\ q = pool[1]
    BY <1>j, <1>1, EmptySeq, HeadTailProperties
  <2>2. DOMAIN pool' = 1..(Len(pool) - 1) /\ \A i \in DOMAIN pool' : pool'[i] = pool[i + 1]
    BY <1>j, <1>1, <2>1, HeadTailProperties
  <2>3. \A i \in DOMAIN pool' : \E j \in DOMAIN pool : pool'[i] = pool[j]
    <3> TAKE i \in DOMAIN pool'
    <3>1. i + 1 \in DOMAIN pool /\ pool'[i] = pool[i + 1]
      BY <1>j, <2>1, <2>2
    <3> QED BY <3>1
  <2>4. 1 \in DOMAIN pool /\ q \in Requests
    BY <1>j, <2>1, ElementOfSeq
  <2>5. r \in Runs /\ jobs[r].req = q
    BY <1>j, <2>1, <2>4 DEF Owned
  <2> QED BY <2>1, <2>3, <2>4, <2>5
<1>3. Unended' = Unended /\ EndsOnce' = EndsOnce
  BY <1>1 DEF Unended, EndsOnce
<1>4. \A j \in DOMAIN pool : pool[j] \in Requests /\ target[pool[j]] \in Runs
  BY <1>j, ElementOfSeq
<1> HIDE DEF q, r
<1>5. CASE UNCHANGED <<jobs, work>>
  <2>1. Settled' /\ Executing' /\ Latched' /\ Answered' /\ Recorded'
    BY <1>1, <1>5 DEF Settled, Executing, Latched, Answered, Recorded, RunOf
  <2>2. Owned' /\ Ended' /\ Keyed'
    BY <1>1, <1>2, <1>3, <1>5 DEF Owned, Ended, Keyed, RunOf
  <2> QED BY <2>1, <2>2 DEF RParts
<1>6. CASE ~UNCHANGED <<jobs, work>>
  <2>1. /\ jobs[r].status = "queued"
        /\ jobs' = [jobs EXCEPT ![r].status = "running"]
        /\ work' = [work EXCEPT ![w] = [IdleWorker EXCEPT !.pc = "begun", !.req = q]]
    BY <1>6 DEF BeginRun, q, r
  <2>2. /\ work'[w].pc = "begun" /\ work'[w].req = q /\ RunOf(w)' = r
        /\ \A v \in Workers : v # w => work'[v] = work[v] /\ RunOf(v)' = RunOf(v)
    BY <1>j, <1>1, <2>1 DEF WorkType, IdleWorker, RunOf, r
  <2>3. \A s \in Runs : /\ jobs'[s].req = jobs[s].req
                        /\ jobs'[s].status = IF s = r THEN "running" ELSE jobs[s].status
    BY <1>j, <2>1 DEF JobType
  <2>4. \A v \in Workers : work[v].pc # "idle" =>
            RunOf(v) \in Runs /\ RunOf(v) # r /\ work[v].req # q
    BY <1>2, <2>1, BusyWorker
  <2>5. manifest[r] = "none" /\ r \in Unended /\ q \notin committed
    BY <1>2, <2>1 DEF Recorded, Ended, Latched
  <2>6. Settled'
    <3>1. \A i \in DOMAIN order : order[i] \in Runs /\ order[i] # r
      BY <1>j, <2>1, ElementOfSeq DEF Settled, Terminal
    <3> QED BY <1>1, <2>3, <3>1 DEF Settled
  <2>7. Owned'
    <3>1. \A p \in Requests : pc[p] \in {"accept", "bind", "enqueue"} =>
              jobs'[target[p]].req = p /\ jobs'[target[p]].status \in {"queued", "cancelled"}
      <4>1. pc[q] = "done"
        BY <1>2 DEF Owned
      <4>2. \A p \in Requests : pc[p] \in {"accept", "bind", "enqueue"} => target[p] \in Runs /\ target[p] # r
        BY <1>j, <1>2, <4>1 DEF Owned
      <4> QED BY <2>3, <4>2 DEF Owned
    <3>2. \A i \in DOMAIN pool' : pc[pool'[i]] = "done" /\ jobs'[target[pool'[i]]].req = pool'[i]
      BY <1>2, <1>4, <2>3 DEF Owned
    <3>3. \A v \in Workers : work'[v].pc # "idle" =>
            /\ jobs'[RunOf(v)'].req = work'[v].req
            /\ work'[v].pc # "begun" => work'[v].tok = work'[v].req
      BY <1>2, <2>2, <2>3, <2>4 DEF Owned
    <3> QED BY <1>1, <3>1, <3>2, <3>3 DEF Owned
  <2>8. Executing'
    <3>1. \A v \in Workers :
          /\ work'[v].pc \in Pipeline => jobs'[RunOf(v)'].status \in {"running", "cancelling"}
          /\ work'[v].pc = "hook" => jobs'[RunOf(v)'].status = "cancelled"
      BY <1>2, <2>2, <2>3, <2>4 DEF Executing, Pipeline
    <3>2. \A u, v \in Workers :
              work'[u].pc # "idle" /\ work'[v].pc # "idle" /\ work'[u].req = work'[v].req => u = v
      BY <2>2, <2>4 DEF Executing
    <3> QED BY <3>1, <3>2 DEF Executing
  <2>9. Latched'
    <3>1. \A s \in Runs :
          /\ jobs'[s].status = "queued" => jobs'[s].req \notin committed
          /\ jobs'[s].status = "failed" => jobs'[s].req \notin requested
      BY <2>3 DEF Latched
    <3> QED BY <1>1, <2>2, <2>5, <3>1 DEF Latched
  <2>10. Answered'
    <3>1. \A c \in Cancellers : can[c].pc # "idle" => can[c].run \in Runs
      BY <1>j DEF Busy
    <3>2. \A c \in Cancellers : can[c].pc \in {"record", "discard"} => can[c].run # r
      BY <2>1 DEF Answered
    <3>3. \A c \in Cancellers :
          /\ can[c].pc # "idle" => jobs'[can[c].run].status # "absent"
          /\ can[c].pc \in {"record", "discard"} =>
                jobs'[can[c].run].status # "queued"
                /\ (jobs'[can[c].run].status \in Terminal \/ jobs'[can[c].run].req \in requested \cup committed)
          /\ can[c].pc = "record" => jobs'[can[c].run].status = "cancelled"
      BY <2>3, <3>1, <3>2 DEF Answered
    <3>4. \A c \in Cancellers : can[c].pc = "record" =>
              \A v \in Workers : work'[v].pc # "idle" => RunOf(v)' # can[c].run
      BY <2>2, <3>2 DEF Answered
    <3> QED BY <1>1, <3>3, <3>4 DEF Answered
  <2>11. Recorded'
    <3>1. \A s \in Runs :
          /\ jobs'[s].status \in {"absent", "queued"} => manifest[s] = "none"
          /\ manifest[s] \in {"ok", "failed"} => jobs'[s].req \in committed /\ jobs'[s].req \notin requested
          /\ manifest[s] = "cancelled" => jobs'[s].req \in requested
          /\ jobs'[s].status = "succeeded" => manifest[s] = "ok"
      BY <2>3 DEF Recorded
    <3> QED BY <1>1, <2>2, <2>5, <3>1 DEF Recorded
  <2>12. Ended'
    <3>1. \A s \in Runs : s \in EndsOnce /\ (jobs'[s].status \in {"absent", "queued"} => s \in Unended)
      BY <2>3 DEF Ended
    <3> QED BY <1>1, <1>3, <2>2, <2>5, <3>1 DEF Ended
  <2>13. Keyed'
    <3>1. MultiUser => keys[r] = q
      BY <1>2, <2>1 DEF Keyed, r
    <3>2. MultiUser => \A p \in Requests :
              pc[p] = "enqueue" /\ jobs'[target[p]].status = "queued" => keys[target[p]] = p
      BY <1>j, <2>3 DEF Keyed
    <3>3. MultiUser => \A i \in DOMAIN pool' :
              jobs'[target[pool'[i]]].status = "queued" => keys[target[pool'[i]]] = pool'[i]
      BY <1>2, <1>4, <2>3 DEF Keyed
    <3>4. MultiUser => \A v \in Workers : work'[v].req \notin requested =>
              /\ work'[v].pc = "begun" => keys[RunOf(v)'] = work'[v].req
              /\ work'[v].pc \in Pipeline \ {"begun"} => work'[v].req \in got
      BY <2>2, <3>1 DEF Keyed
    <3> QED BY <1>1, <3>2, <3>3, <3>4 DEF Keyed
  <2> QED BY <2>6, <2>7, <2>8, <2>9, <2>10, <2>11, <2>12, <2>13 DEF RParts
<1> QED BY <1>5, <1>6

\* Finishing a job: the latches decide its last status, which the manifest confirms.
LEMMA RetainedFinish ==
    ASSUME Retained, RInv, NEW w \in Workers, Finish(w)
    PROVE  RParts'
<1> USE NoneAssumption DEF RInv
<1> DEFINE r == RunOf(w)
           q == work[w].req
           st == FinishStatus(r, work[w].fail)
<1>j. /\ work \in WorkType /\ jobs \in JobType /\ target \in [Requests -> Runs]
      /\ pool \in Seq(Requests) /\ DOMAIN pool = 1..Len(pool) /\ order \in Seq(Runs)
      /\ TypeOK /\ JobOwner /\ Busy /\ FreshLatch
  BY LenProperties DEF IInv, TypeOK, WorkType, JobType
<1>1. /\ work[w].pc = "finish" /\ r \in Runs /\ q \in Requests /\ jobs[r].req = q
      /\ jobs[r].status \in {"running", "cancelling"}
      /\ \A s \in Runs : jobs[s].req = q => s = r
      /\ \A v \in Workers : v # w /\ work[v].pc # "idle" => work[v].req # q /\ RunOf(v) # r /\ RunOf(v) \in Runs
  BY BusyWorker DEF Finish, Pipeline
<1>2. /\ st \in Terminal /\ (st = "cancelled" <=> q \in requested)
      /\ st = "succeeded" => ~work[w].fail
  BY <1>1 DEF FinishStatus, Terminal
<1>3. /\ Terminate(r, st) /\ committed' = committed \cup {q}
      /\ work' = [work EXCEPT ![w] = IF st = "cancelled" THEN [@ EXCEPT !.pc = "hook"] ELSE IdleWorker]
      /\ UNCHANGED <<requested, pool, pc, target, can, keys, got, events, manifest>>
  BY <1>1 DEF Finish, Live, reqVars, keyVars, diskVars
<1>4. /\ \A v \in Workers : v # w => work'[v] = work[v]
      /\ IF st = "cancelled" THEN work'[w].pc = "hook" /\ work'[w].req = q /\ work'[w].tok = work[w].tok
         ELSE work'[w].pc = "idle"
      /\ \A v \in Workers : v # w \/ work'[v].pc # "idle" => RunOf(v)' = RunOf(v)
  BY <1>j, <1>3 DEF WorkType, IdleWorker, RunOf
<1>o. OnTrack(w)
  BY <1>1 DEF Latched, Recorded, Ended, OnTrack
<1>5. /\ q \in requested => r \in Unended
      /\ ~work[w].fail => manifest[r] = "ok"
      /\ work[w].tok = q
  BY <1>1, <1>o DEF OnTrack, Pipeline, Owned
<1>6. Unended' = Unended /\ EndsOnce' = EndsOnce
  BY <1>3 DEF Unended, EndsOnce
<1>v. \A v \in Workers : v # w => OnTrack(v)'
  BY <1>1, <1>3, <1>4, <1>6, OtherWorkers
<1> HIDE DEF r, q, st
<1>7. jobs' = [jobs EXCEPT ![r].status = st] /\ Settled'
  BY <1>1, <1>2, <1>3, <1>j, TerminateRetained DEF Live
<1>8. \A s \in Runs : /\ jobs'[s].req = jobs[s].req
                      /\ jobs'[s].status = IF s = r THEN st ELSE jobs[s].status
  BY <1>7, <1>j DEF JobType
<1>w. OnTrack(w)'
  <2>1. CASE st = "cancelled"
    BY <1>2, <1>3, <1>4, <1>5, <1>6, <2>1 DEF OnTrack, Pipeline, r
  <2>2. CASE st # "cancelled"
    BY <1>4, <2>2 DEF OnTrack, Pipeline
  <2> QED BY <2>1, <2>2
<1>9. Owned'
  <2>1. \A p \in Requests : pc[p] \in {"accept", "bind", "enqueue"} =>
            jobs'[target[p]].req = p /\ jobs'[target[p]].status \in {"queued", "cancelled"}
    BY <1>1, <1>8, <1>j DEF Owned
  <2>2. \A i \in DOMAIN pool : pc[pool[i]] = "done" /\ jobs'[target[pool[i]]].req = pool[i]
    <3>1. \A i \in DOMAIN pool : target[pool[i]] \in Runs
      BY <1>j, ElementOfSeq
    <3> QED BY <1>8, <3>1 DEF Owned
  <2>3. \A v \in Workers : work'[v].pc # "idle" =>
            jobs'[RunOf(v)'].req = work'[v].req /\ (work'[v].pc # "begun" => work'[v].tok = work'[v].req)
    <3>1. \A v \in Workers : v # w /\ work[v].pc # "idle" =>
            jobs'[RunOf(v)].req = work[v].req /\ (work[v].pc # "begun" => work[v].tok = work[v].req)
      BY <1>1, <1>8 DEF Owned
    <3>2. work'[w].pc # "idle" => jobs'[r].req = work'[w].req /\ work'[w].tok = work'[w].req
      BY <1>1, <1>4, <1>5, <1>8
    <3> QED BY <1>4, <3>1, <3>2 DEF r
  <2> QED BY <1>3, <2>1, <2>2, <2>3 DEF Owned
<1>10. Executing'
  <2>1. \A v \in Workers : v # w =>
        /\ work[v].pc \in Pipeline => jobs'[RunOf(v)].status \in {"running", "cancelling"}
        /\ work[v].pc = "hook" => jobs'[RunOf(v)].status = "cancelled"
    BY <1>1, <1>8 DEF Executing, Pipeline
  <2>2. /\ work'[w].pc \notin Pipeline
        /\ work'[w].pc = "hook" => jobs'[r].status = "cancelled" /\ work'[w].req = q
    BY <1>1, <1>4, <1>8 DEF Pipeline
  <2>3. \A u, v \in Workers :
            work'[u].pc # "idle" /\ work'[v].pc # "idle" /\ work'[u].req = work'[v].req => u = v
    BY <1>1, <1>4 DEF Executing
  <2> QED BY <1>4, <2>1, <2>2, <2>3 DEF Executing, r
<1>11. Latched'
  <2>1. \A s \in Runs :
          /\ jobs'[s].status = "queued" => jobs'[s].req \notin committed'
          /\ jobs'[s].status = "failed" => jobs'[s].req \notin requested
    BY <1>1, <1>2, <1>3, <1>8 DEF Latched, Terminal
  <2>2. \A p \in Requests : pc[p] \in {"idle", "create"} => p \notin committed'
    BY <1>1, <1>3, <1>j DEF Latched, FreshLatch
  <2> QED BY <1>3, <1>v, <1>w, <2>1, <2>2 DEF Latched, OnTrack
<1>12. Answered'
  <2>1. \A c \in Cancellers : can[c].pc # "idle" => can[c].run \in Runs
    BY <1>j DEF Busy
  <2>2. \A c \in Cancellers :
        /\ can[c].pc # "idle" => jobs'[can[c].run].status # "absent"
        /\ can[c].pc \in {"record", "discard"} =>
              jobs'[can[c].run].status # "queued"
              /\ (jobs'[can[c].run].status \in Terminal
                  \/ jobs'[can[c].run].req \in requested \cup committed')
        /\ can[c].pc = "record" => jobs'[can[c].run].status = "cancelled"
    BY <1>1, <1>2, <1>3, <1>8, <2>1 DEF Answered, Terminal
  <2>3. \A c \in Cancellers : can[c].pc = "record" =>
            \A v \in Workers : work'[v].pc # "idle" => RunOf(v)' # can[c].run
    BY <1>1, <1>4 DEF Answered
  <2> QED BY <1>3, <2>2, <2>3 DEF Answered
<1>13. Recorded'
  <2>1. \A s \in Runs :
          /\ jobs'[s].status \in {"absent", "queued"} => manifest[s] = "none"
          /\ manifest[s] \in {"ok", "failed"} => jobs'[s].req \in committed' /\ jobs'[s].req \notin requested
          /\ manifest[s] = "cancelled" => jobs'[s].req \in requested
          /\ jobs'[s].status = "succeeded" => manifest[s] = "ok"
    BY <1>2, <1>3, <1>5, <1>8 DEF Recorded, Terminal
  <2> QED BY <1>3, <1>v, <1>w, <2>1 DEF Recorded, OnTrack
<1>14. Ended'
  <2>1. \A s \in Runs : s \in EndsOnce /\ (jobs'[s].status \in {"absent", "queued"} => s \in Unended)
    BY <1>2, <1>8 DEF Ended, Terminal
  <2>2. \A c \in Cancellers : can[c].pc = "record" => can[c].run \in Unended
    BY DEF Ended
  <2> QED BY <1>3, <1>6, <1>v, <1>w, <2>1, <2>2 DEF Ended, OnTrack
<1>15. Keyed'
  <2>1. \A s \in Runs : jobs'[s].status = "queued" => jobs[s].status = "queued"
    BY <1>1, <1>2, <1>8 DEF Terminal
  <2>2. /\ \A p \in Requests : target[p] \in Runs
        /\ \A i \in DOMAIN pool : target[pool[i]] \in Runs
    BY <1>j, ElementOfSeq
  <2>3. work'[w].pc \notin Pipeline
    BY <1>4 DEF Pipeline
  <2>4. MultiUser => \A v \in Workers : work'[v].req \notin requested =>
              /\ work'[v].pc = "begun" => keys[RunOf(v)'] = work'[v].req
              /\ work'[v].pc \in Pipeline \ {"begun"} => work'[v].req \in got
    BY <1>4, <2>3 DEF Keyed, Pipeline
  <2>5. MultiUser =>
          /\ \A p \in Requests : pc[p] = "enqueue" /\ jobs'[target[p]].status = "queued" => keys[target[p]] = p
          /\ \A i \in DOMAIN pool :
                jobs'[target[pool[i]]].status = "queued" => keys[target[pool[i]]] = pool[i]
    BY <2>1, <2>2 DEF Keyed
  <2> QED BY <1>3, <2>4, <2>5 DEF Keyed
<1> QED BY <1>7, <1>9, <1>10, <1>11, <1>12, <1>13, <1>14, <1>15 DEF RParts

\* The on_cancelled hook records the one terminal event of a job cancelled while running.
LEMMA RetainedHook ==
    ASSUME RInv, NEW w \in Workers, CancelledHook(w)
    PROVE  RParts'
<1> USE NoneAssumption DEF RInv
<1> DEFINE r == RunOf(w)
<1>j. /\ work \in WorkType /\ events \in [Runs -> Seq(EventNames)] /\ Busy
      /\ "run_cancelled" \in EventNames
  BY DEF IInv, TypeOK, WorkType, EventNames, TerminalEvents
<1>1. /\ work[w].pc = "hook" /\ AppendAbsorbed(r, "run_cancelled")
      /\ \A v \in Workers : v # w => work'[v] = work[v]
      /\ work'[w].pc = "idle"
      /\ UNCHANGED <<jobs, requested, committed, order, pool, pc, target, can, keys, got, manifest>>
  BY <1>j DEF CancelledHook, regVars, reqVars, keyVars, WorkType, IdleWorker
<1>2. /\ r \in Runs /\ jobs[r].status = "cancelled" /\ r \in Unended
      /\ \A v \in Workers : v # w /\ work[v].pc # "idle" => RunOf(v) # r
  BY <1>1, BusyWorker DEF Ended, Executing
<1>3. /\ \A s \in Runs : s # r => (s \in Unended => s \in Unended')
      /\ \A s \in Runs : s \in EndsOnce'
  BY <1>1, <1>2, <1>j, EventEffect DEF Ended
<1>4. \A v \in Workers : OnTrack(v)'
  <2>1. OnTrack(w)'
    BY <1>1 DEF OnTrack, Pipeline
  <2> QED BY <1>1, <1>3, <2>1, OtherWorkers
<1>5. \A v \in Workers : RunOf(v)' = RunOf(v) \/ work'[v].pc = "idle"
  BY <1>1 DEF RunOf
<1>u. UNCHANGED <<jobs, requested, committed, pc, can, manifest>>
  BY <1>1
<1>6. Settled' /\ Owned' /\ Executing' /\ Answered'
  BY <1>1, <1>5 DEF Settled, Owned, Executing, Answered, Pipeline
<1>7. Latched' /\ Recorded'
  BY <1>4, <1>u DEF Latched, Recorded, OnTrack
<1>8. Ended'
  <2>1. \A c \in Cancellers : can[c].pc = "record" => can[c].run \in Runs /\ can[c].run # r
    BY <1>1, <1>j DEF Answered, Busy
  <2>2. \A s \in Runs : jobs[s].status \in {"absent", "queued"} => s \in Unended'
    BY <1>2, <1>3 DEF Ended
  <2> QED BY <1>3, <1>4, <1>u, <2>1, <2>2 DEF Ended, OnTrack
<1>9. Keyed'
  BY <1>1, <1>5 DEF Keyed, Pipeline
<1> QED BY <1>6, <1>7, <1>8, <1>9 DEF RParts

\* Every step preserves the retained invariant: without a crash the server never leaves `up'.
LEMMA RetainedStep ==
    ASSUME Retained, RInv, [Next]_vars
    PROVE  RInv'
<1>1. IInv'
  BY SubmitIInv, CancelIInv, WorkIInv, LifeIInv, StutterIInv DEF Next, RInv
<1>2. HandedOver'
  BY HandedOverStep DEF RInv, Retained
<1>3. ~Crash /\ ~Recover
  <2>1. crashes \in Nat
    BY DEF RInv, IInv, TypeOK
  <2> QED BY <2>1 DEF Retained, Crash, Recover, Boot, MarkInterrupted, RInv
<1>4. ASSUME NEW q \in Requests, Submit(q) PROVE up' /\ RParts'
  BY <1>4, RetainedSubmit DEF RInv, Submit, CheckIndex, TryCreate, Accept, BindKeys, Enqueue, MarkFailed,
     RecordEnqueueFailure, lifeVars
<1>5. ASSUME NEW c \in Cancellers, (\E r \in Runs : CancelGuard(c, r)) \/ CancelStep(c)
      PROVE  up' /\ RParts'
  BY <1>5, RetainedCancel DEF RInv, CancelGuard, CancelStep, RequestCancel, RecordCancelled,
     CancelDiscardKeys, lifeVars
<1>6. ASSUME NEW w \in Workers, Work(w) PROVE up' /\ RParts'
  <2>1. up'
    BY <1>6 DEF RInv, Work, BeginRun, TakeKeys, StartPipeline, RunSources, Commit, RecordOutcome,
       WriteManifest, Respond, DropKeys, Finish, CancelledHook, lifeVars
  <2> QED BY <1>6, <2>1, RetainedBegin, RetainedPipeline, RetainedFinish, RetainedHook DEF Work
<1>7. CASE UNCHANGED vars
  <2>1. UNCHANGED <<jobs, requested, committed, order, pool, pc, target, can, work, keys, got, events, manifest, up>>
    BY <1>7 DEF vars, regVars, reqVars, keyVars, diskVars, lifeVars
  <2>2. Unended' = Unended /\ EndsOnce' = EndsOnce
    BY <2>1 DEF Unended, EndsOnce
  <2>3. Settled' /\ Owned' /\ Executing' /\ Latched' /\ Answered' /\ Recorded' /\ Keyed'
    BY <2>1 DEF RInv, Settled, Owned, Executing, Latched, Answered, Recorded, Keyed, RunOf
  <2>4. Ended'
    BY <2>1, <2>2 DEF RInv, Ended, RunOf
  <2> QED BY <1>1, <1>2, <2>1, <2>3, <2>4 DEF RInv, RParts
<1> QED BY <1>1, <1>2, <1>3, <1>4, <1>5, <1>6, <1>7 DEF Next, RInv, RParts

LEMMA RetainedInvariance == ASSUME Retained PROVE Spec => []RInv
<1>1. RInv /\ [Next]_vars => RInv'
  BY RetainedStep
<1> QED BY <1>1, RetainedInit, PTL DEF Spec

-----------------------------------------------------------------------------
\* In the retained regime, for every number of clients, workers and cancel calls and every
\* fault of a build, what a client polls and the manifest agree: succeeded means an ok
\* manifest, a cancellation never meets an ok or failed one.
THEOREM OutcomesAgree == ASSUME Retained PROVE Spec => []OutcomeAgreement
<1>1. RInv => OutcomeAgreement
  <2> SUFFICES ASSUME RInv, NEW r \in Runs
               PROVE  /\ jobs[r].status = "succeeded" => manifest[r] = "ok"
                      /\ jobs[r].status \in {"cancelling", "cancelled"} => manifest[r] \in {"none", "cancelled"}
                      /\ (manifest[r] = "cancelled" /\ jobs[r].status # "absent") =>
                             jobs[r].status \in {"cancelling", "cancelled"}
    BY DEF OutcomeAgreement
  <2>1. /\ manifest[r] \in {"none", "ok", "failed", "cancelled"}
        /\ jobs[r].status \in Live \cup Terminal \cup {"absent"}
    BY DEF RInv, IInv, TypeOK, RunStatuses
  <2>2. /\ jobs[r].status \in {"queued", "running", "succeeded", "failed"} => jobs[r].req \notin requested
        /\ jobs[r].status \in {"cancelling", "cancelled"} => jobs[r].req \in requested
    BY DEF RInv, IInv, LatchAgreement, Latched
  <2>3. /\ manifest[r] \in {"ok", "failed"} => jobs[r].req \notin requested
        /\ manifest[r] = "cancelled" => jobs[r].req \in requested
        /\ jobs[r].status = "succeeded" => manifest[r] = "ok"
    BY DEF RInv, Recorded
  <2> QED BY <2>1, <2>2, <2>3 DEF Live, Terminal
<1> QED BY <1>1, RetainedInvariance, PTL

\* In the retained regime no run's log ever holds two terminal events, whichever of the
\* cancel threads, the hook and the pipeline appends one.
THEOREM TimelinesEndOnce == ASSUME Retained PROVE Spec => []OneTerminalEvent
<1>1. RInv => OneTerminalEvent
  <2> SUFFICES ASSUME RInv, NEW r \in Runs
               PROVE  Cardinality({i \in DOMAIN events[r] : events[r][i] \in TerminalEvents}) <= 1
    BY DEF OneTerminalEvent
  <2> DEFINE E == {i \in DOMAIN events[r] : events[r][i] \in TerminalEvents}
  <2>1. \A i, j \in E : i = j
    BY DEF RInv, Ended, EndsOnce
  <2>2. CASE E = {}
    <3>1. Cardinality(E) = 0
      BY <2>2, FS_EmptySet
    <3> QED BY <3>1
  <2>3. CASE E # {}
    <3>1. PICK i : E = {i}
      BY <2>1, <2>3
    <3>2. Cardinality(E) = 1
      BY <3>1, FS_Singleton
    <3> QED BY <3>2
  <2> QED BY <2>2, <2>3
<1> QED BY <1>1, RetainedInvariance, PTL

\* In the retained regime every worker of a multi-user deployment that starts an uncancelled
\* job holds the keys its own request carried: no cancel call's cleanup takes them first.
THEOREM KeysArrive == ASSUME Retained PROVE Spec => []KeysReachWorker
<1>1. RInv => KeysReachWorker
  <2>1. RInv => \A w \in Workers : work[w].pc \in Pipeline \ {"begun"} => work[w].tok = work[w].req
    BY DEF RInv, Owned, Pipeline
  <2> QED BY <2>1 DEF RInv, Keyed, KeysReachWorker
<1> QED BY <1>1, RetainedInvariance, PTL

\* In the retained regime a manifest, once written, is never written again.
THEOREM ManifestsAreFinal == ASSUME Retained PROVE Spec => ManifestWriteOnce
<1> DEFINE Kept == \A r \in Runs : manifest[r] # "none" => manifest'[r] = manifest[r]
<1>1. RInv /\ [Next]_vars => [Kept]_vars
  <2> SUFFICES ASSUME RInv, [Next]_vars PROVE Kept
    OBVIOUS
  <2>1. CASE UNCHANGED manifest
    BY <2>1
  <2>2. ASSUME NEW w \in Workers, WriteManifest(w) PROVE Kept
    <3>1. work[w].pc = "materialize" /\ \A r \in Runs : r # RunOf(w) => manifest'[r] = manifest[r]
      BY <2>2 DEF WriteManifest, RInv, IInv, TypeOK
    <3>2. manifest[RunOf(w)] = "none"
      BY <3>1 DEF RInv, Recorded
    <3> QED BY <3>1, <3>2
  <2>3. (\E w \in Workers : WriteManifest(w)) \/ UNCHANGED manifest
    <3>1. ASSUME NEW q \in Requests, Submit(q) PROVE UNCHANGED manifest
      BY <3>1 DEF Submit, CheckIndex, TryCreate, Accept, BindKeys, Enqueue, MarkFailed,
         RecordEnqueueFailure, diskVars
    <3>2. ASSUME NEW c \in Cancellers, (\E r \in Runs : CancelGuard(c, r)) \/ CancelStep(c)
          PROVE  UNCHANGED manifest
      BY <3>2 DEF CancelGuard, CancelStep, RequestCancel, RecordCancelled, CancelDiscardKeys, diskVars
    <3>3. ASSUME NEW w \in Workers, Work(w), ~WriteManifest(w) PROVE UNCHANGED manifest
      BY <3>3 DEF Work, BeginRun, TakeKeys, StartPipeline, RunSources, Commit, RecordOutcome, Respond,
         DropKeys, Finish, CancelledHook, diskVars
    <3>4. CASE Crash \/ Recover \/ UNCHANGED vars
      BY <3>4 DEF Crash, Recover, Boot, MarkInterrupted, vars, diskVars
    <3> QED BY <3>1, <3>2, <3>3, <3>4 DEF Next
  <2> QED BY <2>1, <2>2, <2>3
<1> QED BY <1>1, RetainedInvariance, PTL DEF Spec, ManifestWriteOnce

-----------------------------------------------------------------------------
(***************************************************************************)
(* After eviction and restart: the status restored from the manifest.      *)
(*                                                                         *)
(* submit_build looks into the build index before try_create takes the     *)
(* lock.  When a run of the same id ends in between, the id is executed    *)
(* once more and its manifest disagrees with what the registry confirms,   *)
(* which TLC shows with no fault at all.  CheckHolds excludes that race    *)
(* and nothing else; jobs are evicted, ids reused and the process crashes. *)
(***************************************************************************)

\* What the index check saw still holds when try_create runs.
CheckHolds == \A q \in Requests : pc[q] = "create" => index[target[q]] = "none"

\* The job status that belongs to a manifest.
Outcome(m) == IF m = "ok" THEN "succeeded" ELSE m

\* The registry has confirmed exactly the status of a finished job, and one of
\* an indexed run agrees with the manifest, job or no job.
Told ==
    \A r \in Runs :
        /\ jobs[r].status \in Live => reported[r] = "none"
        /\ jobs[r].status \in Terminal => reported[r] = jobs[r].status
        /\ (jobs[r].status \notin Live /\ reported[r] # "none" /\ manifest[r] # "none"
                /\ index[r] # "none") => reported[r] = Outcome(manifest[r])

\* A run whose job has not ended is in the index only between build() and finish.
Indexed ==
    \A r \in Runs : jobs[r].status \in Live /\ index[r] # "none" =>
        \E w \in Workers : work[w].pc \in {"drop", "finish"} /\ RunOf(w) = r

\* A status a run may have, given the latch of its job.
Latches(q, st) ==
    IF st = "cancelled" THEN q \in requested ELSE q \in committed /\ q \notin requested

\* A worker holds the latch of its run's job; its result, and later the
\* manifest it indexed, is the one that latch allows and its answer tells.
OnCourse(w) ==
    LET r == RunOf(w)
        q == jobs[r].req
    IN  /\ work[w].pc \in Pipeline \ {"begun"} => work[w].tok = q
        /\ work[w].pc = "commit" /\ work[w].res = "cancelled" => q \in requested
        /\ work[w].pc \in {"record", "materialize", "respond"} => Latches(q, work[w].res)
        /\ work[w].pc = "respond" =>
              manifest[r] = work[w].res /\ (work[w].fail <=> work[w].res # "ok")
        /\ work[w].pc \in {"drop", "finish"} /\ index[r] # "none" =>
              /\ manifest[r] \in RunStatuses
              /\ work[w].fail <=> manifest[r] # "ok"
              /\ Latches(q, manifest[r])
Decided == \A w \in Workers : OnCourse(w)

WInv == AInv /\ Told /\ Indexed /\ Decided

-----------------------------------------------------------------------------
\* What a worker in the middle of a run knows of it, and that it is alone.
LEMMA Executes ==
    ASSUME AInv, NEW w \in Workers, work[w].pc \in Pipeline
    PROVE  /\ RunOf(w) \in Runs /\ work[w].req \in Requests /\ jobs[RunOf(w)].req \in Requests
           /\ jobs[RunOf(w)].status \in {"running", "cancelling"}
           /\ \A v \in Workers : v # w /\ work[v].pc \in Pipeline => RunOf(v) # RunOf(w)
<1>1. /\ target \in [Requests -> Runs] /\ jobs \in JobType /\ JobOwner /\ Busy /\ OneWorkerPerRun
  BY DEF AInv, IInv, TypeOK, JobType
<1>2. work[w].req \in Requests /\ RunOf(w) \in Runs
  BY <1>1 DEF Busy, RunOf, Pipeline
<1>3. jobs[RunOf(w)].status \in {"running", "cancelling"}
      /\ \A v \in Workers : v # w /\ work[v].pc \in Pipeline => RunOf(v) # RunOf(w)
  BY <1>1 DEF OneWorkerPerRun
<1>4. jobs[RunOf(w)].req \in Requests
  BY <1>1, <1>2, <1>3, NoneAssumption DEF JobOwner, JobType
<1> QED BY <1>2, <1>3, <1>4

\* The runs of two jobs have different requests.
LEMMA JobsDiffer ==
    ASSUME AInv, NEW r \in Runs, NEW s \in Runs, r # s, jobs[r].req # None
    PROVE  jobs[s].req # jobs[r].req
BY DEF AInv, IInv, JobOwner

\* Ending a job leaves Told true when the status is the one of an indexed
\* manifest, and leaves no other job's entry in doubt.
LEMMA ToldTerminate ==
    ASSUME TypeOK, Told, NEW r \in Runs, NEW st \in Terminal, Terminate(r, st),
           jobs[r].status # "absent", UNCHANGED <<manifest, index>>,
           manifest[r] # "none" /\ index[r] # "none" => st = Outcome(manifest[r])
    PROVE  /\ Told'
           /\ \A s \in Runs : jobs'[s].status \in Live => s # r /\ jobs[s].status \in Live
           /\ \A s \in Runs : s # r /\ jobs[s].status \in Live => jobs'[s] = jobs[s]
<1>1. /\ \A s \in Runs : reported'[s] = IF s = r THEN st ELSE reported[s]
      /\ \A s \in Runs :
            \/ jobs'[s].status = "absent"
            \/ jobs'[s].status = IF s = r THEN st ELSE jobs[s].status
  <2>1. reported \in [Runs -> Terminal \cup {"none"}]
    BY DEF TypeOK
  <2> QED BY <2>1, TerminateEntries DEF Terminate
<1>2. \A s \in Runs : s # r /\ jobs[s].status \in Live => jobs'[s] = jobs[s]
  BY TerminateKeepsLive
<1>3. \A s \in Runs : jobs'[s].status \in Live => s # r /\ jobs[s].status \in Live
  BY <1>1 DEF Live, Terminal
<1>4. ASSUME NEW s \in Runs
      PROVE  /\ jobs'[s].status \in Live => reported'[s] = "none"
             /\ jobs'[s].status \in Terminal => reported'[s] = jobs'[s].status
             /\ (jobs'[s].status \notin Live /\ reported'[s] # "none" /\ manifest'[s] # "none"
                    /\ index'[s] # "none") => reported'[s] = Outcome(manifest'[s])
  <2>1. CASE s = r
    BY <1>1, <1>3, <2>1 DEF Live, Terminal
  <2>2. CASE s # r
    BY <1>1, <1>2, <1>3, <2>2 DEF Told, Live, Terminal
  <2> QED BY <2>1, <2>2
<1> QED BY <1>2, <1>3, <1>4 DEF Told

\* A step that leaves the registry, the latches, the workers and the disk alone.
LEMMA QuietStory ==
    ASSUME WInv, UNCHANGED <<jobs, requested, committed, target, work, manifest, index, reported>>
    PROVE  Told' /\ Indexed' /\ Decided'
BY DEF WInv, Told, Indexed, Decided, OnCourse, Latches, RunOf

\* A submission creates a job only for a run id that is free and, while the
\* check holds, not in the index; nobody executes that id.
LEMMA StorySubmit ==
    ASSUME Calm, CheckHolds, WInv, NEW q \in Requests, Submit(q)
    PROVE  Told' /\ Indexed' /\ Decided'
<1>1. CASE TryCreate(q) /\ jobs' # jobs
  <2> DEFINE r == target[q]
  <2>1. /\ jobs \in JobType /\ reported \in [Runs -> Terminal \cup {"none"}] /\ r \in Runs
    BY DEF WInv, AInv, IInv, TypeOK, JobType
  <2>2. /\ jobs[r].status = "absent" /\ index[r] = "none"
        /\ jobs' = [jobs EXCEPT ![r] = [req |-> q, status |-> "queued"]]
        /\ reported' = [reported EXCEPT ![r] = "none"]
        /\ UNCHANGED <<requested, committed, target, work, manifest, index>>
    BY <1>1 DEF TryCreate, CheckHolds, diskVars
  <2> HIDE DEF r
  <2>3. /\ jobs'[r].status = "queued" /\ reported'[r] = "none"
        /\ \A s \in Runs : s # r => jobs'[s] = jobs[s] /\ reported'[s] = reported[s]
    BY <2>1, <2>2 DEF JobType
  <2>4. Told'
    BY <2>1, <2>2, <2>3 DEF WInv, Told, Live, Terminal
  <2>5. Indexed'
    BY <2>2, <2>3 DEF WInv, Indexed, RunOf
  <2>6. \A w \in Workers : work[w].pc \in Pipeline => RunOf(w) \in Runs /\ RunOf(w) # r
    BY <2>2, Executes DEF WInv
  <2>7. ASSUME NEW w \in Workers PROVE OnCourse(w)'
    <3>1. OnCourse(w) /\ work'[w] = work[w] /\ RunOf(w)' = RunOf(w)
      BY <2>2 DEF WInv, Decided, RunOf
    <3>2. CASE work[w].pc \in Pipeline
      <4>1. jobs'[RunOf(w)] = jobs[RunOf(w)]
        BY <2>3, <2>6, <3>2
      <4> QED BY <2>2, <3>1, <4>1 DEF OnCourse, Latches
    <3>3. CASE work[w].pc \notin Pipeline
      BY <3>1, <3>3 DEF OnCourse, Pipeline
    <3> QED BY <3>2, <3>3
  <2> QED BY <2>4, <2>5, <2>7 DEF Decided
<1>2. CASE ~(TryCreate(q) /\ jobs' # jobs)
  <2>1. ~MarkFailed(q) /\ ~RecordEnqueueFailure(q)
    BY DEF WInv, AInv, HandedOver, MarkFailed, RecordEnqueueFailure
  <2>2. CASE TryCreate(q)
    <3>1. \/ UNCHANGED <<jobs, reported>>
          \/ /\ jobs[target[q]].status = "absent" /\ target[q] \in Runs /\ jobs \in JobType
             /\ jobs' = [jobs EXCEPT ![target[q]] = [req |-> q, status |-> "queued"]]
      BY <2>2 DEF TryCreate, WInv, AInv, IInv, TypeOK, JobType
    <3>2. UNCHANGED <<jobs, reported>>
      <4>1. CASE /\ jobs[target[q]].status = "absent" /\ target[q] \in Runs /\ jobs \in JobType
                 /\ jobs' = [jobs EXCEPT ![target[q]] = [req |-> q, status |-> "queued"]]
        <5>1. jobs'[target[q]].status = "queued"
          BY <4>1 DEF JobType
        <5> QED BY <1>2, <2>2, <4>1, <5>1
      <4> QED BY <3>1, <4>1
    <3>3. UNCHANGED <<requested, committed, target, work, manifest, index>>
      BY <2>2 DEF TryCreate, diskVars
    <3> QED BY <3>2, <3>3, QuietStory
  <2>3. CASE ~TryCreate(q)
    <3>1. UNCHANGED <<jobs, requested, committed, target, work, manifest, index, reported>>
      BY <2>1, <2>3 DEF Calm, Submit, CheckIndex, Accept, BindKeys, Enqueue, regVars, diskVars
    <3> QED BY <3>1, QuietStory
  <2> QED BY <2>2, <2>3
<1> QED BY <1>1, <1>2

\* A cancellation is granted before the commit only, so no worker's outcome
\* becomes wrong; a job cancelled in the queue has no worker and no index row.
LEMMA StoryCancel ==
    ASSUME WInv, NEW c \in Cancellers, (\E r \in Runs : CancelGuard(c, r)) \/ CancelStep(c)
    PROVE  Told' /\ Indexed' /\ Decided'
<1>1. CASE RequestCancel(c) /\ Grantable(can[c].run)
  <2> DEFINE r == can[c].run
  <2>1. /\ r \in Runs /\ jobs \in JobType /\ TypeOK /\ AInv /\ Told /\ Indexed /\ Decided
    BY <1>1 DEF RequestCancel, WInv, AInv, IInv, Busy, TypeOK, JobType
  <2>2. /\ requested' = requested \cup {jobs[r].req} /\ jobs[r].req \notin committed
        /\ jobs[r].status \in Live
        /\ UNCHANGED <<committed, target, work, manifest, index>>
    BY <1>1 DEF RequestCancel, Grantable, reqVars, diskVars
  <2>3. jobs[r].req # None
    BY <2>1, <2>2 DEF AInv, IInv, JobOwner, Live
  <2> HIDE DEF r
  <2>4. ASSUME NEW w \in Workers,
               work[w].pc \in Pipeline => jobs'[RunOf(w)].req = jobs[RunOf(w)].req
        PROVE  OnCourse(w)'
    <3>1. OnCourse(w) /\ work'[w] = work[w] /\ RunOf(w)' = RunOf(w)
      BY <2>1, <2>2 DEF Decided, RunOf
    <3>2. CASE work[w].pc \in Pipeline
      <4>1. ASSUME NEW st, Latches(jobs[RunOf(w)].req, st)
            PROVE  Latches(jobs[RunOf(w)].req, st)'
        <5>1. CASE RunOf(w) = r
          BY <2>2, <2>4, <3>1, <3>2, <4>1, <5>1 DEF Latches
        <5>2. CASE RunOf(w) # r
          <6>1. RunOf(w) \in Runs
            BY <2>1, <3>2, Executes
          <6>2. jobs[RunOf(w)].req # jobs[r].req
            BY <2>1, <2>3, <5>2, <6>1, JobsDiffer
          <6> QED BY <2>2, <2>4, <3>1, <3>2, <4>1, <6>2 DEF Latches
        <5> QED BY <5>1, <5>2
      <4>2. Latches(jobs[RunOf(w)].req, work[w].res) => Latches(jobs[RunOf(w)].req, work[w].res)'
        BY <4>1, <3>1 DEF Latches
      <4>3. Latches(jobs[RunOf(w)].req, manifest[RunOf(w)]) => Latches(jobs[RunOf(w)].req, manifest[RunOf(w)])'
        BY <4>1, <2>2, <3>1 DEF Latches
      <4> QED BY <2>2, <2>4, <3>1, <3>2, <4>2, <4>3 DEF OnCourse
    <3>3. CASE work[w].pc \notin Pipeline
      BY <3>1, <3>3 DEF OnCourse, Pipeline
    <3> QED BY <3>2, <3>3
  <2>5. CASE jobs[r].status = "queued"
    <3>1. Terminate(r, "cancelled") /\ "cancelled" \in Terminal /\ jobs[r].status # "absent"
      BY <1>1, <2>5 DEF RequestCancel, Terminal, r
    <3>2. \A w \in Workers : work[w].pc \in Pipeline =>
             RunOf(w) # r /\ RunOf(w) \in Runs /\ jobs[RunOf(w)].status \in Live
      BY <2>1, <2>5, Executes DEF Live
    <3>3. index[r] = "none"
      BY <2>1, <2>2, <3>2 DEF Indexed, Pipeline
    <3>4. /\ Told'
          /\ \A s \in Runs : jobs'[s].status \in Live => s # r /\ jobs[s].status \in Live
          /\ \A s \in Runs : s # r /\ jobs[s].status \in Live => jobs'[s] = jobs[s]
      BY <2>1, <2>2, <3>1, <3>3, ToldTerminate
    <3>5. Indexed'
      BY <2>1, <2>2, <3>4 DEF Indexed, RunOf
    <3>6. \A w \in Workers : work[w].pc \in Pipeline => jobs'[RunOf(w)].req = jobs[RunOf(w)].req
      BY <3>2, <3>4
    <3> QED BY <2>4, <3>4, <3>5, <3>6 DEF Decided
  <2>6. CASE jobs[r].status # "queued"
    <3>1. /\ jobs' = [jobs EXCEPT ![r].status = "cancelling"] /\ UNCHANGED reported
      BY <1>1, <2>6 DEF RequestCancel, r
    <3>2. \A s \in Runs : /\ jobs'[s].req = jobs[s].req
                          /\ jobs'[s].status = IF s = r THEN "cancelling" ELSE jobs[s].status
      BY <2>1, <3>1 DEF JobType
    <3>3. Told'
      BY <2>1, <2>2, <3>1, <3>2 DEF Told, Live, Terminal
    <3>4. Indexed'
      BY <2>1, <2>2, <3>2 DEF Indexed, RunOf, Live
    <3>5. \A w \in Workers : work[w].pc \in Pipeline => jobs'[RunOf(w)].req = jobs[RunOf(w)].req
      BY <2>1, <3>2, Executes
    <3> QED BY <2>4, <3>3, <3>4, <3>5 DEF Decided
  <2> QED BY <2>5, <2>6
<1>2. CASE ~(RequestCancel(c) /\ Grantable(can[c].run))
  <2>1. UNCHANGED <<jobs, requested, committed, target, work, manifest, index, reported>>
    BY <1>2 DEF CancelGuard, CancelStep, RequestCancel, RecordCancelled, CancelDiscardKeys, regVars,
       reqVars, diskVars
  <2> QED BY <2>1, QuietStory
<1> QED BY <1>1, <1>2

\* Until its row is written, an executing run is not in the index.
LEMMA NotIndexed ==
    ASSUME WInv, NEW w \in Workers, work[w].pc \in Pipeline \ {"drop", "finish"}
    PROVE  index[RunOf(w)] = "none"
<1>1. AInv /\ Indexed
  BY DEF WInv
<1> QED BY <1>1, Executes DEF Indexed, Live, Pipeline

\* A worker's step within its run tells no other story when it keeps the
\* worker on course and touches no other run's latch, manifest or row.
LEMMA StoryMove ==
    ASSUME WInv, NEW w \in Workers, work[w].pc \in Pipeline,
           UNCHANGED <<jobs, requested, target, reported>>,
           committed' \in {committed, committed \cup {jobs[RunOf(w)].req}},
           \A v \in Workers : v # w => work'[v] = work[v],
           work'[w].req = work[w].req,
           \A s \in Runs : s # RunOf(w) => manifest'[s] = manifest[s] /\ index'[s] = index[s],
           index'[RunOf(w)] # "none" => work'[w].pc \in {"drop", "finish"},
           OnCourse(w)'
    PROVE  Told' /\ Indexed' /\ Decided'
<1> DEFINE r == RunOf(w)
<1>1. AInv /\ Told /\ Indexed /\ Decided
  BY DEF WInv
<1>2. /\ r \in Runs /\ jobs[r].req \in Requests /\ jobs[r].status \in Live
      /\ \A v \in Workers : v # w /\ work[v].pc \in Pipeline => RunOf(v) # r /\ RunOf(v) \in Runs
  BY <1>1, Executes DEF Live
<1>3. \A v \in Workers : RunOf(v)' = RunOf(v)
  BY DEF RunOf
<1>4. Told'
  BY <1>1, <1>2 DEF Told, Live, Terminal
<1>5. Indexed'
  <2>1. ASSUME NEW s \in Runs, jobs[s].status \in Live, index'[s] # "none"
        PROVE  \E v \in Workers : work'[v].pc \in {"drop", "finish"} /\ RunOf(v)' = s
    <3>1. CASE s = r
      BY <1>3, <2>1, <3>1
    <3>2. CASE s # r
      <4>1. PICK v \in Workers : work[v].pc \in {"drop", "finish"} /\ RunOf(v) = s
        BY <1>1, <2>1, <3>2 DEF Indexed
      <4>2. v # w
        BY <3>2, <4>1
      <4> QED BY <1>3, <4>1, <4>2
    <3> QED BY <3>1, <3>2
  <2> QED BY <2>1 DEF Indexed
<1>6. ASSUME NEW v \in Workers, v # w PROVE OnCourse(v)'
  <2>1. OnCourse(v) /\ work'[v] = work[v] /\ RunOf(v)' = RunOf(v)
    BY <1>1, <1>3, <1>6 DEF Decided
  <2>2. CASE work[v].pc \in Pipeline
    <3>1. RunOf(v) \in Runs /\ RunOf(v) # r /\ jobs[RunOf(v)].req # jobs[r].req
      BY <1>1, <1>2, <1>6, <2>2, JobsDiffer, NoneAssumption
    <3>2. jobs[RunOf(v)].req \in committed' <=> jobs[RunOf(v)].req \in committed
      BY <3>1
    <3> QED BY <2>1, <3>1, <3>2 DEF OnCourse, Latches
  <2>3. CASE work[v].pc \notin Pipeline
    BY <2>1, <2>3 DEF OnCourse, Pipeline
  <2> QED BY <2>2, <2>3
<1> QED BY <1>4, <1>5, <1>6 DEF Decided

\* Each step of a run between its keys and its end keeps the worker on course.
LEMMA StoryPipeline ==
    ASSUME "conflict" \notin Faults, WInv, NEW w \in Workers,
           \/ TakeKeys(w) \/ StartPipeline(w) \/ RunSources(w) \/ Commit(w) \/ RecordOutcome(w)
           \/ WriteManifest(w) \/ Respond(w) \/ DropKeys(w)
    PROVE  Told' /\ Indexed' /\ Decided'
<1> DEFINE r == RunOf(w)
           q == jobs[r].req
<1>1. /\ work[w].pc \in Pipeline /\ work[w].pc # "finish"
      /\ work \in WorkType /\ AInv /\ OnCourse(w)
      /\ manifest \in [Runs -> RunStatuses \cup {"none"}] /\ index \in [Runs -> RunStatuses \cup {"none"}]
      /\ work[w].pc \in ResultPcs => work[w].res \in RunStatuses
      /\ UNCHANGED <<jobs, requested, target, reported>>
  BY DEF WInv, AInv, IInv, TypeOK, Busy, WorkType, ResultPcs, Decided, TakeKeys, StartPipeline,
     RunSources, Commit, RecordOutcome, WriteManifest, Respond, DropKeys, Pipeline, regVars, reqVars
<1>2. r \in Runs /\ q \in Requests
  BY <1>1, Executes
<1>3. work[w].pc # "drop" => index[r] = "none"
  BY <1>1, NotIndexed
<1>4. /\ \A v \in Workers : v # w => work'[v] = work[v]
      /\ work'[w].req = work[w].req /\ RunOf(w)' = r
  <2>1. CASE TakeKeys(w) \/ StartPipeline(w) \/ RunSources(w) \/ Commit(w)
    BY <1>1, <2>1 DEF TakeKeys, StartPipeline, RunSources, Commit, WorkType, RunOf, reqVars
  <2>2. CASE RecordOutcome(w) \/ WriteManifest(w) \/ Respond(w) \/ DropKeys(w)
    BY <1>1, <2>2 DEF RecordOutcome, WriteManifest, Respond, DropKeys, WorkType, RunOf, reqVars
  <2> QED BY <2>1, <2>2
<1> HIDE DEF r, q
<1>5. CASE TakeKeys(w)
  <2>1. /\ work'[w].pc = "prepare" /\ work'[w].tok = q /\ work[w].pc = "begun"
        /\ UNCHANGED <<committed, manifest, index>>
    BY <1>1, <1>5 DEF TakeKeys, WorkType, regVars, diskVars, r, q
  <2>2. OnCourse(w)'
    BY <1>1, <1>4, <2>1 DEF OnCourse, r, q
  <2> QED BY <1>1, <1>3, <1>4, <2>1, <2>2, StoryMove DEF r
<1>6. CASE StartPipeline(w)
  <2>1. /\ work'[w].pc \in {"sources", "drop"} /\ work'[w].tok = work[w].tok /\ work[w].pc = "prepare"
        /\ UNCHANGED <<committed, manifest, index>>
    BY <1>1, <1>6 DEF StartPipeline, WorkType, regVars
  <2>2. OnCourse(w)'
    BY <1>1, <1>3, <1>4, <2>1 DEF OnCourse, Pipeline, r
  <2> QED BY <1>1, <1>3, <1>4, <2>1, <2>2, StoryMove DEF r
<1>7. CASE RunSources(w)
  <2>1. /\ \/ work'[w].pc = "drop"
           \/ work'[w].pc = "commit" /\ (work'[w].res = "cancelled" => work[w].tok \in requested)
        /\ work'[w].tok = work[w].tok /\ work[w].pc = "sources"
        /\ UNCHANGED <<committed, manifest, index>>
    BY <1>1, <1>7 DEF RunSources, WorkType, regVars, diskVars
  <2>2. OnCourse(w)'
    BY <1>1, <1>3, <1>4, <2>1 DEF OnCourse, Pipeline, r
  <2> QED BY <1>1, <1>3, <1>4, <2>1, <2>2, StoryMove DEF r
<1>8. CASE Commit(w)
  <2>1. work[w].pc = "commit" /\ work[w].tok = q /\ work[w].res \in RunStatuses
        /\ (work[w].res = "cancelled" => q \in requested)
    BY <1>1, <1>8 DEF Commit, OnCourse, ResultPcs, Pipeline, r, q
  <2> DEFINE open == work[w].res # "cancelled" /\ q \notin requested
  <2>2. /\ committed' = IF open THEN committed \cup {q} ELSE committed
        /\ UNCHANGED <<manifest, index>>
    BY <1>8, <2>1 DEF Commit, diskVars
  <2> DEFINE results == IF open THEN {work[w].res, "failed"} ELSE {"cancelled"}
  <2>3. PICK st \in results : work' = [work EXCEPT ![w].pc = "record", ![w].res = st]
    BY <1>8, <2>1 DEF Commit
  <2>4. /\ work'[w].pc = "record" /\ work'[w].tok = q /\ work'[w].res = st
        /\ IF st = "cancelled" THEN q \in requested ELSE q \in committed' /\ q \notin requested
    BY <1>1, <2>1, <2>2, <2>3 DEF WorkType
  <2>5. OnCourse(w)'
    BY <1>1, <1>4, <2>4 DEF OnCourse, Latches, r, q
  <2>6. committed' \in {committed, committed \cup {jobs[RunOf(w)].req}}
    BY <2>2 DEF q, r
  <2> QED BY <1>1, <1>3, <1>4, <2>1, <2>2, <2>5, <2>6, StoryMove DEF r
<1>9. CASE RecordOutcome(w)
  <2>1. /\ work'[w].pc = "materialize" /\ work'[w].tok = work[w].tok /\ work[w].pc = "record"
        /\ work'[w].res = work[w].res /\ UNCHANGED <<committed, manifest, index>>
    BY <1>1, <1>9 DEF RecordOutcome, WorkType, regVars
  <2>2. OnCourse(w)'
    BY <1>1, <1>4, <2>1 DEF OnCourse, Latches, Pipeline, r
  <2> QED BY <1>1, <1>3, <1>4, <2>1, <2>2, StoryMove DEF r
<1>10. CASE WriteManifest(w)
  <2>1. /\ work'[w].tok = work[w].tok /\ work[w].pc = "materialize" /\ UNCHANGED <<committed, index>>
        /\ \/ /\ manifest' = [manifest EXCEPT ![r] = work[w].res]
              /\ work'[w].pc = "respond" /\ work'[w].res = work[w].res
              /\ work'[w].fail <=> work[w].res # "ok"
           \/ work'[w].pc = "drop" /\ UNCHANGED manifest
    <3>1. CASE manifest' = [manifest EXCEPT ![r] = work[w].res]
               /\ work' = [work EXCEPT ![w].pc = "respond", ![w].fail = work[w].res # "ok"]
      BY <1>1, <1>10, <3>1 DEF WriteManifest, WorkType, regVars, r
    <3>2. CASE UNCHANGED manifest /\ work' = [work EXCEPT ![w].pc = "drop", ![w].fail = TRUE]
      BY <1>1, <1>10, <3>2 DEF WriteManifest, WorkType, regVars, r
    <3>3. \A lost \in {FALSE, work[w].res = "ok" /\ "conflict" \in Faults} : lost = FALSE
      OBVIOUS
    <3>4. \/ /\ manifest' = [manifest EXCEPT ![r] = work[w].res]
             /\ work' = [work EXCEPT ![w].pc = "respond", ![w].fail = work[w].res # "ok"]
          \/ UNCHANGED manifest /\ work' = [work EXCEPT ![w].pc = "drop", ![w].fail = TRUE]
      <4>1. CASE \E lost \in {FALSE, work[w].res = "ok" /\ "conflict" \in Faults} :
                     work' = [work EXCEPT ![w].pc = "respond", ![w].fail = lost \/ work[w].res # "ok"]
        <5>1. work' = [work EXCEPT ![w].pc = "respond", ![w].fail = FALSE \/ work[w].res # "ok"]
          BY <3>3, <4>1
        <5>2. (FALSE \/ work[w].res # "ok") = (work[w].res # "ok")
          OBVIOUS
        <5> QED BY <1>10, <5>1, <5>2 DEF WriteManifest, r
      <4> QED BY <1>10, <4>1 DEF WriteManifest, r
    <3> QED BY <3>1, <3>2, <3>4
  <2>2. OnCourse(w)'
    <3>1. CASE work'[w].pc = "drop"
      BY <1>1, <1>3, <1>4, <2>1, <3>1 DEF OnCourse, Pipeline, r
    <3>2. CASE work'[w].pc # "drop"
      <4>1. manifest'[r] = work[w].res
        BY <1>1, <1>2, <2>1, <3>2
      <4> QED BY <1>1, <1>4, <2>1, <3>2, <4>1 DEF OnCourse, Latches, Pipeline, r
    <3> QED BY <3>1, <3>2
  <2>3. \A s \in Runs : s # r => manifest'[s] = manifest[s]
    BY <1>1, <2>1
  <2> QED BY <1>1, <1>3, <1>4, <2>1, <2>2, <2>3, StoryMove DEF r
<1>11. CASE Respond(w)
  <2>1. /\ work'[w].pc = "drop" /\ work'[w].tok = work[w].tok /\ work[w].pc = "respond"
        /\ UNCHANGED <<committed, manifest>>
        /\ \/ index' = [index EXCEPT ![r] = work[w].res] /\ work'[w].fail = work[w].fail
           \/ UNCHANGED index
    BY <1>1, <1>11 DEF Respond, WorkType, regVars, r
  <2>2. /\ manifest[r] = work[w].res /\ (work[w].fail <=> work[w].res # "ok")
        /\ Latches(q, work[w].res) /\ work[w].res \in RunStatuses
    BY <1>1, <2>1 DEF OnCourse, ResultPcs, r, q
  <2>3. OnCourse(w)'
    <3>1. CASE UNCHANGED index
      BY <1>1, <1>3, <1>4, <2>1, <3>1 DEF OnCourse, Pipeline, r
    <3>2. CASE ~UNCHANGED index
      BY <1>1, <1>4, <2>1, <2>2, <3>2 DEF OnCourse, Latches, Pipeline, r, q
    <3> QED BY <3>1, <3>2
  <2>4. \A s \in Runs : s # r => index'[s] = index[s]
    BY <1>1, <2>1
  <2> QED BY <1>1, <1>4, <2>1, <2>3, <2>4, StoryMove DEF r
<1>12. CASE DropKeys(w)
  <2>1. /\ work'[w].pc = "finish" /\ work'[w].tok = work[w].tok /\ work[w].pc = "drop"
        /\ work'[w].fail = work[w].fail /\ UNCHANGED <<committed, manifest, index>>
    BY <1>1, <1>12 DEF DropKeys, WorkType, regVars, diskVars
  <2>2. OnCourse(w)'
    BY <1>1, <1>4, <2>1 DEF OnCourse, Latches, Pipeline, r
  <2> QED BY <1>1, <1>4, <2>1, <2>2, StoryMove DEF r
<1> QED BY <1>5, <1>6, <1>7, <1>8, <1>9, <1>10, <1>11, <1>12

\* Taking a work item starts the job it finds queued, whoever queued it.
LEMMA StoryBegin ==
    ASSUME WInv, NEW w \in Workers, BeginRun(w)
    PROVE  Told' /\ Indexed' /\ Decided'
<1>1. /\ AInv /\ Told /\ Indexed /\ Decided /\ jobs \in JobType /\ work \in WorkType
      /\ target \in [Requests -> Runs] /\ pool \in Seq(Requests)
  BY DEF WInv, AInv, IInv, TypeOK, JobType, WorkType
<1>2. UNCHANGED <<requested, committed, target, manifest, index, reported>>
  BY DEF BeginRun, reqVars, diskVars
<1>3. CASE UNCHANGED <<jobs, work>>
  BY <1>2, <1>3, QuietStory
<1>4. CASE ~UNCHANGED <<jobs, work>>
  <2> DEFINE r == target[Head(pool)]
  <2>1. /\ r \in Runs /\ jobs[r].status = "queued" /\ work[w].pc = "idle"
        /\ jobs' = [jobs EXCEPT ![r].status = "running"]
        /\ work' = [work EXCEPT ![w] = [IdleWorker EXCEPT !.pc = "begun", !.req = Head(pool)]]
    BY <1>1, <1>4, HeadTailProperties DEF BeginRun
  <2> HIDE DEF r
  <2>2. /\ \A s \in Runs : /\ jobs'[s].req = jobs[s].req
                           /\ jobs'[s].status = IF s = r THEN "running" ELSE jobs[s].status
        /\ work'[w].pc = "begun"
        /\ \A v \in Workers : v # w => work'[v] = work[v] /\ RunOf(v)' = RunOf(v)
    BY <1>1, <1>2, <2>1 DEF JobType, WorkType, IdleWorker, RunOf
  <2>3. Told'
    BY <1>1, <1>2, <2>1, <2>2 DEF Told, Live, Terminal
  <2>4. Indexed'
    BY <1>1, <1>2, <2>1, <2>2 DEF Indexed, Live
  <2>5. OnCourse(w)'
    BY <2>2 DEF OnCourse, Pipeline
  <2>6. ASSUME NEW v \in Workers, v # w PROVE OnCourse(v)'
    <3>1. OnCourse(v) /\ work'[v] = work[v] /\ RunOf(v)' = RunOf(v)
      BY <1>1, <2>2, <2>6 DEF Decided
    <3>2. CASE work[v].pc \in Pipeline
      <4>1. jobs'[RunOf(v)].req = jobs[RunOf(v)].req
        BY <1>1, <2>2, <3>2, Executes
      <4> QED BY <1>2, <3>1, <4>1 DEF OnCourse, Latches
    <3>3. CASE work[v].pc \notin Pipeline
      BY <3>1, <3>3 DEF OnCourse, Pipeline
    <3> QED BY <3>2, <3>3
  <2> QED BY <2>3, <2>4, <2>5, <2>6 DEF Decided
<1> QED BY <1>3, <1>4

\* finish confirms the status that belongs to the manifest the index lists.
LEMMA StoryFinish ==
    ASSUME WInv, NEW w \in Workers, Finish(w)
    PROVE  Told' /\ Indexed' /\ Decided'
<1> DEFINE r == RunOf(w)
           st == FinishStatus(r, work[w].fail)
<1>1. /\ TypeOK /\ AInv /\ Told /\ Indexed /\ Decided /\ OnCourse(w) /\ work[w].pc = "finish"
      /\ work \in WorkType
  BY DEF WInv, AInv, IInv, TypeOK, Decided, Finish, WorkType
<1>2. /\ r \in Runs /\ jobs[r].req \in Requests /\ jobs[r].status \in Live
      /\ \A v \in Workers : v # w /\ work[v].pc \in Pipeline =>
            RunOf(v) # r /\ RunOf(v) \in Runs /\ jobs[RunOf(v)].status \in Live
  BY <1>1, Executes DEF Pipeline, Live
<1>3. /\ Terminate(r, st) /\ st \in Terminal /\ jobs[r].status # "absent"
      /\ committed' = committed \cup {jobs[r].req}
      /\ UNCHANGED <<requested, target, manifest, index>>
  BY <1>2 DEF Finish, FinishStatus, Live, Terminal, reqVars, diskVars
<1>4. /\ work'[w].pc \in {"idle", "hook"}
      /\ \A v \in Workers : v # w => work'[v] = work[v] /\ RunOf(v)' = RunOf(v)
  BY <1>1, <1>3 DEF Finish, WorkType, IdleWorker, RunOf
<1>5. manifest[r] # "none" /\ index[r] # "none" => st = Outcome(manifest[r])
  BY <1>1 DEF OnCourse, Latches, FinishStatus, Outcome, RunStatuses
<1> HIDE DEF r, st
<1>6. /\ Told'
      /\ \A s \in Runs : jobs'[s].status \in Live => s # r /\ jobs[s].status \in Live
      /\ \A s \in Runs : s # r /\ jobs[s].status \in Live => jobs'[s] = jobs[s]
  BY <1>1, <1>2, <1>3, <1>5, ToldTerminate
<1>7. Indexed'
  <2>1. ASSUME NEW s \in Runs, jobs'[s].status \in Live, index'[s] # "none"
        PROVE  \E v \in Workers : work'[v].pc \in {"drop", "finish"} /\ RunOf(v)' = s
    <3>1. PICK v \in Workers : work[v].pc \in {"drop", "finish"} /\ RunOf(v) = s
      BY <1>1, <1>3, <1>6, <2>1 DEF Indexed
    <3>2. v # w
      BY <1>6, <2>1, <3>1 DEF r
    <3> QED BY <1>4, <3>1, <3>2
  <2> QED BY <2>1 DEF Indexed
<1>8. OnCourse(w)'
  BY <1>4 DEF OnCourse, Pipeline
<1>9. ASSUME NEW v \in Workers, v # w PROVE OnCourse(v)'
  <2>1. OnCourse(v) /\ work'[v] = work[v] /\ RunOf(v)' = RunOf(v)
    BY <1>1, <1>4, <1>9 DEF Decided
  <2>2. CASE work[v].pc \in Pipeline
    <3>1. /\ jobs'[RunOf(v)] = jobs[RunOf(v)]
          /\ jobs[RunOf(v)].req # jobs[r].req
      BY <1>1, <1>2, <1>6, <1>9, <2>2, JobsDiffer, NoneAssumption
    <3> QED BY <1>3, <2>1, <3>1 DEF OnCourse, Latches
  <2>3. CASE work[v].pc \notin Pipeline
    BY <2>1, <2>3 DEF OnCourse, Pipeline
  <2> QED BY <2>2, <2>3
<1> QED BY <1>6, <1>7, <1>8, <1>9 DEF Decided

\* The cancellation hook runs after the job has ended; a crash leaves no job
\* and no worker, and what was confirmed before still agrees with the disk.
LEMMA StoryRest ==
    ASSUME WInv, (\E w \in Workers : CancelledHook(w)) \/ Crash \/ Recover \/ UNCHANGED vars
    PROVE  Told' /\ Indexed' /\ Decided'
<1>1. ASSUME NEW w \in Workers, CancelledHook(w) PROVE Told' /\ Indexed' /\ Decided'
  <2>1. UNCHANGED <<jobs, requested, committed, target, manifest, index, reported>>
    BY <1>1 DEF CancelledHook, regVars, reqVars
  <2>2. work \in WorkType /\ Told /\ Indexed /\ Decided
    BY DEF WInv, AInv, IInv, TypeOK, WorkType
  <2>3. work'[w].pc = "idle" /\ work[w].pc = "hook"
        /\ \A v \in Workers : v # w => work'[v] = work[v] /\ RunOf(v)' = RunOf(v)
    BY <1>1, <2>1, <2>2 DEF CancelledHook, WorkType, IdleWorker, RunOf
  <2>4. Told'
    BY <2>1, <2>2 DEF Told
  <2>5. Indexed'
    BY <2>1, <2>2, <2>3 DEF Indexed
  <2>6. \A v \in Workers : OnCourse(v)'
    <3>1. OnCourse(w)'
      BY <2>3 DEF OnCourse, Pipeline
    <3>2. \A v \in Workers : v # w => OnCourse(v)'
      BY <2>1, <2>2, <2>3 DEF Decided, OnCourse, Latches
    <3> QED BY <3>1, <3>2
  <2> QED BY <2>4, <2>5, <2>6 DEF Decided
<1>2. CASE Crash
  <2>1. /\ \A r \in Runs : jobs'[r].status = "absent"
        /\ \A w \in Workers : work'[w].pc = "idle"
        /\ UNCHANGED <<manifest, index, reported>>
    BY <1>2 DEF Crash, NoJob, IdleWorker, diskVars
  <2>2. Told'
    BY <2>1 DEF WInv, Told, Live, Terminal
  <2>3. Indexed' /\ Decided'
    BY <2>1 DEF Indexed, Decided, OnCourse, Pipeline, Live
  <2> QED BY <2>2, <2>3
<1>3. CASE Recover \/ UNCHANGED vars
  <2>1. UNCHANGED <<jobs, requested, committed, target, work, manifest, index, reported>>
    BY <1>3 DEF Recover, Boot, MarkInterrupted, vars, regVars, reqVars, diskVars
  <2> QED BY <2>1, QuietStory
<1> QED BY <1>1, <1>2, <1>3

\* The first state has told nothing.
LEMMA StoryInit == Init => WInv
<1> SUFFICES ASSUME Init PROVE WInv
  OBVIOUS
<1>1. AInv
  BY InitIInv DEF Init, AInv, HandedOver, OneWorkerPerRun, IdleWorker, Pipeline
<1>2. Told /\ Indexed /\ Decided
  BY DEF Init, Told, Indexed, Decided, OnCourse, NoJob, IdleWorker, Pipeline, Live, Terminal
<1> QED BY <1>1, <1>2 DEF WInv

LEMMA StoryStep ==
    ASSUME Calm, "conflict" \notin Faults, CheckHolds, WInv, [Next]_vars
    PROVE  WInv'
<1>1. AInv'
  <2>1. IInv /\ [Next]_vars => IInv'
    BY SubmitIInv, CancelIInv, WorkIInv, LifeIInv, StutterIInv DEF Next
  <2> QED BY <2>1, HandedOverStep, OneWorkerStep DEF WInv, AInv
<1>2. Told' /\ Indexed' /\ Decided'
  <2>1. ASSUME NEW w \in Workers, Work(w) PROVE Told' /\ Indexed' /\ Decided'
    BY <2>1, StoryBegin, StoryPipeline, StoryFinish, StoryRest DEF Work
  <2> QED BY <2>1, StorySubmit, StoryCancel, StoryRest DEF Next
<1> QED BY <1>1, <1>2 DEF WInv

\* The parts speak of the job while there is one and of the disk afterwards.
LEMMA StoryAgrees == WInv => RestoredStatusAgrees
<1> SUFFICES ASSUME WInv, NEW r \in Runs, reported[r] # "none",
                    manifest[r] # "none" => index[r] # "none"
             PROVE  StatusOf(r) \in {reported[r], "absent"}
  BY DEF RestoredStatusAgrees
<1>1. jobs[r].status \in Live \cup Terminal \cup {"absent"}
  BY DEF WInv, AInv, IInv, TypeOK
<1>2. CASE jobs[r].status \in Terminal
  BY <1>2 DEF WInv, Told, StatusOf, Terminal
<1>3. CASE jobs[r].status = "absent"
  BY <1>3 DEF WInv, Told, StatusOf, Outcome, Live
<1> QED BY <1>1, <1>2, <1>3 DEF WInv, Told

\* Where no submission fails half way and no build is answered 409 after its
\* run ended well, and as long as what the index check saw still holds when
\* the job is created: whatever is evicted, cancelled, resubmitted or crashes,
\* the status GET /builds restores from the manifest of an indexed run is the
\* one the registry had confirmed.
THEOREM StatusSurvives ==
    ASSUME Calm, "conflict" \notin Faults
    PROVE  Spec /\ []CheckHolds => []RestoredStatusAgrees
<1>1. WInv /\ CheckHolds /\ [Next]_vars => WInv'
  BY StoryStep
<1> QED BY <1>1, StoryInit, StoryAgrees, PTL DEF Spec

-----------------------------------------------------------------------------
\* Every POST names a run id of its own.
OwnIds == \A p, q \in Requests : target[p] = target[q] => p = q

\* The index row of a run comes from a request that has created its job.
RowsOfJobs ==
    \A r \in Runs : index[r] # "none" =>
        \E q \in Requests : target[q] = r /\ pc[q] \notin {"idle", "create"}

LEMMA RowsOfJobsStep ==
    ASSUME Calm, AInv, RowsOfJobs, [Next]_vars
    PROVE  RowsOfJobs'
<1>1. pc \in [Requests -> RequestPcs] /\ index \in [Runs -> RunStatuses \cup {"none"}]
  BY DEF AInv, IInv, TypeOK
<1>2. UNCHANGED target
  BY DEF Next, Submit, CheckIndex, TryCreate, Accept, BindKeys, Enqueue, MarkFailed,
     RecordEnqueueFailure, CancelGuard, CancelStep, RequestCancel, RecordCancelled, CancelDiscardKeys,
     Work, BeginRun, TakeKeys, StartPipeline, RunSources, Commit, RecordOutcome, WriteManifest, Respond,
     DropKeys, Finish, CancelledHook, Crash, Recover, Boot, MarkInterrupted, vars, reqVars
<1>3. \A q \in Requests : pc[q] \notin {"idle", "create"} => pc'[q] \notin {"idle", "create"}
  <2>1. ASSUME NEW p \in Requests, Submit(p)
        PROVE  \A q \in Requests : pc[q] \notin {"idle", "create"} => pc'[q] \notin {"idle", "create"}
    BY <1>1, <2>1 DEF Submit, CheckIndex, TryCreate, Accept, BindKeys, Enqueue, MarkFailed,
       RecordEnqueueFailure
  <2>2. CASE Crash
    BY <2>2 DEF Crash
  <2>3. ASSUME NEW c \in Cancellers, (\E r \in Runs : CancelGuard(c, r)) \/ CancelStep(c)
        PROVE  UNCHANGED pc
    BY <2>3 DEF CancelGuard, CancelStep, RequestCancel, RecordCancelled, CancelDiscardKeys, reqVars
  <2>4. ASSUME NEW w \in Workers, Work(w) PROVE UNCHANGED pc
    BY <2>4 DEF Work, BeginRun, TakeKeys, StartPipeline, RunSources, Commit, RecordOutcome, WriteManifest,
       Respond, DropKeys, Finish, CancelledHook, reqVars
  <2>5. CASE Recover \/ UNCHANGED vars
    BY <2>5 DEF Recover, Boot, MarkInterrupted, vars, reqVars
  <2> QED BY <2>1, <2>2, <2>3, <2>4, <2>5 DEF Next
<1>4. CASE UNCHANGED index
  BY <1>2, <1>3, <1>4 DEF RowsOfJobs
<1>5. ASSUME NEW w \in Workers, Respond(w) PROVE RowsOfJobs'
  <2>1. work[w].pc \in Pipeline /\ \A s \in Runs : s # RunOf(w) => index'[s] = index[s]
    BY <1>1, <1>5 DEF Respond, Pipeline
  <2>2. RunOf(w) \in Runs /\ jobs[RunOf(w)].req \in Requests
    BY <2>1, Executes
  <2>3. target[jobs[RunOf(w)].req] = RunOf(w) /\ pc[jobs[RunOf(w)].req] \notin {"idle", "create"}
    BY <2>2, NoneAssumption DEF AInv, IInv, JobOwner, FreshLatch
  <2> QED BY <1>2, <1>3, <2>1, <2>2, <2>3 DEF RowsOfJobs
<1>6. (\E w \in Workers : Respond(w)) \/ UNCHANGED index
  BY DEF Next, Submit, CheckIndex, TryCreate, Accept, BindKeys, Enqueue, MarkFailed,
     RecordEnqueueFailure, CancelGuard, CancelStep, RequestCancel, RecordCancelled, CancelDiscardKeys,
     Work, BeginRun, TakeKeys, StartPipeline, RunSources, Commit, RecordOutcome, WriteManifest,
     DropKeys, Finish, CancelledHook, Crash, Recover, Boot, MarkInterrupted, vars, diskVars
<1> QED BY <1>4, <1>5, <1>6

\* In particular the status survives, with no assumption on the timing of
\* threads, wherever clients never use a run id twice (the service makes up an
\* id of its own for a request without one).
THEOREM OwnStatusSurvives ==
    ASSUME Calm, "conflict" \notin Faults
    PROVE  Spec /\ OwnIds => []RestoredStatusAgrees
<1> DEFINE Rows == AInv /\ OwnIds /\ RowsOfJobs
<1>1. Init /\ OwnIds => Rows
  BY StoryInit DEF Init, WInv, RowsOfJobs
<1>2. Rows /\ [Next]_vars => Rows'
  <2> SUFFICES ASSUME Rows, [Next]_vars PROVE Rows'
    OBVIOUS
  <2>1. AInv'
    <3>1. IInv /\ [Next]_vars => IInv'
      BY SubmitIInv, CancelIInv, WorkIInv, LifeIInv, StutterIInv DEF Next
    <3> QED BY <3>1, HandedOverStep, OneWorkerStep DEF AInv
  <2>2. UNCHANGED target
    BY DEF Next, Submit, CheckIndex, TryCreate, Accept, BindKeys, Enqueue, MarkFailed,
       RecordEnqueueFailure, CancelGuard, CancelStep, RequestCancel, RecordCancelled, CancelDiscardKeys,
       Work, BeginRun, TakeKeys, StartPipeline, RunSources, Commit, RecordOutcome, WriteManifest, Respond,
       DropKeys, Finish, CancelledHook, Crash, Recover, Boot, MarkInterrupted, vars, reqVars
  <2> QED BY <2>1, <2>2, RowsOfJobsStep DEF OwnIds
<1>3. Rows => CheckHolds
  <2> SUFFICES ASSUME Rows, NEW q \in Requests, pc[q] = "create" PROVE index[target[q]] = "none"
    BY DEF CheckHolds
  <2>1. target[q] \in Runs
    BY DEF AInv, IInv, TypeOK
  <2> QED BY <2>1 DEF RowsOfJobs, OwnIds
<1> HIDE DEF Rows
<1>4. Spec /\ OwnIds => []CheckHolds
  BY <1>1, <1>2, <1>3, PTL DEF Spec
<1> QED BY <1>4, StatusSurvives
=============================================================================
