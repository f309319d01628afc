------------------------------ MODULE BuildJobs ------------------------------
(***************************************************************************)
(* The asynchronous build service: POST /builds, POST .../cancel, the      *)
(* worker pool, the in-memory job registry, and the three durable stores a *)
(* build leaves a trace in (event log, manifest, build index).             *)
(*                                                                         *)
(* Sources: service/jobs.py (registry, cancellation latches, executor),    *)
(* service/build_runs_api.py and service/app.py (submission, cancellation, *)
(* recovery, the runner), service/request_credentials.py (per-job keys),   *)
(* events/ (event log), pipeline/orchestrator.py (how run_build ends).     *)
(*                                                                         *)
(* A request q \in Requests is one POST /builds call; a job is named by    *)
(* the request that created it, so the RunCancellation object made with a  *)
(* job is also named by that request.  Every step between two locks, hooks *)
(* or I/O calls of a thread is an action of its own.                       *)
(***************************************************************************)
EXTENDS Naturals, Sequences, FiniteSets, Functions

CONSTANTS
    Runs,          \* run ids a client can supply
    Requests,      \* POST /builds calls, each served by its own HTTP thread
    Cancellers,    \* HTTP threads that serve cancel calls
    Workers,       \* threads of the build pool (max_workers)
    None,          \* Python's None: no request, no run id
    MaxQueued,     \* max_queue_size
    MaxTerminal,   \* max_terminal_jobs (256 in a deployment)
    MaxCrashes,    \* bound on process crashes
    MultiUser,     \* ownership.multi_user_mode()
    Faults         \* which calls to the outside may fail

ASSUME NoneAssumption == None \notin Requests \cup Runs
ASSUME BoundsAssumption ==
    /\ MaxQueued \in Nat
    /\ MaxTerminal \in Nat
    /\ MaxCrashes \in Nat
    /\ MultiUser \in BOOLEAN
FaultNames == {"submit", "append", "enqueue", "runner", "conflict", "manifest", "secure", "index"}
ASSUME FaultsAssumption == Faults \subseteq FaultNames

Terminal == {"succeeded", "failed", "cancelled"}
Live == {"queued", "running", "cancelling"}
TerminalEvents == {"run_finished", "run_failed", "run_cancelled"}
EventNames == {"run_submitted", "run_started"} \cup TerminalEvents
RunStatuses == {"ok", "failed", "cancelled"}

VARIABLES
    jobs,       \* registry._jobs: run id -> [req, status], "absent" when no entry
    requested,  \* RunCancellation._requested, by the request that made the job
    committed,  \* RunCancellation._committed
    order,      \* registry._terminal_order
    pool,       \* work items of the ThreadPoolExecutor not yet taken
    pc,         \* where each POST /builds thread is
    target,     \* the run id each POST names
    can,        \* cancel threads: [pc, run], run the id the call names
    work,       \* pool threads: [pc, req, tok, res, fail], req the work item (its spec
                \* and run id), tok the RunCancellation object held, res run_build's
                \* status so far, fail: the runner answered >= 400 or raised
    keys,       \* JobCredentials._bindings: run id -> the request that bound them
    got,        \* requests whose job received its own keys from take()
    events,     \* build_events rows by run id (durable, append-only)
    manifest,   \* manifest.json status by run id (durable)
    index,      \* BuildIndex status by run id (durable)
    up,         \* the process serves requests
    crashes,    \* crashes so far
    reported    \* history: the terminal status the registry last confirmed for a run

regVars == <<jobs, requested, committed, order>>
reqVars == <<pc, target>>
keyVars == <<keys, got>>
diskVars == <<events, manifest, index>>
lifeVars == <<up, crashes>>
vars == <<regVars, pool, reqVars, can, work, keyVars, diskVars, lifeVars, reported>>

NoJob == [req |-> None, status |-> "absent"]
IdleCanceller == [pc |-> "idle", run |-> None]
IdleWorker == [pc |-> "idle", req |-> None, tok |-> None, res |-> "none", fail |-> FALSE]
Queued(js) == {r \in Runs : js[r].status = "queued"}

Init ==
    /\ jobs = [r \in Runs |-> NoJob]
    /\ requested = {} /\ committed = {}
    /\ order = <<>> /\ pool = <<>>
    /\ pc = [q \in Requests |-> "idle"]
    /\ target \in [Requests -> Runs]
    /\ can = [c \in Cancellers |-> IdleCanceller]
    /\ work = [w \in Workers |-> IdleWorker]
    /\ keys = [r \in Runs |-> None] /\ got = {}
    /\ events = [r \in Runs |-> <<>>]
    /\ manifest = [r \in Runs |-> "none"]
    /\ index = [r \in Runs |-> "none"]
    /\ up = TRUE /\ crashes = 0
    /\ reported = [r \in Runs |-> "none"]

(***************************************************************************)
(* Helpers shared by several operations.                                   *)
(***************************************************************************)

\* _retire_locked: append to the completion order, then drop the oldest
\* entries over the limit; a dropped run id loses its job only if terminal.
RetiredOrder(r) == Append(order, r)
Overflow(o) == IF Len(o) > MaxTerminal THEN Len(o) - MaxTerminal ELSE 0
KeptOrder(o) == SubSeq(o, Overflow(o) + 1, Len(o))
Evicted(o, js) ==
    [r \in Runs |->
        IF (\E i \in 1..Overflow(o) : o[i] = r) /\ js[r].status \in Terminal
        THEN NoJob ELSE js[r]]

\* A job becomes terminal: the snapshot is replaced and retired.
Terminate(r, st) ==
    LET o  == RetiredOrder(r)
        js == [jobs EXCEPT ![r].status = st]
    IN  /\ jobs' = Evicted(o, js)
        /\ order' = KeptOrder(o)
        /\ reported' = [reported EXCEPT ![r] = st]

\* BuildEventStore.append inside a try/except that swallows the failure.
AppendAbsorbed(r, e) ==
    \/ events' = [events EXCEPT ![r] = Append(@, e)]
    \/ "append" \in Faults /\ UNCHANGED events

\* JobCredentials.discard.
DiscardKeys(r) == keys' = [keys EXCEPT ![r] = None]

(***************************************************************************)
(* POST /builds: submit_build and AsyncBuildExecutor.submit.               *)
(***************************************************************************)

\* The completed-run check against the build index, done before and outside
\* the registry lock.
CheckIndex(q) ==
    /\ up /\ pc[q] = "idle"
    /\ pc' = [pc EXCEPT ![q] = IF index[target[q]] # "none" THEN "done" ELSE "create"]
    /\ UNCHANGED <<regVars, pool, target, can, work, keyVars, diskVars, lifeVars, reported>>

\* registry.try_create: existence, queue capacity and creation in one lock.
TryCreate(q) ==
    LET r == target[q] IN
    /\ pc[q] = "create"
    /\ IF jobs[r].status # "absent" \/ Cardinality(Queued(jobs)) >= MaxQueued
       THEN /\ pc' = [pc EXCEPT ![q] = "done"]
            /\ UNCHANGED <<jobs, reported>>
       ELSE /\ jobs' = [jobs EXCEPT ![r] = [req |-> q, status |-> "queued"]]
            /\ pc' = [pc EXCEPT ![q] = "accept"]
            /\ reported' = [reported EXCEPT ![r] = "none"]
    /\ UNCHANGED <<requested, committed, order, pool, target, can, work, keyVars,
                   diskVars, lifeVars>>

\* on_accept, first half: append run_submitted; the append propagates its
\* failure and submit() then discards the job (registry.discard).
Accept(q) ==
    LET r == target[q] IN
    /\ pc[q] = "accept"
    /\ \/ /\ events' = [events EXCEPT ![r] = Append(@, "run_submitted")]
          /\ pc' = [pc EXCEPT ![q] = "bind"]
          /\ UNCHANGED jobs
       \/ /\ "submit" \in Faults
          /\ jobs' = [jobs EXCEPT ![r] = NoJob]
          /\ pc' = [pc EXCEPT ![q] = "done"]
          /\ UNCHANGED events
    /\ UNCHANGED <<requested, committed, order, pool, target, can, work, keyVars,
                   manifest, index, lifeVars, reported>>

\* Mutant: the keys are bound in single-user mode instead.
BindKeysInverted(q) ==
    /\ pc[q] = "bind"
    /\ keys' = IF MultiUser THEN keys ELSE [keys EXCEPT ![target[q]] = q]
    /\ pc' = [pc EXCEPT ![q] = "enqueue"]
    /\ UNCHANGED <<regVars, pool, target, can, work, got, diskVars, lifeVars, reported>>

\* on_accept, second half: bind the request's provider keys to the run id.
BindKeys(q) ==
    /\ pc[q] = "bind"
    /\ keys' = IF MultiUser THEN [keys EXCEPT ![target[q]] = q] ELSE keys
    /\ pc' = [pc EXCEPT ![q] = "enqueue"]
    /\ UNCHANGED <<regVars, pool, target, can, work, got, diskVars, lifeVars, reported>>

\* ThreadPoolExecutor.submit; on failure the thread goes on to mark_failed.
Enqueue(q) ==
    /\ pc[q] = "enqueue"
    /\ \/ /\ pool' = Append(pool, q)
          /\ pc' = [pc EXCEPT ![q] = "done"]
       \/ /\ "enqueue" \in Faults
          /\ pc' = [pc EXCEPT ![q] = "enqfail"]
          /\ UNCHANGED pool
    /\ UNCHANGED <<regVars, target, can, work, keyVars, diskVars, lifeVars, reported>>

\* registry.mark_failed / _replace: KeyError when the job is gone (the hook is
\* then not reached), no change when it is terminal already.
MarkFailed(q) ==
    LET r == target[q] IN
    /\ pc[q] = "enqfail"
    /\ pc' = [pc EXCEPT ![q] = IF jobs[r].status = "absent" THEN "done" ELSE "enqhook"]
    /\ IF jobs[r].status \in Live
       THEN Terminate(r, "failed")
       ELSE UNCHANGED <<jobs, order, reported>>
    /\ UNCHANGED <<requested, committed, pool, target, can, work, keyVars, diskVars,
                   lifeVars>>

\* on_enqueue_failure: drop the keys, append run_failed (failure absorbed).
RecordEnqueueFailure(q) ==
    LET r == target[q] IN
    /\ pc[q] = "enqhook"
    /\ IF MultiUser THEN DiscardKeys(r) ELSE UNCHANGED keys
    /\ AppendAbsorbed(r, "run_failed")
    /\ pc' = [pc EXCEPT ![q] = "done"]
    /\ UNCHANGED <<regVars, pool, target, can, work, got, manifest, index, lifeVars,
                   reported>>

(***************************************************************************)
(* POST /builds/{run_id}/cancel.                                           *)
(***************************************************************************)

\* The route's guard (check_active_run_access): 404 unless a manifest or a
\* registry entry exists.  A cancel thread serves any number of calls.
CancelGuard(c, r) ==
    /\ up /\ can[c].pc = "idle"
    /\ manifest[r] # "none" \/ jobs[r].status # "absent"
    /\ can' = [can EXCEPT ![c] = [pc |-> "request", run |-> r]]
    /\ UNCHANGED <<regVars, pool, reqVars, work, keyVars, diskVars, lifeVars, reported>>

\* request_cancel's terminal filter and RunCancellation.request.
GrantableLate(r) == jobs[r].status # "absent" /\ jobs[r].req \notin committed \* mutant
Grantable(r) == jobs[r].status \in Live /\ jobs[r].req \notin committed

\* Mutant: a running job is reported cancelled at once.
RequestCancelHasty(c) ==
    LET r == can[c].run IN
    /\ can[c].pc = "request"
    /\ can' = [can EXCEPT ![c].pc = "discard"]
    /\ IF Grantable(r)
       THEN requested' = requested \cup {jobs[r].req} /\ Terminate(r, "cancelled")
       ELSE UNCHANGED <<requested, jobs, order, reported>>
    /\ UNCHANGED <<committed, pool, reqVars, work, keyVars, diskVars, lifeVars>>

\* registry.request_cancel, one lock around the decision and the transition.
RequestCancel(c) ==
    LET r == can[c].run
        granted == Grantable(r)
    IN
    /\ can[c].pc = "request"
    /\ requested' = IF granted THEN requested \cup {jobs[r].req} ELSE requested
    /\ IF granted /\ jobs[r].status = "queued"
       THEN /\ Terminate(r, "cancelled")
            /\ can' = [can EXCEPT ![c].pc = "record"]
       ELSE /\ jobs' = IF granted THEN [jobs EXCEPT ![r].status = "cancelling"] ELSE jobs
            /\ can' = [can EXCEPT ![c].pc = "discard"]
            /\ UNCHANGED <<order, reported>>
    /\ UNCHANGED <<committed, pool, reqVars, work, keyVars, diskVars, lifeVars>>

\* record_run_cancelled, for a job cancelled while queued.
RecordCancelled(c) ==
    /\ can[c].pc = "record"
    /\ AppendAbsorbed(can[c].run, "run_cancelled")
    /\ can' = [can EXCEPT ![c].pc = "discard"]
    /\ UNCHANGED <<regVars, pool, reqVars, work, keyVars, manifest, index, lifeVars, reported>>

\* BuilderService.cancel_build drops the run's keys whatever the outcome was.
CancelDiscardKeys(c) ==
    /\ can[c].pc = "discard"
    /\ DiscardKeys(can[c].run)
    /\ can' = [can EXCEPT ![c] = IdleCanceller]
    /\ UNCHANGED <<regVars, pool, reqVars, work, got, diskVars, lifeVars, reported>>

(***************************************************************************)
(* The worker: AsyncBuildExecutor._run, _run_build_job, build, run_build.  *)
(***************************************************************************)

RunOf(w) == target[work[w].req]

\* Mutant: the worker starts any job the registry still knows.
BeginRunUnchecked(w) ==
    LET q == Head(pool) IN
    /\ work[w].pc = "idle" /\ pool # <<>>
    /\ pool' = Tail(pool)
    /\ work' = [work EXCEPT ![w] = [IdleWorker EXCEPT !.pc = "begun", !.req = q]]
    /\ UNCHANGED <<regVars, reqVars, can, keyVars, diskVars, lifeVars, reported>>

\* Take a work item and registry.begin_run: queued -> running, or drop it.
BeginRun(w) ==
    LET q == Head(pool) IN
    /\ work[w].pc = "idle" /\ pool # <<>>
    /\ pool' = Tail(pool)
    /\ IF jobs[target[q]].status = "queued"
       THEN /\ jobs' = [jobs EXCEPT ![target[q]].status = "running"]
            /\ work' = [work EXCEPT ![w] = [IdleWorker EXCEPT !.pc = "begun", !.req = q]]
       ELSE UNCHANGED <<jobs, work>>
    /\ UNCHANGED <<requested, committed, order, reqVars, can, keyVars, diskVars, lifeVars,
                   reported>>

\* registry.cancellation(run_id), then JobCredentials.take.  When the registry
\* entry is gone the worker makes a fresh latch nobody else can reach (None).
TakeKeys(w) ==
    LET r == RunOf(w) IN
    /\ work[w].pc = "begun"
    /\ got' = IF keys[r] # None /\ keys[r] = jobs[r].req THEN got \cup {keys[r]} ELSE got
    /\ DiscardKeys(r)
    /\ work' = [work EXCEPT ![w].pc = "prepare", ![w].tok = jobs[r].req]
    /\ UNCHANGED <<regVars, pool, reqVars, can, diskVars, lifeVars, reported>>

\* build() up to run_build's run_started: spec validation, url refusal, client
\* creation.  Any refusal (4xx/502) or exception ends the runner here.
StartPipeline(w) ==
    /\ work[w].pc = "prepare"
    /\ \/ /\ AppendAbsorbed(RunOf(w), "run_started")
          /\ work' = [work EXCEPT ![w].pc = "sources"]
       \/ /\ "runner" \in Faults
          /\ work' = [work EXCEPT ![w].pc = "drop", ![w].fail = TRUE]
          /\ UNCHANGED events
    /\ UNCHANGED <<regVars, pool, reqVars, can, keyVars, manifest, index, lifeVars, reported>>

\* Mutant: BuildCancelled escapes the worker instead of ending the job.
RunSourcesLeaking(w) ==
    /\ work[w].pc = "sources"
    /\ work' = IF work[w].tok \in requested
               THEN [work EXCEPT ![w] = IdleWorker]
               ELSE [work EXCEPT ![w].pc = "commit", ![w].res = "ok"]
    /\ UNCHANGED <<regVars, pool, reqVars, can, keyVars, diskVars, lifeVars, reported>>

\* All sources: each ends ok, failed, or cancelled when it saw the request at a
\* stage boundary; an exception out of run_build ends the runner.
RunSources(w) ==
    /\ work[w].pc = "sources"
    /\ \/ \E st \in {"ok", "failed"} : work' = [work EXCEPT ![w].pc = "commit", ![w].res = st]
       \/ /\ work[w].tok \in requested
          /\ work' = [work EXCEPT ![w].pc = "commit", ![w].res = "cancelled"]
       \/ /\ "runner" \in Faults
          /\ work' = [work EXCEPT ![w].pc = "drop", ![w].fail = TRUE]
    /\ UNCHANGED <<regVars, pool, reqVars, can, keyVars, diskVars, lifeVars, reported>>

\* Mutant: the commit latches without looking at the cancellation request.
CommitBlind(w) ==
    /\ work[w].pc = "commit"
    /\ committed' = committed \cup {work[w].tok}
    /\ work' = [work EXCEPT ![w].pc = "record"]
    /\ UNCHANGED <<jobs, requested, order, pool, reqVars, can, keyVars, diskVars, lifeVars,
                   reported>>

\* The point of no return: RunCancellation.commit, skipped when a source
\* already saw the cancellation; composition may still fail an ok run.
Commit(w) ==
    LET tok == work[w].tok
        open == work[w].res # "cancelled" /\ tok \notin requested
    IN
    /\ work[w].pc = "commit"
    /\ committed' = IF open THEN committed \cup {tok} ELSE committed
    /\ \E st \in IF open THEN {work[w].res, "failed"} ELSE {"cancelled"} :
          work' = [work EXCEPT ![w].pc = "record", ![w].res = st]
    /\ UNCHANGED <<jobs, requested, order, pool, reqVars, can, keyVars, diskVars, lifeVars,
                   reported>>

\* Mutant: a cancelled run is recorded as failed too.
RecordOutcomeAlways(w) ==
    /\ work[w].pc = "record"
    /\ AppendAbsorbed(RunOf(w), IF work[w].res = "ok" THEN "run_finished" ELSE "run_failed")
    /\ work' = [work EXCEPT ![w].pc = "materialize"]
    /\ UNCHANGED <<regVars, pool, reqVars, can, keyVars, manifest, index, lifeVars, reported>>

\* run_finished / run_failed through the recorder (failure absorbed); nothing
\* for a cancelled run.
RecordOutcome(w) ==
    /\ work[w].pc = "record"
    /\ \/ work[w].res = "ok" /\ AppendAbsorbed(RunOf(w), "run_finished")
       \/ work[w].res = "failed" /\ AppendAbsorbed(RunOf(w), "run_failed")
       \/ work[w].res = "cancelled" /\ UNCHANGED events
    /\ work' = [work EXCEPT ![w].pc = "materialize"]
    /\ UNCHANGED <<regVars, pool, reqVars, can, keyVars, manifest, index, lifeVars, reported>>

\* Warehouse commit of an ok run, where a lost compare-and-swap or a failed
\* commit makes the answer 409 without changing the run's status; then the
\* manifest, whose failed write raises out of run_build.
WriteManifest(w) ==
    /\ work[w].pc = "materialize"
    /\ \/ /\ manifest' = [manifest EXCEPT ![RunOf(w)] = work[w].res]
          /\ \E lost \in {FALSE, work[w].res = "ok" /\ "conflict" \in Faults} :
                work' = [work EXCEPT ![w].pc = "respond",
                                     ![w].fail = lost \/ work[w].res # "ok"]
       \/ /\ "manifest" \in Faults
          /\ work' = [work EXCEPT ![w].pc = "drop", ![w].fail = TRUE]
          /\ UNCHANGED manifest
    /\ UNCHANGED <<regVars, pool, reqVars, can, keyVars, events, index, lifeVars, reported>>

\* Mutant: a failed redaction demotes the manifest that is already written.
RespondDemoting(w) ==
    /\ work[w].pc = "respond"
    /\ \/ index' = [index EXCEPT ![RunOf(w)] = work[w].res] /\ UNCHANGED manifest
       \/ manifest' = [manifest EXCEPT ![RunOf(w)] = "failed"] /\ UNCHANGED index
    /\ work' = [work EXCEPT ![w].pc = "drop", ![w].fail = TRUE]
    /\ UNCHANGED <<regVars, pool, reqVars, can, keyVars, events, lifeVars, reported>>

\* build() after run_build: redact the manifest (500 on failure, before the
\* index is written), then the best-effort index row.
Respond(w) ==
    /\ work[w].pc = "respond"
    /\ \/ /\ index' = [index EXCEPT ![RunOf(w)] = work[w].res]
          /\ work' = [work EXCEPT ![w].pc = "drop"]
       \/ /\ "index" \in Faults
          /\ work' = [work EXCEPT ![w].pc = "drop"]
          /\ UNCHANGED index
       \/ /\ "secure" \in Faults
          /\ work' = [work EXCEPT ![w].pc = "drop", ![w].fail = TRUE]
          /\ UNCHANGED index
    /\ UNCHANGED <<regVars, pool, reqVars, can, keyVars, events, manifest, lifeVars, reported>>

\* The finally of _run_build_job: drop the keys whichever way the run ended.
DropKeys(w) ==
    /\ work[w].pc = "drop"
    /\ DiscardKeys(RunOf(w))
    /\ work' = [work EXCEPT ![w].pc = "finish"]
    /\ UNCHANGED <<regVars, pool, reqVars, can, got, diskVars, lifeVars, reported>>

\* registry.finish with RunCancellation.close inside the lock.  The latch, not
\* the runner's answer, decides whether the job was cancelled.
FinishStatusByAnswer(r, failed) == IF failed THEN "failed" ELSE "succeeded" \* mutant
FinishStatusOfRun(r, failed) == IF failed THEN "failed" ELSE "ok" \* mutant
FinishStatus(r, failed) ==
    IF jobs[r].req \in requested THEN "cancelled" ELSE IF failed THEN "failed" ELSE "succeeded"
Finish(w) ==
    LET r == RunOf(w)
        ends == jobs[r].status \in Live
        st == IF ends THEN FinishStatus(r, work[w].fail) ELSE jobs[r].status
    IN
    /\ work[w].pc = "finish"
    /\ IF ends
       THEN /\ Terminate(r, st)
            /\ committed' = committed \cup {jobs[r].req}
       ELSE UNCHANGED <<jobs, order, reported, committed>>
    /\ work' = [work EXCEPT ![w] = IF st = "cancelled" THEN [@ EXCEPT !.pc = "hook"]
                                   ELSE IdleWorker]
    /\ UNCHANGED <<requested, pool, reqVars, can, keyVars, diskVars, lifeVars>>

\* The on_cancelled hook: run_cancelled for a job cancelled while running.
CancelledHook(w) ==
    /\ work[w].pc = "hook"
    /\ AppendAbsorbed(RunOf(w), "run_cancelled")
    /\ work' = [work EXCEPT ![w] = IdleWorker]
    /\ UNCHANGED <<regVars, pool, reqVars, can, keyVars, manifest, index, lifeVars, reported>>

(***************************************************************************)
(* Crash and restart.                                                      *)
(***************************************************************************)

\* The process dies: everything in memory is gone, open connections break.
Crash ==
    /\ crashes < MaxCrashes
    /\ crashes' = crashes + 1
    /\ up' = FALSE
    /\ jobs' = [r \in Runs |-> NoJob]
    /\ requested' = {} /\ committed' = {}
    /\ order' = <<>> /\ pool' = <<>>
    /\ pc' = [q \in Requests |-> IF pc[q] = "idle" THEN "idle" ELSE "done"]
    /\ can' = [c \in Cancellers |-> IdleCanceller]
    /\ work' = [w \in Workers |-> IdleWorker]
    /\ keys' = [r \in Runs |-> None] /\ got' = {}
    /\ UNCHANGED <<target, diskVars, reported>>

\* BuildEventStore.unfinished_runs.
Unfinished(r) ==
    /\ Range(events[r]) \cap {"run_submitted", "run_started"} # {}
    /\ Range(events[r]) \cap TerminalEvents = {}
InterruptedSwapped(r) == MultiUser /\ Unfinished(r) /\ manifest[r] # "none" \* mutant
Interrupted(r) == MultiUser /\ Unfinished(r) /\ manifest[r] = "none"

\* mark_interrupted_runs, one run at a time, before the server binds its port.
MarkInterrupted(r) ==
    /\ ~up /\ Interrupted(r)
    /\ events' = [events EXCEPT ![r] = Append(@, "run_failed")]
    /\ UNCHANGED <<regVars, pool, reqVars, can, work, keyVars, manifest, index, lifeVars,
                   reported>>
Boot ==
    /\ ~up /\ \A r \in Runs : ~Interrupted(r)
    /\ up' = TRUE
    /\ UNCHANGED <<regVars, pool, reqVars, can, work, keyVars, diskVars, crashes,
                   reported>>

Submit(q) ==
    \/ CheckIndex(q) \/ TryCreate(q) \/ Accept(q) \/ BindKeys(q) \/ Enqueue(q)
    \/ MarkFailed(q) \/ RecordEnqueueFailure(q)
CancelStep(c) == RequestCancel(c) \/ RecordCancelled(c) \/ CancelDiscardKeys(c)
Work(w) ==
    \/ BeginRun(w) \/ TakeKeys(w) \/ StartPipeline(w) \/ RunSources(w) \/ Commit(w)
    \/ RecordOutcome(w) \/ WriteManifest(w) \/ Respond(w) \/ DropKeys(w) \/ Finish(w)
    \/ CancelledHook(w)
Recover == Boot \/ \E r \in Runs : MarkInterrupted(r)

Next ==
    \/ \E q \in Requests : Submit(q)
    \/ \E c \in Cancellers, r \in Runs : CancelGuard(c, r)
    \/ \E c \in Cancellers : CancelStep(c)
    \/ \E w \in Workers : Work(w)
    \/ Crash
    \/ Recover

Spec == Init /\ [][Next]_vars

\* Every thread the process has started keeps running: HTTP threads inside a
\* call, pool threads, and the boot sequence.  Nothing makes a client call.
Fairness ==
    /\ \A q \in Requests : WF_vars(pc[q] # "idle" /\ Submit(q))
    /\ \A c \in Cancellers : WF_vars(CancelStep(c))
    /\ \A w \in Workers : WF_vars(Work(w))
    /\ WF_vars(Recover)
FairSpec == Spec /\ Fairness
(***************************************************************************)
(* Properties.                                                             *)
(***************************************************************************)

RequestPcs == {"idle", "create", "accept", "bind", "enqueue", "enqfail", "enqhook", "done"}
CancellerPcs == {"idle", "request", "record", "discard"}
WorkerPcs == {"idle", "begun", "prepare", "sources", "commit", "record", "materialize",
              "respond", "drop", "finish", "hook"}

\* The states the variables range over.
TypeOK ==
    /\ jobs \in [Runs -> [req : Requests \cup {None}, status : Live \cup Terminal \cup {"absent"}]]
    /\ requested \subseteq Requests
    /\ committed \subseteq Requests \cup {None}
    /\ order \in Seq(Runs)
    /\ pool \in Seq(Requests)
    /\ pc \in [Requests -> RequestPcs]
    /\ target \in [Requests -> Runs]
    /\ can \in [Cancellers -> [pc : CancellerPcs, run : Runs \cup {None}]]
    /\ work \in [Workers -> [pc : WorkerPcs, req : Requests \cup {None},
                             tok : Requests \cup {None},
                             res : RunStatuses \cup {"none"}, fail : BOOLEAN]]
    /\ keys \in [Runs -> Requests \cup {None}]
    /\ got \subseteq Requests
    /\ events \in [Runs -> Seq(EventNames)]
    /\ manifest \in [Runs -> RunStatuses \cup {"none"}]
    /\ index \in [Runs -> RunStatuses \cup {"none"}]
    /\ up \in BOOLEAN
    /\ crashes \in Nat
    /\ reported \in [Runs -> Terminal \cup {"none"}]

\* A job's status and the two latches of its own RunCancellation never
\* disagree, whatever races: a job that can still run or did succeed was never
\* granted a cancellation, a succeeded one closed the window first, and a
\* cancelling one has not committed to a normal end.
LatchAgreement ==
    \A r \in Runs : LET q == jobs[r].req IN
        /\ jobs[r].status \in {"queued", "running", "succeeded"} => q \notin requested
        /\ jobs[r].status = "succeeded" => q \in committed
        /\ jobs[r].status = "cancelling" => q \in requested /\ q \notin committed
        /\ jobs[r].status = "cancelled" => q \in requested

\* The reversals the registry's locks are there to exclude: a terminal status
\* never changes, a cancelling job never runs on or succeeds, no job goes back
\* to the queue, and a cancellation of a running job passes through cancelling.
NoReversalStep ==
    \A r \in Runs :
        (jobs[r].req # None /\ jobs'[r].req = jobs[r].req) =>
            /\ jobs[r].status \in Terminal => jobs'[r].status = jobs[r].status
            /\ jobs[r].status = "cancelling" =>
                   jobs'[r].status \notin {"queued", "running", "succeeded"}
            /\ jobs[r].status = "running" => jobs'[r].status \notin {"queued", "cancelled"}
NoReversal == [][NoReversalStep]_vars

Pipeline == {"begun", "prepare", "sources", "commit", "record", "materialize", "respond",
             "drop", "finish"}

\* begin_run lets at most one worker execute a run id, and only while its job
\* is running or cancelling: a job cancelled in the queue never executes.
OneWorkerPerRun ==
    \A w \in Workers : work[w].pc \in Pipeline =>
        /\ jobs[RunOf(w)].status \in {"running", "cancelling"}
        /\ \A v \in Workers : (work[v].pc \in Pipeline /\ RunOf(v) = RunOf(w)) => v = w

\* What a client polls and what the run left on disk tell the same story: a
\* succeeded job has an ok manifest, a cancelled one never an ok or failed
\* manifest, and a cancelled manifest only a job that ends as cancelled.
OutcomeAgreement ==
    \A r \in Runs :
        /\ jobs[r].status = "succeeded" => manifest[r] = "ok"
        /\ jobs[r].status \in {"cancelling", "cancelled"} => manifest[r] \in {"none", "cancelled"}
        /\ (manifest[r] = "cancelled" /\ jobs[r].status # "absent") =>
               jobs[r].status \in {"cancelling", "cancelled"}

\* run_cancelled never shares a run with run_finished or run_failed, and no
\* run gets two terminal events (events/models.py, events/recorder.py).
OneTerminalEvent ==
    \A r \in Runs : Cardinality({i \in DOMAIN events[r] : events[r][i] \in TerminalEvents}) <= 1

\* A run that completed keeps its manifest: no later submission of the same
\* run id rewrites it.
ManifestWriteOnce ==
    [][\A r \in Runs : manifest[r] # "none" => manifest'[r] = manifest[r]]_vars

\* A job of a multi-user deployment that starts without having been cancelled
\* has received the keys its own request carried: no other thread's cleanup
\* took them first.
KeysReachWorker ==
    \A w \in Workers :
        (MultiUser /\ work[w].pc \in Pipeline \ {"begun"} /\ work[w].tok \notin requested)
            => work[w].tok \in got

\* GET /builds/{run_id}: the registry's answer, else the manifest's.
StatusOf(r) ==
    IF jobs[r].status # "absent" THEN jobs[r].status
    ELSE IF manifest[r] = "none" THEN "absent"
    ELSE IF manifest[r] = "ok" THEN "succeeded" ELSE manifest[r]

\* After the registry evicts a terminal job, the status restored from the
\* manifest is the one the registry had confirmed (or the run is unknown).
\* A manifest without its index entry is what a crash between the two leaves:
\* its run id can be submitted again and is outside this promise.
RestoredStatusAgrees ==
    \A r \in Runs : (reported[r] # "none" /\ (manifest[r] # "none" => index[r] # "none"))
        => StatusOf(r) \in {reported[r], "absent"}

\* No job is stuck: whatever fails or crashes, a queued, running or cancelling
\* job stops being one.
JobsEnd == \A r \in Runs : (jobs[r].status \in Live) ~> (jobs[r].status \notin Live)

\* Every accepted run's timeline ends: with a terminal event, through a
\* restart if need be, or with a manifest.
TimelineEnds ==
    \A r \in Runs : Unfinished(r) ~> (~Unfinished(r) \/ manifest[r] # "none")
=============================================================================
