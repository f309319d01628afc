------------------------------- MODULE Publish -------------------------------
(***************************************************************************)
(* Publishing one run to one destination: POST /publish with its receipt,  *)
(* and the operator's reconcile and reset of that receipt.                 *)
(*                                                                         *)
(* Sources: service/publish_api.py, service/publish.py (the receipt store  *)
(* and readiness), service/redistribution.py, publish_credentials.py and   *)
(* the publishers' uploads (publishers/).                                  *)
(*                                                                         *)
(* The receipt store has one row per (owner, run, target, destination), so *)
(* the model has one row; the fingerprint adds the options, so within the  *)
(* row a fingerprint is the options.  Each store method is one SQLite      *)
(* transaction and one action; each call to the remote is an action.       *)
(***************************************************************************)
EXTENDS Naturals, FiniteSets

CONSTANTS
    Requests,       \* POST /publish requests
    Operators,      \* reconcile and reset requests
    None,           \* Python's None
    Target,         \* "huggingface", "kaggle" or "local"
    NFiles,         \* artifact files, uploaded in order 1..NFiles
    Options,        \* the option sets clients send
    Actions,        \* what operators do: "reconcile", "reset"
    Discipline,     \* what operators keep to: "not_pending" (leave a pending row
                    \* alone), "one_at_a_time"
    FaultKinds,     \* what may go wrong: store, remote, blind, audit, root, crash
    MaxFaults       \* bound on faults

ASSUME TargetAssumption == Target \in {"huggingface", "kaggle", "local"}
ASSUME OptionsAssumption ==
    /\ Options \subseteq [public : BOOLEAN, confirmed : BOOLEAN]
    /\ None \notin Options
    /\ Target = "local" => \A o \in Options : ~o.public
ASSUME ActionsAssumption ==
    /\ Actions \subseteq {"reconcile", "reset"}
    /\ Discipline \subseteq {"not_pending", "one_at_a_time"}
ASSUME NumbersAssumption == NFiles \in Nat \ {0} /\ MaxFaults \in Nat

Files == 1..NFiles
Verdicts == {"forbidden", "unknown", "non_commercial", "allowed"}
Statuses == {"active", "succeeded", "failed", "cancelled"}

VARIABLES
    run,      \* [status, defects, verdict, marker]: what readiness reads of the run;
              \* defects are the blockers its own artifacts, cards and spec raise
    receipt,  \* the row: [state, opts], opts None when there is no row
    audited,  \* rows of publish_receipt_audit the owner can query
    vis,      \* the destination: "absent", "private" or "public"
    landed,   \* pairs <<options, file>>: the files at the destination
    req,      \* requests: [pc, opts, next, answer]
    op,       \* operators: [pc, act, opts, answer, did]
    faults

vars == <<run, receipt, audited, vis, landed, req, op, faults>>

NoRow == [state |-> "none", opts |-> None]

Init ==
    /\ run \in [status : {"active"}, defects : {{}, {"license_missing"}, {"card_incomplete"}},
                verdict : Verdicts, marker : BOOLEAN]
    /\ receipt = NoRow
    /\ audited = 0
    /\ vis \in IF Target = "local" THEN {"absent", "private"} ELSE {"absent", "private", "public"}
    /\ landed = {}
    /\ req = [r \in Requests |-> [pc |-> "idle", opts |-> None, next |-> 1, answer |-> "none"]]
    /\ op = [o \in Operators |-> [pc |-> "idle", act |-> "none", opts |-> None,
                                  answer |-> "none", did |-> "nothing"]]
    /\ faults = 0

\* A kind of failure that happens now.  A remote call that fails is an answer the code
\* expects; the others are counted and bounded.
Fault(k) ==
    /\ k \in FaultKinds
    /\ \/ k = "remote" /\ faults' = faults
       \/ k # "remote" /\ faults < MaxFaults /\ faults' = faults + 1
NoFault == faults' = faults

\* The job ends and its manifest is written (BuildJobs).
RunEnds ==
    /\ run.status = "active"
    /\ \E s \in Statuses \ {"active"} : run' = [run EXCEPT !.status = s]
    /\ UNCHANGED <<receipt, audited, vis, landed, req, op, faults>>

-----------------------------------------------------------------------------
(* Readiness: every reason not to publish.                                 *)

\* run_status_blocker
StatusIssues == CASE run.status = "active" -> {"run_not_terminal"}
                  [] run.status = "failed" -> {"run_failed"}
                  [] run.status = "cancelled" -> {"run_cancelled"}
                  [] OTHER -> {}

\* Mutant: unknown terms are read as permission.
TermsIssuesPermissive(o) ==
    {i \in {"redistribution_forbidden", "non_commercial_unconfirmed", "non_commercial_marker_missing"} :
        CASE i = "redistribution_forbidden" -> run.verdict = "forbidden"
          [] i = "non_commercial_unconfirmed" -> run.verdict = "non_commercial" /\ ~o.confirmed
          [] OTHER -> run.verdict = "non_commercial" /\ o.public /\ ~run.marker}

\* redistribution.publish_issues
TermsIssues(o) ==
    {i \in {"redistribution_forbidden", "redistribution_unknown",
            "non_commercial_unconfirmed", "non_commercial_marker_missing"} :
        CASE i = "redistribution_forbidden" -> run.verdict = "forbidden"
          [] i = "redistribution_unknown" -> run.verdict = "unknown" /\ o.public
          [] i = "non_commercial_unconfirmed" -> run.verdict = "non_commercial" /\ ~o.confirmed
          [] OTHER -> run.verdict = "non_commercial" /\ o.public /\ ~run.marker}

\* credential_blocker: whether resolve_publish_credentials found the request's own
\* or the server's credential, or for a local target the publish root.
CredentialIssues(found) ==
    CASE found -> {}
      [] ~found /\ Target = "local" -> {"local_publish_root_unconfigured"}
      [] OTHER -> {"credential_required"}

\* resolve_gold_artifacts, card_blockers, license_blocker and the policy blockers,
\* by what they find wrong with the run's own output and spec.
ContentIssues == run.defects

\* build_readiness.  A run without a manifest (still active) has no artifacts,
\* cards or spec to look at.
Blockers(o, found) ==
    StatusIssues \cup CredentialIssues(found)
        \cup IF run.status = "active" THEN {} ELSE ContentIssues \cup TermsIssues(o)

\* needs_private_destination
NeedsPrivate(o) == ~o.public /\ run.verdict \in {"unknown", "non_commercial"}

-----------------------------------------------------------------------------
(* POST /builds/{run_id}/publish                                           *)

At(r, p) == req[r].pc = p
GoTo(r, p) == req' = [req EXCEPT ![r].pc = p]
Answer(r, a) == req' = [req EXCEPT ![r].pc = "done", ![r].answer = a]

Start(r) ==
    /\ At(r, "idle")
    /\ \E o \in Options : req' = [req EXCEPT ![r].pc = "lookup", ![r].opts = o]
    /\ UNCHANGED <<run, receipt, audited, vis, landed, op, faults>>

\* The answer an existing row gives (claim, lookup, _publish_receipt_response):
\* replay, or 409 for in_progress, state_unknown and conflict.
ReceiptAnswer(o) == IF receipt.state = "succeeded" /\ receipt.opts = o THEN "200" ELSE "409"

\* PublishReceiptStore.lookup, before any check of the run.
Lookup(r) ==
    /\ At(r, "lookup")
    /\ \/ Fault("store") /\ Answer(r, "409")
       \/ receipt = NoRow /\ GoTo(r, "ready") /\ NoFault
       \/ receipt # NoRow /\ Answer(r, ReceiptAnswer(req[r].opts)) /\ NoFault
    /\ UNCHANGED <<run, receipt, audited, vis, landed, op>>

\* resolve_publish_credentials, _publish_context and build_readiness.
CheckReady(r) ==
    LET o == req[r].opts IN
    /\ At(r, "ready")
    /\ \E found \in BOOLEAN :
          \/ Blockers(o, found) # {} /\ Answer(r, "409")
          \/ Blockers(o, found) = {} /\ GoTo(r, IF NeedsPrivate(o) THEN "visibility" ELSE "claim")
    /\ UNCHANGED <<run, receipt, audited, vis, landed, op, faults>>

\* The service's own look at the destination, refused when it cannot be read.
ProbeVisibility(r) ==
    /\ At(r, "visibility")
    /\ \/ Fault("remote") /\ Answer(r, "409")
       \/ vis = "public" /\ Answer(r, "409") /\ NoFault
       \/ vis # "public" /\ GoTo(r, "claim") /\ NoFault
    /\ UNCHANGED <<run, receipt, audited, vis, landed, op>>

\* Mutant: a pending row is taken for a dead claim and taken over.
ClaimTakesPending(r) ==
    /\ At(r, "claim")
    /\ \/ Fault("store") /\ Answer(r, "409") /\ UNCHANGED receipt
       \/ /\ receipt.state \in {"none", "pending"}
          /\ receipt' = [state |-> "pending", opts |-> req[r].opts]
          /\ GoTo(r, IF Target = "local" THEN "recheck" ELSE "private")
          /\ NoFault
       \/ /\ receipt.state \notin {"none", "pending"}
          /\ Answer(r, ReceiptAnswer(req[r].opts))
          /\ NoFault /\ UNCHANGED receipt
    /\ UNCHANGED <<run, audited, vis, landed, op>>

\* PublishReceiptStore.claim: insert the pending row or answer from the one there.
Claim(r) ==
    /\ At(r, "claim")
    /\ \/ Fault("store") /\ Answer(r, "409") /\ UNCHANGED receipt
       \/ /\ receipt = NoRow
          /\ receipt' = [state |-> "pending", opts |-> req[r].opts]
          /\ GoTo(r, IF Target = "local" THEN "recheck" ELSE "private")
          /\ NoFault
       \/ /\ receipt # NoRow
          /\ Answer(r, ReceiptAnswer(req[r].opts))
          /\ NoFault /\ UNCHANGED receipt
    /\ UNCHANGED <<run, audited, vis, landed, op>>

\* A local destination is resolved again; a root that moved answers 409.
Recheck(r) ==
    /\ At(r, "recheck")
    /\ \/ Fault("root") /\ Answer(r, "409")
       \/ GoTo(r, "create") /\ NoFault
    /\ UNCHANGED <<run, receipt, audited, vis, landed, op>>

\* The publisher's own check: a private publish refuses a public destination.
CheckPrivate(r) ==
    /\ At(r, "private")
    /\ \/ Fault("remote") /\ GoTo(r, "failed")
       \/ ~req[r].opts.public /\ vis = "public" /\ GoTo(r, "failed") /\ NoFault
       \/ /\ req[r].opts.public \/ vis # "public"
          /\ GoTo(r, IF Target = "kaggle" THEN "upload" ELSE "create")
          /\ NoFault
    /\ UNCHANGED <<run, receipt, audited, vis, landed, op>>

\* The visibility of a destination this publish creates.
Created(o) == IF vis = "absent" THEN (IF o.public THEN "public" ELSE "private") ELSE vis

\* create_repo(exist_ok=True), or mkdir.
CreateDestination(r) ==
    /\ At(r, "create")
    /\ \/ Fault("remote") /\ GoTo(r, "failed") /\ vis' \in {vis, Created(req[r].opts)}
       \/ GoTo(r, "upload") /\ NoFault /\ vis' = Created(req[r].opts)
    /\ UNCHANGED <<run, receipt, audited, landed, op>>

\* One upload_file or copy2; Kaggle sends the whole directory in one call.  A
\* call that raises may have taken effect.
Batch(r) == IF Target = "kaggle" THEN Files ELSE {req[r].next}
Upload(r) ==
    LET o == req[r].opts
        sent == landed \cup ({o} \X Batch(r)) IN
    /\ At(r, "upload")
    /\ \/ /\ Fault("remote")
          /\ GoTo(r, "failed")
          /\ \/ UNCHANGED <<vis, landed>>
             \/ vis' = Created(o) /\ landed' = sent
       \/ /\ NoFault
          /\ vis' = Created(o)
          /\ landed' = sent
          /\ IF NFiles \in Batch(r)
             THEN GoTo(r, "mark")
             ELSE req' = [req EXCEPT ![r].next = @ + 1]
    /\ UNCHANGED <<run, receipt, audited, op>>

\* Mutant: the fingerprint leaves the options out.
MineAnyOptions(r) == receipt.state = "pending"

\* _set_terminal's guard: the row with this fingerprint is still pending.
Mine(r) == receipt.state = "pending" /\ receipt.opts = req[r].opts

MarkSucceeded(r) ==
    /\ At(r, "mark")
    /\ \/ Fault("store") /\ GoTo(r, "failed") /\ UNCHANGED receipt
       \/ ~Mine(r) /\ GoTo(r, "failed") /\ NoFault /\ UNCHANGED receipt
       \/ /\ Mine(r)
          /\ receipt' = [receipt EXCEPT !.state = "succeeded"]
          /\ Answer(r, "200")
          /\ NoFault
    /\ UNCHANGED <<run, audited, vis, landed, op>>

\* Mutant: the mark waits for the claim to be gone.
MarkUnknownWaits(r) ==
    /\ At(r, "failed")
    /\ ~Mine(r)
    /\ Answer(r, "502")
    /\ UNCHANGED <<run, receipt, audited, vis, landed, op, faults>>

\* After any exception of the publisher or of mark_succeeded; its own failure is
\* logged and swallowed.
MarkUnknown(r) ==
    /\ At(r, "failed")
    /\ Answer(r, "502")
    /\ \/ Fault("store") /\ UNCHANGED receipt
       \/ ~Mine(r) /\ NoFault /\ UNCHANGED receipt
       \/ Mine(r) /\ NoFault /\ receipt' = [receipt EXCEPT !.state = "unknown"]
    /\ UNCHANGED <<run, audited, vis, landed, op>>

Request(r) ==
    \/ Lookup(r) \/ CheckReady(r) \/ ProbeVisibility(r) \/ Claim(r) \/ Recheck(r)
    \/ CheckPrivate(r) \/ CreateDestination(r) \/ Upload(r) \/ MarkSucceeded(r) \/ MarkUnknown(r)

-----------------------------------------------------------------------------
(* POST /publish/reconcile and DELETE /publish/receipt                     *)

OpGoTo(o, p) == op' = [op EXCEPT ![o].pc = p]
OpAnswer(o, a) == op' = [op EXCEPT ![o].pc = "done", ![o].answer = a]

\* get_by_key; reconcile answers at once when the row already says succeeded.
ReadReceipt(o) ==
    /\ op[o].pc = "idle"
    /\ "not_pending" \in Discipline => receipt.state # "pending"
    /\ "one_at_a_time" \in Discipline => \A p \in Operators : op[p].pc \in {"idle", "done"}
    /\ \E act \in Actions :
          \/ receipt = NoRow /\ OpAnswer(o, "404")
          \/ act = "reconcile" /\ receipt.state = "succeeded" /\ OpAnswer(o, "200")
          \/ /\ receipt # NoRow
             /\ act = "reset" \/ receipt.state # "succeeded"
             /\ op' = [op EXCEPT ![o].act = act, ![o].opts = receipt.opts,
                                 ![o].pc = IF act = "reset" THEN "reset" ELSE "probe"]
    /\ UNCHANGED <<run, receipt, audited, vis, landed, req, faults>>

\* _probe_remote_publish_target: does the repository exist?  Only Hugging Face is
\* ever asked.  A token that cannot see a private repository reads it as absent.
ProbeRemote(o) ==
    /\ op[o].pc = "probe"
    /\ \/ Fault("remote") /\ OpAnswer(o, "503")
       \/ Target # "huggingface" /\ OpAnswer(o, "503") /\ NoFault
       \/ Target = "huggingface" /\ vis = "private" /\ Fault("blind") /\ OpGoTo(o, "reset")
       \/ /\ Target = "huggingface"
          /\ OpGoTo(o, IF vis = "absent" THEN "reset" ELSE "confirm")
          /\ NoFault
    /\ UNCHANGED <<run, receipt, audited, vis, landed, req>>

\* reconcile_succeeded, first transaction: _set_terminal from pending or unknown.
Confirm(o) ==
    /\ op[o].pc = "confirm"
    /\ \/ /\ receipt.opts = op[o].opts /\ receipt.state \in {"pending", "unknown"}
          /\ receipt' = [receipt EXCEPT !.state = "succeeded"]
          /\ op' = [op EXCEPT ![o].pc = "audit", ![o].did = "confirmed"]
          /\ NoFault
       \/ /\ receipt.opts # op[o].opts \/ receipt.state \notin {"pending", "unknown"}
          /\ OpAnswer(o, "503")
          /\ NoFault /\ UNCHANGED receipt
       \/ Fault("store") /\ OpAnswer(o, "503") /\ UNCHANGED receipt
    /\ UNCHANGED <<run, audited, vis, landed, req>>

\* reconcile_succeeded, second: the audit row carries the owner and run of the
\* row with that fingerprint, none when it is gone.
AppendAudit(o) ==
    /\ op[o].pc = "audit"
    /\ \/ Fault("audit") /\ OpAnswer(o, "503") /\ UNCHANGED audited
       \/ /\ audited' = audited + IF receipt.opts = op[o].opts THEN 1 ELSE 0
          /\ OpAnswer(o, "200")
          /\ NoFault
    /\ UNCHANGED <<run, receipt, vis, landed, req>>

\* Mutant: the audit row of a reset is forgotten.
ResetUnaudited(o) ==
    /\ op[o].pc = "reset"
    /\ \/ /\ receipt.opts = op[o].opts
          /\ receipt' = NoRow
          /\ op' = [op EXCEPT ![o].pc = "done", ![o].answer = "200", ![o].did = "reset"]
       \/ receipt.opts # op[o].opts /\ OpAnswer(o, "503") /\ UNCHANGED receipt
    /\ UNCHANGED <<run, audited, vis, landed, req, faults>>

\* PublishReceiptStore.reset: the row with that fingerprint, whatever its state,
\* and its audit row in one transaction.
Reset(o) ==
    /\ op[o].pc = "reset"
    /\ \/ /\ receipt.opts = op[o].opts
          /\ receipt' = NoRow
          /\ audited' = audited + 1
          /\ op' = [op EXCEPT ![o].pc = "done", ![o].answer = "200", ![o].did = "reset"]
          /\ NoFault
       \/ receipt.opts # op[o].opts /\ OpAnswer(o, "503") /\ NoFault /\ UNCHANGED <<receipt, audited>>
       \/ Fault("store") /\ OpAnswer(o, "500") /\ UNCHANGED <<receipt, audited>>
    /\ UNCHANGED <<run, vis, landed, req>>

Operate(o) == ProbeRemote(o) \/ Confirm(o) \/ AppendAudit(o) \/ Reset(o)

\* The process dies: every request and operator call in flight is gone.
Crash ==
    /\ Fault("crash")
    /\ req' = [r \in Requests |-> IF At(r, "idle") THEN req[r] ELSE [req[r] EXCEPT !.pc = "done"]]
    /\ op' = [o \in Operators |-> IF op[o].pc = "idle" THEN op[o] ELSE [op[o] EXCEPT !.pc = "done"]]
    /\ UNCHANGED <<run, receipt, audited, vis, landed>>

Next ==
    \/ RunEnds \/ Crash
    \/ \E r \in Requests : Start(r) \/ Request(r)
    \/ \E o \in Operators : ReadReceipt(o) \/ Operate(o)

Spec == Init /\ [][Next]_vars

\* A request's thread runs to its answer.
FairSpec == Spec /\ \A r \in Requests : WF_vars(Request(r))

-----------------------------------------------------------------------------
ReqPcs == {"idle", "lookup", "ready", "visibility", "claim", "recheck", "private", "create",
           "upload", "mark", "failed", "done"}
OpPcs == {"idle", "probe", "confirm", "audit", "reset", "done"}
Answers == {"none", "200", "404", "409", "500", "502", "503"}

\* The types of the row, the destination and the threads' locals.
TypeOK ==
    /\ run \in [status : Statuses, defects : SUBSET {"license_missing", "card_incomplete"},
                verdict : Verdicts, marker : BOOLEAN]
    /\ receipt \in {NoRow} \cup [state : {"pending", "succeeded", "unknown"}, opts : Options]
    /\ audited \in Nat
    /\ vis \in {"absent", "private", "public"}
    /\ landed \subseteq Options \X Files
    /\ req \in [Requests -> [pc : ReqPcs, opts : Options \cup {None}, next : Files, answer : Answers]]
    /\ op \in [Operators -> [pc : OpPcs, act : {"none", "reconcile", "reset"},
                             opts : Options \cup {None}, answer : Answers, did : {"nothing", "confirmed", "reset"}]]
    /\ faults \in 0..MaxFaults

Owning == {"recheck", "private", "create", "upload", "mark", "failed"}

\* No duplicate remote side effects: two requests never upload for the same
\* receipt at the same time (PublishReceiptStore.claim).
OneUploader ==
    \A r, s \in Requests : req[r].pc \in Owning /\ req[s].pc \in Owning => r = s

Complete(o) == \A f \in Files : <<o, f>> \in landed

\* What the receipt and the answers say is true: a succeeded row, and every 200
\* (a first publish or a replay), belong to options all of whose files are at the
\* destination (mark_succeeded by fingerprint, _publish_receipt_response).
SucceededTrue ==
    /\ receipt.state = "succeeded" => Complete(receipt.opts)
    /\ \A r \in Requests : req[r].answer = "200" => Complete(req[r].opts)

PublicAllowed(o) ==
    /\ o.public
    /\ \/ run.verdict = "allowed"
       \/ run.verdict = "non_commercial" /\ o.confirmed /\ run.marker

\* Nothing of a run that failed its gates leaves: no file of an unfinished,
\* cancelled or forbidden run, and at a public destination only files of a
\* public publish that the source terms allow (build_readiness, the two
\* visibility checks and create_repo).
TermsRespected ==
    landed # {} =>
        /\ run.status = "succeeded" /\ run.defects = {} /\ run.verdict # "forbidden"
        /\ vis = "public" => \A e \in landed : PublicAllowed(e[1])

\* Every confirmation and reset is in the audit log its owner reads
\* (reconcile_succeeded, reset).
AuditComplete ==
    audited = Cardinality({o \in Operators : op[o].did # "nothing" /\ op[o].pc # "audit"})

\* A claim is resolved, by its own thread alone: the row does not stay pending
\* (mark_succeeded, mark_unknown).
ClaimResolved == receipt.state = "pending" ~> receipt.state # "pending" \/ faults > 0
=============================================================================
