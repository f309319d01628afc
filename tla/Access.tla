------------------------------ MODULE Access ------------------------------
(***************************************************************************)
(* Who may do what: the sign-up ledger in front of every OIDC request, and *)
(* the guards that decide about one run by its manifest, or by the job     *)
(* registry while there is none.  The guards look at the manifest and the  *)
(* registry one after the other while the run goes on.                     *)
(***************************************************************************)
EXTENDS Naturals, FiniteSets

CONSTANTS Users,          \* OIDC users
          Allowlisted,    \* those the allowlist admits
          Admins,         \* administrators
          Reqs,           \* requests, each used once
          MaxChanges      \* bound on decisions, evictions and damaged manifests

\* A user's id is not the API key's, nor the mark of a run without an owner.
ASSUME UsersAssumption == Users \cap {"service", "none"} = {} /\ MaxChanges \in Nat

VARIABLES enforce, ledger, job, runManifest, ask, changes

accessVars == <<enforce, ledger, job, runManifest, ask, changes>>

\* The API key's principal has the access of the single-user deployments before it.
Principals == Users \cup {"service"}

\* What a request asks of the run: its status, events, cancellation or publication
\* ("active"), its persisted files ("files"), or a synchronous build under its id.
Routes == {"active", "files", "build"}

NoManifest == [owner |-> "none", readable |-> FALSE]

\* stale is a ghost: the user had been rejected when the request came, and has not been
\* approved since.  saw is one too: whose manifest decided, if one did.
NewReq == [pc |-> "new", who |-> "none", route |-> "files", stale |-> FALSE, saw |-> "none"]

AccessInit ==
    /\ enforce \in BOOLEAN
    /\ ledger = [u \in Users |-> "none"]
    /\ job = "none"
    /\ runManifest = NoManifest
    /\ ask = [r \in Reqs |-> NewReq]
    /\ changes = 0

Change == changes < MaxChanges /\ changes' = changes + 1

At(r, pc) == ask[r].pc = pc

Goto(r, pc) == ask' = [ask EXCEPT ![r].pc = pc]

Arrive(r, p, route) ==
    /\ At(r, "new")
    /\ ask' = [ask EXCEPT ![r] = [NewReq EXCEPT !.pc = IF p \in Users THEN "observe" ELSE "guard",
                                    !.who = p, !.route = route,
                                    !.stale = p \in Users /\ ledger[p] = "rejected"]]
    /\ UNCHANGED <<enforce, ledger, job, runManifest, changes>>

Admitted(u) == u \in Allowlisted \cup Admins

\* Mutant: whoever the allowlist admits is approved, rejected or not.
ObservedReadmitted(u) == IF Admitted(u) THEN "approved" ELSE IF ledger[u] = "none" THEN "pending" ELSE ledger[u]

\* observe: the row a sign-in leaves.  A rejected user stays rejected.
Observed(u) ==
    IF ledger[u] \in {"none", "pending"}
    THEN IF Admitted(u) THEN "approved" ELSE "pending"
    ELSE ledger[u]

\* observe and admission_refusal, the row's read and write in one transaction.
Observe(r) ==
    LET u == ask[r].who
    IN  /\ At(r, "observe")
        /\ ledger' = [ledger EXCEPT ![u] = Observed(u)]
        /\ Goto(r, IF u \in Admins \/ ledger'[u] = "approved" THEN "guard" ELSE "refused")
        /\ UNCHANGED <<enforce, job, runManifest, changes>>

\* POST /admin/users/{id}/approve or reject; only an administrator's call gets here.
Decide(u, s) ==
    /\ ledger[u] # "none" /\ Change
    /\ ledger' = [ledger EXCEPT ![u] = s]
    /\ ask' = [r \in Reqs |-> IF ask[r].who = u /\ s = "approved" THEN [ask[r] EXCEPT !.stale = FALSE]
                              ELSE ask[r]]
    /\ UNCHANGED <<enforce, job, runManifest>>

\* ownership_allows.
Allows(owner, p) == ~enforce \/ p = "service" \/ owner = p

\* _read_manifest_ownership: no owner when the file is missing or cannot be parsed.
ManifestOwner == IF runManifest.readable THEN runManifest.owner ELSE "none"

Verdict(r, ok) == IF ~ok THEN "denied" ELSE IF ask[r].route = "build" THEN "building" ELSE "served"

\* The guards' first look: does the manifest exist?
Guard(r) ==
    /\ At(r, "guard")
    /\ Goto(r, IF ask[r].route = "files" \/ runManifest # NoManifest THEN "manifest" ELSE "registry")
    /\ UNCHANGED <<enforce, ledger, job, runManifest, changes>>

\* check_ownership, by the manifest that is there now.
CheckOwnership(r) ==
    /\ At(r, "manifest")
    /\ ask' = [ask EXCEPT ![r].saw = runManifest.owner,
                           ![r].pc = Verdict(r, Allows(ManifestOwner, ask[r].who))]
    /\ UNCHANGED <<enforce, ledger, job, runManifest, changes>>

\* No manifest: the registry's snapshot decides.  Without one a read finds nothing and a
\* build starts a new run.
CheckRegistry(r) ==
    /\ At(r, "registry")
    /\ ask' = [ask EXCEPT ![r].pc = IF job = "none" THEN Verdict(r, ask[r].route = "build")
                                   ELSE Verdict(r, Allows(job, ask[r].who))]
    /\ UNCHANGED <<enforce, ledger, job, runManifest, changes>>

\* The synchronous build ends and writes its manifest over what is there.
BuildEnds(r) ==
    /\ At(r, "building")
    /\ runManifest' = [owner |-> ask[r].who, readable |-> TRUE]
    /\ Goto(r, "served")
    /\ UNCHANGED <<enforce, ledger, job, changes>>

\* An asynchronous build of the same id, refused once the id is completed or in use.
Submit(p) ==
    /\ job = "none" /\ runManifest = NoManifest
    /\ job' = p
    /\ UNCHANGED <<enforce, ledger, runManifest, ask, changes>>

JobEnds ==
    /\ job # "none" /\ runManifest = NoManifest
    /\ runManifest' = [owner |-> job, readable |-> TRUE]
    /\ UNCHANGED <<enforce, ledger, job, ask, changes>>

\* The registry evicts or loses the job; the manifest file is damaged.
Lose ==
    /\ Change
    /\ \/ job # "none" /\ job' = "none" /\ UNCHANGED runManifest
       \/ runManifest # NoManifest /\ runManifest' = [runManifest EXCEPT !.readable = FALSE] /\ UNCHANGED job
    /\ UNCHANGED <<enforce, ledger, ask>>

AccessStep ==
    \/ \E r \in Reqs :
         \/ Observe(r) \/ Guard(r) \/ CheckOwnership(r) \/ CheckRegistry(r) \/ BuildEnds(r)
         \/ \E p \in Principals, route \in Routes : Arrive(r, p, route)
    \/ \E u \in Users, s \in {"approved", "rejected"} : Decide(u, s)
    \/ \E p \in Principals : Submit(p)
    \/ JobEnds \/ Lose

AccessSpec == AccessInit /\ [][AccessStep]_accessVars

----------------------------------------------------------------------------
AccessTypes ==
    /\ ledger \in [Users -> {"none", "pending", "approved", "rejected"}]
    /\ job \in Principals \cup {"none"} /\ runManifest.owner \in Principals \cup {"none"}
    /\ changes \in 0..MaxChanges

(***************************************************************************)
(* A rejection holds: a user who had been rejected when the request came   *)
(* is not let in again without an administrator's approval, allowlisted or *)
(* not (user_ledger.py, observe and admission_refusal).                    *)
(***************************************************************************)
RejectionHolds ==
    \A r \in Reqs : ask[r].stale /\ ask[r].who \notin Admins => ask[r].pc \in {"observe", "refused"}

(***************************************************************************)
(* With ownership enforced a run is shown to its owner only, whichever of  *)
(* manifest and registry the guard happened to read.                       *)
(***************************************************************************)
OwnerOnly ==
    [][\A r \in Reqs :
          (/\ enforce /\ ask[r].who \in Users /\ ask[r].route # "build"
           /\ ~At(r, "served") /\ ask'[r].pc = "served")
             => ask[r].who \in {runManifest.owner, job}]_accessVars

(***************************************************************************)
(* A synchronous build writes over another owner's run only when that run  *)
(* was not there when its check was decided, by the manifest or, without   *)
(* one, by the registry ("Giving someone else's run_id would overwrite     *)
(* that run's output", routes/_guards.py).                                 *)
(***************************************************************************)
RunKeepsOwner ==
    [][\A r \in Reqs :
          (/\ enforce /\ ask[r].who \in Users
           /\ At(r, "building") /\ ask'[r].pc = "served"
           /\ runManifest # NoManifest /\ runManifest.owner # ask[r].who)
             => ask[r].saw # runManifest.owner]_accessVars

(***************************************************************************)
(* A rejected user needs an administrator to come back; with ownership     *)
(* enforced a run is shown to its owner only, while it ends too, and a     *)
(* synchronous build goes over another's run only if it was checked before *)
(* that run was there (service/user_ledger.py, service/routes/_guards.py). *)
(***************************************************************************)
AccessHolds == [](AccessTypes /\ RejectionHolds) /\ OwnerOnly /\ RunKeepsOwner
=============================================================================
