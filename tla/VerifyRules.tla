---------------------------- MODULE VerifyRules ----------------------------
(***************************************************************************)
(* Verification of a published data set: six checks in a fixed order, each *)
(* on what the provider answered, and one status.  A probe a is what the   *)
(* provider did: its answer to the HEAD request, to the fetch, what the    *)
(* payload held, and the field structure seen before.                      *)
(***************************************************************************)
EXTENDS RuleBase

\* CheckName, in the order of the report.
CheckNames == <<"endpoint", "auth", "response", "parser", "pagination", "schema">>

\* _check_endpoint: an answer (200; 0 is none), and some refusals, prove that the
\* endpoint lives.
LiveRefusals == {400, 401, 403, 405}

EndpointLives(head) == head = 200 \/ head \in LiveRefusals

\* _AUTH_FAILURE_STATUSES.
AuthFailures == {"NEEDS_APPLICATION", "WAITING_APPROVAL", "INVALID_KEY", "RATE_LIMITED"}

\* _classify_auth_error: the words first, then the HTTP status.
ClassifyAuthError(e) ==
    CASE e.class = "RateLimitError" -> "RATE_LIMITED"
      [] e.class = "AuthError" /\ e.words = "application" -> "NEEDS_APPLICATION"
      [] e.class = "AuthError" /\ e.words = "approval" -> "WAITING_APPROVAL"
      [] e.class = "AuthError" /\ e.words = "other" ->
           IF e.code = 403 THEN "NEEDS_APPLICATION" ELSE "INVALID_KEY"
      [] OTHER -> "BROKEN_ENDPOINT"

\* The pagination check: the total, where there is one, covers the items.
PaginationHolds(a) ==
    a.paged /\ a.total # None => a.total >= 0 /\ a.total >= Len(a.items)

\* _extract_structure: a field's type is the first that is not null.
Structure(items) ==
    LET names == UNION {DOMAIN items[i] : i \in DOMAIN items}
        typed(f) == {i \in DOMAIN items : f \in DOMAIN items[i] /\ items[i][f] # "null"}
    IN  [f \in names |-> IF typed(f) = {} THEN "null" ELSE items[Min(typed(f))][f]]

\* schema_diff.
StructureDiff(old, new) ==
    LET o == Structure(old)
        n == Structure(new)
    IN  [added |-> DOMAIN n \ DOMAIN o, removed |-> DOMAIN o \ DOMAIN n,
         changed |-> {f \in DOMAIN o \cap DOMAIN n : o[f] # n[f]}]

\* A result whose checks are known up to some check; _fill_skipped gives the others.
Report(status, known) ==
    [status |-> status, hash |-> None,
     checks |-> [c \in ToSet(CheckNames) |-> IF c \in DOMAIN known THEN known[c] ELSE "skipped"]]

\* The fetch raised: only a refusal of the key is an authentication failure.
FetchFailed(e) ==
    IF e.class \in {"AuthError", "RateLimitError"}
    THEN Report(ClassifyAuthError(e), [endpoint |-> "passed", auth |-> "failed"])
    ELSE Report("BROKEN_ENDPOINT", [endpoint |-> "passed", auth |-> "passed", response |-> "failed"])

\* The payload carries an error: an authentication failure takes its check back.
PayloadRefused(e) ==
    Report(ClassifyAuthError(e),
           [endpoint |-> "passed", response |-> "failed",
            auth |-> IF ClassifyAuthError(e) \in AuthFailures THEN "failed" ELSE "passed"])

\* The fetch succeeded and its items are known.  A changed structure names the result,
\* also where the total was wrong.
Judged(a) ==
    LET changed == a.items # <<>> /\ a.previous # None /\ a.previous # Structure(a.items)
    IN  [Report(IF changed THEN "SCHEMA_CHANGED"
               ELSE IF PaginationHolds(a) THEN "HEALTHY" ELSE "BROKEN_ENDPOINT",
               [c \in ToSet(CheckNames) |->
                   IF (c = "pagination" /\ ~PaginationHolds(a)) \/ (c = "schema" /\ changed)
                   THEN "failed" ELSE "passed"])
         EXCEPT !.hash = IF a.items = <<>> THEN None ELSE Structure(a.items)]

\* verify_dataset.
VerifyDataset(a) ==
    IF ~EndpointLives(a.head) THEN Report("BROKEN_ENDPOINT", [endpoint |-> "failed"])
    ELSE IF a.fetch.class # "none" THEN FetchFailed(a.fetch)
    ELSE IF a.payload.class # "none" THEN PayloadRefused(a.payload)
    ELSE IF ~a.parses
    THEN Report("BROKEN_ENDPOINT", [endpoint |-> "passed", auth |-> "passed", response |-> "passed", parser |-> "failed"])
    ELSE Judged(a)

\* verify_datasets: each with its own entry of the baseline.
VerifyDatasets(probes, baseline) ==
    [d \in DOMAIN probes |-> VerifyDataset([probes[d] EXCEPT !.previous = Field(baseline, d, None)])]

\* _run_verify --all: the exit code, and the hashes written for the next run.
RunVerify(probes, baseline) ==
    LET results == VerifyDatasets(probes, baseline)
    IN  [code |-> IF \E d \in DOMAIN results : results[d].status # "HEALTHY" THEN 1 ELSE 0,
         hashes |-> [d \in {d \in DOMAIN results : results[d].hash # None} |-> results[d].hash]]
=============================================================================
