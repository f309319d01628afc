---------------------------- MODULE DatasetRules ----------------------------
(***************************************************************************)
(* What the service tells of the runs on its disk: datasets, runs, quality *)
(* and statistics.  A world w is what a read finds:                        *)
(*   w.disk[r]   a run directory: its manifest or None, the dataset its    *)
(*               snapshot names or None, whether the snapshot parses, the  *)
(*               cadence it declares, and the manifest file's time         *)
(*   w.index     the build index: entries by run, or Wrong when the query  *)
(*               raises; derived, so it may lag behind the disk            *)
(*   w.jobs      the jobs in progress                                      *)
(*   w.tables    the snapshots each run committed                          *)
(* Runs, datasets, sources and categories are numbers, which gives their   *)
(* sorted() order; times are numbers, None where absent or unreadable.     *)
(***************************************************************************)
EXTENDS RuleBase

----------------------------------------------------------------------------
(* Ownership.                                                              *)

\* principal_owns: stable ids when both sides have one, else the label.
PrincipalOwns(p, x) ==
    IF x.owner # None /\ p.owner # None THEN x.owner = p.owner ELSE x.by = p.label

\* ownership_allows.
OwnershipAllows(p, x, enforce) ==
    ~enforce \/ p.kind \in {"dev", "service"} \/ PrincipalOwns(p, x)

\* Only a signed-in user of a deployment that enforces ownership is filtered.
Filtered(p, enforce) == enforce /\ p # None /\ p.kind = "oidc"

FilterOwnership(xs, p, enforce) ==
    IF Filtered(p, enforce) THEN {x \in xs : OwnershipAllows(p, x, enforce)} ELSE xs

----------------------------------------------------------------------------
(* Run records: the index narrows, snapshot and manifest decide.           *)

\* status_from_manifest.
Status(m, fallback) ==
    IF m.status # None THEN m.status
    ELSE IF m.errors THEN "failed"
    ELSE IF fallback = "cancelled" THEN "cancelled" ELSE "ok"

\* _canonical_record_from_run_id: a set of at most one record.
CanonicalRecord(w, r, fallback, digest) ==
    LET m == w.disk[r].manifest
    IN  IF m = None \/ w.disk[r].dataset = None THEN {}
        ELSE {[run |-> r, dataset |-> w.disk[r].dataset, status |-> Status(m, fallback),
               started |-> m.started, finished |-> m.finished, digest |-> digest,
               by |-> m.by, owner |-> m.owner]}

Entries(w) == IF w.index = Wrong THEN {} ELSE {w.index[r] : r \in DOMAIN w.index}

\* collect_run_records_from_index: an index that is empty or fails gives nothing.
IndexRecords(w) == {e \in Entries(w) : e.dataset # None}

FilesystemRecords(w) == UNION {CanonicalRecord(w, r, None, None) : r \in DOMAIN w.disk}

\* merge_run_records: the disk's record, with the digest, and a cancellation, that only the
\* index knows.
MergeRecords(ix, fs) ==
    LET cached(f) == {x \in ix : x.run = f.run}
        merged(f) ==
            [f EXCEPT !.status = IF \E x \in cached(f) : x.status = "cancelled" THEN "cancelled" ELSE @,
                      !.digest = IF \E x \in cached(f) : x.digest # None
                                 THEN (CHOOSE x \in cached(f) : TRUE).digest ELSE @]
    IN  {x \in ix : \A f \in fs : f.run # x.run} \cup {merged(f) : f \in fs}

\* retain_canonical_run_records.
RetainCanonical(w, records) ==
    UNION {CanonicalRecord(w, x.run, x.status, x.digest) : x \in records}

CanonicalRecords(w) == RetainCanonical(w, MergeRecords(IndexRecords(w), FilesystemRecords(w)))

DatasetRecords(w, p, enforce) == FilterOwnership(CanonicalRecords(w), p, enforce)

RecordsFor(w, d, p, enforce) == {x \in DatasetRecords(w, p, enforce) : x.dataset = d}

Moment(t) == IF t = None THEN -1 ELSE t

\* sort_key: no end time is older than any end time; ties by run id.
MoreRecent(a, b) ==
    \/ Moment(a.finished) > Moment(b.finished)
    \/ Moment(a.finished) = Moment(b.finished) /\ a.run > b.run

NewestFirst(records) == SetToSortSeq(records, MoreRecent)

\* group_latest_by_dataset.
LatestByDataset(records) ==
    {x \in records : \A y \in records : y.dataset = x.dataset => ~MoreRecent(y, x)}

----------------------------------------------------------------------------
(* Datasets.                                                               *)

\* _active_statuses, of one dataset.
ActiveStatuses(w, d, p, enforce) ==
    {j.status : j \in {j \in w.jobs : j.dataset = d /\ (p = None \/ OwnershipAllows(p, j, enforce))}}

\* last_success_at.
LastSuccess(records, d) ==
    LET times == {x.finished : x \in {x \in records : x.dataset = d /\ x.status = "ok" /\ x.finished # None}}
    IN  IF times = {} THEN None ELSE Max(times)

\* _health.
Health(cadence, success, now) ==
    IF cadence = None \/ success = None THEN "unknown"
    ELSE IF now - success > cadence THEN "stale" ELSE "healthy"

\* status_axes: each axis on its own evidence.
StatusAxes(m, x, active, cadence, success, now) ==
    [refresh |-> IF active \cap {"running", "cancelling"} # {} THEN "running"
                 ELSE IF "queued" \in active THEN "queued"
                 ELSE IF x.status = "ok" THEN "succeeded" ELSE x.status,
     completeness |-> IF m = None THEN "unknown"
                      ELSE IF m.partial \/ m.fetchedPart THEN "partial"
                      ELSE IF x.status = "ok" THEN "complete"
                      ELSE IF x.status = "failed" /\ m.rows # None /\ m.rows > 0 THEN "partial"
                      ELSE "unknown",
     health |-> Health(cadence, success, now)]

\* dataset_summary_renderable.
Renderable(w, x) == w.disk[x.run].parses /\ w.disk[x.run].dataset = x.dataset

\* build_dataset_summary: None when the snapshot no longer says what the record says.
Summary(w, x, active, success, now) ==
    LET m == w.disk[x.run].manifest
    IN  IF ~w.disk[x.run].parses \/ w.disk[x.run].dataset # x.dataset THEN None
        ELSE [dataset |-> x.dataset, run |-> x.run, status |-> x.status,
              updated |-> IF x.finished # None THEN x.finished ELSE x.started,
              total |-> IF m = None \/ m.rows = None THEN 0 ELSE m.rows,
              axes |-> StatusAxes(m, x, active, w.disk[x.run].cadence, success, now)]

\* list_datasets: a page of summaries; past the page datasets are only counted.
ListDatasets(w, p, enforce, limit, now) ==
    LET records == DatasetRecords(w, p, enforce)
        view(x) == Summary(w, x, ActiveStatuses(w, x.dataset, p, enforce),
                           LastSuccess(records, x.dataset), now)
        add(answer, x) ==
            IF Len(answer.items) < limit
            THEN IF view(x) = None THEN answer
                 ELSE [items |-> Append(answer.items, view(x)), total |-> answer.total + 1]
            ELSE IF Renderable(w, x) THEN [answer EXCEPT !.total = @ + 1] ELSE answer
    IN  FoldLeft(add, [items |-> <<>>, total |-> 0], NewestFirst(LatestByDataset(records)))

\* get_dataset: 404 is None.
GetDataset(w, d, p, enforce, now) ==
    LET records == RecordsFor(w, d, p, enforce)
        latest == NewestFirst(records)[1]
        view == Summary(w, latest, ActiveStatuses(w, d, p, enforce), LastSuccess(records, d), now)
    IN  IF records = {} THEN None
        ELSE IF view = None THEN None ELSE view @@ [runs |-> Cardinality(records)]

\* list_dataset_runs, get_dataset_quality_history: None is 404.
ListRuns(w, d, p, enforce, limit) ==
    LET ordered == NewestFirst(RecordsFor(w, d, p, enforce))
    IN  IF ordered = <<>> THEN None ELSE SubSeq(ordered, 1, Min({limit, Len(ordered)}))

\* get_dataset_run: another owner's run is a missing run where such runs are hidden.
GetRun(w, d, r, p, enforce, hides) ==
    LET found == {x \in CanonicalRecords(w) : x.run = r /\ x.dataset = d}
    IN  IF found = {} THEN "404"
        ELSE IF FilterOwnership(found, p, enforce) # {} THEN "200"
        ELSE IF hides THEN "404" ELSE "403"

----------------------------------------------------------------------------
(* GET /builds.                                                            *)

FirstOf(s, n) == SubSeq(s, 1, Min({n, Len(s)}))

\* The index's order: end time, none last.
ByEnd(entries) == SetToSortSeq(entries, MoreRecent)

\* list_builds, list_by_dataset: the newest of all entries, or of one dataset's.
IndexPage(w, d, limit) ==
    FirstOf(ByEnd({e \in Entries(w) : d = None \/ e.dataset = d}), limit)

\* The fallback: the newest directories, those without a manifest skipped.
ScannedPage(w, d, limit) ==
    LET dirs == {r \in DOMAIN w.disk : d = None \/ w.disk[r].dataset = d}
        newer(a, b) == \/ w.disk[a].mtime > w.disk[b].mtime
                       \/ w.disk[a].mtime = w.disk[b].mtime /\ a > b
        newest == FirstOf(SetToSortSeq(dirs, newer), limit)
        row(r) == LET m == w.disk[r].manifest
                  IN  [run |-> r, status |-> Status(m, None), finished |-> m.finished, by |-> m.by, owner |-> m.owner]
        kept == SelectSeq(newest, LAMBDA r : w.disk[r].manifest # None)
    IN  [i \in DOMAIN kept |-> row(kept[i])]

\* _with_tables: a run's one committed snapshot gets a plain field.
WithTables(w, page) ==
    [i \in DOMAIN page |->
        [run |-> page[i].run, status |-> page[i].status,
         dataset |-> w.disk[page[i].run].dataset,
         snapshot |-> IF Cardinality(w.tables[page[i].run]) = 1
                      THEN CHOOSE s \in w.tables[page[i].run] : TRUE ELSE None]]

\* list_builds: index first; the page is cut before the caller's own runs are kept.
ListBuilds(w, p, enforce, d, limit) ==
    LET own(page) == SelectSeq(page, LAMBDA e : ~Filtered(p, enforce) \/ OwnershipAllows(p, e, TRUE))
    IN  IF w.index = Wrong /\ Filtered(p, enforce) THEN <<>>
        ELSE WithTables(w, own(IF IndexPage(w, d, limit) # <<>> THEN IndexPage(w, d, limit)
                               ELSE ScannedPage(w, d, limit)))

----------------------------------------------------------------------------
(* Quality of a recent window and of the latest runs.                      *)

Window == 48    \* QUALITY_SUMMARY_WINDOW_SECONDS and the only monitoring window, in half hours

Margin == 2     \* QUALITY_WINDOW_MTIME_MARGIN_SECONDS

Bucket == 2     \* an hour

\* BuildIndex.list_between: entries without an end time are in every range.
Between(w, lower, upper) ==
    {e \in Entries(w) : e.finished = None \/ (e.finished >= lower /\ e.finished < upper)}

\* recent_canonical_records: manifest times and index rows name the candidates.
RecentRecords(w, p, enforce, now) ==
    LET cut == now - Window - Margin
        candidates == {r \in DOMAIN w.disk : w.disk[r].manifest # None /\ w.disk[r].mtime >= cut}
                        \cup {e.run : e \in Between(w, cut, now + 1)}
    IN  FilterOwnership(UNION {CanonicalRecord(w, r, None, None) : r \in candidates}, p, enforce)

\* summarize_run_quality: how many checks of each status; no results count as none.
Checks(m) ==
    IF m = None \/ m.results = None THEN <<>>
    ELSE FoldLeft(\o, <<>>, [i \in 1..Cardinality(DOMAIN m.results) |->
                                m.results[SetToSortSeq(DOMAIN m.results, <)[i]]])

Counted(m, status) == Len(SelectSeq(Checks(m), LAMBDA c : c.status = status))

Evaluated(m) == Counted(m, "pass") + Counted(m, "warn") + Counted(m, "fail")

\* aggregate_quality_window, over runs that end in (now - Window, now].
WindowCounts(w, records, now) ==
    LET ended(x) == IF x.finished # None THEN x.finished ELSE x.started
        inside == {x \in records : ended(x) # None /\ now - Window < ended(x) /\ ended(x) <= now}
        m(x) == w.disk[x.run].manifest
        evaluated == {x \in inside : m(x) # None /\ Evaluated(m(x)) > 0}
    IN  [total |-> Cardinality(inside), evaluated |-> Cardinality(evaluated),
         warn |-> Cardinality({x \in evaluated : Counted(m(x), "warn") > 0}),
         fail |-> Cardinality({x \in evaluated : Counted(m(x), "fail") > 0}),
         pass |-> Cardinality({x \in evaluated : Counted(m(x), "warn") + Counted(m(x), "fail") = 0})]

\* quality_availability: whether no results, some sources' or every known source's.
Availability(m) ==
    IF m.results = None THEN "unavailable"
    ELSE IF m.inputs = {} THEN "available"
    ELSE IF m.inputs \cap DOMAIN m.results = {} THEN "unavailable"
    ELSE IF m.inputs \subseteq DOMAIN m.results THEN "available" ELSE "partial"

\* The coverage class of a table in list_issues.
CoverageClass(m) ==
    IF m = None THEN "unreadable"
    ELSE IF Availability(m) = "unavailable" \/ Evaluated(m) = 0 THEN "not_evaluated"
    ELSE IF Availability(m) = "partial" THEN "partial" ELSE "evaluated"

\* _issues_of: failed and warned checks, then drift findings, of one run.
IssuesOf(x, m) ==
    LET of(source, c) == [dataset |-> x.dataset, run |-> x.run, source |-> source, status |-> c.status,
                          category |-> c.category, rule |-> c.rule]
        keys(f) == SetToSortSeq(DOMAIN f, <)
        bad(cs) == SelectSeq(cs, LAMBDA c : c.status \in {"warn", "fail"})
        results == IF m.results = None THEN <<>> ELSE m.results
        part(f, s) == [i \in DOMAIN f[s] |-> of(s, f[s][i])]
    IN  FoldLeft(\o, <<>>, [i \in DOMAIN keys(results) |->
                               part([s \in DOMAIN results |-> bad(results[s])], keys(results)[i])])
          \o FoldLeft(\o, <<>>, [i \in DOMAIN keys(m.drift) |-> part(m.drift, keys(m.drift)[i])])

IssueRank(status) == CASE status = "fail" -> 0 [] status = "warn" -> 1 [] status = "drift" -> 2

\* _issue_order: -1 before, 0 the same place, 1 after.
IssueOrder(a, b) ==
    LET key(i) == <<IssueRank(i.status), i.dataset, i.source, i.category, i.rule>>
        differ == {k \in 1..5 : key(a)[k] # key(b)[k]}
    IN  IF differ = {} THEN 0 ELSE IF key(a)[Min(differ)] < key(b)[Min(differ)] THEN -1 ELSE 1

\* sorted() with the two keys keeps the order of equal findings.
InIssueOrder(found) ==
    LET before(i, j) == LET o == IssueOrder(found[i], found[j]) IN o = -1 \/ (o = 0 /\ i < j)
    IN  LET order == SortSeq([i \in DOMAIN found |-> i], before)
        IN  [i \in DOMAIN order |-> found[order[i]]]

\* One page of what was found, and where the next one starts.
IssuePage(sorted, limit, offset) ==
    [issues |-> SubSeq(sorted, offset + 1, Min({offset + limit, Len(sorted)})),
     total |-> Len(sorted),
     next |-> IF offset + limit < Len(sorted) THEN offset + limit ELSE None]

\* The findings of the tables, one after the other.
FoundIn(w, tables) ==
    FoldLeft(\o, <<>>, [i \in DOMAIN tables |->
        IF w.disk[tables[i].run].manifest = None THEN <<>>
        ELSE IssuesOf(tables[i], w.disk[tables[i].run].manifest)])

\* How many tables there are and how many of them were checked, apart from the findings.
Covered(w, latest) ==
    [tables |-> Cardinality(latest),
     coverage |-> [c \in {"evaluated", "not_evaluated", "partial", "unreadable"} |->
                      Cardinality({x \in latest : CoverageClass(w.disk[x.run].manifest) = c})]]

\* list_issues: the latest runs' findings, selected, sorted and cut at an offset.
ListIssues(w, p, enforce, statuses, d, category, limit, offset) ==
    LET latest == {x \in LatestByDataset(DatasetRecords(w, p, enforce)) : d = None \/ x.dataset = d}
        wanted(i) == i.status \in statuses /\ (category = None \/ i.category = category)
    IN  Covered(w, latest)
        @@ IssuePage(InIssueOrder(SelectSeq(
               FoundIn(w, SetToSortSeq(latest, LAMBDA x, y : x.dataset < y.dataset)), wanted)),
               limit, offset)

----------------------------------------------------------------------------
(* Monitoring.                                                             *)

BucketStart(t) == (t \div Bucket) * Bucket

\* build_statistics: None when the index fails.
Statistics(w, p, enforce, now, limit) ==
    LET end == BucketStart(now) + Bucket
        scoped == FilterOwnership(Between(w, end - Window, end), p, enforce)
        starts == {end - Window + Bucket * i : i \in 0..(Window \div Bucket) - 1}
        placed(b) == {e \in scoped : e.finished # None /\ BucketStart(e.finished) = b}
        excluded == {e \in scoped : e.finished = None \/ BucketStart(e.finished) \notin starts}
        recent == IF Filtered(p, enforce) THEN {e \in Entries(w) : PrincipalOwns(p, e)} ELSE Entries(w)
    IN  IF w.index = Wrong THEN None
        ELSE [buckets |-> [b \in starts |->
                            [total |-> Cardinality(placed(b))] @@
                            [s \in {"ok", "failed", "cancelled"} |->
                                Cardinality({e \in placed(b) : e.status = s})]],
              excluded |-> Cardinality(excluded),
              availability |-> IF excluded = {} THEN "available" ELSE "partial",
              recent |-> FirstOf(ByEnd(recent), limit)]
=============================================================================
