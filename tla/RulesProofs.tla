---------------------------- MODULE RulesProofs ----------------------------
(***************************************************************************)
(* Theorems about the rules, for every input and not only for those the    *)
(* run enumerates: what is withheld stays withheld (Disclosure), what a    *)
(* fetch says of its coverage is true, and a join pairs the right rows.    *)
(* The rules that fold, sort or recurse over data are left to the run.     *)
(***************************************************************************)
EXTENDS MC_Rules, FiniteSetTheorems, WellFoundedInduction, TLAPS

-----------------------------------------------------------------------------
(* Reads *)
-----------------------------------------------------------------------------

\* A filter that is accepted keeps the same rows whether it is evaluated as SQL or
\* as a Polars expression, nulls included, for every operator and every integer
\* (query/predicates.py).
THEOREM EnginesAgree ==
    ASSUME NEW f, NEW x \in Int
    PROVE  SameAnswer(f, x)
BY DEF SameAnswer, Q!FilterParses, Q!SqlAnswer, Q!PolarsAnswer, Q!ValueOps, Q!NoValueOps, Q!Compare

\* A profile tells neither range nor values of a column that holds personal data in
\* its text or is suspect by its name, unless the column is allowed, and it gives an exact
\* range only for at least two finite values (query/profile.py).
THEOREM SuspectWithheld ==
    ASSUME NEW p, p.finite \in Int
    PROVE  Withholds(p)
BY DEF Withholds, Q!ProfileColumn, Q!Sensitivity, Q!PiiKinds, Q!Checked, Q!CanHoldText, Q!RangeStatus

\* A set of naturals that is not empty has a smallest element, which the operators
\* that choose the first of several depend on.
LEMMA HasMinimum ==
    ASSUME NEW ns \in SUBSET Nat, ns # {}
    PROVE  \E m \in ns : \A k \in ns : m <= k
<1> DEFINE less == {p \in Nat \X Nat : p[1] < p[2]}
<1>1. IsWellFoundedOn(less, Nat)
  BY NatLessThanWellFounded, Zenon DEF OpToRel
<1>2. \E m \in ns : \A k \in ns : <<k, m>> \notin less
  <2> HIDE DEF less
  <2> QED  BY <1>1, WFMin
<1>3. PICK m \in ns : \A k \in ns : <<k, m>> \notin less
  BY <1>2
<1>4. ASSUME NEW k \in ns PROVE m <= k
  <2>1. k \in Nat /\ m \in Nat
    BY <1>3
  <2>2. ~ (k < m)
    BY <1>3, <2>1
  <2> QED
    BY <2>1, <2>2
<1> QED
  BY <1>4

\* The refusal of a list of checks is that of the first check that fails.
LEMMA FirstFailing ==
    ASSUME NEW checks, DOMAIN checks \in SUBSET Nat, NEW i \in DOMAIN checks, checks[i][1],
           \A j \in DOMAIN checks : j < i => ~checks[j][1]
    PROVE  Q!FirstRefusal(checks) = checks[i][2]
<1> DEFINE failed == {j \in DOMAIN checks : checks[j][1]}
<1>1. i \in failed /\ \A j \in failed : i <= j
  OBVIOUS
<1>2. Q!Min(failed) = i
  BY <1>1 DEF Q!Min
<1> QED
  BY <1>1, <1>2 DEF Q!FirstRefusal

\* The stage is checked first, then whether there is a manifest, then who owns the run:
\* what later checks would say of a foreign run is never reached.
LEMMA ContextRefusals ==
    ASSUME NEW r
    PROVE  /\ r.stage \notin {"silver", "gold"} => Q!QueryContext(r) = "bad_stage"
           /\ r.stage \in {"silver", "gold"} /\ ~r.manifest => Q!QueryContext(r) = "no_run"
           /\ r.stage \in {"silver", "gold"} /\ r.manifest /\ ~r.owned => Q!QueryContext(r) = "forbidden"
<1> DEFINE checks == <<<<r.stage \notin {"silver", "gold"}, "bad_stage">>,
                       <<~r.manifest, "no_run">>,
                       <<~r.owned, "forbidden">>,
                       <<r.dataset # r.asked, "wrong_dataset">>,
                       <<r.source = "" /\ Q!Cardinality(r.sources) # 1, "source_needed">>,
                       <<r.source # "" /\ r.source \notin r.sources, "wrong_source">>,
                       <<~r.completed \/ r.file # "file", "unavailable">>>>
<1>1. /\ DOMAIN checks = 1..7
      /\ checks[1][1] <=> r.stage \notin {"silver", "gold"}
      /\ checks[2][1] <=> ~r.manifest
      /\ checks[3][1] <=> ~r.owned
      /\ checks[1][2] = "bad_stage" /\ checks[2][2] = "no_run" /\ checks[3][2] = "forbidden"
  <2>1. DOMAIN checks = 1..7
    OBVIOUS
  <2>2. /\ checks[1] = <<r.stage \notin {"silver", "gold"}, "bad_stage">>
        /\ checks[2] = <<~r.manifest, "no_run">>
        /\ checks[3] = <<~r.owned, "forbidden">>
    OBVIOUS
  <2> HIDE DEF checks
  <2>3. checks[1][1] = (r.stage \notin {"silver", "gold"})
    BY <2>2
  <2>4. checks[2][1] = ~r.manifest
    BY <2>2
  <2>5. checks[3][1] = ~r.owned
    BY <2>2
  <2>6. checks[1][2] = "bad_stage" /\ checks[2][2] = "no_run" /\ checks[3][2] = "forbidden"
    BY <2>2
  <2> QED
    BY <2>1, <2>3, <2>4, <2>5, <2>6
<1>2. Q!QueryContext(r) = Q!FirstRefusal(checks)
  BY DEF Q!QueryContext
<1> HIDE DEF checks
<1>0. DOMAIN checks \in SUBSET Nat /\ 1 \in DOMAIN checks /\ 2 \in DOMAIN checks /\ 3 \in DOMAIN checks
  BY <1>1
<1>3. ASSUME r.stage \notin {"silver", "gold"} PROVE Q!QueryContext(r) = "bad_stage"
  BY <1>0, <1>1, <1>2, <1>3, FirstFailing
<1>4. ASSUME r.stage \in {"silver", "gold"}, ~r.manifest PROVE Q!QueryContext(r) = "no_run"
  BY <1>0, <1>1, <1>2, <1>4, FirstFailing
<1>5. ASSUME r.stage \in {"silver", "gold"}, r.manifest, ~r.owned PROVE Q!QueryContext(r) = "forbidden"
  BY <1>0, <1>1, <1>2, <1>5, FirstFailing
<1> QED
  BY <1>3, <1>4, <1>5

\* To a client who may not see it, a run that exists looks like one that does not, for
\* any stage, data set, source, manifest and file (service/query_service_api.py).
THEOREM ForeignHidden ==
    ASSUME NEW stages, NEW names, NEW files,
           NEW r \in [stage : stages, manifest : BOOLEAN, owned : BOOLEAN, dataset : names, asked : names,
                      source : names, sources : SUBSET names, completed : BOOLEAN, file : files]
    PROVE  HidesForeign(r)
<1> DEFINE absent == [r EXCEPT !.manifest = FALSE]
<1>1. absent.stage = r.stage /\ absent.manifest = FALSE
  OBVIOUS
<1>2. CASE r.stage \notin {"silver", "gold"}
  <2>1. Q!QueryContext(r) = "bad_stage" /\ Q!QueryContext(absent) = "bad_stage"
    BY <1>1, <1>2, ContextRefusals
  <2> QED
    BY <2>1 DEF HidesForeign, Q!ContextAnswer
<1>3. CASE r.stage \in {"silver", "gold"} /\ ~r.owned
  <2>1. Q!QueryContext(r) \in {"no_run", "forbidden"} /\ Q!QueryContext(absent) = "no_run"
    BY <1>1, <1>3, ContextRefusals
  <2> QED
    BY <2>1 DEF HidesForeign, Q!ContextAnswer
<1> QED
  BY <1>2, <1>3 DEF HidesForeign

-----------------------------------------------------------------------------
(* Foreign runs *)
-----------------------------------------------------------------------------

\* What a user may see, in a deployment that enforces ownership, is what the user owns.
LEMMA OwnersFilter ==
    ASSUME NEW p, p # None, p.kind = "oidc", NEW xs
    PROVE  D!FilterOwnership(xs, p, TRUE) = {x \in xs : D!PrincipalOwns(p, x)}
BY DEF D!FilterOwnership, D!Filtered, D!OwnershipAllows

\* The world without foreign runs, part by part.
LEMMA OwnParts ==
    ASSUME NEW w, {"disk", "index", "jobs"} \subseteq DOMAIN w, NEW p
    PROVE  LET own == OwnWorld(w, p)
           IN  /\ DOMAIN own.disk = DOMAIN w.disk
               /\ \A r \in DOMAIN w.disk :
                     own.disk[r] = IF w.disk[r].manifest # None /\ ~D!PrincipalOwns(p, w.disk[r].manifest)
                                   THEN BaseDir ELSE w.disk[r]
               /\ own.index = IF w.index = Wrong THEN Wrong
                              ELSE [r \in {r \in DOMAIN w.index : D!PrincipalOwns(p, w.index[r])} |-> w.index[r]]
               /\ own.jobs = {j \in w.jobs : D!PrincipalOwns(p, j)}
BY DEF OwnWorld

\* A directory of the user's world is that of the world, or empty where it is foreign.
LEMMA OwnDisk ==
    ASSUME NEW w, {"disk", "index", "jobs"} \subseteq DOMAIN w, NEW p, NEW k \in DOMAIN w.disk
    PROVE  OwnWorld(w, p).disk[k] = IF w.disk[k].manifest # None /\ ~D!PrincipalOwns(p, w.disk[k].manifest)
                                    THEN BaseDir ELSE w.disk[k]
<1>1. OwnWorld(w, p).disk = [r \in DOMAIN w.disk |->
                               IF w.disk[r].manifest # None /\ ~D!PrincipalOwns(p, w.disk[r].manifest)
                               THEN BaseDir ELSE w.disk[r]]
  BY DEF OwnWorld
<1> QED
  BY <1>1

\* A directory gives the same record in both worlds, or in the user's own none where the
\* record is somebody else's.
LEMMA OwnRecord ==
    ASSUME NEW w, {"disk", "index", "jobs"} \subseteq DOMAIN w, NEW p,
           NEW r \in DOMAIN w.disk, NEW f, NEW g
    PROVE  D!CanonicalRecord(OwnWorld(w, p), r, f, g)
             = {x \in D!CanonicalRecord(w, r, f, g) : D!PrincipalOwns(p, x)}
<1> DEFINE own == OwnWorld(w, p)
           m == w.disk[r].manifest
           record == [run |-> r, dataset |-> w.disk[r].dataset, status |-> D!Status(m, f),
                      started |-> m.started, finished |-> m.finished, digest |-> g,
                      by |-> m.by, owner |-> m.owner]
<1>1. own.disk[r] = IF m # None /\ ~D!PrincipalOwns(p, m) THEN BaseDir ELSE w.disk[r]
  <2> HIDE DEF record
  <2> QED
    BY OwnDisk
<1>2. D!PrincipalOwns(p, record) = D!PrincipalOwns(p, m)
  BY DEF D!PrincipalOwns
<1>3. D!CanonicalRecord(w, r, f, g) = IF m = None \/ w.disk[r].dataset = None THEN {} ELSE {record}
  BY DEF D!CanonicalRecord
<1>4. CASE m # None /\ ~D!PrincipalOwns(p, m)
  <2>1. own.disk[r].manifest = None
    BY <1>1, <1>4 DEF BaseDir
  <2>2. D!CanonicalRecord(own, r, f, g) = {}
    BY <2>1 DEF D!CanonicalRecord
  <2> HIDE DEF record, m, own
  <2> QED
    BY <2>2, <1>2, <1>3, <1>4 DEF own
<1>5. CASE m = None \/ D!PrincipalOwns(p, m)
  <2>1. own.disk[r] = w.disk[r]
    BY <1>1, <1>5
  <2>2. D!CanonicalRecord(own, r, f, g) = D!CanonicalRecord(w, r, f, g)
    BY <2>1 DEF D!CanonicalRecord
  <2> HIDE DEF record, m, own
  <2> QED
    BY <2>2, <1>2, <1>3, <1>5 DEF own
<1> QED
  BY <1>4, <1>5

\* The index without foreign entries.
LEMMA OwnEntries ==
    ASSUME NEW w, {"disk", "index", "jobs"} \subseteq DOMAIN w, NEW p, IndexFaithful(w, p)
    PROVE  D!Entries(OwnWorld(w, p)) = {e \in D!Entries(w) : D!PrincipalOwns(p, e)}
<1> DEFINE own == OwnWorld(w, p)
           mine == {r \in DOMAIN w.index : D!PrincipalOwns(p, w.index[r])}
<1>1. CASE w.index = Wrong
  BY <1>1, OwnParts DEF D!Entries
<1>2. CASE w.index # Wrong
  <2>1. own.index = [r \in mine |-> w.index[r]] /\ own.index # Wrong
    BY <1>2, OwnParts DEF IndexFaithful
  <2>2. D!Entries(own) = {w.index[r] : r \in mine}
    BY <2>1 DEF D!Entries
  <2>3. D!Entries(w) = {w.index[r] : r \in DOMAIN w.index}
    BY <1>2 DEF D!Entries
  <2> QED
    BY <2>2, <2>3
<1> QED
  BY <1>1, <1>2

\* A record names its run and the owner of the run's manifest.
LEMMA RecordOwner ==
    ASSUME NEW w, NEW p, NEW r, NEW f, NEW g, NEW x \in D!CanonicalRecord(w, r, f, g)
    PROVE  /\ x.run = r /\ w.disk[r].manifest # None
           /\ D!CanonicalRecord(w, r, None, None) # {}
           /\ D!PrincipalOwns(p, x) = D!PrincipalOwns(p, w.disk[r].manifest)
<1> DEFINE m == w.disk[r].manifest
<1>1. /\ m # None /\ w.disk[r].dataset # None
      /\ x = [run |-> r, dataset |-> w.disk[r].dataset, status |-> D!Status(m, f),
              started |-> m.started, finished |-> m.finished, digest |-> g, by |-> m.by, owner |-> m.owner]
  BY DEF D!CanonicalRecord
<1>2. D!CanonicalRecord(w, r, None, None) # {}
  BY <1>1 DEF D!CanonicalRecord
<1>3. x.run = r /\ x.owner = m.owner /\ x.by = m.by
  BY <1>1
<1> QED
  BY <1>1, <1>2, <1>3 DEF D!PrincipalOwns

\* The records of a user's own runs do not depend on foreign runs, although the index
\* contributes status and digest.
LEMMA OwnRecords ==
    ASSUME NEW w, {"disk", "index", "jobs"} \subseteq DOMAIN w, NEW p, IndexFaithful(w, p)
    PROVE  /\ D!CanonicalRecords(OwnWorld(w, p)) = {x \in D!CanonicalRecords(w) : D!PrincipalOwns(p, x)}
           /\ \A x \in D!CanonicalRecords(w) :
                 /\ x.run \in DOMAIN w.disk /\ w.disk[x.run].manifest # None
                 /\ D!PrincipalOwns(p, x) = D!PrincipalOwns(p, w.disk[x.run].manifest)
<1> DEFINE own == OwnWorld(w, p)
           ix(v) == D!IndexRecords(v)
           fs(v) == D!FilesystemRecords(v)
           cached(v, f) == {x \in ix(v) : x.run = f.run}
           merged(v, f) ==
             [f EXCEPT !.status = IF \E x \in cached(v, f) : x.status = "cancelled" THEN "cancelled" ELSE @,
                       !.digest = IF \E x \in cached(v, f) : x.digest # None
                                  THEN (CHOOSE x \in cached(v, f) : TRUE).digest ELSE @]
           found(v) == {x \in ix(v) : \A f \in fs(v) : f.run # x.run} \cup {merged(v, f) : f \in fs(v)}
           record(v, x) == D!CanonicalRecord(v, x.run, x.status, x.digest)
<1>1. \A v : D!CanonicalRecords(v) = UNION {record(v, x) : x \in found(v)}
  BY DEF D!CanonicalRecords, D!RetainCanonical, D!MergeRecords
<1>2. DOMAIN own.disk = DOMAIN w.disk
  BY OwnParts
<1>3. \A r \in DOMAIN w.disk : \A f, g :
         D!CanonicalRecord(own, r, f, g) = {x \in D!CanonicalRecord(w, r, f, g) : D!PrincipalOwns(p, x)}
  BY OwnRecord
<1>4. fs(own) = {x \in fs(w) : D!PrincipalOwns(p, x)}
  BY <1>2, <1>3 DEF D!FilesystemRecords
<1>5. ix(own) = {e \in ix(w) : D!PrincipalOwns(p, e)}
  BY OwnEntries DEF D!IndexRecords
<1>6. \A r, f, g : \A x \in D!CanonicalRecord(w, r, f, g) :
         /\ x.run = r /\ w.disk[r].manifest # None
         /\ D!CanonicalRecord(w, r, None, None) # {}
         /\ D!PrincipalOwns(p, x) = D!PrincipalOwns(p, w.disk[r].manifest)
  BY RecordOwner
<1>7. \A e \in ix(w) : /\ e.run \in DOMAIN w.disk
                       /\ w.disk[e.run].manifest # None =>
                            D!PrincipalOwns(p, e) = D!PrincipalOwns(p, w.disk[e.run].manifest)
  BY DEF D!IndexRecords, D!Entries, IndexFaithful
<1>8. ASSUME NEW f \in fs(own) PROVE f \in fs(w) /\ merged(own, f) = merged(w, f)
  <2>1. PICK r \in DOMAIN w.disk : f \in D!CanonicalRecord(w, r, None, None)
    BY <1>4 DEF D!FilesystemRecords
  <2>2. f.run = r /\ w.disk[r].manifest # None /\ D!PrincipalOwns(p, w.disk[r].manifest)
    BY <1>4, <1>6, <2>1
  <2>3. cached(own, f) = cached(w, f)
    BY <2>2, <1>5, <1>7
  <2> HIDE DEF cached, fs
  <2> QED
    BY <2>3, <1>4
<1>9. \A v : \A f \in fs(v) : merged(v, f).run = f.run
  BY DEF D!FilesystemRecords, D!CanonicalRecord
<1>10. \A f \in fs(w) : f.run \in DOMAIN w.disk
  BY <1>6 DEF D!FilesystemRecords
<1> HIDE DEF merged, ix, fs, own
<1>11. \A x \in found(w) \cup found(own) : x.run \in DOMAIN w.disk
  BY <1>4, <1>5, <1>7, <1>9, <1>10
<1>12. ASSUME NEW x, x.run \in DOMAIN w.disk, NEW y \in record(w, x), D!PrincipalOwns(p, y)
       PROVE  x \in found(w) <=> x \in found(own)
  <2>1. PICK f \in D!CanonicalRecord(w, x.run, None, None) : f.run = x.run /\ D!PrincipalOwns(p, f)
    BY <1>6, <1>12
  <2>2. f \in fs(w) /\ f \in fs(own)
    BY <2>1, <1>4, <1>12 DEF fs, D!FilesystemRecords
  <2>3. x \in found(own) => x \in found(w)
    BY <2>1, <2>2, <1>8
  <2>4. ASSUME x \in found(w) PROVE x \in found(own)
    <3>1. PICK g \in fs(w) : x = merged(w, g)
      BY <2>1, <2>2, <2>4
    <3>2. g.run = x.run
      BY <3>1, <1>9
    <3>3. D!PrincipalOwns(p, g)
      <4>1. PICK r \in DOMAIN w.disk : g \in D!CanonicalRecord(w, r, None, None)
        BY DEF fs, D!FilesystemRecords
      <4> QED
        BY <4>1, <3>2, <1>6, <1>12
    <3>4. g \in fs(own)
      BY <3>3, <1>4
    <3> QED
      BY <3>1, <3>4, <1>8
  <2> QED
    BY <2>3, <2>4
<1> HIDE DEF found
<1>13. \A x \in found(w) \cup found(own) : record(own, x) = {y \in record(w, x) : D!PrincipalOwns(p, y)}
  BY <1>3, <1>11
<1>14. \A y \in D!CanonicalRecords(w) :
          /\ y.run \in DOMAIN w.disk /\ w.disk[y.run].manifest # None
          /\ D!PrincipalOwns(p, y) = D!PrincipalOwns(p, w.disk[y.run].manifest)
  BY <1>1, <1>6, <1>11
<1> QED
  BY <1>1, <1>11, <1>12, <1>13, <1>14 DEF own

\* What the service tells a signed-in user of runs, one by one, of a data set, in progress,
\* in recent windows and in statistics, is what it would tell if nobody else's runs existed,
\* for any number of runs, jobs and owners, any index that holds what the ends of runs
\* wrote, and users from before stable ids (service/datasets.py, filter_ownership;
\* service/monitoring.py).
THEOREM ForeignRunsUnseen ==
    ASSUME NEW w, {"disk", "index", "jobs"} \subseteq DOMAIN w,
           NEW p, p # None, p.kind = "oidc", IndexFaithful(w, p),
           NEW ds, NEW rs, NEW n, NEW now
    PROVE  Unseen(w, p, ds, rs, n, now)
<1> DEFINE own == OwnWorld(w, p)
           mine(xs) == {x \in xs : D!PrincipalOwns(p, x)}
<1>1. /\ DOMAIN own.disk = DOMAIN w.disk
      /\ \A k \in DOMAIN w.disk :
            own.disk[k] = IF w.disk[k].manifest # None /\ ~D!PrincipalOwns(p, w.disk[k].manifest)
                          THEN BaseDir ELSE w.disk[k]
      /\ own.jobs = {j \in w.jobs : D!PrincipalOwns(p, j)}
      /\ own.index = Wrong <=> w.index = Wrong
  <2>1. own.index = Wrong <=> w.index = Wrong
    BY OwnParts DEF IndexFaithful
  <2>2. DOMAIN own.disk = DOMAIN w.disk
    BY OwnParts
  <2>3. own.jobs = {j \in w.jobs : D!PrincipalOwns(p, j)}
    BY OwnParts
  <2>4. \A k \in DOMAIN w.disk :
           OwnWorld(w, p).disk[k] = IF w.disk[k].manifest # None /\ ~D!PrincipalOwns(p, w.disk[k].manifest)
                                    THEN BaseDir ELSE w.disk[k]
    BY OwnDisk
  <2> HIDE DEF mine
  <2> QED
    BY <2>1, <2>2, <2>3, <2>4
<1>2. D!CanonicalRecords(own) = mine(D!CanonicalRecords(w))
  BY OwnRecords
<1>3. D!Entries(own) = mine(D!Entries(w))
  BY OwnEntries
<1>4. \A xs : D!FilterOwnership(xs, p, TRUE) = mine(xs)
  BY OwnersFilter
<1>5. \A k \in DOMAIN w.disk : \A f, g : D!CanonicalRecord(own, k, f, g) = mine(D!CanonicalRecord(w, k, f, g))
  BY OwnRecord
<1> HIDE DEF own
<1>6. D!DatasetRecords(w, p, TRUE) = D!DatasetRecords(own, p, TRUE)
  BY <1>2, <1>4 DEF D!DatasetRecords
<1>7. D!RecentRecords(w, p, TRUE, now) = D!RecentRecords(own, p, TRUE, now)
  <2> DEFINE cut == now - D!Window - D!Margin
             timed(v) == {k \in DOMAIN v.disk : v.disk[k].manifest # None /\ v.disk[k].mtime >= cut}
             listed(v) == {e.run : e \in D!Between(v, cut, now + 1)}
             records(v) == UNION {D!CanonicalRecord(v, k, None, None) : k \in timed(v) \cup listed(v)}
  <2>1. D!Between(own, cut, now + 1) = mine(D!Between(w, cut, now + 1))
    BY <1>3 DEF D!Between
  <2>2. \A e \in D!Between(w, cut, now + 1) :
           /\ e.run \in DOMAIN w.disk
           /\ w.disk[e.run].manifest # None =>
                D!PrincipalOwns(p, e) = D!PrincipalOwns(p, w.disk[e.run].manifest)
    BY DEF D!Between, D!Entries, IndexFaithful
  <2> HIDE DEF cut
  <2>3. \A k \in timed(w) \cup listed(w) \cup timed(own) \cup listed(own) : k \in DOMAIN w.disk
    BY <1>1, <2>1, <2>2
  <2>4. ASSUME NEW k \in DOMAIN w.disk, NEW x \in D!CanonicalRecord(w, k, None, None), D!PrincipalOwns(p, x)
        PROVE  k \in timed(w) \cup listed(w) <=> k \in timed(own) \cup listed(own)
    <3>1. w.disk[k].manifest # None /\ D!PrincipalOwns(p, w.disk[k].manifest)
      BY <2>4, RecordOwner
    <3>2. own.disk[k] = w.disk[k]
      BY <1>1, <3>1
    <3>3. k \in timed(w) <=> k \in timed(own)
      BY <1>1, <3>2
    <3>4. k \in listed(w) <=> k \in listed(own)
      BY <2>1, <2>2, <3>1
    <3> QED
      BY <3>3, <3>4
  <2> HIDE DEF timed, listed
  <2>5. records(own) = mine(records(w))
    BY <1>5, <2>3, <2>4
  <2>6. \A v : D!RecentRecords(v, p, TRUE, now) = mine(records(v))
    BY <1>4 DEF D!RecentRecords, timed, listed, cut
  <2> HIDE DEF records
  <2> QED
    BY <2>5, <2>6
<1>8. ASSUME NEW d \in ds, NEW r \in rs
      PROVE  D!GetRun(w, d, r, p, TRUE, TRUE) = D!GetRun(own, d, r, p, TRUE, TRUE)
  <2> DEFINE found(v) == {x \in D!CanonicalRecords(v) : x.run = r /\ x.dataset = d}
  <2>1. found(own) = mine(found(w))
    BY <1>2
  <2>2. \A v : D!GetRun(v, d, r, p, TRUE, TRUE) = IF mine(found(v)) # {} THEN "200" ELSE "404"
    BY <1>4 DEF D!GetRun
  <2> HIDE DEF found
  <2> QED
    BY <2>1, <2>2
<1>9. \A d \in ds : D!ListRuns(w, d, p, TRUE, n) = D!ListRuns(own, d, p, TRUE, n)
  BY <1>6 DEF D!ListRuns, D!RecordsFor
<1>10. \A d \in ds : D!ActiveStatuses(w, d, p, TRUE) = D!ActiveStatuses(own, d, p, TRUE)
  BY <1>1 DEF D!ActiveStatuses, D!OwnershipAllows
<1>11. ASSUME NEW x \in D!DatasetRecords(w, p, TRUE)
       PROVE  D!Summary(w, x, {}, x.finished, now) = D!Summary(own, x, {}, x.finished, now)
  <2>1. x \in D!CanonicalRecords(w) /\ D!PrincipalOwns(p, x)
    BY <1>4, <1>11 DEF D!DatasetRecords
  <2>2. x.run \in DOMAIN w.disk /\ D!PrincipalOwns(p, w.disk[x.run].manifest)
    BY <2>1, OwnRecords
  <2>3. own.disk[x.run] = w.disk[x.run]
    BY <1>1, <2>2
  <2> QED
    BY <2>3 DEF D!Summary
<1>12. D!Statistics(w, p, TRUE, now, n) = D!Statistics(own, p, TRUE, now, n)
  <2> DEFINE end == D!BucketStart(now) + D!Bucket
             scoped(v) == D!FilterOwnership(D!Between(v, end - D!Window, end), p, TRUE)
             recent(v) == {e \in D!Entries(v) : D!PrincipalOwns(p, e)}
  <2>1. D!Filtered(p, TRUE)
    BY DEF D!Filtered
  <2>2. scoped(own) = scoped(w)
    BY <1>3, <1>4 DEF D!Between
  <2>3. recent(own) = recent(w)
    BY <1>3
  <2> HIDE DEF scoped, recent
  <2> QED
    BY <1>1, <2>1, <2>2, <2>3 DEF D!Statistics, scoped, recent, end
<1> QED
  BY <1>6, <1>7, <1>8, <1>9, <1>10, <1>11, <1>12 DEF Unseen, own

-----------------------------------------------------------------------------
(* Terms of redistribution *)
-----------------------------------------------------------------------------

Verdicts == {"forbidden", "unknown", "non_commercial", "allowed"}

\* The verdict of a build is the strictest among those of its sources: the order
\* forbidden, unknown, non-commercial, allowed is scanned from the strict end.
LEMMA StrictestVerdict ==
    ASSUME NEW found \in SUBSET Verdicts, found # {},
           NEW verdict, verdict = G!VerdictOrder[G!Min({n \in DOMAIN G!VerdictOrder : G!VerdictOrder[n] \in found})]
    PROVE  /\ verdict \in Verdicts
           /\ verdict # "forbidden" => "forbidden" \notin found
           /\ verdict \notin {"forbidden", "unknown"} => "unknown" \notin found
           /\ verdict = "allowed" => found = {"allowed"}
<1> DEFINE at == {n \in DOMAIN G!VerdictOrder : G!VerdictOrder[n] \in found}
           low == G!Min(at)
<1>1. /\ DOMAIN G!VerdictOrder = 1..4
      /\ G!VerdictOrder[1] = "forbidden" /\ G!VerdictOrder[2] = "unknown"
      /\ G!VerdictOrder[3] = "non_commercial" /\ G!VerdictOrder[4] = "allowed"
  BY DEF G!VerdictOrder
<1>2. at \in SUBSET Nat /\ at # {}
  <2>1. PICK x : x \in found
    OBVIOUS
  <2>2. \E n \in 1..4 : G!VerdictOrder[n] = x
    BY <1>1, <2>1 DEF Verdicts
  <2> QED
    BY <1>1, <2>1, <2>2
<1>3. low \in at /\ \A k \in at : low <= k
  <2>1. \E m \in at : \A k \in at : m <= k
    BY <1>2, HasMinimum
  <2> QED
    BY <2>1 DEF G!Min
<1>4. \A n \in 1..4 : G!VerdictOrder[n] \in found => low <= n
  BY <1>1, <1>3
<1>5. low \in 1..4 /\ verdict = G!VerdictOrder[low] /\ verdict \in found
  BY <1>1, <1>3
<1> HIDE DEF at, low
<1>6. "forbidden" \in found => low = 1
  BY <1>1, <1>4, <1>5
<1>7. "unknown" \in found => low \in 1..2
  BY <1>1, <1>4, <1>5
<1>8. "non_commercial" \in found => low \in 1..3
  BY <1>1, <1>4, <1>5
<1>9. CASE low = 1
  BY <1>1, <1>5, <1>9 DEF Verdicts
<1>10. CASE low = 2
  BY <1>1, <1>5, <1>6, <1>10 DEF Verdicts
<1>11. CASE low = 3
  BY <1>1, <1>5, <1>6, <1>7, <1>11 DEF Verdicts
<1>12. CASE low = 4
  <2>1. "forbidden" \notin found /\ "unknown" \notin found /\ "non_commercial" \notin found
    BY <1>6, <1>7, <1>8, <1>12
  <2>2. verdict = "allowed" /\ found = {"allowed"}
    BY <2>1, <1>1, <1>5, <1>12 DEF Verdicts
  <2> QED
    BY <2>1, <2>2 DEF Verdicts
<1> QED
  BY <1>5, <1>9, <1>10, <1>11, <1>12

\* Whatever sources a build has, if the checks before a publication let it go, the
\* terms of every source allow it at that destination: forbidden data never goes, public
\* data is allowed or non-commercial, confirmed and marked, and what was to stay private
\* but is public has no source without a clear permission (service/redistribution.py).
THEOREM TermsRespectedAlways ==
    ASSUME NEW t, t.sources = None \/ DOMAIN t.sources # {}
    PROVE  TermsRespected(t)
<1> DEFINE found == IF t.sources = None THEN {"unknown"} ELSE {G!SourceVerdict(t.sources[i]) : i \in DOMAIN t.sources}
           verdict == G!BuildVerdict(t.sources)
           public == G!IsPublic(t.target, t.options)
           terms == IF t.sources = None THEN {None}
                    ELSE {IF t.sources[i].kind = "public_api" THEN t.sources[i].terms ELSE None :
                             i \in DOMAIN t.sources}
           goes == /\ G!PublishIssues(verdict, public, t.confirmed, t.marked) = {}
                   /\ ~G!DestinationIssue(verdict, public, t.visibility)
<1>1. G!ToSet(G!VerdictOrder) = Verdicts
  BY DEF G!ToSet, G!VerdictOrder, Verdicts
<1>2. found \in SUBSET Verdicts /\ found # {}
  BY <1>1 DEF G!SourceVerdict, Verdicts
<1>3. /\ verdict \in Verdicts
      /\ verdict # "forbidden" => "forbidden" \notin found
      /\ verdict \notin {"forbidden", "unknown"} => "unknown" \notin found
      /\ verdict = "allowed" => found = {"allowed"}
  <2>1. verdict = G!VerdictOrder[G!Min({n \in DOMAIN G!VerdictOrder : G!VerdictOrder[n] \in found})]
    BY DEF G!BuildVerdict
  <2> HIDE DEF verdict, found
  <2> QED
    BY <2>1, <1>2, StrictestVerdict
<1>4. \A x \in terms : x \in found \/ (x \notin Verdicts /\ "unknown" \in found)
  BY <1>1, NoneApart DEF G!SourceVerdict, Verdicts
<1>5. terms # {}
  OBVIOUS
<1> HIDE DEF found, terms, verdict, public
<1>6. ASSUME goes PROVE "forbidden" \notin terms
  BY <1>3, <1>4, <1>6 DEF G!PublishIssues, Verdicts
<1>7. ASSUME goes, public
      PROVE  /\ terms \subseteq {"allowed", "non_commercial"}
             /\ "non_commercial" \in terms => t.confirmed /\ t.marked
  <2>1. verdict \in {"non_commercial", "allowed"}
    BY <1>3, <1>7 DEF G!PublishIssues, Verdicts
  <2>2. terms \subseteq found /\ found \subseteq {"allowed", "non_commercial"}
    BY <2>1, <1>2, <1>3, <1>4 DEF Verdicts
  <2>3. verdict = "non_commercial" => t.confirmed /\ t.marked
    BY <1>7 DEF G!PublishIssues
  <2> QED
    BY <2>1, <2>2, <2>3, <1>3
<1>8. ASSUME goes, t.visibility = "public", ~public PROVE terms = {"allowed"}
  <2>1. verdict = "allowed"
    BY <1>3, <1>8 DEF G!PublishIssues, G!DestinationIssue, Verdicts
  <2> QED
    BY <2>1, <1>3, <1>4, <1>5 DEF Verdicts
<1>9. goes => /\ "forbidden" \notin terms
              /\ public => /\ terms \subseteq {"allowed", "non_commercial"}
                           /\ "non_commercial" \in terms => t.confirmed /\ t.marked
              /\ t.visibility = "public" /\ ~public => terms = {"allowed"}
  <2> HIDE DEF goes
  <2> QED
    BY <1>6, <1>7, <1>8, Zenon
<1> QED
  BY <1>9, Zenon DEF TermsRespected, terms, verdict, public

-----------------------------------------------------------------------------
(* Credentials of a publication *)
-----------------------------------------------------------------------------

\* What is parsed from the headers of a request comes from that request.
LEMMA HeadersRead ==
    ASSUME NEW names, NEW hs \in Seq(names \X {"request", Empty}), G!ParseHeaders(hs) # Wrong
    PROVE  \A v \in DOMAIN G!ParseHeaders(hs) : G!ParseHeaders(hs)[v] = "request"
<1> DEFINE given == {hs[i][1] : i \in DOMAIN hs}
<1>1. G!ParseHeaders(hs) = [n \in given |-> (CHOOSE q \in G!ToSet(hs) : q[1] = n)[2]]
  BY DEF G!ParseHeaders
<1>2. \A i \in DOMAIN hs : hs[i][2] # Empty
  BY DEF G!ParseHeaders
<1>3. \A i \in DOMAIN hs : hs[i] \in names \X {"request", Empty}
  OBVIOUS
<1>4. \A q \in G!ToSet(hs) : q[2] = "request"
  BY <1>2, <1>3 DEF G!ToSet
<1>5. ASSUME NEW n \in given PROVE (CHOOSE q \in G!ToSet(hs) : q[1] = n)[2] = "request"
  <2>1. \E q \in G!ToSet(hs) : q[1] = n
    BY DEF G!ToSet
  <2> QED
    BY <2>1, <1>4
<1> QED
  BY <1>1, <1>5

\* The order of the headers is irrelevant to what is parsed from them.
LEMMA HeaderOrderFree ==
    ASSUME NEW names, NEW hs \in Seq(names)
    PROVE  G!ParseHeaders(Reverse(hs)) = G!ParseHeaders(hs)
<1> DEFINE rs == Reverse(hs)
           n == Len(hs)
<1>1. n \in Nat /\ DOMAIN hs = 1..n /\ DOMAIN rs = 1..n
  BY DEF Reverse
<1>2. \A i \in 1..n : n - i + 1 \in 1..n /\ rs[i] = hs[n - i + 1]
  BY <1>1 DEF Reverse
<1>3. \A i \in 1..n : hs[i] = rs[n - i + 1]
  <2> TAKE i \in 1..n
  <2>1. n - i + 1 \in 1..n /\ n - (n - i + 1) + 1 = i
    BY <1>1
  <2> QED
    BY <2>1, <1>2
<1> HIDE DEF rs
<1>4. \A i \in DOMAIN hs : \E j \in DOMAIN rs : hs[i] = rs[j]
  BY <1>1, <1>2, <1>3
<1>5. \A i \in DOMAIN rs : \E j \in DOMAIN hs : rs[i] = hs[j]
  BY <1>1, <1>2
<1> DEFINE bad(s) == \/ \E i \in DOMAIN s : s[i][1] \notin UNION G!Range(G!Slots) \/ s[i][2] = Empty
                     \/ \E i, j \in DOMAIN s : s[i][1] = s[j][1] /\ s[i][2] # s[j][2]
           dom(s) == {s[i][1] : i \in DOMAIN s}
           parsed(s) == [v \in dom(s) |-> (CHOOSE q \in G!ToSet(s) : q[1] = v)[2]]
<1>6. bad(rs) <=> bad(hs)
  BY <1>4, <1>5
<1>7. G!ToSet(rs) = G!ToSet(hs)
  BY <1>4, <1>5 DEF G!ToSet
<1>8. dom(rs) = dom(hs)
  BY <1>4, <1>5
<1>9. parsed(rs) = parsed(hs)
  <2> HIDE DEF dom
  <2>1. parsed(rs) = [v \in dom(hs) |-> (CHOOSE q \in G!ToSet(rs) : q[1] = v)[2]]
    BY <1>8
  <2> QED
    BY <2>1, <1>7
<1> QED
  BY <1>6, <1>9 DEF G!ParseHeaders, rs

\* The credentials a publication is made with come from one place: of several users,
\* from the request alone and in full; with own credentials only, never from the server; a
\* refused request carries none (service/publish_credentials.py). The assumptions say which
\* tag the values of the store and of the server bear.
THEOREM OneOriginAlways ==
    ASSUME NEW c, c.target \in DOMAIN G!Slots,
           NEW names, c.headers \in Seq(names \X {"request", Empty}),
           c.stored = None \/ \A v \in DOMAIN c.stored : c.stored[v] = "stored",
           \A v \in DOMAIN c.server : c.server[v] = "server"
    PROVE  OneOrigin(c)
<1> DEFINE request == G!ParseHeaders(c.headers)
           slots == G!Slots[c.target]
           r == G!ResolveCredentials(c.target, c.multiUser, request, c.stored, c.server, c.ownOnly)
<1> SUFFICES ASSUME request # Wrong
             PROVE  /\ Cardinality(Range(r.values)) <= 1
                    /\ c.multiUser /\ r.needed /\ ~r.refused => Range(r.values) = {"request"} /\ DOMAIN r.values = slots
                    /\ c.ownOnly => "server" \notin Range(r.values)
                    /\ r.refused => r.values = <<>>
                    /\ G!ParseHeaders(Reverse(c.headers)) = request
  BY DEF OneOrigin
<1>1. \A v \in DOMAIN request : request[v] = "request"
  BY HeadersRead
<1>2. G!ParseHeaders(Reverse(c.headers)) = request
  BY HeaderOrderFree
<1> HIDE DEF request, slots, r
<1>3. \/ r = G!Resolution(<<>>, FALSE, FALSE)
      \/ r = G!Resolution(<<>>, TRUE, TRUE)
      \/ /\ c.multiUser /\ slots # {} /\ slots \subseteq DOMAIN request
         /\ r = G!Resolution([v \in slots |-> request[v]], FALSE, TRUE)
      \/ /\ ~c.multiUser /\ c.stored # None
         /\ r = G!Resolution([v \in slots \cap DOMAIN c.stored |-> c.stored[v]], FALSE, TRUE)
      \/ /\ ~c.multiUser /\ ~c.ownOnly
         /\ r = G!Resolution([v \in slots \cap DOMAIN c.server |-> c.server[v]], FALSE, TRUE)
  BY DEF r, slots, G!ResolveCredentials, G!Stored
<1>4. Range(<<>>) = {}
  BY DEF Range
<1>5. ASSUME NEW f, NEW x, \A v \in DOMAIN f : f[v] = x
      PROVE  Range(f) \subseteq {x} /\ Cardinality(Range(f)) <= 1
  <2>1. Range(f) = {} \/ Range(f) = {x}
    BY <1>5 DEF Range
  <2>2. Cardinality({}) = 0 /\ Cardinality({x}) = 1
    BY FS_EmptySet, FS_Singleton, Zenon
  <2>3. Cardinality(Range(f)) \in {0, 1}
    BY <2>1, <2>2, Zenon
  <2> QED
    BY <2>1, <2>3
<1>6. CASE r.values = <<>> /\ (r.needed => r.refused)
  <2>1. Range(r.values) = {} /\ Cardinality(Range(r.values)) = 0
    BY <1>4, <1>6, FS_EmptySet, Zenon
  <2> QED
    BY <2>1, <1>2, <1>6
<1>7. CASE /\ c.multiUser /\ slots # {} /\ slots \subseteq DOMAIN request
           /\ r = G!Resolution([v \in slots |-> request[v]], FALSE, TRUE)
  <2>1. r.values = [v \in slots |-> request[v]] /\ r.refused = FALSE
    BY <1>7 DEF G!Resolution
  <2>2. DOMAIN r.values = slots /\ \A v \in slots : r.values[v] = "request"
    BY <2>1, <1>1, <1>7
  <2>3. Range(r.values) = {"request"}
    <3>1. "request" \in Range(r.values)
      BY <2>2, <1>7 DEF Range
    <3> QED
      BY <3>1, <2>2, <1>5
  <2>4. Cardinality(Range(r.values)) <= 1 /\ "server" \notin Range(r.values)
    BY <2>2, <2>3, <1>5
  <2> QED
    BY <2>1, <2>2, <2>3, <2>4, <1>2
<1>8. CASE /\ ~c.multiUser /\ c.stored # None
           /\ r = G!Resolution([v \in slots \cap DOMAIN c.stored |-> c.stored[v]], FALSE, TRUE)
  <2>1. r.values = [v \in slots \cap DOMAIN c.stored |-> c.stored[v]] /\ r.refused = FALSE
    BY <1>8 DEF G!Resolution
  <2>2. \A v \in DOMAIN r.values : r.values[v] = "stored"
    BY <2>1, <1>8
  <2>3. Range(r.values) \subseteq {"stored"} /\ Cardinality(Range(r.values)) <= 1
    BY <2>2, <1>5
  <2> QED
    BY <2>1, <2>3, <1>2, <1>8
<1>9. CASE /\ ~c.multiUser /\ ~c.ownOnly
           /\ r = G!Resolution([v \in slots \cap DOMAIN c.server |-> c.server[v]], FALSE, TRUE)
  <2>1. r.values = [v \in slots \cap DOMAIN c.server |-> c.server[v]] /\ r.refused = FALSE
    BY <1>9 DEF G!Resolution
  <2>2. \A v \in DOMAIN r.values : r.values[v] = "server"
    BY <2>1
  <2>3. Cardinality(Range(r.values)) <= 1
    BY <2>2, <1>5
  <2> QED
    BY <2>1, <2>3, <1>2, <1>9
<1> QED
  BY <1>3, <1>6, <1>7, <1>8, <1>9 DEF G!Resolution

-----------------------------------------------------------------------------
(* Declared personal data *)
-----------------------------------------------------------------------------

\* The names under which fields reach Silver are the names coalescing and renaming
\* give them.
LEMMA BuilderNamesAre ==
    ASSUME NEW names, NEW s
    PROVE  G!BuilderNames(names, s) = {FinalName(n, s) : n \in names}
<1> DEFINE groups(n) == {g \in DOMAIN s.coalesce : n \in ToSet(s.coalesce[g])}
           merged(n) == IF groups(n) = {} THEN n ELSE CHOOSE g \in groups(n) : TRUE
<1>1. \A n : {g \in DOMAIN s.coalesce : n \in G!ToSet(s.coalesce[g])} = groups(n)
  BY DEF G!ToSet, ToSet
<1>2. \A n : FinalName(n, s) = Field(s.rename, merged(n), merged(n))
  BY DEF FinalName
<1>3. \A m : G!Field(s.rename, m, m) = Field(s.rename, m, m)
  BY DEF G!Field, Field
<1> HIDE DEF groups
<1>4. G!BuilderNames(names, s) = {G!Field(s.rename, merged(n), merged(n)) : n \in names}
  BY <1>1 DEF G!BuilderNames
<1> QED
  BY <1>2, <1>3, <1>4

\* Masking keeps the columns of a table and leaves nothing but the mask and nulls in
\* those it is asked to mask.
LEMMA MaskingColumns ==
    ASSUME NEW t, Columned(t), NEW columns, NEW text
    PROVE  LET m == G!MaskColumns(t, columns, text)
           IN  /\ DOMAIN m = DOMAIN t
               /\ \A k \in DOMAIN t : m[k].name = t[k].name
               /\ AllMasked(m, columns)
<1> DEFINE m == G!MaskColumns(t, columns, text)
           masked(k) == [t[k] EXCEPT !.cells = [i \in DOMAIN @ |-> G!MaskValue(@[i], t[k].name \in text)]]
<1>1. /\ DOMAIN m = DOMAIN t
      /\ \A k \in DOMAIN t : m[k] = IF t[k].name \notin columns THEN t[k] ELSE masked(k)
  BY DEF G!MaskColumns
<1>2. ASSUME NEW k \in DOMAIN t
      PROVE  /\ masked(k).name = t[k].name
             /\ masked(k).cells = [i \in DOMAIN t[k].cells |-> G!MaskValue(t[k].cells[i], t[k].name \in text)]
  BY DEF Columned
<1>3. \A x, b : G!MaskValue(x, b) \in {None, G!MaskToken}
  BY DEF G!MaskValue
<1> HIDE DEF m, masked
<1>4. ASSUME NEW k \in DOMAIN m, m[k].name \in columns, NEW i \in DOMAIN m[k].cells
      PROVE  m[k].cells[i] \in {None, G!MaskToken}
  <2>1. m[k] = masked(k)
    BY <1>1, <1>4
  <2>2. m[k].cells = [j \in DOMAIN t[k].cells |-> G!MaskValue(t[k].cells[j], t[k].name \in text)]
    BY <2>1, <1>1, <1>2
  <2> QED
    BY <2>2, <1>3, <1>4
<1>5. \A k \in DOMAIN t : m[k].name = t[k].name
  BY <1>1, <1>2
<1> QED
  BY <1>1, <1>4, <1>5 DEF AllMasked, m

\* The columns Gold selects are columns of the Silver table.
LEMMA SelectedColumns ==
    ASSUME NEW t, Columned(t), NEW g, G!Select(t, g).code = "ok"
    PROVE  LET chosen == G!Select(t, g).table
           IN  Columned(chosen) /\ G!ColumnNames(chosen) \subseteq G!ColumnNames(t)
<1> DEFINE kept == {i \in G!Rows(t) : \A n \in DOMAIN g.filters : G!FilterKeeps(t, g.filters[n], i)}
           columns == IF g.select = <<>> THEN t ELSE [n \in DOMAIN g.select |-> G!Column(t, g.select[n])]
<1>1. /\ G!ToSet(g.select) \subseteq G!ColumnNames(t)
      /\ G!Select(t, g).table = G!RowsOf(columns, kept)
  BY DEF G!Select, G!Done, G!Refused
<1>2. \A k \in DOMAIN columns : \E j \in DOMAIN t : columns[k] = t[j]
  <2>1. CASE g.select = <<>>
    BY <2>1
  <2>2. CASE g.select # <<>>
    <3>1. ASSUME NEW n \in DOMAIN g.select
          PROVE  (CHOOSE i \in DOMAIN t : t[i].name = g.select[n]) \in DOMAIN t
      BY <1>1 DEF G!ToSet, G!ColumnNames
    <3> QED
      BY <2>2, <3>1 DEF G!Column
  <2> QED
    BY <2>1, <2>2
<1> HIDE DEF kept, columns
<1>3. \A k \in DOMAIN columns : {"name", "cells"} \subseteq DOMAIN columns[k]
  BY <1>2 DEF Columned
<1> DEFINE order == G!SetToSortSeq(kept, <)
           taken(k) == [columns[k] EXCEPT !.cells = [n \in DOMAIN order |-> columns[k].cells[order[n]]]]
           chosen == [k \in DOMAIN columns |-> taken(k)]
<1>4. G!RowsOf(columns, kept) = chosen
  BY DEF G!RowsOf
<1>5. ASSUME NEW k \in DOMAIN columns
      PROVE  {"name", "cells"} \subseteq DOMAIN taken(k) /\ taken(k).name = columns[k].name
  BY <1>3
<1> HIDE DEF taken
<1>6. Columned(chosen)
  BY <1>5 DEF Columned
<1>7. G!ColumnNames(chosen) \subseteq G!ColumnNames(t)
  BY <1>2, <1>5 DEF G!ColumnNames
<1> QED
  BY <1>1, <1>4, <1>6, <1>7

\* What reads of a run withhold includes every declared column under its final name,
\* published unmasked or else there, and all of them where the columns are not known.
LEMMA WithheldAll ==
    ASSUME NEW source, NEW core, NEW columns, NEW recorded
    PROVE  LET named == {FinalName(n, source.schema) : n \in core} \cup ToSet(source.gold.pii_columns)
               withheld == G!RunWithheld(source, core, recorded, columns)
           IN  /\ columns = None => named \ ToSet(source.gold.publish_unmasked) \subseteq withheld
               /\ (named \ ToSet(source.gold.publish_unmasked)) \cap columns \subseteq withheld
<1>1. G!BuilderNames(core, source.schema) = {FinalName(n, source.schema) : n \in core}
  BY BuilderNamesAre
<1>2. /\ G!ToSet(source.gold.pii_columns) = ToSet(source.gold.pii_columns)
      /\ G!ToSet(source.gold.publish_unmasked) = ToSet(source.gold.publish_unmasked)
  BY DEF G!ToSet, ToSet
<1> QED
  BY <1>1, <1>2 DEF G!RunWithheld, G!WithheldFromSilver, G!MaskedInGold, G!DeclaredPii

\* A Gold table has every declared column masked that is not published unmasked,
\* after selection, filtering and the policy.
LEMMA GoldMasked ==
    ASSUME NEW silver, Columned(silver), NEW source, NEW core, NEW policy,
           G!GoldOf(silver, source, core, policy).code = "ok"
    PROVE  AllMasked(G!GoldOf(silver, source, core, policy).table,
                     ({FinalName(n, source.schema) : n \in core} \cup ToSet(source.gold.pii_columns))
                        \ ToSet(source.gold.publish_unmasked))
<1> DEFINE own == ToSet(source.gold.pii_columns)
           unmasked == ToSet(source.gold.publish_unmasked)
           declared == G!DeclaredPii(core, own, G!ColumnNames(silver), source.schema)
           selected == G!Select(silver, source.gold)
           columns == G!MaskedInGold(declared, unmasked) \cap G!ColumnNames(selected.table)
           gold == G!MaskColumns(selected.table, columns, G!TextColumns(selected.table))
           named == {FinalName(n, source.schema) : n \in core}
<1>1. G!BuilderNames(core, source.schema) = named
  BY BuilderNamesAre
<1>2. /\ G!ToSet(source.gold.pii_columns) = own
      /\ G!ToSet(source.gold.publish_unmasked) = unmasked
  BY DEF G!ToSet, ToSet
<1>3. selected.code = "ok" /\ G!GoldOf(silver, source, core, policy).table = gold
  BY <1>2 DEF G!GoldOf, G!Then, G!Done, G!Refused, G!ApplyMasking
<1>4. Columned(selected.table) /\ G!ColumnNames(selected.table) \subseteq G!ColumnNames(silver)
  BY <1>3, SelectedColumns
<1>5. /\ DOMAIN gold = DOMAIN selected.table
      /\ \A k \in DOMAIN gold : gold[k].name \in G!ColumnNames(selected.table)
      /\ AllMasked(gold, columns)
  <2> DEFINE table == selected.table
             text == G!TextColumns(table)
  <2>1. gold = G!MaskColumns(table, columns, text) /\ Columned(table)
    BY <1>4
  <2> HIDE DEF table, text, gold, columns
  <2>2. DOMAIN gold = DOMAIN table /\ AllMasked(gold, columns)
    BY <2>1, MaskingColumns
  <2>3. \A k \in DOMAIN table : gold[k].name = table[k].name
    BY <2>1, MaskingColumns
  <2>4. \A k \in DOMAIN gold : gold[k].name \in G!ColumnNames(table)
    BY <2>2, <2>3 DEF G!ColumnNames
  <2> QED
    BY <2>2, <2>4 DEF table
<1>6. ((named \cup own) \ unmasked) \cap G!ColumnNames(selected.table) \subseteq columns
  BY <1>1, <1>4 DEF G!MaskedInGold, G!DeclaredPii
<1> HIDE DEF own, unmasked, selected, gold, named, columns
<1>7. AllMasked(gold, (named \cup own) \ unmasked)
  BY <1>5, <1>6 DEF AllMasked
<1> QED
  BY <1>3, <1>7 DEF own, unmasked, named

\* Wherever Silver keeps what was fetched, a declared column shows no value in Gold,
\* in reads of Silver, in the raw rows of a preview or in a raw file, for any table,
\* schema, declaration, selection and policy (service/pii_reads.py, stages/gold/pii.py). The
\* hypothesis KeepsFields is what the run checks of normalisation (GoldScanned).
THEOREM MasksAlways ==
    ASSUME NEW a, Columned(a.raw), NEW silver, KeepsFields(a, silver)
    PROVE  Masks(a, silver)
<1> DEFINE source == [gold |-> a.gold, schema |-> a.schema]
           names == {a.raw[k].name : k \in DOMAIN a.raw}
           there == G!ColumnNames(silver)
           named == {FinalName(n, a.schema) : n \in a.core}
           own == ToSet(a.gold.pii_columns)
           unmasked == ToSet(a.gold.publish_unmasked)
           hidden == ({FinalName(c, a.schema) : c \in a.core \cap names} \cup own) \ unmasked
           gold == G!GoldOf(silver, source, a.core, a.policy)
           read == G!SilverRead(silver, source, a.core, {})
           preview == G!RawPreview(a.raw, silver, source, a.core)
<1>1. Columned(silver) /\ \A c \in names : FinalName(c, a.schema) \in there
  BY DEF KeepsFields
<1>2. source.gold = a.gold /\ source.schema = a.schema
  OBVIOUS
<1>3. hidden \subseteq (named \cup own) \ unmasked
  OBVIOUS
<1>4. \A t, cs, ds : AllMasked(t, ds) /\ cs \subseteq ds => AllMasked(t, cs)
  BY DEF AllMasked
<1>5. \A columns : LET withheld == G!RunWithheld(source, a.core, {}, columns)
                   IN  /\ columns = None => hidden \subseteq withheld
                       /\ hidden \cap columns \subseteq withheld
  BY <1>2, <1>3, WithheldAll
<1> HIDE DEF source, hidden
<1>6. CASE a.core = None
  BY <1>6 DEF Masks, G!SilverRead, G!ArtifactCode, G!Refused, source
<1>7. CASE a.core # None
  <2>1. gold.code = "ok" => AllMasked(gold.table, hidden)
    <3>1. gold.code = "ok" =>
             AllMasked(gold.table, ({FinalName(n, source.schema) : n \in a.core} \cup ToSet(source.gold.pii_columns))
                                     \ ToSet(source.gold.publish_unmasked))
      BY <1>1, GoldMasked
    <3> QED
      BY <3>1, <1>2, <1>3, <1>4
  <2>2. AllMasked(read.table, hidden)
    <3> DEFINE withheld == G!RunWithheld(source, a.core, {}, there)
               m == G!MaskColumns(silver, withheld, G!TextColumns(silver))
    <3>1. read.table = m
      BY <1>7 DEF G!SilverRead, G!Done
    <3>2. /\ AllMasked(m, withheld)
          /\ \A k \in DOMAIN m : m[k].name \in there
      <4> HIDE DEF withheld
      <4>1. DOMAIN m = DOMAIN silver /\ AllMasked(m, withheld)
        BY <1>1, MaskingColumns
      <4>2. \A k \in DOMAIN silver : m[k].name = silver[k].name
        BY <1>1, MaskingColumns
      <4> HIDE DEF m
      <4> QED
        BY <4>1, <4>2 DEF G!ColumnNames
    <3>3. hidden \cap there \subseteq withheld
      BY <1>5
    <3> HIDE DEF m, withheld
    <3> QED
      BY <3>1, <3>2, <3>3 DEF AllMasked
  <2>3. \A columns \in {there, None} :
           G!ArtifactCode(source, a.core, {}, columns) = "ok" => hidden \cap there = {}
    BY <1>5, <1>7 DEF G!ArtifactCode
  <2>4. AllMasked(preview, {c \in names : FinalName(c, a.schema) \in hidden})
    <3> DEFINE withheld == G!RunWithheld(source, a.core, {}, there) \cap there
               fields == G!SourceFieldsOf(G!ColumnNames(a.raw), withheld, source.schema)
               text == {f \in fields : G!BuilderNames({f}, source.schema) \cap G!TextColumns(silver) # {}}
    <3>1. preview = G!MaskColumns(a.raw, fields, text)
      BY DEF G!RawPreview
    <3>2. AllMasked(preview, fields)
      BY <3>1, MaskingColumns
    <3>3. fields = {f \in names : FinalName(f, a.schema) \in withheld}
      <4>1. \A f : G!BuilderNames({f}, source.schema) = {FinalName(f, a.schema)}
        BY <1>2, BuilderNamesAre
      <4> HIDE DEF withheld
      <4> QED
        BY <4>1 DEF G!SourceFieldsOf, G!ColumnNames
    <3>4. hidden \cap there \subseteq withheld
      BY <1>5
    <3>5. {c \in names : FinalName(c, a.schema) \in hidden} \subseteq fields
      BY <3>3, <3>4, <1>1
    <3> QED
      BY <3>2, <3>5, <1>4
  <2>5. G!AbsentCore(a.core, there, a.schema) \cap names = {}
    <3>1. \A n : G!BuilderNames({n}, a.schema) = {FinalName(n, a.schema)}
      BY BuilderNamesAre
    <3> QED
      BY <3>1, <1>1 DEF G!AbsentCore
  <2> QED
    BY <1>7, <2>1, <2>2, <2>3, <2>4, <2>5 DEF Masks, source, hidden
<1> QED
  BY <1>6, <1>7

-----------------------------------------------------------------------------
(* The property of the run *)
-----------------------------------------------------------------------------

\* The invariant: an input that was evaluated is one of those of its kind.
Inputs ==
    /\ Is("profile") => arg \in ProfileInputs
    /\ Is("context") => arg \in ContextInputs
    /\ Is("datasets") => arg \in DatasetInputs
    /\ Is("recent") => arg \in RecentInputs
    /\ Is("mask") => arg \in MaskInputs
    /\ Is("terms") => arg \in TermsInputs
    /\ Is("credentials") => arg \in CredentialInputs

\* An input that was evaluated is always one of those of its kind.
LEMMA InputsKept == Spec => []Inputs
<1>1. Init => Inputs
  BY DEF Init, Inputs, Is
<1>2. Inputs /\ [Next]_vars => Inputs'
  BY DEF Inputs, Is, Next, Evaluate, vars
<1> QED
  BY <1>1, <1>2, PTL DEF Spec

\* For every input of the kinds that are about withholding, the promise holds: each is
\* an instance of a theorem above.
LEMMA InputsDisclosed == Inputs => Disclosure
<1> SUFFICES ASSUME Inputs PROVE Disclosure
  OBVIOUS
<1>1. ProfileWithholds
  <2>1. arg \in ProfileInputs => arg.finite \in Int
    BY DEF ProfileInputs
  <2> QED
    BY <2>1, SuspectWithheld DEF ProfileWithholds, Is, Inputs
<1>2. ForeignRunHidden
  <2>1. ContextInputs \subseteq [stage : {"silver", "bronze"}, manifest : BOOLEAN, owned : BOOLEAN,
             dataset : {"d", "e", "", "s", "t", "r"}, asked : {"d", "e", "", "s", "t", "r"},
             source : {"d", "e", "", "s", "t", "r"}, sources : SUBSET {"d", "e", "", "s", "t", "r"},
             completed : BOOLEAN, file : {"file", "link"}]
    BY DEF ContextInputs
  <2> QED
    BY <2>1, ForeignHidden DEF ForeignRunHidden, Is, Inputs
<1>3. DeclaredMasked
  <2>1. ASSUME arg \in MaskInputs PROVE Columned(arg.raw)
    <3>1. PICK x, y : arg.raw = <<[name |-> "p", cells |-> <<x>>], [name |-> "q", cells |-> <<y>>]>>
      BY <2>1 DEF MaskInputs
    <3> QED
      BY <3>1 DEF Columned
  <2> QED
    BY <2>1, MasksAlways DEF DeclaredMasked, Is, Inputs
<1>4. TermsHold
  <2>1. arg \in TermsInputs => arg.sources = None \/ DOMAIN arg.sources # {}
    BY DEF TermsInputs
  <2> QED
    BY <2>1, TermsRespectedAlways DEF TermsHold, Is, Inputs
<1>5. CredentialsUnmixed
  <2>1. ASSUME arg \in CredentialInputs
        PROVE  /\ arg.target \in DOMAIN G!Slots
               /\ \E names : arg.headers \in Seq(names \X {"request", Empty})
               /\ arg.stored = None \/ \A v \in DOMAIN arg.stored : arg.stored[v] = "stored"
               /\ \A v \in DOMAIN arg.server : arg.server[v] = "server"
    <3> DEFINE pairs == Variables \X {"request", Empty}
               lists == {[1..n -> pairs] : n \in 0..2}
               names == Variables \cup {"OTHER"}
    <3>1. /\ arg.target \in DOMAIN G!Slots
          /\ arg.stored \in Held("stored") \cup {None} /\ arg.server \in Held("server")
          /\ arg.headers \in {<<<<"OTHER", "request">>>>} \cup UNION lists
      BY <2>1 DEF CredentialInputs
    <3>2. \A tag, f : f \in Held(tag) => \A v \in DOMAIN f : f[v] = tag
      BY DEF Held
    <3>3. arg.headers \in Seq(names \X {"request", Empty})
      <4>1. CASE arg.headers = <<<<"OTHER", "request">>>>
        BY <4>1
      <4>2. ASSUME NEW n \in 0..2, arg.headers \in [1..n -> pairs]
            PROVE  arg.headers \in Seq(names \X {"request", Empty})
        <5>1. \A x \in pairs : x \in names \X {"request", Empty}
          OBVIOUS
        <5>2. arg.headers \in [1..n -> names \X {"request", Empty}]
          BY <4>2, <5>1
        <5> QED
          BY <5>2
      <4>3. \A l \in lists : \E n \in 0..2 : l = [1..n -> pairs]
        OBVIOUS
      <4> HIDE DEF pairs, lists, names
      <4>4. arg.headers = <<<<"OTHER", "request">>>> \/ \E l \in lists : arg.headers \in l
        BY <3>1
      <4> QED
        BY <4>1, <4>2, <4>3, <4>4
    <3> QED
      BY <3>1, <3>2, <3>3
  <2> QED
    BY <2>1, OneOriginAlways DEF CredentialsUnmixed, Is, Inputs
<1>6. RunsUnseen
  <2>1. arg \in DatasetInputs \cup RecentInputs /\ arg.p # None => arg.p.kind = "oidc"
    BY DEF DatasetInputs, RecentInputs, Me, OldMe
  <2>2. {"disk", "index", "jobs"} \subseteq DOMAIN World(arg)
    BY DEF World
  <2>3. ASSUME arg \in DatasetInputs \cup RecentInputs, arg.p # None, IndexFaithful(World(arg), arg.p)
        PROVE  Unseen(World(arg), arg.p, 1..2, 1..3, 1, 100)
    BY <2>1, <2>2, <2>3, ForeignRunsUnseen
  <2> QED
    BY <2>3 DEF RunsUnseen, Is, Inputs
<1> QED
  BY <1>1, <1>2, <1>3, <1>4, <1>5, <1>6 DEF Disclosure

\* Suspect columns in profiles, foreign runs in reads, declared personal data under
\* every name, data whose terms forbid publication and credentials of another origin are
\* withheld in every state of the run (query/profile.py, service/query_service_api.py,
\* pii_reads.py, redistribution.py, publish_credentials.py).
THEOREM DisclosureHeld == Spec => []Disclosure
BY InputsKept, InputsDisclosed, PTL

-----------------------------------------------------------------------------
(* Coverage *)
-----------------------------------------------------------------------------

\* The totals stated in the pages of a call are finitely many.
LEMMA StatedFinite ==
    ASSUME NEW reported, NEW n \in Nat, DOMAIN reported = 1..n
    PROVE  IsFiniteSet(G!ToSet(reported))
<1> DEFINE f == [i \in 1..n |-> reported[i]]
<1>1. f \in Surjection(1..n, G!ToSet(reported))
  BY DEF Surjection, G!ToSet
<1>2. IsFiniteSet(1..n)
  BY FS_Interval
<1> QED
  BY <1>1, <1>2, FS_Surjection DEF ExistsSurjection

\* A call is free of doubt exactly when all totals its pages state are the number of
\* records fetched, and partial only when every stated total is larger.
LEMMA CallDoubted ==
    ASSUME NEW reported \in Seq(Int \cup {None}), NEW fetched \in Int,
           NEW doubt, doubt = G!CallDoubt(G!CallTotal(reported, fetched)),
           NEW stated, stated = ToSet(reported) \ {None}
    PROVE  /\ doubt \in {"none", "partial", "unknown"}
           /\ doubt = "none" <=> stated = {fetched}
           /\ doubt = "partial" => \A n \in stated : fetched < n
<1>1. stated = {x \in G!ToSet(reported) : x # None} /\ stated \subseteq Int
  BY DEF G!ToSet, ToSet
<1>2. IsFiniteSet(stated)
  <2>1. DOMAIN reported = 1..Len(reported) /\ Len(reported) \in Nat
    OBVIOUS
  <2>2. IsFiniteSet(G!ToSet(reported))
    BY <2>1, StatedFinite
  <2> QED
    BY <1>1, <2>2, FS_Subset
<1>3. Cardinality(stated) = 1 <=> \E x : stated = {x}
  BY <1>2, FS_Singleton
<1> DEFINE value == IF Cardinality(stated) = 1 THEN CHOOSE x \in stated : TRUE ELSE None
           status == IF stated = {} THEN "unknown" ELSE IF Cardinality(stated) = 1 THEN "reported" ELSE "inconsistent"
<1>4. G!Cardinality(stated) = Cardinality(stated)
  BY DEF G!Cardinality, Cardinality
<1>5. G!CallTotal(reported, fetched) = [status |-> status, value |-> value, fetched |-> fetched]
  <2> DEFINE said == {r \in G!ToSet(reported) : r # None}
  <2>1. said = stated
    BY <1>1
  <2>2. G!CallTotal(reported, fetched) =
           [status |-> IF said = {} THEN "unknown" ELSE IF G!Cardinality(said) = 1 THEN "reported" ELSE "inconsistent",
            value |-> IF G!Cardinality(said) = 1 THEN CHOOSE r \in said : TRUE ELSE None,
            fetched |-> fetched]
    BY DEF G!CallTotal
  <2> HIDE DEF said
  <2> QED
    BY <2>1, <2>2, <1>4
<1>6. CASE \E x : stated = {x}
  <2>1. PICK x : stated = {x}
    BY <1>6
  <2>2. value = x /\ x \in Int /\ status = "reported"
    BY <2>1, <1>1, <1>3
  <2> HIDE DEF value, status
  <2> QED
    BY <2>1, <2>2, <1>5 DEF G!CallDoubt
<1>7. CASE ~ \E x : stated = {x}
  <2>1. status \in {"unknown", "inconsistent"}
    BY <1>3, <1>7
  <2> HIDE DEF value, status
  <2> QED
    BY <2>1, <1>5, <1>7 DEF G!CallDoubt
<1> QED
  BY <1>6, <1>7

\* Coverage is complete exactly when every call stated one total and fetched that many
\* records, and partial only when some call fetched fewer than it stated, for any number of
\* calls and pages (provenance.py, stages/bronze/build.py).
THEOREM CoverageAlwaysTold ==
    ASSUME NEW calls \in Seq([reported : Seq(Int \cup {None}), fetched : Int])
    PROVE  CoverageTold(calls)
<1> DEFINE totals == [i \in DOMAIN calls |-> G!CallTotal(calls[i].reported, calls[i].fetched)]
           stated(i) == ToSet(calls[i].reported) \ {None}
           doubts == {G!CallDoubt(totals[i]) : i \in DOMAIN totals}
           told == G!FetchCoverage(totals)
<1>1. DOMAIN totals = DOMAIN calls /\ (totals = <<>> <=> calls = <<>>)
  OBVIOUS
<1>2. \A i \in DOMAIN calls : LET d == G!CallDoubt(totals[i])
                              IN  /\ d \in {"none", "partial", "unknown"}
                                  /\ d = "none" <=> stated(i) = {calls[i].fetched}
                                  /\ d = "partial" => \A n \in stated(i) : calls[i].fetched < n
  <2> SUFFICES ASSUME NEW i \in DOMAIN calls, NEW d, d = G!CallDoubt(totals[i])
               PROVE  /\ d \in {"none", "partial", "unknown"}
                      /\ d = "none" <=> stated(i) = {calls[i].fetched}
                      /\ d = "partial" => \A n \in stated(i) : calls[i].fetched < n
    BY Zenon
  <2> DEFINE reports == Seq(Int \cup {None})
  <2>1. calls[i].reported \in reports /\ calls[i].fetched \in Int
    <3> DEFINE records == [reported : reports, fetched : Int]
    <3>1. calls \in Seq(records)
      OBVIOUS
    <3>2. calls[i] \in records
      <4> HIDE DEF records
      <4> QED
        BY <3>1
    <3> HIDE DEF reports
    <3> QED
      BY <3>2
  <2>2. totals[i] = G!CallTotal(calls[i].reported, calls[i].fetched)
    OBVIOUS
  <2>3. d = G!CallDoubt(G!CallTotal(calls[i].reported, calls[i].fetched))
    BY <2>2
  <2> DEFINE reported == calls[i].reported
             fetched == calls[i].fetched
             said == stated(i)
  <2>4. /\ said = ToSet(reported) \ {None} /\ reported \in Seq(Int \cup {None}) /\ fetched \in Int
        /\ d = G!CallDoubt(G!CallTotal(reported, fetched))
    BY <2>1, <2>3
  <2> HIDE DEF reported, fetched, said, stated, totals
  <2>5. /\ d \in {"none", "partial", "unknown"}
        /\ d = "none" <=> said = {fetched}
        /\ d = "partial" => \A n \in said : fetched < n
    BY <2>4, CallDoubted
  <2> QED
    BY <2>5 DEF reported, fetched, said
<1>3. told = IF calls = <<>> THEN "unknown" ELSE IF "partial" \in doubts THEN "partial"
             ELSE IF "unknown" \in doubts THEN "unknown" ELSE "complete"
  BY <1>1 DEF G!FetchCoverage
<1> HIDE DEF totals, stated, told
<1>4. (told = "complete") = (calls # <<>> /\ \A i \in DOMAIN calls : stated(i) = {calls[i].fetched})
  BY <1>1, <1>2, <1>3
<1>5. told = "partial" => \E i \in DOMAIN calls : \A n \in stated(i) : calls[i].fetched < n
  BY <1>1, <1>2, <1>3
<1> QED
  BY <1>4, <1>5 DEF CoverageTold, totals, stated, told

-----------------------------------------------------------------------------
(* Joins *)
-----------------------------------------------------------------------------

\* A composition that is accepted passed every check.
LEMMA ComposeAccepts ==
    ASSUME NEW checks, DOMAIN checks \in SUBSET Nat, G!FirstRefusal(checks) = "ok",
           \A i \in DOMAIN checks : checks[i][2] # "ok"
    PROVE  \A i \in DOMAIN checks : ~checks[i][1]
<1> DEFINE failed == {i \in DOMAIN checks : checks[i][1]}
<1>1. CASE failed = {}
  BY <1>1
<1>2. CASE failed # {}
  <2>1. \E m \in failed : \A k \in failed : m <= k
    BY <1>2, HasMinimum
  <2>2. G!Min(failed) \in failed
    BY <2>1 DEF G!Min
  <2>3. G!FirstRefusal(checks) = checks[G!Min(failed)][2]
    BY <1>2 DEF G!FirstRefusal
  <2> QED
    BY <2>2, <2>3
<1> QED
  BY <1>1, <1>2

\* A finite set whose cardinality does not exceed one has at most one element.
LEMMA AtMostOne ==
    ASSUME NEW rows, IsFiniteSet(rows), ~(Cardinality(rows) > 1)
    PROVE  \A i, j \in rows : i = j
<1>1. Cardinality(rows) \in Nat
  BY FS_CardinalityType
<1>2. Cardinality(rows) = 0 \/ Cardinality(rows) = 1
  BY <1>1
<1>3. rows = {} \/ \E x : rows = {x}
  BY <1>2, FS_EmptySet, FS_Singleton
<1> QED
  BY <1>3

\* An accepted join pairs exactly the rows whose keys are equal and not null; a left
\* join loses no row of the left table; the declared cardinality and on_duplicate_key =
\* "fail" bound how often a row is repeated. For tables of any size and keys of any number
\* and value (stages/gold/compose.py).
THEOREM JoinExact ==
    ASSUME NEW l, NEW r, NEW join,
           G!Rows(l) \subseteq Nat \ {0}, IsFiniteSet(G!Rows(l)),
           G!Rows(r) \subseteq Nat \ {0}, IsFiniteSet(G!Rows(r)),
           G!Compose(l, r, join).code = "ok"
    PROVE  LET ks == [n \in DOMAIN join.keys |-> join.keys[n][1]]
               kt == [n \in DOMAIN join.keys |-> join.keys[n][2]]
               c == G!Compose(l, r, join)
               met == {p \in c.pairs : p[2] # 0}
               leftOnce(p) == \A q \in met : q[1] = p[1] => q = p
               rightOnce(p) == \A q \in met : q[2] = p[2] => q = p
           IN  /\ met = {p \in G!Rows(l) \X G!Rows(r) :
                           G!KeyAt(l, ks, p[1]) # None /\ G!KeyAt(l, ks, p[1]) = G!KeyAt(r, kt, p[2])}
               /\ join.type = "left" => {p[1] : p \in c.pairs} = G!Rows(l)
               /\ join.cardinality \in {"many_to_one", "one_to_one"} => \A p \in met : leftOnce(p)
               /\ join.cardinality \in {"one_to_many", "one_to_one"} => \A p \in met : rightOnce(p)
               /\ join.on_duplicate_key = "fail" => \A p \in met : leftOnce(p) \/ rightOnce(p)
<1> DEFINE ks == [n \in DOMAIN join.keys |-> join.keys[n][1]]
           kt == [n \in DOMAIN join.keys |-> join.keys[n][2]]
           c == G!Compose(l, r, join)
           met == {p \in c.pairs : p[2] # 0}
           leftOnce(p) == \A q \in met : q[1] = p[1] => q = p
           rightOnce(p) == \A q \in met : q[2] = p[2] => q = p
           lk(i) == G!KeyAt(l, ks, i)
           rk(j) == G!KeyAt(r, kt, j)
           L == G!Rows(l)
           R == G!Rows(r)
           lrows(k) == {i \in L : lk(i) = k}
           rrows(k) == {j \in R : rk(j) = k}
           matching == ({lk(i) : i \in L} \cap {rk(j) : j \in R}) \ {None}
           observed == G!Cardinalities(l, r, ks, kt, matching)
           amplifying == {k \in matching : G!Cardinality(lrows(k)) > 1 /\ G!Cardinality(rrows(k)) > 1}
           pairs == UNION {lrows(k) \X rrows(k) : k \in matching}
           alone == {i \in L : lk(i) \notin matching}
           checks == <<<<join.on_null_key = "fail" /\ lrows(None) \cup rrows(None) # {}, "null_key">>,
                       <<join.cardinality # None /\ observed \notin G!AllowedObserved[join.cardinality], "cardinality">>,
                       <<join.on_duplicate_key = "fail" /\ amplifying # {}, "duplicate_key">>,
                       <<G!OutputColumns(l, r, join).clash, "column_clash">>>>
<1>1. /\ G!FirstRefusal(checks) = "ok"
      /\ c.pairs = pairs \cup IF join.type = "left" THEN alone \X {0} ELSE {}
  BY DEF G!Compose, G!RowsWith
<1>2. /\ join.cardinality # None => observed \in G!AllowedObserved[join.cardinality]
      /\ join.on_duplicate_key = "fail" => amplifying = {}
  <2>1. DOMAIN checks = 1..4
    OBVIOUS
  <2>2. /\ checks[1][2] = "null_key" /\ checks[2][2] = "cardinality"
        /\ checks[3][2] = "duplicate_key" /\ checks[4][2] = "column_clash"
    OBVIOUS
  <2>3. /\ checks[2][1] = (join.cardinality # None /\ observed \notin G!AllowedObserved[join.cardinality])
        /\ checks[3][1] = (join.on_duplicate_key = "fail" /\ amplifying # {})
    OBVIOUS
  <2> HIDE DEF checks
  <2>4. ~checks[2][1] /\ ~checks[3][1]
    <3>1. \A i \in DOMAIN checks : checks[i][2] # "ok"
      BY <2>1, <2>2
    <3>2. \A i \in DOMAIN checks : ~checks[i][1]
      BY <1>1, <2>1, <3>1, ComposeAccepts
    <3> QED
      BY <3>2, <2>1
  <2> QED
    BY <2>3, <2>4
<1>3. met = {p \in L \X R : lk(p[1]) # None /\ lk(p[1]) = rk(p[2])}
  <2>1. ASSUME NEW p \in met PROVE p \in L \X R /\ lk(p[1]) # None /\ lk(p[1]) = rk(p[2])
    <3>1. p \in pairs
      BY <1>1
    <3>2. PICK k \in matching : p \in lrows(k) \X rrows(k)
      BY <3>1
    <3> QED
      BY <3>2
  <2>2. ASSUME NEW p \in L \X R, lk(p[1]) # None, lk(p[1]) = rk(p[2]) PROVE p \in met
    <3>1. lk(p[1]) \in matching /\ p \in lrows(lk(p[1])) \X rrows(lk(p[1]))
      BY <2>2
    <3>2. p \in pairs
      BY <3>1
    <3> QED
      BY <3>2, <1>1
  <2> QED
    BY <2>1, <2>2
<1>4. join.type = "left" => {p[1] : p \in c.pairs} = L
  <2> SUFFICES ASSUME join.type = "left" PROVE {p[1] : p \in c.pairs} = L
    OBVIOUS
  <2>1. c.pairs = pairs \cup (alone \X {0})
    BY <1>1
  <2>2. ASSUME NEW p \in c.pairs PROVE p[1] \in L
    <3>1. CASE p \in pairs
      <4>1. PICK k \in matching : p \in lrows(k) \X rrows(k)
        BY <3>1
      <4> QED
        BY <4>1
    <3>2. CASE p \in alone \X {0}
      BY <3>2
    <3> QED
      BY <2>1, <3>1, <3>2
  <2>3. ASSUME NEW i \in L PROVE \E p \in c.pairs : p[1] = i
    <3>1. CASE lk(i) \in matching
      <4>1. PICK j \in R : rk(j) = lk(i)
        BY <3>1
      <4>2. <<i, j>> \in lrows(lk(i)) \X rrows(lk(i))
        BY <4>1
      <4>3. <<i, j>> \in pairs
        <5> HIDE DEF lrows, rrows, matching, lk
        <5> QED
          BY <3>1, <4>2
      <4>4. <<i, j>> \in c.pairs
        BY <2>1, <4>3
      <4> QED
        BY <4>4
    <3>2. CASE lk(i) \notin matching
      <4>1. <<i, 0>> \in c.pairs
        BY <2>1, <3>2
      <4> QED
        BY <4>1
    <3> QED
      BY <3>1, <3>2
  <2> QED
    BY <2>2, <2>3
<1>5. \A p \in met : /\ p = <<p[1], p[2]>> /\ lk(p[1]) \in matching
                    /\ p[1] \in lrows(lk(p[1])) /\ p[2] \in rrows(lk(p[1])) /\ lk(p[1]) = rk(p[2])
  BY <1>3
<1>6. \A k : /\ IsFiniteSet(lrows(k)) /\ IsFiniteSet(rrows(k))
            /\ G!Cardinality(lrows(k)) = Cardinality(lrows(k))
            /\ G!Cardinality(rrows(k)) = Cardinality(rrows(k))
  <2>1. \A rows : G!Cardinality(rows) = Cardinality(rows)
    BY DEF G!Cardinality, Cardinality
  <2>2. \A k : lrows(k) \in SUBSET L /\ rrows(k) \in SUBSET R
    OBVIOUS
  <2> HIDE DEF lrows, rrows, L, R
  <2> QED
    BY <2>1, <2>2, FS_Subset DEF L, R
<1>7. observed = G!Observed(\E k \in matching : G!Cardinality(lrows(k)) > 1,
                            \E k \in matching : G!Cardinality(rrows(k)) > 1)
  BY DEF G!Cardinalities, G!RowsWith
<1>8. ASSUME NEW k \in matching, ~(Cardinality(rrows(k)) > 1), NEW p \in met, NEW q \in met,
             lk(p[1]) = k, q[1] = p[1]
      PROVE  q = p
  <2> HIDE DEF lk, rk, lrows, rrows, met, matching
  <2>1. \A i, j \in rrows(k) : i = j
    BY <1>6, <1>8, AtMostOne
  <2> QED
    BY <2>1, <1>5, <1>8
<1>9. ASSUME NEW k \in matching, ~(Cardinality(lrows(k)) > 1), NEW p \in met, NEW q \in met,
             lk(p[1]) = k, q[2] = p[2]
      PROVE  q = p
  <2> HIDE DEF lk, rk, lrows, rrows, met, matching
  <2>1. \A i, j \in lrows(k) : i = j
    BY <1>6, <1>9, AtMostOne
  <2>2. lk(q[1]) = k
    BY <1>5, <1>9
  <2> QED
    BY <2>1, <2>2, <1>5, <1>9
<1> HIDE DEF lk, rk, lrows, rrows, met, matching, amplifying, observed
<1>10. ASSUME join.cardinality \in {"many_to_one", "one_to_one"}, NEW p \in met PROVE leftOnce(p)
  <2>1. observed \in {"one_to_one", "many_to_one"}
    BY <1>2, <1>10, NoneApart DEF G!AllowedObserved
  <2>2. \A k \in matching : ~(Cardinality(rrows(k)) > 1)
    BY <2>1, <1>6, <1>7 DEF G!Observed
  <2> QED
    BY <2>2, <1>5, <1>8
<1>11. ASSUME join.cardinality \in {"one_to_many", "one_to_one"}, NEW p \in met PROVE rightOnce(p)
  <2>1. observed \in {"one_to_one", "one_to_many"}
    BY <1>2, <1>11, NoneApart DEF G!AllowedObserved
  <2>2. \A k \in matching : ~(Cardinality(lrows(k)) > 1)
    BY <2>1, <1>6, <1>7 DEF G!Observed
  <2> QED
    BY <2>2, <1>5, <1>9
<1>12. ASSUME join.on_duplicate_key = "fail", NEW p \in met PROVE leftOnce(p) \/ rightOnce(p)
  <2>1. ~(Cardinality(lrows(lk(p[1]))) > 1) \/ ~(Cardinality(rrows(lk(p[1]))) > 1)
    BY <1>2, <1>5, <1>6, <1>12 DEF amplifying
  <2> QED
    BY <2>1, <1>5, <1>8, <1>9
<1> QED
  BY <1>3, <1>4, <1>10, <1>11, <1>12 DEF lk, rk, met
====
