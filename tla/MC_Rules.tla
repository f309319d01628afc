----------------------------- MODULE MC_Rules -----------------------------
(***************************************************************************)
(* The pure rules of the pipeline and of the reads, each over all inputs   *)
(* of a small size: the first state picks a rule and an input, one step    *)
(* evaluates it, and the invariants compare the result with what the rule  *)
(* promises.                                                               *)
(***************************************************************************)
EXTENDS RuleBase

CONSTANTS MaxRows,      \* rows of a table
          Missing       \* a field that a document leaves out

\* None is no verdict on terms and no declared cardinality of a join.
ASSUME NoneApart ==
    None \notin {"forbidden", "unknown", "non_commercial", "allowed",
                 "one_to_one", "one_to_many", "many_to_one", "many_to_many"}

Q == INSTANCE QueryRules

S == INSTANCE SpecRules

T == INSTANCE SilverRules

G == INSTANCE GoldRules

D == INSTANCE DatasetRules

V == INSTANCE VerifyRules

\* sorted() order of the names used.
Letters == <<"P", "d", "p", "q", "r", "service_key", "test", "train", "val">>

VARIABLES kind, arg, done

vars == <<kind, arg, done>>

----------------------------------------------------------------------------
(* Inputs of the reads.                                                    *)

Tables(rows) == UNION {[1..n -> rows] : n \in 0..MaxRows}

Given(x) == [given |-> TRUE, val |-> x]

Operands == {[given |-> FALSE, val |-> 0]} \cup {Given(x) : x \in 0..2}

OperandSets == {[given |-> FALSE, val |-> {}]} \cup {Given(s) : s \in SUBSET (0..2)}

Filters == [column : {"v"}, op : {"eq", "ne", "lt", "gte", "in", "is_null", "is_not_null"},
            value : Operands, values : OperandSets]

Where == {{}, {[column |-> "v", op |-> "ne", value |-> Given(1), values |-> [given |-> FALSE, val |-> {}]]}}

Sorts == {<<>>, <<[column |-> "k", desc |-> TRUE]>>,
          <<[column |-> "v", desc |-> FALSE], [column |-> "k", desc |-> TRUE]>>}

RowsInputs ==
    [table : Tables([k : 0..2, u : {1}, v : 0..1]),
     plan : [offset : {0}, size : 1..2, sort : Sorts, filters : Where, count : BOOLEAN]]

ColumnTypes == [k |-> "text", u |-> "text", v |-> "number"]

Count == [fn |-> "count_rows", column |-> "", additive |-> "absent", alias |-> "n"]

Measures == {Count, [fn |-> "sum", column |-> "v", additive |-> "yes", alias |-> "s"],
             [fn |-> "sum", column |-> "v", additive |-> "absent", alias |-> "s"],
             [fn |-> "sum", column |-> "u", additive |-> "yes", alias |-> "s"],
             [fn |-> "count_null", column |-> "v", additive |-> "absent", alias |-> "k"]}

AggregateInputs ==
    [table : Tables([k : 0..1, u : 0..1, v : 0..1]),
     plan : [group : {{}, {"k"}}, unit : BOOLEAN, policy : {"reject", "split"}, filters : {{}},
             measures : {{Count, m} : m \in Measures}, order : {"", "k", "n", "u"}, limit : {1, 2}]]

ProfileInputs ==
    [column : [wraps : {<<>>, <<"List">>, <<"List", "Struct">>},
               leaves : (SUBSET {"text", "number", "date", "other"}) \ {{}},
               pii : BOOLEAN, name : BOOLEAN],
     allowed : BOOLEAN, finite : 0..3]

Relations == SUBSET {"dataset", "a", "b", "other", "tablefunction"}

SqlScopes == [relations : {r \in Relations : Cardinality(r) <= 2}, samples : {FALSE},
              calls : {{}, {"nondeterministic"}}]

SqlInputs ==
    [kind : {"select", "insert"}, recursive : {FALSE}, main : SqlScopes,
     ctes : {<<>>} \cup {<<[name |-> "a", body |-> s]>> : s \in SqlScopes}
              \cup {<<[name |-> "a", body |-> s], [name |-> "b", body |-> t]>> :
                       s \in {s \in SqlScopes : s.calls = {}}, t \in {s \in SqlScopes : s.calls = {}}}]

ContextInputs ==
    [stage : {"silver", "bronze"}, manifest : BOOLEAN, owned : BOOLEAN, dataset : {"d", "e"},
     asked : {"d"}, source : {"", "s", "t"}, sources : SUBSET {"s", "r"}, completed : BOOLEAN,
     file : {"file", "link"}]

----------------------------------------------------------------------------
(* Inputs of the reads of runs: worlds of two runs at time 100, seen by a  *)
(* signed-in user or without one.                                          *)

Me == [kind |-> "oidc", owner |-> "me", label |-> "me"]

\* A user from before stable ids.
OldMe == [kind |-> "oidc", owner |-> None, label |-> "me"]

\* Whose a run is: mine, another's, mine from before stable ids.
Owned(x, who) == [x EXCEPT !.by = IF who = "other" THEN "other" ELSE "me",
                           !.owner = IF who = "old" THEN None ELSE who]

BaseManifest ==
    [status |-> "ok", errors |-> FALSE, started |-> 60, finished |-> 99, by |-> "me", owner |-> "me",
     inputs |-> {1}, results |-> None, drift |-> <<>>, rows |-> 1, partial |-> FALSE, fetchedPart |-> FALSE]

BaseDir == [manifest |-> None, dataset |-> 1, parses |-> TRUE, cadence |-> 10, mtime |-> 99]

StatedManifests ==
    {Owned([BaseManifest EXCEPT !.status = s, !.errors = (s = "failed"), !.finished = f], o) :
        s \in {None, "ok", "failed"}, f \in {None, 80}, o \in {"me", "other", "old"}}
      \cup {[BaseManifest EXCEPT !.partial = TRUE], [BaseManifest EXCEPT !.fetchedPart = TRUE]}

RunDirs ==
    {[BaseDir EXCEPT !.manifest = m, !.dataset = dp[1], !.parses = dp[2]] :
        m \in StatedManifests \cup {None}, dp \in {<<None, FALSE>>, <<1, TRUE>>, <<1, FALSE>>, <<2, TRUE>>}}

\* The index entry of a run as its end wrote it.
Entry(r, dir) ==
    [run |-> r, dataset |-> dir.dataset, digest |-> "digest", status |-> IF dir.manifest.status = None THEN "cancelled" ELSE dir.manifest.status,
     started |-> dir.manifest.started, finished |-> dir.manifest.finished, by |-> dir.manifest.by, owner |-> dir.manifest.owner]

\* Indexes of a disk: failing, empty, complete, one behind, with a wrong status, and with
\* a run that is gone.
IndexStates == {"fails", "empty", "complete", "behind", "wrong", "gone"}

IndexOf(disk, state) ==
    LET finished == {r \in DOMAIN disk : disk[r].manifest # None}
        all == [r \in finished |-> Entry(r, disk[r])]
    IN  CASE state = "fails" -> Wrong
          [] state = "empty" -> <<>>
          [] state = "complete" -> all
          [] state = "behind" -> [r \in finished \ {1} |-> all[r]]
          [] state = "wrong" -> [r \in finished |-> [all[r] EXCEPT !.status = "cancelled", !.finished = 70]]
          [] state = "gone" ->
               (3 :> [Entry(3, [BaseDir EXCEPT !.manifest = BaseManifest]) EXCEPT !.finished = 100]) @@ all

World(a) ==
    LET disk == <<a.one, a.two, BaseDir>>
    IN  [disk |-> disk, index |-> IndexOf(disk, a.index), tables |-> <<{}, {7}, {}>>,
         jobs |-> {[dataset |-> 1, status |-> "queued", by |-> "me", owner |-> "me"],
                   [dataset |-> 1, status |-> "running", by |-> "other", owner |-> "other"]}]

DatasetInputs ==
    [one : {x \in RunDirs : x.manifest # None /\ x.manifest.finished # None /\ x.dataset = 1}, two : RunDirs,
     index : IndexStates, p : {Me, None}]

RecentDirs ==
    {[BaseDir EXCEPT !.mtime = IF late THEN 100 ELSE Max({0, D!Moment(f), D!Moment(s)}),
                     !.manifest = Owned([BaseManifest EXCEPT !.finished = f, !.started = s, !.results = q], o)] :
        late \in BOOLEAN, f \in {None, 49, 52, 53, 100}, s \in {None, 51}, o \in {"me", "other"},
        q \in {None, <<>>, <<<<[status |-> "pass"]>>>>, <<<<[status |-> "warn"], [status |-> "fail"]>>>>}}

\* A user from before stable ids sees runs by their label only.
RecentInputs ==
    LET ones == {x \in RecentDirs : x.manifest.results # <<>> /\ x.manifest.owner = "me"}
        twos == {x \in RecentDirs : x.manifest.started # None /\ x.manifest.results # None}
    IN  [one : ones, two : twos, index : IndexStates, p : {Me}]
          \cup [one : {x \in ones : x.manifest.results = None}, two : twos, index : IndexStates, p : {OldMe}]

Finding(s, c, r) == [status |-> s, category |-> c, rule |-> r]

IssueDirs ==
    {[BaseDir EXCEPT !.dataset = d, !.manifest = Owned([BaseManifest EXCEPT !.results = q, !.drift = f, !.inputs = i], o)] :
        d \in {1, 2}, o \in {"me", "other"}, i \in {{}, {1}, {1, 2}}, f \in {<<>>, 2 :> <<Finding("drift", 0, 1)>>},
        q \in {None, <<>>, 1 :> <<Finding("pass", 1, 1)>>, 1 :> <<Finding("warn", 2, 1), Finding("fail", 1, 1), Finding("warn", 1, 1)>>,
                (1 :> <<Finding("fail", 1, 2)>>) @@ (2 :> <<Finding("fail", 1, 1), Finding("fail", 1, 1)>>)}}

IssueInputs ==
    [one : {x \in IssueDirs : x.dataset = 1 /\ x.manifest.owner = "me" /\ x.manifest.inputs # {}}, two : IssueDirs, index : {"fails"}, statuses : {{"fail", "warn", "drift"}, {"warn"}}, category : {None, 1}, limit : 1..2]

Raised ==
    [class : {"none", "RateLimitError", "TransportError"}, words : {"other"}, code : {0}]
      \cup [class : {"AuthError"}, words : {"application", "approval", "other"}, code : {401, 403}]

Fine == [head |-> 200, fetch |-> [class |-> "none", words |-> "other", code |-> 0],
         payload |-> [class |-> "none", words |-> "other", code |-> 0], parses |-> TRUE, paged |-> TRUE,
         total |-> None, items |-> <<>>, previous |-> None]

Items == UNION {[{"f"} -> {"null", "string", "integer"}], [{"f", "g"} -> {"null", "string"}]}

Probes ==
    {[Fine EXCEPT !.head = h, !.fetch = e, !.payload = p, !.parses = ok] :
        h \in {200, 0, 401, 404, 405, 500}, e \in Raised, p \in Raised, ok \in BOOLEAN}

VerifyInputs ==
    [first : {Fine}, second : Probes]
      \cup {[first |-> [Fine EXCEPT !.items = before],
              second |-> [Fine EXCEPT !.items = after, !.paged = paged, !.total = total]] :
              before \in UNION {[1..n -> Items] : n \in 0..2}, after \in UNION {[1..n -> Items] : n \in 0..2},
              paged \in BOOLEAN, total \in {None, -1, 1, 2}}

----------------------------------------------------------------------------
(* Inputs of the specification rules.                                      *)

\* Documents: one field after the other is given or left out.
Docs(choices) == {[f \in {f \in DOMAIN r : r[f] # Missing} |-> r[f]] : r \in choices}

Names == {<<"a">>, <<"A">>, <<"a", ".">>, <<"a", ".jsonl">>, <<"a", ".", "b">>}

Endpoint == [https |-> TRUE, user |-> FALSE, host |-> "h", path |-> "p"]

KeySources ==
    {[S!NoSource EXCEPT !.alias = n] : n \in Names \cup {<<"/">>}}
      \cup {[S!NoSource EXCEPT !.provider = n, !.dataset = <<"b">>] : n \in {<<"a">>, <<"A">>, <<".">>}}
      \cup {[S!NoSource EXCEPT !.kind = "file", !.upload_id = <<"u">>, !.format = "csv"],
            [S!NoSource EXCEPT !.kind = "url", !.endpoint = Endpoint]}

Named(s) == IF s.kind = "public_api" /\ s.provider = Empty
            THEN [s EXCEPT !.provider = <<"p">>, !.dataset = <<"d">>] ELSE s

BaseSpec ==
    [f \in DOMAIN S!PlainFields |-> S!PlainFields[f]] @@ [f \in S!Texts |-> <<"t">>]
      @@ [f \in DOMAIN S!Policies |-> None]
      @@ [sources |-> <<[S!NoSource EXCEPT !.provider = <<"p">>, !.dataset = <<"d">>]>>,
          composition |-> None]

Join == [left |-> <<"a">>, right |-> <<"A">>, keys |-> <<<<<<"k">>, <<"k">>>>>>, type |-> "inner",
         on_duplicate_key |-> "warn", cardinality |-> None, on_null_key |-> "warn"]

KeyInputs ==
    {[BaseSpec EXCEPT !.sources = [i \in DOMAIN ss |-> Named(ss[i])]] :
        ss \in UNION {[1..n -> KeySources] : n \in 1..3}}
      \cup {[BaseSpec EXCEPT !.sources = <<Named(s), Named(t)>>,
                             !.composition = [name |-> n, join |-> [Join EXCEPT !.left = s.alias, !.right = r]]] :
              s \in {s \in KeySources : s.alias # Empty}, t \in KeySources,
              n \in Names \cup {<<"x">>}, r \in {<<"a">>, <<"b">>, <<"a", ".", "b">>}}

Grids == {<<>>} \cup [{"q"} -> {<<>>, <<"1">>, <<"1", "2">>}] \cup [{"p", "q"} -> {<<"1">>, <<"1", "2">>}]

Ratios == {<<>>} \cup [{"test", "train"} -> {None, 0, 3, 7}]

Bounds == {None, 1, 2}

RunInputs ==
    {[BaseSpec EXCEPT !.sources[1].params = ps, !.sources[1].param_grid = g] :
        ps \in {<<>>, [p |-> "0"], [q |-> "0"]}, g \in Grids}
      \cup {[BaseSpec EXCEPT !.splits = [S!NoSplit EXCEPT !.mode = m, !.ratios = r, !.key = k]] :
              m \in {"ratio", "key"}, r \in Ratios, k \in {Empty, <<"date">>, <<"k">>}}
      \cup {[BaseSpec EXCEPT !.quality = [S!NoQuality EXCEPT
                !.range = <<[column |-> "v", min |-> a, max |-> b, severity |-> "warn"]>>,
                !.max_null_ratio_severity = v]] : a \in Bounds, b \in Bounds, v \in {<<>>, [v |-> "fail"]}}
      \cup {[BaseSpec EXCEPT !.publish = TRUE, !.pii = [S!NoPii EXCEPT !.mode = m], !.license = l,
                             !.license_name = n] :
              m \in {"block", "allow"}, l \in {None, Empty, "other", "mit"}, n \in {None, Empty, "terms"}}

TokenDocs == Docs([list : {<<"-">>}]) \cup Docs([tokens : {Missing, <<"-">>}, on_absent : {Missing, "ignore", Wrong}])

SchemaDocs ==
    Docs([required : {Missing, <<"v">>}, rename : {Missing, <<>>, [v |-> "w"]}, casts : {Missing, Wrong},
          column_null_tokens : {Missing} \cup {[v |-> d] : d \in TokenDocs},
          derived : {Missing, <<[name |-> "d", kind |-> "join_key", columns |-> <<"v">>]>>}])

FilterDocs == Docs([column : {"v"}, op : {"eq", "in", "not_null"}, value : {Missing, None, <<>>, <<"1">>}])

GoldDocs ==
    Docs([select : {Missing, <<"v">>, <<"v", "v">>}, filters : {Missing} \cup {<<f>> : f \in FilterDocs},
          pii_columns : {Missing, <<>>, <<"v">>}, other : {Missing, <<"v">>}])

SourceDocs ==
    Docs([kind : {Missing, "file", "url", "ftp"}, alias : {Missing, <<"a">>},
          provider : {Missing, <<"p">>, Wrong}, dataset : {Missing, <<"d">>},
          params : {Missing, [p |-> "1", service_key |-> "k"]}, param_grid : {Missing, [q |-> <<"1", "2">>]},
          upload_id : {Missing, <<"u">>}, format : {Missing, Empty, "csv"},
          encoding : {Missing, "cp949", Empty}, endpoint : {Missing, Endpoint}, method : {Missing, "GET"}])

ApiDoc == [provider |-> <<"p">>, dataset |-> <<"d">>]

JoinDocs ==
    Docs([left : {<<"a">>}, right : {<<"b">>}, keys : {Missing, <<>>, Join.keys, Join.keys \o <<<<<<"l">>, <<"m">>>>>>},
          left_key : {Missing, <<"k">>}, right_key : {Missing, <<"k">>}, type : {Missing, "left", Wrong},
          cardinality : {Missing, "one_to_one"}, on_null_key : {Missing, "warn", "fail"}])

BaseDoc == [f \in S!Texts |-> <<"t">>] @@ [sources |-> <<ApiDoc>>]

DocInputs ==
    {[BaseDoc EXCEPT !.sources = <<d>>] : d \in SourceDocs}
      \cup {[BaseDoc EXCEPT !.sources = <<ApiDoc @@ [schema |-> d]>>] : d \in SchemaDocs \cup {Wrong, None}}
      \cup {[BaseDoc EXCEPT !.sources = <<ApiDoc @@ [gold |-> d]>>] : d \in GoldDocs}
      \cup {BaseDoc @@ [composition |-> [name |-> <<"x">>, join |-> d]] : d \in JoinDocs}
      \cup {BaseDoc @@ d : d \in Docs([splits : {Missing, [mode |-> "key", key |-> <<"k">>], [seed |-> 1]},
                pii : {Missing, None, [mode |-> "warn"]}, quality : {Missing, [min_rows |-> 1], Wrong},
                license : {Missing, "other"}, attribution : {Missing, "a"}, refresh_cadence : {Missing, "P1D", Wrong},
                metadata : {Missing, [password |-> "k"], [service_key |-> "k"]}, transforms : {Missing, <<>>}])}

FetchSources ==
    {[S!NoSource EXCEPT !.provider = <<"p">>, !.dataset = <<"d">>, !.params = ps, !.param_grid = g, !.alias = a, !.schema = c] :
        ps \in {<<>>, [p |-> "1"], [p |-> "2"], [service_key |-> "k"], [service_key |-> "l"]},
        g \in Grids \cup {[q |-> <<"2", "1">>]}, a \in {Empty, <<"a">>},
        c \in {None, S!ParsedSchema([casts |-> [p |-> "int"]]), S!ParsedSchema([casts |-> [p |-> "int"], zfill |-> [p |-> 2]])}}

----------------------------------------------------------------------------
(* Inputs of the Silver rules.                                             *)

Nodes == [depth : {0}, leaf : {"null", "str", "int", "unsafe", "huge", "float"}]
           \cup [depth : {1}, leaf : {"null", "int", "huge", "float"}]

ValueLists == UNION {[1..n -> Nodes] : n \in 1..3}

Cells == {None, T!Num(1), T!Txt(<<"1">>), T!Txt(<<"0", "1">>), T!Txt(<<"-">>), T!Txt(<<"1", "-">>)}

RawTables ==
    {<<[name |-> "p", cells |-> a], [name |-> "q", cells |-> b]>> :
        a \in [1..1 -> Cells], b \in [1..1 -> Cells]}
      \cup {<<[name |-> "p", cells |-> a], [name |-> "q", cells |-> b]>> :
        a \in [1..2 -> {None, T!Txt(<<"1">>)}], b \in [1..2 -> {None, T!Num(2), T!Txt(<<"-">>)}]}
      \cup {<<[name |-> "p", cells |-> <<x>>], [name |-> n, cells |-> <<None>>]>> :
        x \in Cells, n \in {"P", "_kpubdata_row_seq"}}

NoSchema == [f \in S!SchemaFields |-> <<>>]

Schemas ==
    {[NoSchema EXCEPT !.coalesce = c, !.rename = n, !.null_tokens = tokens, !.column_null_tokens = own,
                      !.read_as = r, !.zfill = z, !.casts = k, !.derived = d] :
        c \in {<<>>, [p |-> <<"p", "q">>], [r |-> <<"q", "p">>], [p |-> <<"q">>, r |-> <<"p", "q">>]},
        n \in {<<>>, [p |-> "q"], [p |-> "r"], [p |-> "q", q |-> "p"]},
        tokens \in {<<>>, <<<<"-">>>>},
        own \in {<<>>, [q |-> [tokens |-> <<<<"0", "1">>>>, on_absent |-> "error"]]},
        r \in {<<>>, [p |-> "str"]}, z \in {<<>>, [q |-> 2]},
        k \in {<<>>, [p |-> "int"], [q |-> "int_comma"], [q |-> "year_month"]},
        d \in {<<>>, <<[name |-> "r", kind |-> "join_key", columns |-> <<"p", "q">>]>>}}
      \cup {[NoSchema EXCEPT !.derived = <<[name |-> "d", kind |-> "date_parts", columns |-> <<"p", "p", "q">>]>>]}
      \cup {[NoSchema EXCEPT !.rename = n, !.derived = <<[name |-> "r", kind |-> "join_key", columns |-> <<"q">>]>>] :
               n \in {<<>>, [p |-> "r"]}}

Words == UNION {[1..n -> {"a", "|", "\\"}] : n \in 0..2}

JudgedTables ==
    {t \in {<<[name |-> "p", cells |-> a], [name |-> "q", cells |-> b]>> :
                a \in UNION {[1..n -> {None, T!Num(0), T!Num(2), T!Txt(<<"p">>)}] : n \in 0..2},
                b \in UNION {[1..n -> {None, T!Num(1), T!Txt(<<"q">>)}] : n \in 0..2}} :
        Len(t[1].cells) = Len(t[2].cells) /\ T!Load(t, {}).code = "ok"}

QualityPolicies ==
    {[S!NoQuality EXCEPT !.range = <<[column |-> c, min |-> a, max |-> b, severity |-> v]>>] :
        c \in {"p", "r"}, a \in {None, 1}, b \in {None, 1}, v \in {"warn", "fail"}}
      \cup {[S!NoQuality EXCEPT !.compare_columns = <<[left |-> "p", right |-> c, op |-> o, severity |-> v]>>] :
        c \in {"q", "r"}, o \in {"eq", "lte"}, v \in {"warn", "fail"}}
      \cup {[S!NoQuality EXCEPT !.max_null_ratio = [p |-> n], !.max_duplicate_rate = n, !.min_rows = 1,
                                !.max_null_ratio_severity = v, !.min_rows_severity = "fail"] :
        n \in {0, 50}, v \in {<<>>, [p |-> "fail"]}}

OneRun(id) ==
    [id : {id}, dataset : {"d"}, ok : BOOLEAN, owner : {"o", "w", None}, finished : {1, 2},
     coverage : {"c", "x", None}, contract : {"k", "l"}, readable : BOOLEAN, columns : {[p |-> "Int64"]},
     rows : {2}]

Now == [id |-> 3, dataset |-> "d", ok |-> TRUE, owner |-> "o", finished |-> 3, coverage |-> "c",
        contract |-> "k", readable |-> TRUE, columns |-> [p |-> "Int64"], rows |-> 2]

DriftInputs ==
    {[runs |-> {a, b}, now |-> Now] : a \in OneRun(1), b \in OneRun(2)}
      \cup {[runs |-> {[Now EXCEPT !.id = 1, !.finished = 1, !.columns = c, !.rows = n, !.contract = k]},
              now |-> [Now EXCEPT !.rows = m]] :
        c \in {[p |-> "Int64"], [p |-> "String"], [p |-> "Int64", q |-> "Int64"]}, n \in 0..4, m \in 0..4,
        k \in {"k", "l"}}

----------------------------------------------------------------------------
(* Inputs of the Gold rules.                                               *)

\* A column of one type as it is after loading.
Col(name, dtype, cells) == [name |-> name, dtype |-> dtype, cells |-> cells]

Numbers == {None, T!Num(1), T!Num(2)}

KeyCells == UNION {[1..n -> Numbers] : n \in 0..MaxRows}

Operand == Numbers \cup {T!Txt(<<"p">>)}

SelectInputs ==
    {[table |-> <<Col("p", d, c)>>, value |-> v] :
        d \in {"Int64"}, c \in KeyCells, v \in Operand}
      \cup {[table |-> <<Col("p", "Null", <<None, None>>)>>, value |-> v] : v \in Operand}

GoldChoices ==
    [select : {<<>>, <<"p">>}, filters : {<<>>, <<[column |-> "p", op |-> "not_null", value |-> None]>>},
     pii_columns : {<<>>, <<"p">>, <<"r">>}, publish_unmasked : {<<>>, <<"p">>}]

MaskInputs ==
    [raw : {<<[name |-> "p", cells |-> <<x>>], [name |-> "q", cells |-> <<y>>]>> :
               x \in {None, T!Txt(<<"@">>), T!Num(1)}, y \in {None, T!Txt(<<"@">>)}},
     schema : {[NoSchema EXCEPT !.coalesce = c, !.rename = n, !.casts = k, !.derived = d] :
                  c \in {<<>>, [r |-> <<"p", "q">>], [p |-> <<"p", "q">>]},
                  n \in {<<>>, [p |-> "r"], [p |-> "q", q |-> "p"]}, k \in {<<>>, [p |-> "str"]},
                  d \in {<<>>, <<[name |-> "d", kind |-> "join_key", columns |-> <<"p">>]>>}},
     gold : GoldChoices, core : {{}, {"p"}, {"q"}, None},
     policy : {None, [S!NoPii EXCEPT !.allow_columns = <<"q">>], [mode |-> "warn", allow_columns |-> <<>>]}]

Permuted(n) == {f \in [1..n -> 1..n] : IsInjective(f)}

SplitInputs ==
    {[order |-> o, ratios |-> r, cells |-> <<>>] :
        o \in UNION {Permuted(n) : n \in 0..4},
        r \in [{"test", "train"} -> 1..3] \cup [{"test", "train", "val"} -> 1..3]}
      \cup {[order |-> <<>>, ratios |-> <<>>, cells |-> c] :
        c \in UNION {[1..n -> Numbers] \cup [1..n -> {None, T!Txt(<<"a">>), T!Txt(<<"__null__">>)}] : n \in 1..3}}

Joins == {[Join EXCEPT !.keys = <<<<"k", "k">>>>, !.type = t, !.cardinality = c, !.on_null_key = n,
                       !.on_duplicate_key = d] :
             t \in {"inner", "left"}, c \in {None} \cup DOMAIN G!AllowedObserved, n \in {"warn", "fail"},
             d \in {"warn", "fail"}}

RightNames == {<<>>, <<"a">>, <<"a", "a_r">>, <<"a_r", "a">>}

ComposeInputs ==
    {[l |-> <<Col("k", "Int64", a), Col("a", "Int64", a)>>, r |-> <<Col("k", "Int64", b)>>, join |-> j] :
        a \in KeyCells, b \in UNION {[1..n -> Numbers] : n \in 0..2}, j \in Joins}
      \cup {[l |-> <<Col("k", "Int64", <<T!Num(1)>>), Col("a", "Int64", <<None>>)>>,
              r |-> <<Col(k, d, <<T!Num(1)>>)>> \o [n \in DOMAIN ns |-> Col(ns[n], "Int64", <<None>>)],
              join |-> CHOOSE j \in Joins : j.cardinality = None] :
        k \in {"k", "m"}, d \in {"Int64", "String"}, ns \in RightNames}

FetchedCalls ==
    UNION {[1..n -> [reported : UNION {[1..m -> {None, 0, 1, 2}] : m \in 0..2}, fetched : 0..2]] : n \in 0..2}

SourceTerms == [kind : {"public_api", "file"}, terms : {None, "allowed", "non_commercial", "unknown", "forbidden"}]

TermsInputs ==
    [sources : {None} \cup UNION {[1..n -> SourceTerms] : n \in 1..2}, target : {"huggingface", "kaggle", "local"},
     options : {<<>>, [private |-> "false"], [public |-> "true"]}, confirmed : BOOLEAN, marked : BOOLEAN,
     visibility : {"private", "public", "absent", None}]

Variables == {"HF_TOKEN", "KAGGLE_USERNAME", "KAGGLE_KEY"}

Held(tag) == {[v \in vs |-> tag] : vs \in SUBSET Variables}

CredentialInputs ==
    [target : DOMAIN G!Slots, multiUser : BOOLEAN, stored : Held("stored") \cup {None}, server : Held("server"),
     ownOnly : BOOLEAN,
     headers : {<<<<"OTHER", "request">>>>} \cup UNION {[1..n -> Variables \X {"request", Empty}] : n \in 0..2}]

Secrets == {<<"a">>, <<"a", "/">>, <<"b", " ", "/", "a">>}

ScrubInputs ==
    [secrets : {{<<>>}} \cup SUBSET Secrets, secret : Secrets, before : {<<>>, <<"x">>}, after : {<<>>, <<"x">>},
     form : 1..3]

----------------------------------------------------------------------------
Topics ==
    {"filter", "rows", "aggregate", "profile", "sql", "context", "datasets",
     "recent", "issues", "verify", "keys", "accepted", "document", "coverage",
     "load", "silver", "joinkey", "quality", "drift", "select", "mask", "split",
     "compose", "hashes", "lines", "inputs", "calls", "terms", "credentials",
     "scrub"}

Init == done = FALSE /\ kind \in Topics /\ arg = None

\* One step from a topic to one of its inputs, where its promise is evaluated.
Evaluate ==
    /\ ~done /\ done' = TRUE /\ UNCHANGED kind
    /\ \/ kind = "filter" /\ arg' \in Filters
       \/ kind = "rows" /\ arg' \in RowsInputs
       \/ kind = "aggregate" /\ arg' \in AggregateInputs
       \/ kind = "profile" /\ arg' \in ProfileInputs
       \/ kind = "sql" /\ arg' \in SqlInputs
       \/ kind = "context" /\ arg' \in ContextInputs
       \/ kind = "datasets" /\ arg' \in DatasetInputs
       \/ kind = "recent" /\ arg' \in RecentInputs
       \/ kind = "issues" /\ arg' \in IssueInputs
       \/ kind = "verify" /\ arg' \in VerifyInputs
       \/ kind = "keys" /\ arg' \in KeyInputs
       \/ kind = "accepted" /\ arg' \in RunInputs
       \/ kind = "document" /\ arg' \in DocInputs
       \/ kind = "coverage" /\ arg' \in FetchSources \X FetchSources
       \/ kind = "load" /\ arg' \in ValueLists
       \/ kind = "silver" /\ arg' \in [raw : RawTables, schema : Schemas]
       \/ kind = "joinkey" /\ arg' \in (Words \X Words) \X (Words \X Words)
       \/ kind = "quality" /\ arg' \in [raw : JudgedTables, policy : QualityPolicies]
       \/ kind = "drift" /\ arg' \in DriftInputs
       \/ kind = "select" /\ arg' \in SelectInputs
       \/ kind = "mask" /\ arg' \in MaskInputs
       \/ kind = "split" /\ arg' \in SplitInputs
       \/ kind = "compose" /\ arg' \in ComposeInputs
       \/ kind = "hashes" /\ arg' \in UNION {[1..n -> 0..15] : n \in 0..3}
       \/ kind = "lines" /\ arg' \in [lines : UNION {[1..n -> 0..2] : n \in 0..4}, limit : 1..4]
       \/ kind = "inputs" /\ arg' \in [1..2 -> [id : 1..2, algorithm : {"lines", "product"}, checksum : 1..2]]
       \/ kind = "calls" /\ arg' \in FetchedCalls
       \/ kind = "terms" /\ arg' \in TermsInputs
       \/ kind = "credentials" /\ arg' \in CredentialInputs
       \/ kind = "scrub" /\ arg' \in ScrubInputs

Next == Evaluate

Spec == Init /\ [][Next]_vars

Is(k) == done /\ kind = k

----------------------------------------------------------------------------
(* What the reads promise.                                                 *)

\* A condition that is accepted means the same in DuckDB, where pages and aggregates are
\* computed, and as the Polars expression (query/rows.py, _sql_predicate, filter_predicate).
SameAnswer(f, x) == Q!FilterParses(f) => Q!SqlAnswer(f, x) = Q!PolarsAnswer(f, x)

PredicatesAgree == Is("filter") => \A x \in 0..2 : SameAnswer(arg, x)

\* The pages a client gets by following next_offset from 0.
Walk(table, plan) ==
    LET steps == 0..Len(table)
        at[n \in steps] ==
            IF n = 0 THEN 0
            ELSE IF at[n - 1] = -1 THEN -1
            ELSE LET p == [plan EXCEPT !.offset = at[n - 1]] IN Q!NextOffset(Q!ReadPage(table, p), p)
        used == {n \in steps : at[n] # -1}
    IN  FoldLeftDomain(LAMBDA acc, n : acc \o (IF n - 1 \in used
                          THEN Q!ReadPage(table, [plan EXCEPT !.offset = at[n - 1]]).rows ELSE <<>>),
                       <<>>, [n \in 1..Len(table) + 1 |-> 0])

\* Following next_offset from 0 visits every matching row exactly once, in the asked
\* order with ties in the file's order, and the count, when there is one, is the number of
\* rows visited (query/rows.py, read_page; service/warehouse_api.py, rows).
PagesTile ==
    Is("rows") => \A walk \in {Walk(arg.table, arg.plan)} :
        LET t == arg.table
            p == arg.plan
            first == Q!ReadPage(t, p)
        IN  /\ IsInjective(walk) /\ ToSet(walk) = Q!Kept(t, p.filters)
            /\ \A a, b \in DOMAIN walk : a < b =>
                 LET o == Q!KeyOrder(p.sort, t[walk[a]], t[walk[b]])
                 IN  o = -1 \/ (o = 0 /\ walk[a] < walk[b])
            /\ Q!AnswerCount(first, p, Len(t)) \in {-1, Len(walk)}

\* An aggregate that is answered: its groups partition the matching rows, none mixes two
\* units (a missing unit counts as one), every output column and order key has a value,
\* and what a limit cuts off comes after what is shown (query/aggregate.py).
AggregateHonest ==
    Is("aggregate") /\ Q!AggregateParses(arg.plan) /\ Q!AggregateChecks(arg.plan, ColumnTypes) =>
      \A a \in {Q!Aggregate(arg.table, arg.plan, 2)} :
      \A top \in {Q!TopGroups(arg.table, arg.plan, a.groups, 1)} :
        LET t == arg.table
            p == arg.plan
            shown == ToSet(top.rows)
        IN  a.code = "ok" /\ top.code = "ok" =>
              /\ UNION a.groups = Q!Kept(t, p.filters)
              /\ \A g, h \in a.groups : g # h => g \cap h = {}
              /\ p.unit => \A g \in a.groups : \A i, j \in g : t[i].u = t[j].u
              /\ \A g \in shown, h \in a.groups \ shown : ~Q!GroupBefore(t, p, h, g)
              /\ top.truncated = (shown # a.groups)

\* A column that may hold personal information, by its name or in any text inside its
\* type, is withheld unless the specification allows it, and a range is shown for enough
\* values only (query/profile.py, profile_table).
Withholds(p) ==
    LET out == Q!ProfileColumn(p.column, p.allowed, p.finite, 2)
        holds == p.column.name \/ (p.column.pii /\ "text" \in p.column.leaves)
    IN  /\ holds /\ ~p.allowed => out.status = "withheld"
        /\ out.range = "exact" => p.finite >= 2

ProfileWithholds == Is("profile") => Withholds(arg)

\* The tables that a query really reads, common tables expanded.
Physical(q) ==
    LET expand(rs, i, of) ==
            UNION {IF \E j \in 1..i - 1 : q.ctes[j].name = r
                   THEN of[CHOOSE j \in 1..i - 1 : q.ctes[j].name = r] ELSE {r} : r \in rs}
        of[i \in 1..Len(q.ctes)] == expand(q.ctes[i].body.relations, i, of)
    IN  expand(q.main.relations, Len(q.ctes) + 1, of)

\* SQL that is let through reads the dataset, nothing else, and answers the same each time
\* (query/security.py, validate_read_only_sql).
SqlReadsDataset ==
    Is("sql") /\ Q!ValidateSql(arg) =>
        /\ Physical(arg) = {"dataset"}
        /\ \A s \in Q!Scopes(arg) : s.calls = {}

\* Where foreign runs are hidden, asking for one is answered as if it were not there,
\* whatever else the request says (query/resolver.py; service/query_service_api.py, query).
HidesForeign(r) ==
    ~r.owned => Q!ContextAnswer(r, TRUE) = Q!ContextAnswer([r EXCEPT !.manifest = FALSE], TRUE)

ForeignRunHidden == Is("context") => HidesForeign(arg)

\* The world without the runs and jobs that p does not own.
OwnWorld(w, p) ==
    [w EXCEPT !.disk = [r \in DOMAIN w.disk |->
                          IF w.disk[r].manifest # None /\ ~D!PrincipalOwns(p, w.disk[r].manifest)
                          THEN BaseDir ELSE w.disk[r]],
              !.index = IF @ = Wrong THEN Wrong
                        ELSE [r \in {r \in DOMAIN w.index : D!PrincipalOwns(p, w.index[r])} |-> w.index[r]],
              !.jobs = {j \in @ : D!PrincipalOwns(p, j)}]

\* The index holds what the ends of runs wrote: entries by run, with the owner that the
\* manifest of the run names too (store/build_index.py).
IndexFaithful(w, p) ==
    w.index # Wrong =>
        /\ OwnWorld(w, p).index # Wrong
        /\ DOMAIN w.index \subseteq DOMAIN w.disk
        /\ \A r \in DOMAIN w.index :
              /\ w.index[r].run = r
              /\ w.disk[r].manifest # None =>
                   D!PrincipalOwns(p, w.index[r]) = D!PrincipalOwns(p, w.disk[r].manifest)

\* The runs of a signed-in user, one run, the first n of a dataset, its active jobs, each
\* summary and the statistics are what they would be if nobody else's runs existed
\* (service/datasets.py, filter_ownership; service/monitoring.py, build_statistics).
Unseen(w, p, ds, rs, n, now) ==
    \A own \in {OwnWorld(w, p)} :
        /\ D!DatasetRecords(w, p, TRUE) = D!DatasetRecords(own, p, TRUE)
        /\ D!RecentRecords(w, p, TRUE, now) = D!RecentRecords(own, p, TRUE, now)
        /\ \A d \in ds, r \in rs : D!GetRun(w, d, r, p, TRUE, TRUE) = D!GetRun(own, d, r, p, TRUE, TRUE)
        /\ \A d \in ds : /\ D!ListRuns(w, d, p, TRUE, n) = D!ListRuns(own, d, p, TRUE, n)
                         /\ D!ActiveStatuses(w, d, p, TRUE) = D!ActiveStatuses(own, d, p, TRUE)
        /\ \A x \in D!DatasetRecords(w, p, TRUE) :
              D!Summary(w, x, {}, x.finished, now) = D!Summary(own, x, {}, x.finished, now)
        /\ D!Statistics(w, p, TRUE, now, n) = D!Statistics(own, p, TRUE, now, n)

RunsUnseen ==
    (Is("datasets") \/ Is("recent")) /\ arg.p # None => \A w \in {World(arg)} :
        IndexFaithful(w, arg.p) => Unseen(w, arg.p, 1..2, 1..3, 1, 100)

\* The same for whole answers, in lists and one by one, of worlds whose index is what the
\* ends of runs wrote (service/datasets_api.py).
ForeignRunsInvisible ==
    Is("datasets") /\ arg.p # None => \A w \in {World(arg)} : \A own \in {OwnWorld(w, arg.p)} :
        LET runs == {r \in DOMAIN own.disk : own.disk[r].manifest # None}
                      \cup IF own.index = Wrong THEN {} ELSE DOMAIN own.index
        IN  /\ IndexFaithful(w, arg.p)
            /\ \A n \in 1..2 : D!ListDatasets(w, arg.p, TRUE, n, 100) = D!ListDatasets(own, arg.p, TRUE, n, 100)
            /\ \A d \in 1..2 : D!GetDataset(w, d, arg.p, TRUE, 100) = D!GetDataset(own, d, arg.p, TRUE, 100)
            /\ \A d \in {None, 1} : \A e \in ToSet(D!ListBuilds(w, arg.p, TRUE, d, 1)) : e.run \in runs

\* The index decides nothing: whether it fails, is empty, behind or wrong, the same runs
\* are found with the same owner and times, and the same status when the manifest has one
\* (service/datasets.py, retain_canonical_run_records).
IndexOnlyHints ==
    Is("datasets") => \A world \in {World(arg)} :
        LET found(w) == {[x EXCEPT !.digest = None,
                                   !.status = IF w.disk[x.run].manifest = None \/ w.disk[x.run].manifest.status # None
                                              THEN @ ELSE None] : x \in D!DatasetRecords(w, arg.p, TRUE)}
        IN  found(world) = found([world EXCEPT !.index = Wrong])

\* The number of datasets told with a page is the number a page without limit shows, and
\* the page is its beginning (service/datasets_api.py, list_datasets).
DatasetsCounted ==
    Is("datasets") => \A w \in {World(arg)} : \A all \in {D!ListDatasets(w, arg.p, TRUE, 9, 100)} :
        \A n \in 0..2 : \A page \in {D!ListDatasets(w, arg.p, TRUE, n, 100)} :
            page.total = Len(all.items) /\ page.items = D!FirstOf(all.items, n)

\* The quality counts of the last day are those of all of the user's runs, although only
\* runs that the manifest times or the index name are looked at; and the hourly counts,
\* with what is told to be left out, count every run of the window once
\* (service/datasets_api.py, recent_canonical_records; service/monitoring.py).
WindowsComplete ==
    Is("recent") => \A w \in {World(arg)} :
      \A counts \in {D!WindowCounts(w, D!RecentRecords(w, arg.p, TRUE, 100), 100)},
         stats \in {D!Statistics(w, arg.p, TRUE, 100, 1)} :
        LET mine == D!FilterOwnership(D!Between(w, 54, 102), arg.p, TRUE)
        IN  /\ IndexFaithful(w, arg.p)
            /\ counts = D!WindowCounts(w, D!DatasetRecords(w, arg.p, TRUE), 100)
            /\ counts.pass <= counts.evaluated /\ counts.evaluated <= counts.pass + counts.warn + counts.fail
            /\ stats # None => stats.excluded + SumFunction([b \in DOMAIN stats.buckets |-> stats.buckets[b].total])
                                 = Cardinality(mine)

\* Following next from 0 through the pages tells every finding of all once, in order.
PagesTell(all, pages) ==
    /\ \A o \in DOMAIN pages :
          pages[o].next = IF o + arg.limit \in DOMAIN pages THEN o + arg.limit ELSE None
    /\ all.issues = FoldLeft(\o, <<>>, [i \in 1..Cardinality(DOMAIN pages) |->
                                           pages[(i - 1) * arg.limit].issues])
    /\ \A i, j \in DOMAIN all.issues : i < j => D!IssueOrder(all.issues[i], all.issues[j]) # 1
    /\ SumFunction(all.coverage) = all.tables

Offsets(total) == {o \in 0..total : o % arg.limit = 0 /\ (o = 0 \/ o < total)}

\* Only where every known source was checked.
EvaluatedChecked(m) ==
    D!CoverageClass(m) = "evaluated" => m.inputs \subseteq DOMAIN m.results /\ D!Checks(m) # <<>>

\* Following next from 0 tells every finding of the user's latest runs once, in order; and
\* every table is in one class, "evaluated" only where every known source was checked
\* (service/quality_api.py, list_issues).
IssuesTile ==
    Is("issues") =>
        LET page(w, limit, o) == D!ListIssues(w, Me, TRUE, arg.statuses, None, arg.category, limit, o)
        IN  \E w \in {World(arg)} : \E all \in {page(w, 99, 0)} :
                /\ PagesTell(all, [o \in Offsets(all.total) |-> page(w, arg.limit, o)])
                /\ \A x \in D!LatestByDataset(D!DatasetRecords(w, Me, TRUE)) :
                      EvaluatedChecked(w.disk[x.run].manifest)
                /\ all = page(OwnWorld(w, Me), 99, 0)

\* A verification says what it saw: healthy only if all six checks passed, checks are
\* skipped only behind one that failed, the key is blamed exactly when its check failed;
\* and a run against the baseline another run wrote fails for a field that came, went or
\* changed its type, not for nulls and the order of rows (verify/runner.py; cli.py,
\* _run_verify).
VerificationTells ==
    Is("verify") => \A day1 \in {V!RunVerify(<<arg.first>>, <<>>)} :
      \A r \in {V!VerifyDatasets(<<arg.second>>, day1.hashes)[1]} :
        LET day2 == V!RunVerify(<<arg.second>>, day1.hashes)
            at(i) == r.checks[V!CheckNames[i]]
            types(items, f) == {items[i][f] : i \in {i \in DOMAIN items : f \in DOMAIN items[i]}} \ {"null"}
            fields == {"f", "g"}
        IN  /\ r.status = "HEALTHY" <=> \A i \in 1..6 : at(i) = "passed"
            /\ \A i \in 1..6 : at(i) = "skipped" =>
                  /\ \E j \in 1..i - 1 : at(j) = "failed"
                  /\ \A j \in i..6 : at(j) = "skipped"
            /\ r.status \in V!AuthFailures <=> r.checks["auth"] = "failed"
            /\ day2.code = 0 <=> r.status = "HEALTHY"
            /\ day2.code = 0 /\ arg.second.paged /\ arg.second.total # None =>
                  arg.second.total >= Max({0, Len(arg.second.items)})
            /\ LET a == arg.first.items
                   b == arg.second.items
               IN  /\ r.status = "SCHEMA_CHANGED" =>
                         LET diff == V!StructureDiff(a, b)
                         IN  diff.added # {} \/ diff.removed # {} \/ diff.changed # {}
                   /\ r.hash # None /\ a # <<>> /\ (\E f \in fields : types(a, f) \cap types(b, f) = {} /\ types(a, f) # {}) =>
                         r.status = "SCHEMA_CHANGED" /\ day2.code = 1

----------------------------------------------------------------------------
(* What the specification rules promise.                                   *)

\* Two names are one directory entry on some filesystem: equal but for case and trailing
\* dots.
SameEntry(x, y) ==
    LET n == Min({Len(x), Len(y)})
        lower(c) == IF c = "A" THEN "a" ELSE c
    IN  /\ \A i \in 1..n : lower(x[i]) = lower(y[i])
        /\ \A i \in n + 1..Len(x) : x[i] = "."
        /\ \A i \in n + 1..Len(y) : y[i] = "."

\* The sources of an accepted specification write to directories, checkpoint directories
\* and old checkpoint files of their own and stay inside the run, also on a filesystem
\* that ignores case or trailing dots, and so does the composed Gold (spec/validator.py,
\* _source_key_problems and _composition_name_problems; stages/_path_safety.py).
SourcesApart ==
    Is("keys") /\ S!Problems(arg) = {} =>
        LET n == DOMAIN arg.sources
            key(i) == S!SourceKey(arg.sources[i])
            places(i) == {key(i), key(i) \o <<".jsonl">>}
        IN  /\ \A i, j \in n : i # j =>
                 \A x \in places(i), y \in places(j) : ~SameEntry(x, y)
            /\ \A i \in n : ~SameEntry(key(i), <<"/">>) /\ key(i)[1] # "."
            /\ arg.composition # None => \A i \in n : ~SameEntry(arg.composition.name, key(i))

\* An accepted specification can be carried out: every source has at least one call with
\* all its shared parameters as given, split ratios share out all rows, every range rule
\* admits some value, both sides of a join are different sources, and what is published
\* names its licence and allows no personal information (spec/validator.py).
AcceptedRuns ==
    done /\ kind \in {"accepted", "keys"} /\ S!Problems(arg) = {} =>
        /\ \A i \in DOMAIN arg.sources :
             LET s == arg.sources[i]
                 calls == S!Expand(s.params, s.param_grid)
             IN  /\ calls # <<>>
                 /\ \A c \in ToSet(calls) : \A k \in DOMAIN s.params : c[k] = s.params[k]
        /\ arg.splits # None /\ arg.splits.mode = "ratio" =>
             MapThenSumSet(LAMBDA r : arg.splits.ratios[r], DOMAIN arg.splits.ratios) = 10
        /\ arg.quality # None => \A i \in DOMAIN arg.quality.range :
             \E v \in 0..3 : /\ arg.quality.range[i].min # None => v >= arg.quality.range[i].min
                             /\ arg.quality.range[i].max # None => v <= arg.quality.range[i].max
        /\ arg.composition # None =>
             \E i, j \in DOMAIN arg.sources :
                 /\ i # j /\ arg.sources[i].alias = arg.composition.join.left
                 /\ {k \in DOMAIN arg.sources : arg.sources[k].alias = arg.composition.join.right} = {j}
        /\ arg.publish => arg.license \notin {None, Empty} /\ (arg.pii # None => arg.pii.mode # "allow")

\* A run's snapshot replays: a document that loads is written back as one that loads to
\* the same specification but for redacted secrets, and writing that again changes
\* nothing, so its digest is stable (spec/loader.py, spec/serializer.py).
SnapshotReplays ==
    Is("document") /\ S!SpecParses(arg) =>
        LET s == S!ParsedSpec(arg)
            m == S!SpecMapping(s)
            redacted == [s EXCEPT !.metadata = S!Canonical(@),
                                  !.sources = [i \in DOMAIN @ |-> [@[i] EXCEPT !.params = S!Canonical(@)]]]
        IN  /\ S!SpecParses(m)
            /\ S!ParsedSpec(m) = redacted
            /\ S!SpecMapping(S!ParsedSpec(m)) = m

\* Two sources with the same coverage fingerprint make the same calls in the same order,
\* but for secrets, and an alias never changes it; the contract fingerprint tells schemas
\* apart and nothing else (spec/fingerprints.py, spec/param_grid.py).
CoverageTellsCalls ==
    Is("coverage") =>
        LET calls(s) == S!Expand(S!Canonical(s.params), s.param_grid)
        IN  /\ S!Coverage(arg[1]) = S!Coverage(arg[2]) => calls(arg[1]) = calls(arg[2])
            /\ S!Coverage(arg[1]) = S!Coverage(arg[2]) => S!SourceParams(arg[1]) = S!SourceParams(arg[2])
            /\ arg[1] = [arg[2] EXCEPT !.alias = arg[1].alias] => S!Coverage(arg[1]) = S!Coverage(arg[2])
            /\ (S!ContractOf(arg[1]) = S!ContractOf(arg[2])) = (arg[1].schema = arg[2].schema)

----------------------------------------------------------------------------
(* What the Silver rules promise.                                          *)

\* What a column is loaded as, or whether it is refused, does not depend on the order of
\* the records, values of different kinds never share a column, and a float column holds
\* no integer that a float would round (tabular/duckdb_load.py, tabular/convert.py).
LoadHonest ==
    Is("load") =>
        LET loaded == T!LoadType(arg)
            leaves == {v.leaf : v \in ToSet(arg)}
        IN  /\ \A i, j \in DOMAIN arg :
                 T!LoadType([arg EXCEPT ![i] = arg[j], ![j] = arg[i]]) = loaded
            /\ loaded.code = "ok" =>
                 /\ "str" \in leaves => leaves \subseteq {"str", "null"}
                 /\ loaded.node.leaf = "float" => leaves \cap {"unsafe", "huge"} = {}
                 /\ \A v \in ToSet(arg) : v.leaf # "null" => v.depth = loaded.node.depth

\* The column that a source column ends up in.
FinalName(c, s) ==
    LET groups == {g \in DOMAIN s.coalesce : c \in ToSet(s.coalesce[g])}
        merged == IF groups = {} THEN c ELSE CHOOSE g \in groups : TRUE
    IN  Field(s.rename, merged, merged)

\* The number a cell stands for, None when it is not one.
Meaning(x) == IF T!IsNum(x) THEN x ELSE T!IntFromText(SelectSeq(x.text, LAMBDA ch : ch # ","))

\* A source that is normalised keeps every value: as many rows, and each value that is no
\* declared null token is in its row, in the column it was merged or renamed into,
\* unchanged or with the same meaning where a cast or padding was declared; a cell that is
\* not null comes from such a value (stages/silver/normalize.py, normalize_table).
SilverKeeps ==
    Is("silver") => \A out \in {T!Normalize(arg.raw, arg.schema)} :
        LET s == arg.schema
            t == out.table
            rewritten(c) == c \in DOMAIN s.casts \cup DOMAIN s.zfill \/ s.read_as # <<>>
            token(k, x) == T!IsText(x) /\ x.text \in ToSet(s.null_tokens)
                               \cup (IF arg.raw[k].name \in DOMAIN s.column_null_tokens
                                     THEN ToSet(s.column_null_tokens[arg.raw[k].name].tokens) ELSE {})
            final == [k \in DOMAIN arg.raw |-> FinalName(arg.raw[k].name, s)]
            values(name, i) ==
                {arg.raw[k].cells[i] : k \in {k \in DOMAIN arg.raw :
                    /\ final[k] = name /\ arg.raw[k].cells[i] # None
                    /\ ~token(k, arg.raw[k].cells[i])}}
        IN  out.code = "ok" =>
              /\ T!Rows(t) = DOMAIN arg.raw[1].cells
              /\ Range(final) \subseteq T!ColumnNames(t)
              /\ \A name \in Range(final), i \in T!Rows(t) :
                   \E y \in {T!Column(t, name).cells[i]}, xs \in {values(name, i)} :
                       /\ (y = None) = (xs = {})
                       /\ \A x \in xs :
                            IF rewritten(name) THEN y = x \/ Meaning(y) = Meaning(x) \/ T!IsMonth(x)
                            ELSE y = x

\* Names that an accepted schema declares do not clash while a source is normalised: groups
\* are apart and a derived column overwrites at most a column of the source itself
\* (spec/validator.py, _schema_problems; stages/silver/normalize.py).
DeclaredNamesHold ==
    Is("silver") /\ S!SchemaProblems(arg.schema) = {} => \A code \in {T!Normalize(arg.raw, arg.schema).code} :
        LET sourced == {arg.raw[k].name : k \in DOMAIN arg.raw}
        IN  /\ code # "overlapping_groups"
            /\ code = "derived_overwrites" =>
                 \E i \in DOMAIN arg.schema.derived : arg.schema.derived[i].name \in sourced

\* Two rows have the same join key exactly when their parts are the same, also when a part
\* holds the separator or the escape character (normalize.py, _escape_join_key_part).
JoinKeyTells ==
    Is("joinkey") =>
        LET key(parts) == T!JoinKey(<<T!Txt(parts[1]), T!Txt(parts[2])>>)
        IN  (key(arg[1]) = key(arg[2])) = (arg[1] = arg[2])

\* Of a rule over values, a pass means that some row was judged and none is wrong, a wrong
\* row is reported with the declared severity, also in a column that cannot be compared,
\* and nothing is said where there is nothing to judge; a table that passes validation
\* fails no schema check (quality/evaluator.py; stages/silver/validate.py).
QualityHonest ==
    Is("quality") => \A t \in {T!Load(arg.raw, {}).table} :
      \A results \in {T!EvaluateQuality(t, arg.policy, <<"p", "r">>, [q |-> "int"])} :
        LET p == arg.policy
            of(rule) == {x.status : x \in {x \in results : x.rule = rule}}
            told(bad, v) == IF bad THEN {v} ELSE {"pass"}
            cells == t[1].cells
            judged == T!Present(cells)
            both == judged \cap T!Present(t[2].cells)
            numbers(is, c) == \A i \in is : T!IsNum(c[i])
        IN  /\ \A r \in ToSet(p.range) :
                 of("range") =
                   IF r.column = "r" \/ judged = {} \/ (r.min = None /\ r.max = None) THEN {}
                   ELSE told(~numbers(judged, cells) \/ \E i \in judged :
                                 (r.min # None /\ cells[i].num < 1) \/ (r.max # None /\ cells[i].num > 1),
                             r.severity)
            /\ \A r \in ToSet(p.compare_columns) :
                 of("compare_columns") =
                   IF r.right = "r" \/ both = {} THEN {}
                   ELSE told(\/ numbers(both, cells) # numbers(both, t[2].cells)
                             \/ r.op = "eq" \/ \E i \in both : numbers(both, cells) /\ cells[i].num > 1,
                             r.severity)
            /\ cells = <<>> => of("max_null_ratio") = {} /\ "pass" \notin of("range") \cup of("min_rows")
            /\ of("required_column") = {"pass", "fail"}
            /\ T!TableProblems(t, <<"p">>, [q |-> "int"]) = {} => of("dtype") = {"pass"}

\* Drift is measured against the newest earlier run of the same dataset and owner that
\* succeeded, for row counts one that collected the same population under the same
\* contract; no reason for not measuring is given when there is one that can be read; the
\* catalog's selection agrees with the one over run directories
\* (stages/silver/drift.py, find_previous_silver; warehouse/baseline.py, select_baseline).
BaselineComparable ==
    Is("drift") =>
      \A drift \in {T!Drift(arg.runs, arg.now, "o")} :
        LET fits(axis) == {r \in arg.runs :
                 /\ r.ok /\ r.owner = "o"
                 /\ axis = "volume" => r.coverage = arg.now.coverage /\ r.contract = arg.now.contract}
            newest(axis) == CHOOSE r \in fits(axis) :
                                \A q \in fits(axis) : 10 * q.finished + q.id <= 10 * r.finished + r.id
        IN  \A axis \in {"schema", "volume"} :
              LET found == T!FindPrevious(arg.runs, arg.now, "o", axis)
                  chosen == T!SelectBaseline(arg.runs, arg.now, "o", axis)
              IN  /\ chosen.run = IF fits(axis) = {} THEN None ELSE newest(axis)
                  /\ found.run = IF chosen.run # None /\ chosen.run.readable THEN chosen.run ELSE None
                  /\ (found.reason = "ok") = (found.run # None)
                  /\ drift[axis].evaluated /\ drift[axis].findings = {} =>
                       IF axis = "schema" THEN arg.now.columns = found.run.columns
                       ELSE 2 * arg.now.rows \in found.run.rows..3 * found.run.rows \/ found.run.rows = 0

----------------------------------------------------------------------------
(* What the Gold rules promise.                                            *)

\* A filter and its opposite share out the rows that have a value, rows without one are in
\* neither, and a list keeps what its members keep; an operand of another type is refused,
\* never taken for no match (stages/gold/select.py, _predicate).
SelectionTells ==
    Is("select") =>
        LET t == arg.table
            rule(op, v) == [column |-> "p", op |-> op, value |-> v]
            kept(op, v) == {i \in T!Rows(t) : G!FilterKeeps(t, rule(op, v), i)}
            nulls == {i \in T!Rows(t) : t[1].cells[i] = None}
            comparable == arg.value # None /\ t[1].dtype # "Null"
        IN  /\ (G!FilterCode(t, rule("eq", arg.value)) = "ok") = (~comparable \/ T!IsNum(arg.value))
            /\ comparable /\ T!IsNum(arg.value) =>
                 /\ kept("eq", arg.value) \cap kept("ne", arg.value) = {}
                 /\ kept("eq", arg.value) \cup kept("ne", arg.value) = T!Rows(t) \ nulls
                 /\ kept("in", <<arg.value, None>>) = kept("eq", arg.value)
            /\ ~comparable => kept("eq", arg.value) = {}
            /\ kept("not_null", None) = T!Rows(t) \ nulls

\* Every value of the table in the given columns is masked.
AllMasked(t, columns) ==
    \A k \in DOMAIN t : t[k].name \in columns =>
        \A i \in DOMAIN t[k].cells : t[k].cells[i] \in {None, G!MaskToken}

\* A table is a sequence of named columns of cells.
Columned(t) == \A k \in DOMAIN t : {"name", "cells"} \subseteq DOMAIN t[k]

\* Every field that was fetched is a column of the Silver table.
KeepsFields(a, silver) ==
    /\ Columned(silver)
    /\ \A k \in DOMAIN a.raw : FinalName(a.raw[k].name, a.schema) \in G!ColumnNames(silver)

\* A field that is declared personal data shows no value wherever it can be read, under
\* whatever name merging and renaming give it, unless it is published unmasked: in Gold, in
\* reads of Silver, in the raw rows of a preview; raw files that hold it and reads without a
\* readable declaration are refused, and no field that was fetched is reported as absent
\* (service/pii_reads.py; orchestrator.py; stages/gold/pii.py).
Masks(a, silver) ==
    LET source == [gold |-> a.gold, schema |-> a.schema]
        names == {a.raw[k].name : k \in DOMAIN a.raw}
        there == G!ColumnNames(silver)
        hidden == ({FinalName(c, a.schema) : c \in a.core \cap names} \cup ToSet(a.gold.pii_columns))
                    \ ToSet(a.gold.publish_unmasked)
        gold == G!GoldOf(silver, source, a.core, a.policy)
        read == G!SilverRead(silver, source, a.core, {})
    IN  IF a.core = None
        THEN read.code # "ok" /\ G!ArtifactCode(source, None, {}, there) # "ok"
        ELSE /\ gold.code = "ok" => AllMasked(gold.table, hidden)
             /\ AllMasked(read.table, hidden)
             /\ \A columns \in {there, None} :
                  G!ArtifactCode(source, a.core, {}, columns) = "ok" => hidden \cap there = {}
             /\ AllMasked(G!RawPreview(a.raw, silver, source, a.core),
                          {c \in names : FinalName(c, a.schema) \in hidden})
             /\ G!AbsentCore(a.core, there, a.schema) \cap names = {}

DeclaredMasked ==
    Is("mask") => \A silver \in {T!Normalize(arg.raw, arg.schema)} :
        silver.code = "ok" /\ KeepsFields(arg, silver.table) => Masks(arg, silver.table)

\* Every field that was fetched reaches Silver, where it can be masked, and in block mode Gold holds nothing that the scan finds but in the allowed and in
\* the masked columns (stages/silver/normalize.py; orchestrator.py).
GoldScanned ==
    Is("mask") => \A silver \in {T!Normalize(arg.raw, arg.schema)} :
        LET gold == G!GoldOf(silver.table, [gold |-> arg.gold, schema |-> arg.schema], arg.core, arg.policy)
        IN  silver.code = "ok" =>
              /\ KeepsFields(arg, silver.table)
              /\ arg.core # None /\ gold.code = "ok" /\ arg.policy # None /\ arg.policy.mode = "block" =>
                   \A c \in T!ScanPii(gold.table) \ ToSet(arg.policy.allow_columns) : AllMasked(gold.table, {c})

\* Splits share out the rows: each row is in exactly one, a ratio split's sizes are within
\* one row of the exact shares, and a key split is the same whether it is made over records
\* or over the table (stages/gold/split.py).
SplitPartitions ==
    Is("split") =>
        LET partition(parts, rows) ==
                /\ UNION Range(parts) = rows
                /\ \A m, n \in DOMAIN parts : m # n => parts[m] \cap parts[n] = {}
            total == Len(arg.order)
            sum == MapThenSumSet(LAMBDA n : arg.ratios[n], DOMAIN arg.ratios)
            byRatio == G!RatioSplit(arg.order, arg.ratios)
            t == <<Col("k", "Any", arg.cells)>>
            byKey == G!KeySplitTable(t, "k")
            rows == DOMAIN arg.cells
        IN  IF arg.cells = <<>>
            THEN /\ partition(byRatio, 1..total)
                 /\ \A n \in DOMAIN arg.ratios :
                      LET off == Cardinality(byRatio[n]) * sum - total * arg.ratios[n]
                      IN  off < sum /\ off > -sum
            ELSE /\ partition(byKey, rows)
                 /\ byKey = G!KeySplitRecords(arg.cells, [i \in rows |-> TRUE])
                 /\ G!KeySplitTable(t, "m") = G!KeySplitRecords(arg.cells, [i \in rows |-> FALSE])

\* A composed table: rows meet only on equal keys that are not null, no row of the left
\* side is lost in a left join, a declared cardinality bounds how often a row is repeated,
\* with on_duplicate_key "fail" no key repeats on both sides, and no column of either side
\* is lost or named twice (stages/gold/compose.py).
ComposeHonest ==
    Is("compose") =>
      \A c \in {G!Compose(arg.l, arg.r, arg.join)} :
        LET left == arg.l[1].cells
            right == arg.r[1].cells
            met == {p \in c.pairs : p[2] # 0}
            ofLeft(i) == {p \in met : p[1] = i}
            ofRight(j) == {p \in met : p[2] = j}
            columns == G!OutputColumns(arg.l, arg.r, arg.join).columns
        IN  c.code = "ok" =>
              /\ met = {p \in (DOMAIN left) \X (DOMAIN right) :
                           left[p[1]] # None /\ left[p[1]] = right[p[2]]}
              /\ arg.join.type = "left" => {p[1] : p \in c.pairs} = DOMAIN left
              /\ arg.join.cardinality \in {"many_to_one", "one_to_one"} =>
                   \A i \in DOMAIN left : Cardinality(ofLeft(i)) <= 1
              /\ arg.join.cardinality \in {"one_to_many", "one_to_one"} =>
                   \A j \in DOMAIN right : Cardinality(ofRight(j)) <= 1
              /\ arg.join.on_duplicate_key = "fail" =>
                   \A p \in met : Cardinality(ofLeft(p[1])) = 1 \/ Cardinality(ofRight(p[2])) = 1
              /\ {columns[n].from : n \in DOMAIN columns} = {arg.r[k].name : k \in 2..Len(arg.r)}
              /\ NoRepeats([n \in DOMAIN columns |-> columns[n].name])
              /\ \A n \in DOMAIN columns : columns[n].name \notin T!ColumnNames(arg.l)

\* The checksum of a set of records does not depend on their order and is the product of
\* their factors modulo the prime, so records can be added one at a time; the checksum
\* computed from a file in pieces is the one computed in memory, and data counts as
\* unchanged exactly when the records and the parameters are the same; the inputs of two
\* builds have one fingerprint only over checksums that can be compared and are equal
\* (manifest/checksums.py; manifest/provenance.py; snapshot.py).
ChecksumsAgree ==
    /\ Is("hashes") =>
        LET exact == FoldLeft(LAMBDA acc, h : (acc * G!Factor(h)) % G!Modulus, 1, arg)
        IN  /\ G!MultisetDigest(arg) = <<Len(arg), exact>>
            /\ G!MultisetDigest(Reverse(arg)) = G!MultisetDigest(arg)
    /\ Is("lines") =>
        LET full == SelectSeq(arg.lines, LAMBDA x : x # 0)
            snapshot == [params |-> <<>>, checksum |-> G!ChecksumOf(Reverse(full))]
        IN  /\ G!ChecksumFromFile(arg.lines, arg.limit) = G!ChecksumOf(full)
            /\ ~G!DataChanged(full, <<>>, snapshot)
            /\ G!DataChanged(Append(full, 1), <<>>, snapshot)
            /\ G!DataChanged(full, [p |-> "1"], snapshot) /\ G!DataChanged(full, <<>>, None)
    /\ Is("inputs") =>
        LET one(i) == G!InputsFingerprint(<<arg[i]>>)
        IN  /\ G!InputsFingerprint(Reverse(arg)) = G!InputsFingerprint(arg)
            /\ (one(1) = one(2)) = (arg[1].id = arg[2].id /\ G!SameData(arg[1], arg[2]) = TRUE)
            /\ (G!InputsFingerprint(arg) = Wrong) = (G!SameData(arg[1], arg[2]) = None)

\* A source counts as completely fetched only when every call's pages stated one total and
\* that many rows came, and as partly fetched only when some call got fewer than it stated
\* (stages/bronze/build.py, _call_total; manifest/provenance.py, summarize_reported_totals).
CoverageTold(calls) ==
    LET stated(i) == ToSet(calls[i].reported) \ {None}
        told == G!FetchCoverage([i \in DOMAIN calls |-> G!CallTotal(calls[i].reported, calls[i].fetched)])
    IN  /\ (told = "complete") = (calls # <<>> /\ \A i \in DOMAIN calls : stated(i) = {calls[i].fetched})
        /\ told = "partial" => \E i \in DOMAIN calls : \A n \in stated(i) : calls[i].fetched < n

CoverageHonest == Is("calls") => CoverageTold(arg)

\* What is published in public has terms that allow it in every source, those for
\* non-commercial use only when that is confirmed and marked; forbidden data is never
\* published, and data of unknown terms only where it stays private
\* (service/redistribution.py).
TermsRespected(t) ==
    LET verdict == G!BuildVerdict(t.sources)
        public == G!IsPublic(t.target, t.options)
        goes == /\ G!PublishIssues(verdict, public, t.confirmed, t.marked) = {}
                /\ ~G!DestinationIssue(verdict, public, t.visibility)
        terms == IF t.sources = None THEN {None}
                 ELSE {IF t.sources[i].kind = "public_api" THEN t.sources[i].terms ELSE None :
                          i \in DOMAIN t.sources}
    IN  goes =>
          /\ "forbidden" \notin terms
          /\ public => /\ terms \subseteq {"allowed", "non_commercial"}
                       /\ "non_commercial" \in terms => t.confirmed /\ t.marked
          /\ t.visibility = "public" /\ ~public => terms = {"allowed"}

TermsHold == Is("terms") => TermsRespected(arg)

\* A publish runs with the credentials of one origin: those of the request alone and all of
\* them where several users share the server, never the server's where that is switched
\* off, and never a stored value filled up with the server's
\* (service/publish_credentials.py).
OneOrigin(c) ==
    LET request == G!ParseHeaders(c.headers)
        r == G!ResolveCredentials(c.target, c.multiUser, request, c.stored, c.server, c.ownOnly)
        origins == Range(r.values)
    IN  request # Wrong =>
          /\ Cardinality(origins) <= 1
          /\ c.multiUser /\ r.needed /\ ~r.refused =>
               origins = {"request"} /\ DOMAIN r.values = G!Slots[c.target]
          /\ c.ownOnly => "server" \notin origins
          /\ r.refused => r.values = <<>>
          /\ G!ParseHeaders(Reverse(c.headers)) = request

CredentialsUnmixed == Is("credentials") => OneOrigin(arg)

\* A secret in a fetched value is replaced as a whole, in each of its spellings, also when
\* another secret is a part of it (stages/bronze/resolve.py, scrub_secret_values).
SecretsGone ==
    Is("scrub") /\ arg.secret \in arg.secrets =>
        LET forms == SetToSeq(G!Forms(arg.secret))
            text == forms[1 + ((arg.form - 1) % Len(forms))]
        IN  G!Scrub(arg.before \o text \o arg.after, arg.secrets) = arg.before \o <<"[REDACTED]">> \o arg.after

----------------------------------------------------------------------------
(* What is checked, by the part of the system that relies on it.           *)

\* Reads tell the truth and nothing more: conditions mean the same in both engines, pages
\* tile, aggregates mix no units, SQL reads the dataset only, foreign runs stay out of lists
\* and counts, and a verification says what it saw (query/, service/datasets_api.py).
ReadsHonest ==
    /\ PredicatesAgree /\ PagesTile /\ AggregateHonest /\ SqlReadsDataset
    /\ ForeignRunsInvisible /\ IndexOnlyHints /\ DatasetsCounted /\ WindowsComplete /\ IssuesTile
    /\ VerificationTells

\* An accepted specification can be carried out with its sources apart, its snapshot
\* replays, and its fingerprints tell different calls apart (spec/).
SpecificationsHold ==
    SourcesApart /\ AcceptedRuns /\ SnapshotReplays /\ CoverageTellsCalls /\ DeclaredNamesHold

\* Silver keeps what was fetched and is judged by it, and Gold is what it says: loading and
\* normalising lose nothing, keys tell rows apart, quality and drift are measured on what
\* they say they are; selections, splits, joins, checksums and coverage are exact, and what
\* is scanned or secret is gone (tabular/, stages/, quality/, manifest/).
TablesHonest ==
    /\ LoadHonest /\ SilverKeeps /\ JoinKeyTells /\ QualityHonest /\ BaselineComparable
    /\ SelectionTells /\ SplitPartitions /\ ComposeHonest /\ ChecksumsAgree /\ CoverageHonest
    /\ GoldScanned /\ SecretsGone

\* What is withheld stays withheld: suspect columns in profiles, foreign runs in reads,
\* declared personal data under every name and in every copy, data whose terms do not
\* allow its publication, and credentials of another origin (query/profile.py,
\* service/query_service_api.py, pii_reads.py, redistribution.py, publish_credentials.py).
Disclosure ==
    /\ ProfileWithholds /\ ForeignRunHidden /\ RunsUnseen /\ DeclaredMasked
    /\ TermsHold /\ CredentialsUnmixed
=============================================================================
