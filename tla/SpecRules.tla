----------------------------- MODULE SpecRules -----------------------------
(***************************************************************************)
(* How a build specification is read from a document, checked, written     *)
(* back as the run's snapshot and turned into fetches.  A document is a    *)
(* mapping from field names to values.  The names that become directories  *)
(* are sequences of parts, so that case, trailing dots and the suffix of   *)
(* the old checkpoint file can be told apart.                              *)
(***************************************************************************)
EXTENDS RuleBase

----------------------------------------------------------------------------
(* Names that become directories.                                          *)

\* validate_path_segment: one segment, not starting with a dot, no separator, no blank.
SafeSegment(name) ==
    /\ name # <<>> /\ name[1] # "."
    /\ ToSet(name) \cap {"/", " "} = {}

Fold(part) == IF part = "A" THEN "a" ELSE part

\* Mutant: trailing dots are kept.
CollisionKeyDots(name) == [i \in DOMAIN name |-> Fold(name[i])]

\* path_collision_key: case folded, trailing dots dropped.
CollisionKey(name) ==
    LET last == Max({0} \cup {i \in DOMAIN name : name[i] # "."})
    IN  [i \in 1..last |-> Fold(name[i])]

LegacySuffix == <<".jsonl">>

Text(x) == IF x = Empty THEN <<>> ELSE x

\* source_identity: what stands for provider and dataset; a url's host and path, without
\* credentials and query (_url_path_safe_identity, sanitize_endpoint_identity).
SourceIdentity(s) ==
    CASE s.kind = "file" -> <<<<"file">>, Text(s.upload_id)>>
      [] s.kind = "url" -> <<<<"url">>, <<s.endpoint.host, "-", s.endpoint.path>>>>
      [] OTHER -> <<Text(s.provider), Text(s.dataset)>>

\* The output key: the alias, else provider.dataset.
SourceKey(s) ==
    IF s.alias # Empty THEN s.alias
    ELSE SourceIdentity(s)[1] \o <<".">> \o SourceIdentity(s)[2]

----------------------------------------------------------------------------
(* Reading a source.                                                       *)

SourceKinds == {"public_api", "file", "url"}

\* SourceRef's defaults.
NoSource ==
    [kind |-> "public_api", provider |-> Empty, dataset |-> Empty, params |-> <<>>,
     param_grid |-> <<>>, alias |-> Empty, schema |-> None, upload_id |-> Empty,
     format |-> Empty, encoding |-> "utf-8", endpoint |-> Empty, method |-> "GET",
     gold |-> None]

\* The fields a kind takes besides alias, schema and gold, and the ones it must have.
OwnFields ==
    [public_api |-> {"provider", "dataset", "params", "param_grid"},
     file |-> {"upload_id", "format", "encoding"},
     url |-> {"endpoint", "method", "format"}]

RequiredFields ==
    [public_api |-> {"provider", "dataset"}, file |-> {"upload_id", "format"}, url |-> {"endpoint"}]

\* _reject_foreign_fields: a field that belongs to another kind is refused.
Foreign(m, kind) ==
    DOMAIN m \cap (UNION {OwnFields[k] : k \in SourceKinds} \ OwnFields[kind])

\* A required string is there, is a string and is not empty (_require_string).
HasString(m, f) == f \in DOMAIN m /\ m[f] \notin {Wrong, Empty}

\* _parse_public_api_source, _parse_file_source, _parse_url_source.
SourceFieldsParse(m, kind) ==
    /\ Foreign(m, kind) = {}
    /\ \A f \in RequiredFields[kind] : HasString(m, f)
    /\ \A f \in (OwnFields[kind] \cup {"alias"}) \cap DOMAIN m :
         m[f] # Wrong /\ (f \in {"encoding", "method"} => m[f] # Empty)

\* _parse_column_null_tokens: a list of tokens, or a mapping of tokens and on_absent.
ColumnTokens(d) ==
    IF "list" \in DOMAIN d THEN [tokens |-> d.list, on_absent |-> "error"]
    ELSE [tokens |-> Field(d, "tokens", <<>>), on_absent |-> Field(d, "on_absent", "error")]

ColumnTokensParse(d) ==
    \/ "list" \in DOMAIN d /\ d.list # Wrong
    \/ /\ "list" \notin DOMAIN d /\ DOMAIN d \subseteq {"tokens", "on_absent"}
       /\ \A f \in DOMAIN d : d[f] # Wrong

SchemaFields ==
    {"required", "dtypes", "casts", "rename", "derived", "read_as", "null_tokens",
     "column_null_tokens", "coalesce", "zfill"}

\* _parse_schema with _parse_coalesce, _parse_zfill, _parse_derived.
SchemaParses(m) ==
    /\ m # Wrong
    /\ \A f \in DOMAIN m \cap SchemaFields : m[f] # Wrong
    /\ "column_null_tokens" \in DOMAIN m =>
         \A c \in DOMAIN m.column_null_tokens : ColumnTokensParse(m.column_null_tokens[c])

ParsedSchema(m) ==
    [f \in SchemaFields |->
        IF f = "column_null_tokens" /\ f \in DOMAIN m
        THEN [c \in DOMAIN m[f] |-> ColumnTokens(m[f][c])]
        ELSE Field(m, f, <<>>)]

\* _parse_gold: a filter has the operand its operator takes.
GoldFilterParses(f) ==
    /\ DOMAIN f \subseteq {"column", "op", "value"} /\ HasString(f, "column") /\ "op" \in DOMAIN f
    /\ CASE f.op = "not_null" -> "value" \notin DOMAIN f
         [] f.op = "in" -> "value" \in DOMAIN f /\ f.value \notin {Wrong, None, <<>>}
         [] OTHER -> "value" \in DOMAIN f /\ f.value \notin {Wrong, None}

GoldFields == {"select", "filters", "pii_columns", "publish_unmasked"}

\* _parse_gold and _parse_gold_columns: known keys, no column twice.
GoldParses(m) ==
    /\ m # Wrong /\ DOMAIN m \subseteq GoldFields
    /\ \A f \in DOMAIN m : m[f] # Wrong
    /\ \A f \in DOMAIN m \ {"filters"} : NoRepeats(m[f])
    /\ \A i \in DOMAIN Field(m, "filters", <<>>) : GoldFilterParses(m.filters[i])

ParsedGold(m) ==
    [f \in GoldFields |->
        IF f = "filters"
        THEN [i \in DOMAIN Field(m, f, <<>>) |->
                  [column |-> m[f][i].column, op |-> m[f][i].op, value |-> Field(m[f][i], "value", None)]]
        ELSE Field(m, f, <<>>)]

\* _parse_sources, one entry: whether it is read, and as what.
SourceParses(m) ==
    LET kind == Field(m, "kind", "public_api")
    IN  /\ "normalization_mode" \notin DOMAIN m
        /\ kind \in SourceKinds
        /\ SourceFieldsParse(m, kind)
        /\ Field(m, "schema", None) # None => SchemaParses(m.schema)
        /\ Field(m, "gold", None) # None => GoldParses(m.gold)

ParsedSource(m) ==
    LET kind == Field(m, "kind", "public_api")
    IN  [f \in DOMAIN NoSource |->
            CASE f = "kind" -> kind
              [] f = "schema" -> IF Field(m, f, None) = None THEN None ELSE ParsedSchema(m[f])
              [] f = "gold" -> IF Field(m, f, None) = None THEN None ELSE ParsedGold(m[f])
              [] f \in OwnFields[kind] \cup {"alias"} -> Field(m, f, NoSource[f])
              [] OTHER -> NoSource[f]]

----------------------------------------------------------------------------
(* Reading the rest of the document.                                       *)

\* _parse_join_keys: either pairs or the shorthand for one pair, not both.
JoinKeysParse(m) ==
    IF "keys" \in DOMAIN m
    THEN /\ DOMAIN m \cap {"left_key", "right_key"} = {}
         /\ m.keys \notin {Wrong, <<>>}
         /\ \A i \in DOMAIN m.keys : m.keys[i][1] # Empty /\ m.keys[i][2] # Empty
    ELSE HasString(m, "left_key") /\ HasString(m, "right_key")

\* _parse_join; a choice outside its list is Wrong.
JoinParses(m) ==
    /\ HasString(m, "left") /\ HasString(m, "right") /\ JoinKeysParse(m)
    /\ \A f \in {"type", "on_duplicate_key", "on_null_key", "cardinality"} \cap DOMAIN m : m[f] # Wrong

\* JoinSpec, its shorthand normalised to keys (__post_init__).
ParsedJoin(m) ==
    [left |-> m.left, right |-> m.right,
     keys |-> IF "keys" \in DOMAIN m THEN m.keys ELSE <<<<m.left_key, m.right_key>>>>,
     type |-> Field(m, "type", "inner"), on_duplicate_key |-> Field(m, "on_duplicate_key", "warn"),
     cardinality |-> Field(m, "cardinality", None), on_null_key |-> Field(m, "on_null_key", "warn")]

\* The policies and their defaults: SplitSpec, PiiPolicy, QualityPolicy.
NoSplit == [mode |-> Empty, ratios |-> <<>>, key |-> Empty, seed |-> 0]

NoPii == [mode |-> "block", allow_columns |-> <<>>]

NoQuality ==
    [max_duplicate_rate |-> None, max_duplicate_rate_severity |-> "warn", max_null_ratio |-> <<>>,
     max_null_ratio_severity |-> <<>>, min_rows |-> None, min_rows_severity |-> "warn",
     range |-> <<>>, compare_columns |-> <<>>]

\* _parse_splits, _parse_pii, _parse_quality: every field given has its type, the others
\* their default.
PolicyParses(m, defaults) ==
    m # Wrong /\ \A f \in DOMAIN m \cap DOMAIN defaults : m[f] # Wrong

ParsedPolicy(m, defaults) == [f \in DOMAIN defaults |-> Field(m, f, defaults[f])]

Policies == [splits |-> NoSplit, pii |-> NoPii, quality |-> NoQuality]

\* BuildSpec's remaining fields and their defaults.
PlainFields ==
    [exports |-> <<>>, metadata |-> <<>>, publish |-> FALSE, license |-> None,
     license_name |-> None, license_link |-> None, attribution |-> None, refresh_cadence |-> None]

Texts == {"dataset_id", "title", "description"}

\* parse_spec and load_spec; refresh_cadence is Wrong when parse_cadence refuses it.
SpecParses(m) ==
    /\ m # Wrong
    /\ \A f \in Texts : HasString(m, f)
    /\ DOMAIN m \cap {"transforms", "normalization_mode"} = {}
    /\ \A f \in DOMAIN PlainFields \cap DOMAIN m : m[f] # Wrong
    /\ "sources" \in DOMAIN m /\ m.sources \notin {Wrong, <<>>}
    /\ \A i \in DOMAIN m.sources : SourceParses(m.sources[i])
    /\ \A f \in DOMAIN Policies : Field(m, f, None) # None =>
         PolicyParses(m[f], Policies[f]) /\ (f = "splits" => HasString(m.splits, "mode"))
    /\ Field(m, "composition", None) # None =>
         m.composition # Wrong /\ HasString(m.composition, "name")
           /\ "join" \in DOMAIN m.composition /\ JoinParses(m.composition.join)

ParsedSpec(m) ==
    [f \in DOMAIN PlainFields |-> Field(m, f, PlainFields[f])]
      @@ [f \in Texts |-> m[f]]
      @@ [f \in DOMAIN Policies |-> IF Field(m, f, None) = None THEN None
                                     ELSE ParsedPolicy(m[f], Policies[f])]
      @@ [sources |-> [i \in DOMAIN m.sources |-> ParsedSource(m.sources[i])],
          composition |-> IF Field(m, "composition", None) = None THEN None
                          ELSE [name |-> m.composition.name, join |-> ParsedJoin(m.composition.join)]]

----------------------------------------------------------------------------
(* Writing it back.                                                        *)

SecretNames == {"service_key"}

\* _canonical_json: the values of secret names are replaced.
Canonical(m) == [k \in DOMAIN m |-> IF k \in SecretNames THEN "<redacted>" ELSE m[k]]

\* The fields among fs whose value is not empty.
Given(m, fs) == [f \in {f \in fs : m[f] # <<>>} |-> m[f]]

\* Of the schema, required, dtypes and casts are always written, the others when used.
SchemaMapping(s) ==
    LET always == {"required", "dtypes", "casts"}
    IN  IF s = None THEN None
        ELSE [f \in always |-> s[f]] @@ Given(s, SchemaFields \ always)

GoldMapping(g) ==
    [select |-> g.select,
     filters |-> [i \in DOMAIN g.filters |->
                     [column |-> g.filters[i].column, op |-> g.filters[i].op]
                       @@ IF g.filters[i].op = "not_null" THEN <<>> ELSE [value |-> g.filters[i].value]]]
      @@ Given(g, {"pii_columns", "publish_unmasked"})

\* The fields of the source's kind; the grid only when there is one, and as it is.
KindMapping(s) ==
    IF s.kind \in {"file", "url"} THEN [f \in OwnFields[s.kind] |-> s[f]]
    ELSE [provider |-> s.provider, dataset |-> s.dataset, params |-> Canonical(s.params)]
           @@ Given(s, {"param_grid"})

\* canonical_source_mapping.
SourceMapping(s) ==
    [kind |-> s.kind, alias |-> s.alias, schema |-> SchemaMapping(s.schema)]
      @@ (IF s.gold = None THEN <<>> ELSE [gold |-> GoldMapping(s.gold)])
      @@ KindMapping(s)

JoinMapping(j) ==
    [left |-> j.left, right |-> j.right, type |-> j.type, on_duplicate_key |-> j.on_duplicate_key]
      @@ (IF Len(j.keys) = 1 THEN [left_key |-> j.keys[1][1], right_key |-> j.keys[1][2]]
          ELSE [keys |-> j.keys])
      @@ (IF j.cardinality = None THEN <<>> ELSE [cardinality |-> j.cardinality])
      @@ (IF j.on_null_key = "warn" THEN <<>> ELSE [on_null_key |-> j.on_null_key])

\* canonical_spec_mapping, what serialize_spec dumps.
SpecMapping(s) ==
    [f \in Texts \cup DOMAIN Policies \cup {"exports", "publish", "license"} |-> s[f]]
      @@ [sources |-> [i \in DOMAIN s.sources |-> SourceMapping(s.sources[i])],
          metadata |-> Canonical(s.metadata),
          composition |-> IF s.composition = None THEN None
                          ELSE [name |-> s.composition.name, join |-> JoinMapping(s.composition.join)]]
      @@ [f \in {f \in {"attribution", "license_name", "license_link", "refresh_cadence"} : s[f] # None}
            |-> s[f]]

----------------------------------------------------------------------------
(* Fetches and fingerprints.                                               *)

\* expand_param_grid: the product of the axes in their names' order, the shared
\* parameters in every combination.
Expand(params, grid) ==
    FoldLeft(LAMBDA acc, k : FlattenSeq([i \in DOMAIN acc |->
                                   [j \in DOMAIN grid[k] |-> (k :> grid[k][j]) @@ acc[i]]]),
             <<params>>, Sorted(DOMAIN grid))

\* fingerprints_from_mapping: what the digests are taken over.
Coverage(s) == LET m == SourceMapping(s) IN [f \in DOMAIN m \ {"alias", "schema"} |-> m[f]]

SourceParams(s) ==
    LET m == SourceMapping(s) IN <<Field(m, "params", <<>>), Field(m, "param_grid", <<>>)>>

ContractOf(s) == SourceMapping(s).schema

----------------------------------------------------------------------------
(* Checking it.  Every check gives the set of its problems' codes.         *)

Problem(fails, code) == IF fails THEN {code} ELSE {}

Blank(x) == x = Empty \/ x = <<" ">>

\* _split_problems.  Ratios are in tenths, None is not a number.
SplitProblems(split) ==
    LET values == {split.ratios[n] : n \in DOMAIN split.ratios}
        total == MapThenSumSet(LAMBDA n : split.ratios[n], DOMAIN split.ratios)
        ratio == Problem(split.ratios = <<>>, "missing_ratios")
                   \cup Problem("" \in DOMAIN split.ratios, "empty_ratio_name")
                   \cup (IF None \in values THEN {"non_finite_ratio"}
                         ELSE IF \E v \in values : v <= 0 THEN {"non_positive_ratio"}
                         ELSE Problem(split.ratios # <<>> /\ total # 10, "ratio_sum_mismatch"))
    IN  IF split = None THEN {}
        ELSE CASE split.mode = "ratio" ->
                    ratio \cup Problem(split.key = <<"date">>, "time_column_random_split")
               [] split.mode = "key" -> Problem(Blank(split.key), "empty_split_key")
               [] OTHER -> {"unsupported_split_mode"}

\* _coalesce_problems: groups share no column and no target, each lists some column once.
CoalesceProblems(groups) ==
    Problem(\E t \in DOMAIN groups : \E c \in ToSet(groups[t]) :
                \/ c \in DOMAIN groups \ {t}
                \/ \E u \in DOMAIN groups \ {t} : c \in ToSet(groups[u]), "overlapping_coalesce_groups")
      \cup Problem(\E t \in DOMAIN groups : groups[t] = <<>>, "empty_coalesce_candidates")
      \cup Problem(\E t \in DOMAIN groups : ~NoRepeats(groups[t]), "duplicate_coalesce_candidates")

\* _column_null_token_problems.
ColumnNullTokenProblems(rules) ==
    Problem(\E c \in DOMAIN rules : rules[c].tokens = <<>>, "empty_column_null_tokens")
      \cup Problem(\E c \in DOMAIN rules : rules[c].on_absent \notin {"error", "ignore"},
                   "unknown_on_absent_policy")

\* _zfill_problems.
ZfillProblems(zfill) == Problem(\E c \in DOMAIN zfill : zfill[c] < 1, "invalid_zfill_width")

\* _rename_problems.
RenameProblems(rename) ==
    Problem(\E c, d \in DOMAIN rename : c # d /\ rename[c] = rename[d], "duplicate_rename_target")

\* The names a derived column may not take.
DerivedReserved(schema) ==
    {schema.rename[c] : c \in DOMAIN schema.rename}
      \cup DOMAIN schema.casts \cup DOMAIN schema.zfill \cup DOMAIN schema.coalesce

\* _derived_problems.
DerivedProblems(schema) ==
    LET rules == schema.derived
    IN  Problem(\E i \in DOMAIN rules : \/ rules[i].name \in DerivedReserved(schema)
                                        \/ \E j \in 1..i - 1 : rules[j].name = rules[i].name,
                "derived_name_collision")
          \cup Problem(\E i \in DOMAIN rules : rules[i].kind \notin {"date_parts", "join_key"},
                       "unknown_derived_kind")
          \cup Problem(\E i \in DOMAIN rules : \/ rules[i].kind = "date_parts" /\ Len(rules[i].columns) # 3
                                               \/ rules[i].kind = "join_key" /\ rules[i].columns = <<>>,
                       "derived_column_arity")

Dtypes == {"str", "int"}

CastNames == Dtypes \cup {"int_comma", "year_month"}

\* _schema_problems.
SchemaProblems(schema) ==
    IF schema = None THEN {}
    ELSE Problem(\E c \in DOMAIN schema.dtypes : schema.dtypes[c] \notin Dtypes, "unknown_dtype")
           \cup Problem(\E c \in DOMAIN schema.casts : schema.casts[c] \notin CastNames,
                        "unknown_cast_dtype")
           \cup Problem(\E c \in DOMAIN schema.read_as : schema.read_as[c] # "str", "unknown_read_as_type")
           \cup ColumnNullTokenProblems(schema.column_null_tokens)
           \cup CoalesceProblems(schema.coalesce) \cup ZfillProblems(schema.zfill)
           \cup RenameProblems(schema.rename) \cup DerivedProblems(schema)

\* _endpoint_problems.
EndpointProblems(e) ==
    IF e = Empty THEN {"empty_field"}
    ELSE Problem(~e.https, "unsafe_url_scheme") \cup Problem(e.user, "url_userinfo_forbidden")
           \cup Problem(e.host = "", "missing_url_host")

\* _source_kind_problems with _file_source_problems and _url_source_problems.
SourceKindProblems(s) ==
    CASE s.kind = "file" ->
           (IF s.upload_id = Empty THEN {"empty_field"}
            ELSE Problem(s.upload_id # <<"u">>, "invalid_upload_id"))
             \cup Problem(s.format \notin {"csv", "json", "jsonl", "parquet"}, "unsupported_source_format")
             \cup Problem(s.encoding = "unknown", "unknown_encoding")
      [] s.kind = "url" ->
           Problem(s.method # "GET", "unsupported_source_method")
             \cup Problem(s.format \notin {Empty, "json", "jsonl", "csv"}, "unsupported_source_format")
             \cup EndpointProblems(s.endpoint)
      [] OTHER -> Problem(s.kind # "public_api", "unsupported_source_kind")

\* _source_identity_problems.
IdentityProblems(s) ==
    Problem(s.kind = "public_api"
              /\ \E n \in {s.provider, s.dataset} : ~Blank(n) /\ ~SafeSegment(Text(n)), "unsafe_source_key")

\* One round of _source_key_problems: acc holds the keys met, their folded forms and the
\* folded names of their old checkpoint files.
ClaimKey(acc, s) ==
    LET key == SourceKey(s)
        folded == CollisionKey(key)
        legacy == CollisionKey(key \o LegacySuffix)
        code == FirstRefusal(<<
            <<s.alias # Empty /\ ~SafeSegment(key), "unsafe_alias">>,
            <<s.alias = Empty /\ (IdentityProblems(s) # {} \/ ~SafeSegment(key)), "unsafe_source_key">>,
            <<key \in acc.keys, "duplicate_source_key">>,
            <<folded \in acc.claimed, "source_key_path_collision">>,
            <<folded \in acc.legacy \/ legacy \in acc.claimed, "source_key_path_collision">>>>)
    IN  [problems |-> acc.problems \cup IdentityProblems(s) \cup (IF code = "ok" THEN {} ELSE {code}),
         keys |-> IF code \in {"ok", "source_key_path_collision"} THEN acc.keys \cup {key} ELSE acc.keys,
         claimed |-> IF code = "ok" THEN acc.claimed \cup {folded} ELSE acc.claimed,
         legacy |-> IF code = "ok" THEN acc.legacy \cup {legacy} ELSE acc.legacy]

SourceKeyProblems(sources) ==
    FoldLeft(ClaimKey, [problems |-> {}, keys |-> {}, claimed |-> {}, legacy |-> {}], sources).problems

\* _param_grid_problems; a value that is a list or a mapping is None.
GridProblems(s) ==
    IF s.param_grid = <<>> THEN {}
    ELSE IF s.kind # "public_api" THEN {"param_grid_not_supported"}
    ELSE Problem(\E k \in DOMAIN s.param_grid : s.param_grid[k] = <<>>, "empty_param_grid_axis")
           \cup Problem(DOMAIN s.param_grid \cap DOMAIN s.params # {}, "param_grid_shadows_params")
           \cup Problem(\E k \in DOMAIN s.param_grid : None \in ToSet(s.param_grid[k]),
                        "invalid_param_grid_value")

\* _pii_problems.
PiiProblems(spec) ==
    Problem(spec.publish /\ spec.pii # None /\ spec.pii.mode = "allow", "pii_allow_with_publish")

\* _license_problems.
LicenseProblems(spec) ==
    Problem(spec.publish /\ spec.license \in {None, Empty}, "missing_license_for_publish")
      \cup (IF spec.license = "other"
            THEN Problem({None, Empty} \cap {spec.license_name, spec.license_link} # {},
                         "license_other_needs_terms")
            ELSE Problem({spec.license_name, spec.license_link} \ {None, Empty} # {},
                         "license_terms_without_other"))

\* _quality_problems.
QualityProblems(q) ==
    IF q = None THEN {}
    ELSE Problem(\E i \in DOMAIN q.range : q.range[i].min = None /\ q.range[i].max = None,
                 "empty_range_rule")
           \cup Problem(\E i \in DOMAIN q.range : /\ q.range[i].min # None /\ q.range[i].max # None
                                                  /\ q.range[i].min > q.range[i].max, "inverted_range_rule")
           \cup Problem(~(DOMAIN q.max_null_ratio_severity \subseteq DOMAIN q.max_null_ratio),
                        "unknown_severity_column")

\* _composition_name_problems.
NameProblems(spec, name) ==
    IF ~SafeSegment(name) THEN {"unsafe_source_key"}
    ELSE Problem(\E i \in DOMAIN spec.sources :
                     CollisionKey(SourceKey(spec.sources[i])) = CollisionKey(name),
                 "composition_name_collision")

\* _composition_problems and _gold_selection_problems.
CompositionProblems(spec) ==
    LET name == spec.composition.name
        join == spec.composition.join
        n == DOMAIN spec.sources
        aliased(a) == {i \in n : spec.sources[i].alias = a}
        repeats(side) == ~NoRepeats([k \in DOMAIN join.keys |-> join.keys[k][side]])
    IN  IF spec.composition = None THEN {}
        ELSE (IF Blank(name) THEN {"empty_field"} ELSE NameProblems(spec, name))
               \cup Problem(\E i \in n : /\ spec.sources[i].alias # Empty
                                         /\ Cardinality(aliased(spec.sources[i].alias)) > 1,
                            "duplicate_source_alias")
               \cup Problem(join.left # Empty /\ join.left = join.right, "self_join")
               \cup Problem(\E a \in {join.left, join.right} : Blank(a), "empty_field")
               \cup Problem(\E a \in {join.left, join.right} : ~Blank(a) /\ aliased(a) = {},
                            "unknown_composition_source")
               \cup Problem(\E k \in DOMAIN join.keys : Blank(join.keys[k][1]) \/ Blank(join.keys[k][2]),
                            "empty_field")
               \cup Problem(repeats(1) \/ repeats(2), "duplicate_join_key_column")
               \cup Problem(\E i \in n : spec.sources[i].gold # None, "gold_selection_with_composition")

\* validate_spec's own checks: texts, aliases, export targets, metadata names.
TextProblems(spec) ==
    Problem(\E f \in Texts : Blank(spec[f]), "empty_field")
      \cup Problem(spec.sources = <<>>, "missing_sources")
      \cup Problem(\E i \in DOMAIN spec.sources : spec.sources[i].kind = "public_api"
                      /\ (Blank(spec.sources[i].provider) \/ Blank(spec.sources[i].dataset)), "empty_field")
      \cup Problem(\E i \in DOMAIN spec.sources : spec.sources[i].alias = <<" ">>, "blank_alias")
      \cup Problem(\E i \in DOMAIN spec.exports : Blank(spec.exports[i].output_path), "empty_field")
      \cup Problem(\E i \in DOMAIN spec.exports : spec.exports[i].kind # "csv", "unsupported_export_kind")
      \cup Problem("" \in DOMAIN spec.metadata, "empty_metadata_key")

\* validate_spec: a specification is accepted when there is no problem.
Problems(spec) ==
    TextProblems(spec) \cup SplitProblems(spec.splits)
      \cup UNION {SchemaProblems(spec.sources[i].schema) \cup SourceKindProblems(spec.sources[i])
                    \cup GridProblems(spec.sources[i]) : i \in DOMAIN spec.sources}
      \cup SourceKeyProblems(spec.sources) \cup PiiProblems(spec) \cup LicenseProblems(spec)
      \cup QualityProblems(spec.quality) \cup CompositionProblems(spec)
=============================================================================
