----------------------------- MODULE GoldRules -----------------------------
(***************************************************************************)
(* How Silver becomes Gold and what leaves the builder: selection, masking *)
(* of declared personal data, splits, composition, checksums, provenance,  *)
(* redistribution terms and publish credentials.                           *)
(***************************************************************************)
EXTENDS SilverRules

(* Selection. *)

\* _accepts: the operand has the column's type.
Accepts(dtype, v) == \/ dtype = "Int64" /\ IsNum(v)
                     \/ dtype = "String" /\ IsText(v)

\* The comparison of two values of one type; texts by their character's position.
Holds(x, op, v) ==
    CASE op = "eq" -> x = v
      [] op = "ne" -> x # v
      [] OTHER -> Satisfies(x, "lte", v)

FilterOperands(rule) == IF rule.op = "in" THEN ToSet(rule.value) ELSE {rule.value}

\* _predicate: "ok", or why the filter is refused.
FilterCode(t, rule) ==
    IF rule.column \notin ColumnNames(t) THEN "filter_absent"
    ELSE IF rule.op = "not_null" \/ Column(t, rule.column).dtype = "Null" THEN "ok"
    ELSE IF \E v \in FilterOperands(rule) \ {None} : ~Accepts(Column(t, rule.column).dtype, v)
    THEN "filter_type" ELSE "ok"

\* The rows it keeps; a null cell or a null operand matches nothing.
FilterKeeps(t, rule, i) ==
    LET x == Column(t, rule.column).cells[i]
        values == FilterOperands(rule) \ {None}
    IN  /\ x # None
        /\ rule.op # "not_null" => values # {} /\
             IF rule.op = "in" THEN x \in values ELSE \E v \in values : Holds(x, rule.op, v)

\* The rows of t at the positions "rows", in order.
RowsOf(t, rows) ==
    LET order == SetToSortSeq(rows, <)
    IN  [k \in DOMAIN t |-> [t[k] EXCEPT !.cells = [n \in DOMAIN order |-> t[k].cells[order[n]]]]]

\* apply_gold_selection; no selected columns means all.
Select(t, g) ==
    LET codes == {FilterCode(t, g.filters[n]) : n \in DOMAIN g.filters} \ {"ok"}
        kept == {i \in Rows(t) : \A n \in DOMAIN g.filters : FilterKeeps(t, g.filters[n], i)}
        columns == IF g.select = <<>> THEN t ELSE [n \in DOMAIN g.select |-> Column(t, g.select[n])]
    IN  IF ~(ToSet(g.select) \subseteq ColumnNames(t)) THEN Refused("select_absent")
        ELSE IF codes # {} THEN Refused(CHOOSE c \in codes : TRUE)
        ELSE Done(RowsOf(columns, kept))

----------------------------------------------------------------------------
(* Declared personal data.                                                 *)

\* Mutant: a declared field is followed through rename but not through coalesce.
BuilderNamesRenamed(names, s) == {Field(s.rename, n, n) : n \in names}

\* builder_column_names: the Silver columns that source fields become.
BuilderNames(names, s) ==
    LET merged(n) == LET groups == {g \in DOMAIN s.coalesce : n \in ToSet(s.coalesce[g])}
                     IN  IF groups = {} THEN n ELSE CHOOSE g \in groups : TRUE
    IN  {Field(s.rename, merged(n), merged(n)) : n \in names}

\* declared_pii_columns; the build's own must be there.
DeclaredPiiRefused(own, columns) == ~(own \subseteq columns)

DeclaredPii(core, own, columns, s) == (BuilderNames(core, s) \cap columns) \cup own

\* absent_core_pii_columns.
AbsentCore(core, columns, s) == {n \in core : BuilderNames({n}, s) \cap columns = {}}

\* columns_masked_in_gold.
MaskedInGold(declared, unmasked) == declared \ unmasked

\* columns_withheld_from_silver; columns is None when Silver cannot be read.
WithheldFromSilver(core, own, unmasked, columns, s) ==
    LET assumed == IF columns = None THEN BuilderNames(core, s) \cup own ELSE columns
    IN  MaskedInGold(DeclaredPii(core, own \cap assumed, assumed, s), unmasked)

\* source_fields_of.
SourceFieldsOf(fields, columns, s) == {f \in fields : BuilderNames({f}, s) \cap columns # {}}

MaskToken == Txt(<<"[masked]">>)

\* mask_value.
MaskValue(x, text) == IF x = None \/ ~text THEN None ELSE MaskToken

\* mask_columns, mask_records and masked_silver_table: text by the token, the rest by null.
MaskColumns(t, columns, text) ==
    [k \in DOMAIN t |->
        IF t[k].name \notin columns THEN t[k]
        ELSE [t[k] EXCEPT !.cells = [i \in DOMAIN @ |-> MaskValue(@[i], t[k].name \in text)]]]

TextColumns(t) == {c \in ColumnNames(t) : Column(t, c).dtype = "String"}

\* apply_pii_masking.
ApplyMasking(t, declared, unmasked) ==
    MaskColumns(t, MaskedInGold(declared, unmasked) \cap ColumnNames(t), TextColumns(t))

\* The gate of the orchestrator: columns that look like personal data and are not handled.
PiiGate(silver, policy, declared, unmasked) ==
    IF policy = None THEN {}
    ELSE ScanPii(silver) \ (ToSet(policy.allow_columns) \cup MaskedInGold(declared, unmasked))

\* Silver to Gold for one source: refused, or the table that is published.
GoldOf(silver, source, core, policy) ==
    LET own == ToSet(source.gold.pii_columns)
        unmasked == ToSet(source.gold.publish_unmasked)
        declared == DeclaredPii(core, own, ColumnNames(silver), source.schema)
        selected == Select(silver, source.gold)
    IN  IF DeclaredPiiRefused(own, ColumnNames(silver)) THEN Refused("pii_absent")
        ELSE IF policy # None /\ policy.mode = "block" /\ PiiGate(silver, policy, declared, unmasked) # {}
        THEN Refused("pii_found")
        ELSE Then(selected, LAMBDA t : Done(ApplyMasking(t, declared, unmasked)))

\* run_withheld_columns: by the declaration now and by what the run recorded as masked.
\* core is None when the declaration cannot be read.
RunWithheld(source, core, recorded, columns) ==
    WithheldFromSilver(core, ToSet(source.gold.pii_columns), ToSet(source.gold.publish_unmasked),
                       columns, source.schema) \cup recorded

\* mask_stage_sample and the read of a Silver table: no rows when nothing is known.
SilverRead(silver, source, core, recorded) ==
    IF core = None THEN Refused("declaration_unavailable")
    ELSE Done(MaskColumns(silver, RunWithheld(source, core, recorded, ColumnNames(silver)),
                          TextColumns(silver)))

\* mask_source_preview: the raw rows beside the Silver ones.
RawPreview(raw, silver, source, core) ==
    LET withheld == RunWithheld(source, core, {}, ColumnNames(silver)) \cap ColumnNames(silver)
        fields == SourceFieldsOf(ColumnNames(raw), withheld, source.schema)
        text == {f \in fields : BuilderNames({f}, source.schema) \cap TextColumns(silver) # {}}
    IN  MaskColumns(raw, fields, text)

\* artifact_refusal: a raw file leaves only when nothing in it is withheld; the columns are
\* None when the Silver file cannot be read.
ArtifactCode(source, core, recorded, columns) ==
    IF core = None THEN "declaration_unavailable"
    ELSE IF RunWithheld(source, core, recorded, columns) # {} THEN "declared_pii_withheld" ELSE "ok"

----------------------------------------------------------------------------
(* Splits.                                                                 *)

\* _allocate_counts: rounded down, the rest to the largest fractions, then by name.
Allocate(total, ratios) ==
    LET sum == MapThenSumSet(LAMBDA n : ratios[n], DOMAIN ratios)
        floor == [n \in DOMAIN ratios |-> (total * ratios[n]) \div sum]
        rest == total - MapThenSumSet(LAMBDA n : floor[n], DOMAIN ratios)
        names == Sorted(DOMAIN ratios)
        fraction(i) == (total * ratios[names[i]]) % sum
        before(i) == {j \in DOMAIN names : fraction(j) > fraction(i) \/ (fraction(j) = fraction(i) /\ j < i)}
        rank == [i \in DOMAIN names |-> Cardinality(before(i))]
    IN  [n \in DOMAIN ratios |->
            floor[n] + IF rank[CHOOSE i \in DOMAIN names : names[i] = n] < rest THEN 1 ELSE 0]

\* _ranges and _ratio_split: consecutive ranges of the hashed order, each in table order.
\* order[i] is the row at position i of the hashed order.
RatioSplit(order, ratios) ==
    LET counts == Allocate(Len(order), ratios)
        names == Sorted(DOMAIN ratios)
        start(n) == MapThenSumSet(LAMBDA m : counts[m],
                        {names[j] : j \in {j \in DOMAIN names : \E i \in DOMAIN names : names[i] = n /\ j < i}})
    IN  [n \in DOMAIN ratios |-> {order[p] : p \in start(n) + 1..start(n) + counts[n]}]

\* The name of a row's partition: str(value), null and missing by names of their own.
PartitionName(x) == IF x = None THEN "__null__" ELSE IF IsNum(x) THEN ToString(x.num) ELSE x.text[1]

\* _key_split over records: a record may lack the key.
KeySplitRecords(cells, has) ==
    LET name(i) == IF ~has[i] THEN "__missing__" ELSE PartitionName(cells[i])
    IN  [n \in {name(i) : i \in DOMAIN cells} |-> {i \in DOMAIN cells : name(i) = n}]

\* _key_split_table: groups of equal values, groups of one name put together.
KeySplitTable(t, key) ==
    LET cells == Column(t, key).cells
        groups == {{i \in Rows(t) : cells[i] = v} : v \in Range(cells)}
        name(g) == PartitionName(cells[CHOOSE i \in g : TRUE])
    IN  IF key \notin ColumnNames(t) THEN [n \in {"__missing__"} |-> Rows(t)]
        ELSE [n \in {name(g) : g \in groups} |-> UNION {g \in groups : name(g) = n}]

----------------------------------------------------------------------------
(* Composition.                                                            *)

\* _validate_join_keys.
JoinKeysCode(l, r, keys) ==
    LET bad(n) == IF keys[n][1] \notin ColumnNames(l) \/ keys[n][2] \notin ColumnNames(r) THEN "key_absent"
                  ELSE IF Column(l, keys[n][1]).dtype # Column(r, keys[n][2]).dtype THEN "key_type" ELSE "ok"
    IN  FirstRefusal([n \in DOMAIN keys |-> <<bad(n) # "ok", bad(n)>>])

\* The key of row i, None when a part of it is null (_nan_keys_to_null, _KeySql.counts).
KeyAt(t, columns, i) ==
    LET parts == [n \in DOMAIN columns |-> Column(t, columns[n]).cells[i]]
    IN  IF None \in Range(parts) THEN None ELSE parts

RowsWith(t, columns, key) == {i \in Rows(t) : KeyAt(t, columns, i) = key}

\* _ALLOWED_OBSERVED.
AllowedObserved ==
    [one_to_one |-> {"one_to_one"}, one_to_many |-> {"one_to_one", "one_to_many"},
     many_to_one |-> {"one_to_one", "many_to_one"},
     many_to_many |-> {"one_to_one", "one_to_many", "many_to_one", "many_to_many"}]

\* _observed_cardinality.
Observed(leftMany, rightMany) ==
    IF leftMany THEN IF rightMany THEN "many_to_many" ELSE "many_to_one"
    ELSE IF rightMany THEN "one_to_many" ELSE "one_to_one"

\* _output_columns: a name taken on the left gets a suffix, a name taken twice is refused.
OutputColumns(l, r, join) ==
    LET rightKeys == {join.keys[n][2] : n \in DOMAIN join.keys}
        step(acc, c) ==
            LET out == IF c.name \in acc.taken THEN c.name \o "_r" ELSE c.name
            IN  IF acc.clash \/ c.name \in rightKeys THEN acc
                ELSE [clash |-> out \in acc.taken, taken |-> acc.taken \cup {out},
                      columns |-> Append(acc.columns, [from |-> c.name, name |-> out])]
    IN  FoldLeft(step, [clash |-> FALSE, taken |-> ColumnNames(l), columns |-> <<>>], r)

\* What the keys that meet look like on each side.
Cardinalities(l, r, ks, kt, matching) ==
    Observed(\E k \in matching : Cardinality(RowsWith(l, ks, k)) > 1,
             \E k \in matching : Cardinality(RowsWith(r, kt, k)) > 1)

\* build_composed_gold_package: the pairs of rows that are put together, 0 for no partner.
Compose(l, r, join) ==
    LET ks == [n \in DOMAIN join.keys |-> join.keys[n][1]]
        kt == [n \in DOMAIN join.keys |-> join.keys[n][2]]
        keysCode == JoinKeysCode(l, r, join.keys)
        nullRows == RowsWith(l, ks, None) \cup RowsWith(r, kt, None)
        matching == ({KeyAt(l, ks, i) : i \in Rows(l)} \cap {KeyAt(r, kt, j) : j \in Rows(r)}) \ {None}
        observed == Cardinalities(l, r, ks, kt, matching)
        amplifying == {k \in matching : Cardinality(RowsWith(l, ks, k)) > 1 /\ Cardinality(RowsWith(r, kt, k)) > 1}
        pairs == UNION {RowsWith(l, ks, k) \X RowsWith(r, kt, k) : k \in matching}
        alone == {i \in Rows(l) : KeyAt(l, ks, i) \notin matching}
        code == IF keysCode # "ok" THEN keysCode
                ELSE FirstRefusal(<<
                    <<join.on_null_key = "fail" /\ nullRows # {}, "null_key">>,
                    <<join.cardinality # None /\ observed \notin AllowedObserved[join.cardinality], "cardinality">>,
                    <<join.on_duplicate_key = "fail" /\ amplifying # {}, "duplicate_key">>,
                    <<OutputColumns(l, r, join).clash, "column_clash">>>>)
    IN  IF code # "ok" THEN [code |-> code, pairs |-> {}, observed |-> None, leftAlone |-> {}, warned |-> FALSE]
        ELSE [code |-> code, pairs |-> pairs \cup IF join.type = "left" THEN alone \X {0} ELSE {},
              observed |-> observed, leftAlone |-> alone, warned |-> amplifying # {}]

----------------------------------------------------------------------------
(* Checksums and provenance.                                               *)

ElementBits == 4

Modulus == 2^ElementBits - 3

LowMask == 2^ElementBits - 1

\* The factor of a line whose hash is h (add_line).
Factor(h) == LET v == IF h >= Modulus THEN h - Modulus ELSE h IN IF v = 0 THEN 1 ELSE v

\* The folding loop of add_line, down to the width of an element.
Reduced(product) ==
    LET fold[p \in 0..LowMask * LowMask] ==
            IF p > LowMask
            THEN fold[(p \div 2^ElementBits) * (2^ElementBits - Modulus) + (p % 2^ElementBits)] ELSE p
    IN  fold[product]

\* hexdigest: the count and the reduced product.
MultisetDigest(hashes) ==
    LET product == FoldLeft(LAMBDA acc, h : Reduced(acc * Factor(h)), 1, hashes)
    IN  <<Len(hashes), IF product >= Modulus THEN product - Modulus ELSE product>>

\* compute_data_checksum_from_jsonl: chunks are spilled when they reach the limit.  A line
\* is a number, its own length; 0 is an empty line.
SortRuns(lines, limit) ==
    LET step(acc, x) == LET chunk == Append(acc.chunk, x)
                        IN  IF FoldLeft(LAMBDA a, b : a + b, 0, chunk) >= limit THEN [runs |-> Append(acc.runs, chunk), chunk |-> <<>>]
                            ELSE [acc EXCEPT !.chunk = chunk]
        end == FoldLeft(step, [runs |-> <<>>, chunk |-> <<>>], lines)
    IN  IF end.runs # <<>> /\ end.chunk = <<>> THEN end.runs ELSE Append(end.runs, end.chunk)

\* The sorted chunks merged (_write_run, heapq.merge).
ChecksumFromFile(lines, limit) ==
    LET runs == SortRuns(SelectSeq(lines, LAMBDA x : x # 0), limit)
        smaller(x, y) == x < y
        merge[a \in Seq(Nat), b \in Seq(Nat)] ==
            IF a = <<>> THEN b ELSE IF b = <<>> THEN a
            ELSE IF a[1] <= b[1] THEN <<a[1]>> \o merge[Tail(a), b] ELSE <<b[1]>> \o merge[a, Tail(b)]
    IN  FoldLeft(LAMBDA acc, run : merge[acc, SortSeq(run, smaller)], <<>>, runs)

\* compute_data_checksum: the records' lines sorted.
ChecksumOf(lines) == SortSeq(lines, LAMBDA x, y : x < y)

\* same_data: None when the two cannot be compared.
SameData(a, b) ==
    IF None \in {a.checksum, b.checksum} \/ a.algorithm # b.algorithm THEN None
    ELSE IF a.checksum = b.checksum THEN TRUE ELSE FALSE

\* _reported_total and _call_total: what the pages of a call stated.
CallTotal(reported, fetched) ==
    LET stated == {r \in ToSet(reported) : r # None}
    IN  [status |-> IF stated = {} THEN "unknown" ELSE IF Cardinality(stated) = 1 THEN "reported" ELSE "inconsistent",
         value |-> IF Cardinality(stated) = 1 THEN CHOOSE r \in stated : TRUE ELSE None,
         fetched |-> fetched]

\* What one call says about the coverage.
CallDoubt(c) ==
    IF c.status \in {"unknown", "inconsistent"} THEN "unknown"
    ELSE IF c.fetched < c.value THEN "partial"
    ELSE IF c.fetched > c.value THEN "unknown" ELSE "none"

\* summarize_reported_totals.
FetchCoverage(calls) ==
    LET doubts == {CallDoubt(calls[i]) : i \in DOMAIN calls}
    IN  IF calls = <<>> THEN "unknown"
        ELSE IF "partial" \in doubts THEN "partial"
        ELSE IF "unknown" \in doubts THEN "unknown" ELSE "complete"

\* compute_inputs_fingerprint: None without sources, Wrong over mixed algorithms, else
\* over the sorted parts, which say how often each part occurs.
InputsFingerprint(sources) ==
    LET part(i) == <<sources[i].id, sources[i].algorithm, sources[i].checksum>>
        parts == {part(i) : i \in DOMAIN sources}
    IN  IF sources = <<>> THEN None
        ELSE IF Cardinality({sources[i].algorithm : i \in DOMAIN sources}) > 1 THEN Wrong
        ELSE [p \in parts |-> Cardinality({i \in DOMAIN sources : part(i) = p})]

\* has_data_changed: a snapshot that is missing or unreadable is None.
DataChanged(lines, params, snapshot) ==
    IF snapshot = None THEN TRUE
    ELSE params # snapshot.params \/ ChecksumOf(lines) # snapshot.checksum

----------------------------------------------------------------------------
(* Redistribution terms, publish credentials, secrets.                     *)

VerdictOrder == <<"forbidden", "unknown", "non_commercial", "allowed">>

\* source_verdict; terms is None when the catalog has none or does not know the dataset.
SourceVerdict(s) ==
    IF s.kind # "public_api" \/ s.terms \notin ToSet(VerdictOrder) THEN "unknown" ELSE s.terms

\* build_verdict: the strictest source decides; sources is None when the spec is unreadable.
BuildVerdict(sources) ==
    LET found == IF sources = None THEN {"unknown"} ELSE {SourceVerdict(sources[i]) : i \in DOMAIN sources}
    IN  VerdictOrder[Min({n \in DOMAIN VerdictOrder : VerdictOrder[n] \in found})]

\* publish_issues.
PublishIssues(verdict, public, confirmed, marked) ==
    CASE verdict = "forbidden" -> {"redistribution_forbidden"}
      [] verdict = "unknown" -> IF public THEN {"redistribution_unknown"} ELSE {}
      [] verdict = "non_commercial" ->
           (IF confirmed THEN {} ELSE {"non_commercial_unconfirmed"})
             \cup (IF public /\ ~marked THEN {"non_commercial_marker_missing"} ELSE {})
      [] OTHER -> {}

\* needs_private_destination and visibility_issue.
DestinationIssue(verdict, public, visibility) ==
    ~public /\ verdict \in {"unknown", "non_commercial"} /\ visibility \notin {"private", "absent"}

\* is_public.
IsPublic(target, options) ==
    \/ target = "huggingface" /\ Field(options, "private", None) = "false"
    \/ target = "kaggle" /\ Field(options, "public", None) = "true"

\* PUBLISH_CREDENTIAL_SLOTS.
Slots == [huggingface |-> {"HF_TOKEN"}, kaggle |-> {"KAGGLE_USERNAME", "KAGGLE_KEY"}, local |-> {}]

\* parse_publish_credential_headers: pairs <<name, value>>; Wrong when one is not accepted.
ParseHeaders(pairs) ==
    IF \/ \E i \in DOMAIN pairs : pairs[i][1] \notin UNION Range(Slots) \/ pairs[i][2] = Empty
       \/ \E i, j \in DOMAIN pairs : pairs[i][1] = pairs[j][1] /\ pairs[i][2] # pairs[j][2]
    THEN Wrong
    ELSE [n \in {pairs[i][1] : i \in DOMAIN pairs} |-> (CHOOSE q \in ToSet(pairs) : q[1] = n)[2]]

Resolution(values, refused, needed) == [values |-> values, refused |-> refused, needed |-> needed]

\* The stored values, alone.
Stored(stored, server, slots) == [v \in slots \cap DOMAIN stored |-> stored[v]]

\* resolve_publish_credentials; stored is None when the store cannot be read.
ResolveCredentials(target, multiUser, request, stored, server, ownOnly) ==
    LET slots == Slots[target]
    IN  IF slots = {} THEN Resolution(<<>>, FALSE, FALSE)
        ELSE IF multiUser
        THEN IF slots \subseteq DOMAIN request
             THEN Resolution([v \in slots |-> request[v]], FALSE, TRUE) ELSE Resolution(<<>>, TRUE, TRUE)
        ELSE IF stored # None /\ slots \cap DOMAIN stored # {}
        THEN Resolution(Stored(stored, server, slots), FALSE, TRUE)
        ELSE IF ownOnly THEN Resolution(<<>>, TRUE, TRUE)
        ELSE Resolution([v \in slots \cap DOMAIN server |-> server[v]], FALSE, TRUE)

\* The spellings of a secret: as it is and quoted in two ways.
Forms(secret) ==
    LET quoted(blank) == FlattenSeq([i \in DOMAIN secret |->
                             CASE secret[i] = "/" -> <<"%", "2", "F">>
                               [] secret[i] = " " -> blank
                               [] OTHER -> <<secret[i]>>])
    IN  {secret, quoted(<<"%", "2", "0">>), quoted(<<"+">>)}

\* text.replace(form, token), from the left.
Replaced(text, form) ==
    LET n == Len(form)
        from[i \in 1..Len(text) + 1] ==
            IF i + n - 1 > Len(text) THEN SubSeq(text, i, Len(text))
            ELSE IF SubSeq(text, i, i + n - 1) = form THEN <<"[REDACTED]">> \o from[i + n]
            ELSE <<text[i]>> \o from[i + 1]
    IN  from[1]

\* Longest first.
ScrubOrder(forms) == SetToSortSeq(forms, LAMBDA a, b : Len(a) > Len(b))

\* scrub_secret_values on a text.
Scrub(text, secrets) ==
    FoldLeft(Replaced, text, ScrubOrder(UNION {Forms(s) : s \in secrets \ {<<>>}}))
=============================================================================
