---------------------------- MODULE SilverRules ----------------------------
(***************************************************************************)
(* How Bronze records become the Silver table and what is said about it:   *)
(* type inference, normalisation, quality rules and the drift baseline.    *)
(* A table is a sequence of columns [name, dtype, cells]; a cell is None, a *)
(* text (its characters) or a number.                                      *)
(***************************************************************************)
EXTENDS RuleBase

Txt(chars) == [text |-> chars]

Num(n) == [num |-> n]

IsText(x) == x # None /\ "text" \in DOMAIN x

IsNum(x) == x # None /\ "num" \in DOMAIN x

----------------------------------------------------------------------------
(* Type inference.  The type of a value is its leaf inside "depth" lists.  *)
(* "unsafe" is an integer beyond 2^53, "huge" one beyond 64 bits.          *)

Conflict == [depth |-> 0, leaf |-> "conflict"]

NullNode == [depth |-> 0, leaf |-> "null"]

\* _unify: null fits anything, lists are unified by their elements.
Unify(a, b, Join(_, _)) ==
    IF Conflict \in {a, b} THEN Conflict
    ELSE IF a.leaf = "null" /\ a.depth <= b.depth THEN b
    ELSE IF b.leaf = "null" /\ b.depth <= a.depth THEN a
    ELSE IF a.depth # b.depth \/ Join(a.leaf, b.leaf) = "conflict" THEN Conflict
    ELSE [depth |-> a.depth, leaf |-> Join(a.leaf, b.leaf)]

\* The raw scan: every number has one shape (convert._shape and its _unify).
ShapeLeaf(v) == IF v.leaf \in {"int", "unsafe", "huge", "float"} THEN [v EXCEPT !.leaf = "num"] ELSE v

SameShape(a, b) == IF a = b THEN a ELSE "conflict"

\* The table's types: integers widen to 128 bits, and to float when mixed (_infer, _unify).
NodeOf(v) ==
    IF v.leaf = "unsafe" THEN [v EXCEPT !.leaf = "int"]
    ELSE IF v.leaf = "huge" THEN [v EXCEPT !.leaf = "int128"] ELSE v

Widen(a, b) ==
    IF a = b THEN a
    ELSE IF {a, b} \subseteq {"int", "int128"} THEN "int128"
    ELSE IF {a, b} \subseteq {"int", "int128", "float"} THEN "float"
    ELSE "conflict"

\* RecordTypeScan.check: floats beside integers that a float would round.
PrecisionRisk(values) ==
    LET leaves == {v.leaf : v \in ToSet(values)}
    IN  "float" \in leaves /\ leaves \cap {"unsafe", "huge"} # {}

\* load_records for one column: its type, or why it is refused.
LoadType(values) ==
    LET shape == FoldLeft(LAMBDA acc, v : Unify(acc, ShapeLeaf(v), SameShape), NullNode, values)
        node == FoldLeft(LAMBDA acc, v : Unify(acc, NodeOf(v), Widen), NullNode, values)
        code == FirstRefusal(<<<<shape = Conflict, "heterogeneous">>,
                               <<PrecisionRisk(values), "precision_loss">>,
                               <<node = Conflict, "heterogeneous">>,
                               <<node.depth > 0 /\ node.leaf = "int128", "not_storable">>>>)
    IN  [code |-> code, node |-> IF code = "ok" THEN node ELSE NullNode]

----------------------------------------------------------------------------
(* Normalisation.  Every step either refuses with a code or gives the next *)
(* table.                                                                  *)

ColumnNames(t) == {t[i].name : i \in DOMAIN t}

Column(t, name) == t[CHOOSE i \in DOMAIN t : t[i].name = name]

Refused(code) == [code |-> code, table |-> <<>>]

Done(t) == [code |-> "ok", table |-> t]

Present(cells) == {i \in DOMAIN cells : cells[i] # None}

\* A column after loading: only null, text or numbers.
DtypeOf(cells) ==
    IF Present(cells) = {} THEN "Null"
    ELSE IF \A i \in Present(cells) : IsText(cells[i]) THEN "String" ELSE "Int64"

\* _null_token_rule: what it refuses, and the records it rewrites.
NullTokenRefusal(raw, rules) ==
    FirstRefusal(<<
        <<\E c \in DOMAIN rules : c \notin ColumnNames(raw) /\ rules[c].on_absent = "error",
          "absent_null_token_column">>,
        <<\E c \in DOMAIN rules \cap ColumnNames(raw) :
              LET cells == Column(raw, c).cells
              IN  Present(cells) # {} /\ \A i \in Present(cells) : ~IsText(cells[i]),
          "null_tokens_on_numbers">>>>)

NullTokened(raw, shared, rules) ==
    [k \in DOMAIN raw |->
        LET tokens == shared \cup (IF raw[k].name \in DOMAIN rules
                                   THEN ToSet(rules[raw[k].name].tokens) ELSE {})
        IN  [raw[k] EXCEPT !.cells = [i \in DOMAIN @ |->
                IF IsText(@[i]) /\ @[i].text \in tokens THEN None ELSE @[i]]]]

\* text_expression: a number is written out.
AsText(x) == IF IsNum(x) THEN Txt(<<ToString(x.num)>>) ELSE x

\* load_records: read_as turns values to text first, then every column has one type.
Load(raw, readAs) ==
    LET read == [k \in DOMAIN raw |-> IF raw[k].name \in readAs
                    THEN [raw[k] EXCEPT !.cells = [i \in DOMAIN @ |-> AsText(@[i])]] ELSE raw[k]]
        leaf(x) == IF x = None THEN "null" ELSE IF IsText(x) THEN "str" ELSE "int"
        typed(cells) == LoadType([i \in DOMAIN cells |-> [depth |-> 0, leaf |-> leaf(cells[i])]])
    IN  IF \E k \in DOMAIN read : typed(read[k].cells).code # "ok" THEN Refused("heterogeneous")
        ELSE Done([k \in DOMAIN read |-> [name |-> read[k].name, dtype |-> DtypeOf(read[k].cells),
                                          cells |-> read[k].cells]])

\* _coalesce_order refuses groups that share a column.
Overlapping(groups) ==
    \E t \in DOMAIN groups : \E c \in ToSet(groups[t]) :
        \/ c \in DOMAIN groups \ {t}
        \/ \E u \in DOMAIN groups \ {t} : c \in ToSet(groups[u])

\* A row whose candidates hold two different values.
Disagree(t, typed, i) ==
    Cardinality({Column(t, typed[n]).cells[i] : n \in DOMAIN typed} \ {None}) > 1

\* The first candidate that is not null.
FirstPresent(t, typed, i) ==
    LET given == {n \in DOMAIN typed : Column(t, typed[n]).cells[i] # None}
    IN  IF given = {} THEN None ELSE Column(t, typed[Min(given)]).cells[i]

Rows(t) == IF t = <<>> THEN {} ELSE DOMAIN t[1].cells

\* _apply_coalesce: the candidates that are there become one column at the end.
Coalesce(t, target, candidates) ==
    LET there == SelectSeq(candidates, LAMBDA c : c \in ColumnNames(t))
        typed == SelectSeq(there, LAMBDA c : Column(t, c).dtype # "Null")
        code == FirstRefusal(<<
            <<there = <<>>, "no_candidate">>,
            <<target \in ColumnNames(t) \ ToSet(there), "would_overwrite">>,
            <<Cardinality({Column(t, c).dtype : c \in ToSet(typed)}) > 1, "differing_dtypes">>,
            <<\E i \in Rows(t) : Disagree(t, typed, i), "candidates_disagree">>>>)
        merged == [name |-> target, dtype |-> IF typed = <<>> THEN "Null" ELSE Column(t, typed[1]).dtype,
                   cells |-> [i \in Rows(t) |-> FirstPresent(t, typed, i)]]
    IN  IF code # "ok" THEN Refused(code)
        ELSE Done(Append(SelectSeq(t, LAMBDA c : c.name \notin ToSet(there)), merged))

\* The groups one after the other, by their targets' names.
CoalesceAll(t, groups) ==
    IF Overlapping(groups) THEN Refused("overlapping_groups")
    ELSE FoldLeft(LAMBDA r, target : IF r.code = "ok" THEN Coalesce(r.table, target, groups[target]) ELSE r,
                  Done(t), Sorted(DOMAIN groups))

\* _apply_rename, all names at once.
Rename(t, names) ==
    LET code == FirstRefusal(<<
            <<~(DOMAIN names \subseteq ColumnNames(t)), "rename_absent">>,
            <<{names[c] : c \in DOMAIN names} \cap (ColumnNames(t) \ DOMAIN names) # {}, "rename_collides">>>>)
    IN  IF code # "ok" THEN Refused(code)
        ELSE Done([k \in DOMAIN t |-> [t[k] EXCEPT !.name = Field(names, @, @)]])

\* zfill_expression: zeros after the sign, up to the width.
Padded(chars, width) ==
    LET zeros == [i \in 1..width - Len(chars) |-> "0"]
    IN  IF Len(chars) >= width THEN chars
        ELSE IF chars # <<>> /\ chars[1] \in {"+", "-"} THEN <<chars[1]>> \o zeros \o Tail(chars)
        ELSE zeros \o chars

\* _apply_zfill.
Zfill(t, c, width) ==
    LET cells == Column(t, c).cells
        padded == [i \in DOMAIN cells |-> IF cells[i] = None THEN None ELSE Txt(Padded(cells[i].text, width))]
    IN  IF c \notin ColumnNames(t) THEN Refused("zfill_absent")
        ELSE IF Column(t, c).dtype \notin {"Null", "String"} THEN Refused("zfill_not_text")
        ELSE IF \E i \in Present(cells) : Len(cells[i].text) > width THEN Refused("zfill_too_long")
        ELSE Done([k \in DOMAIN t |-> IF t[k].name = c
                      THEN [t[k] EXCEPT !.dtype = "String", !.cells = padded] ELSE t[k]])

Digits == <<"0", "1", "2">>

\* _int_from_text: digits only, else null.
IntFromText(chars) ==
    LET value(c) == (CHOOSE d \in DOMAIN Digits : Digits[d] = c) - 1
    IN  IF chars = <<>> \/ ~(ToSet(chars) \subseteq ToSet(Digits)) THEN None
        ELSE Num(FoldLeft(LAMBDA acc, c : 10 * acc + value(c), 0, chars))

\* The two spellings of a month, compact and dashed.
DashedMonth == ("202401" :> "2024-01") @@ ("2024-01" :> "2024-01")

IsMonth(x) == IsText(x) /\ Len(x.text) = 1 /\ x.text[1] \in DOMAIN DashedMonth

\* cast_expression: null where the value has no meaning in the target.
CastCell(x, target) ==
    CASE x = None -> None
      [] target = "str" -> AsText(x)
      [] target = "int" -> IF IsNum(x) THEN x ELSE IntFromText(x.text)
      [] target = "int_comma" -> IntFromText(SelectSeq(AsText(x).text, LAMBDA c : c # ","))
      [] OTHER -> Txt(<<DashedMonth[AsText(x).text[1]]>>)

CastDtype(target) == IF target \in {"int", "int_comma"} THEN "Int64" ELSE "String"

\* _check_year_month and _apply_casts: a value is never cast to null.
Casts(t, casts) ==
    LET monthly == {c \in DOMAIN casts \cap ColumnNames(t) : casts[c] = "year_month"}
        bad == \E c \in monthly : \E i \in Present(Column(t, c).cells) :
                   ~IsMonth(AsText(Column(t, c).cells[i]))
        cast == [k \in DOMAIN t |-> IF t[k].name \in DOMAIN casts
                    THEN [t[k] EXCEPT !.dtype = CastDtype(casts[t[k].name]),
                                      !.cells = [i \in DOMAIN @ |-> CastCell(@[i], casts[t[k].name])]]
                    ELSE t[k]]
    IN  IF bad THEN Refused("not_a_month")
        ELSE IF ~(DOMAIN casts \subseteq ColumnNames(t)) THEN Refused("cast_absent")
        ELSE IF \E k \in DOMAIN t : Present(cast[k].cells) # Present(t[k].cells) THEN Refused("cast_loses")
        ELSE Done(cast)

\* _escape_join_key_part.
EscapePart(chars) ==
    FlattenSeq([i \in DOMAIN chars |->
        IF chars[i] \in {"|", "\\"} THEN <<"\\", chars[i]>> ELSE <<chars[i]>>])

\* The parts joined by the separator; null when one of them is.
JoinKey(parts) ==
    IF \E i \in DOMAIN parts : parts[i] = None THEN None
    ELSE Txt(FoldLeft(LAMBDA acc, i : acc \o (IF i = 1 THEN <<>> ELSE <<"|">>)
                                          \o EscapePart(AsText(parts[i]).text),
                      <<>>, [i \in DOMAIN parts |-> i]))

\* Year, month and day; only day 1 of months 1 and 2 is a date here.
DateOf(parts) ==
    LET number(i) == IntFromText(AsText(parts[i]).text)
    IN  IF \E i \in DOMAIN parts : parts[i] = None THEN None
        ELSE IF number(1) # None /\ number(2) \in {Num(1), Num(2)} /\ number(3) = Num(1)
        THEN [date |-> <<number(1), number(2), number(3)>>] ELSE None

\* _apply_derived.
Derive(t, rule) ==
    LET parts(i) == [n \in DOMAIN rule.columns |-> Column(t, rule.columns[n]).cells[i]]
        cell(i) == IF rule.kind = "join_key" THEN JoinKey(parts(i)) ELSE DateOf(parts(i))
        dtype == IF rule.kind = "join_key" THEN "String" ELSE "Date"
        loses(i) == cell(i) = None /\ \A n \in DOMAIN rule.columns : parts(i)[n] # None
    IN  IF ~(ToSet(rule.columns) \subseteq ColumnNames(t)) THEN Refused("derived_absent")
        ELSE IF rule.name \in ColumnNames(t) THEN Refused("derived_overwrites")
        ELSE IF \E i \in Rows(t) : loses(i) THEN Refused("derived_loses")
        ELSE Done(Append(t, [name |-> rule.name, dtype |-> dtype, cells |-> [i \in Rows(t) |-> cell(i)]]))

\* casefold, for the names used.
Folded(name) == IF name = "P" THEN "p" ELSE name

\* check_case_fold_collisions, reserve_row_seq.
NamesCheck(t) ==
    IF \E k, l \in DOMAIN t : k # l /\ Folded(t[k].name) = Folded(t[l].name)
    THEN Refused("case_fold_collision")
    ELSE IF "_kpubdata_row_seq" \in ColumnNames(t) THEN Refused("reserved_column")
    ELSE Done(t)

\* One step after another until one refuses.
Then(r, Step(_)) == IF r.code = "ok" THEN Step(r.table) ELSE r

\* normalize_table.
Normalize(raw, s) ==
    LET refusal == NullTokenRefusal(raw, s.column_null_tokens)
        loaded == Load(NullTokened(raw, ToSet(s.null_tokens), s.column_null_tokens), DOMAIN s.read_as)
        merged == Then(loaded, LAMBDA t : CoalesceAll(t, s.coalesce))
        renamed == Then(merged, LAMBDA t : Rename(t, s.rename))
        filled == FoldLeft(LAMBDA r, c : Then(r, LAMBDA t : Zfill(t, c, s.zfill[c])),
                           renamed, Sorted(DOMAIN s.zfill))
        cast == Then(filled, LAMBDA t : IF s.casts = <<>> THEN Done(t) ELSE Casts(t, s.casts))
        derived == FoldLeft(LAMBDA r, rule : Then(r, LAMBDA t : Derive(t, rule)), cast, s.derived)
    IN  IF refusal # "ok" THEN Refused(refusal) ELSE Then(derived, NamesCheck)

\* validate_table.
TableProblems(t, required, dtypes) ==
    {<<"missing_column", c>> : c \in ToSet(required) \ ColumnNames(t)}
      \cup {<<"dtype_mismatch", c>> : c \in {c \in DOMAIN dtypes :
               c \notin ColumnNames(t) \/ Column(t, c).dtype # CastDtype(dtypes[c])}}

\* scan_pii: findings by value, in text columns only, and by name.  The character "@" makes
\* a text one that a pattern finds, the column "q" has a suspect name.
ScanPii(t) ==
    {c \in ColumnNames(t) :
        \/ Column(t, c).dtype = "String"
             /\ \E x \in Range(Column(t, c).cells) : x # None /\ "@" \in ToSet(x.text)
        \/ c = "q"}

----------------------------------------------------------------------------
(* Quality rules.  A check gives no result when it has nothing to judge.   *)

Severity(violated, severity) ==
    IF ~violated THEN "pass" ELSE IF severity = "fail" THEN "fail" ELSE "warn"

Judged(rule, column, status) == {[rule |-> rule, column |-> column, status |-> status]}

\* _schema_results.
SchemaResults(t, required, dtypes) ==
    UNION {Judged("required_column", c, IF c \in ColumnNames(t) THEN "pass" ELSE "fail") :
               c \in ToSet(required)}
      \cup UNION {Judged("dtype", c, IF Column(t, c).dtype = CastDtype(dtypes[c]) THEN "pass" ELSE "fail") :
               c \in DOMAIN dtypes \cap ColumnNames(t)}

\* _duplicate_result: the share of rows that are repeats, in per cent.
DuplicateResult(t, policy) ==
    LET rows == Rows(t)
        distinct == {[k \in DOMAIN t |-> t[k].cells[i]] : i \in rows}
    IN  IF policy.max_duplicate_rate = None THEN {}
        ELSE Judged("max_duplicate_rate", None,
                 Severity(100 * (Cardinality(rows) - Cardinality(distinct))
                              > policy.max_duplicate_rate * Cardinality(rows),
                          policy.max_duplicate_rate_severity))

\* _null_ratio_results: nothing is said of no rows or of a column that is not there.
NullRatioResults(t, policy) ==
    UNION {LET cells == Column(t, c).cells
           IN  Judged("max_null_ratio", c,
                   Severity(100 * (Len(cells) - Cardinality(Present(cells)))
                                > policy.max_null_ratio[c] * Len(cells),
                            Field(policy.max_null_ratio_severity, c, "warn"))) :
           c \in {c \in DOMAIN policy.max_null_ratio \cap ColumnNames(t) : Rows(t) # {}}}

\* _min_rows_result.
MinRowsResult(t, policy) ==
    IF policy.min_rows = None THEN {}
    ELSE Judged("min_rows", None, Severity(Cardinality(Rows(t)) < policy.min_rows, policy.min_rows_severity))

Numeric(t, c) == Column(t, c).dtype = "Int64"

InRange(x, rule) == /\ rule.min # None => x.num >= rule.min
                    /\ rule.max # None => x.num <= rule.max

\* _range_result: values that are no numbers violate the rule.
RangeResult(t, rule) ==
    LET cells == Column(t, rule.column).cells
    IN  IF rule.column \notin ColumnNames(t) \/ (rule.min = None /\ rule.max = None) THEN {}
        ELSE IF Present(cells) = {} THEN {}
        ELSE Judged("range", rule.column,
                 Severity(\/ ~Numeric(t, rule.column)
                          \/ \E i \in Present(cells) : ~InRange(cells[i], rule), rule.severity))

\* _comparable.
Comparable(t, a, b) ==
    \/ Numeric(t, a) /\ Numeric(t, b)
    \/ Column(t, a).dtype = Column(t, b).dtype /\ Column(t, a).dtype # "Null"

\* The operators eq and lte; texts are compared by the position of their character.
Satisfies(x, op, y) ==
    LET rank(v) == IF IsNum(v) THEN v.num ELSE CHOOSE n \in DOMAIN Alphabet : <<Alphabet[n]>> = v.text
    IN  IF op = "eq" THEN x = y ELSE rank(x) <= rank(y)

\* _compare_columns_result.
CompareResult(t, rule) ==
    LET left == Column(t, rule.left).cells
        right == Column(t, rule.right).cells
        both == Present(left) \cap Present(right)
    IN  IF ~({rule.left, rule.right} \subseteq ColumnNames(t)) THEN {}
        ELSE IF both = {} THEN {}
        ELSE Judged("compare_columns", rule.left,
                 Severity(\/ ~Comparable(t, rule.left, rule.right)
                          \/ \E i \in both : ~Satisfies(left[i], rule.op, right[i]), rule.severity))

\* evaluate_quality.
EvaluateQuality(t, policy, required, dtypes) ==
    SchemaResults(t, required, dtypes)
      \cup (IF policy = None THEN {}
            ELSE DuplicateResult(t, policy) \cup NullRatioResults(t, policy) \cup MinRowsResult(t, policy)
                   \cup UNION {RangeResult(t, policy.range[i]) : i \in DOMAIN policy.range}
                   \cup UNION {CompareResult(t, policy.compare_columns[i]) :
                                   i \in DOMAIN policy.compare_columns})

----------------------------------------------------------------------------
(* Drift.  A run is [id, dataset, ok, owner, finished, coverage, contract, *)
(* readable, columns, rows]; columns gives each column its type.           *)

\* detect_drift: what one axis reports.
DetectDrift(now, before, axis) ==
    LET size(n) == IF n < 0 THEN -n ELSE n
    IN  IF axis = "volume"
        THEN IF before.rows > 0 /\ 2 * size(now.rows - before.rows) > before.rows
             THEN {<<"row_count_jump", None>>} ELSE {}
        ELSE {<<"column_added", c>> : c \in DOMAIN now.columns \ DOMAIN before.columns}
               \cup {<<"column_removed", c>> : c \in DOMAIN before.columns \ DOMAIN now.columns}
               \cup {<<"dtype_changed", c>> :
                        c \in {c \in DOMAIN now.columns \cap DOMAIN before.columns :
                                   now.columns[c] # before.columns[c]}}

\* _volume_comparability: why an earlier run's row count says nothing, or None.
Incomparable(now, r) ==
    IF r.coverage = None THEN "coverage_unknown"
    ELSE IF r.coverage # now.coverage THEN "coverage_mismatch"
    ELSE IF r.contract # now.contract THEN "schema_contract_changed" ELSE None

NoBaseline(reason) == [run |-> None, reason |-> reason]

Baseline(r) == [run |-> r, reason |-> "ok"]

\* Newest by (finished_at, run id).
Newest(rs) == CHOOSE r \in rs : \A q \in rs : <<q.finished, q.id>> = <<r.finished, r.id>>
                                   \/ q.finished < r.finished \/ (q.finished = r.finished /\ q.id < r.id)

\* Earlier runs of this dataset that succeeded, by this owner when one is asked for.
Earlier(runs, now) == {r \in runs : r.id # now.id /\ r.dataset = now.dataset /\ r.ok}

\* Mutant: a run without an owner may be compared with anyone's.
OwnedRunsLoose(rs, owner) == {r \in rs : owner = None \/ r.owner \in {owner, None}}

OwnedRuns(rs, owner) == {r \in rs : owner = None \/ r.owner = owner}

\* find_previous_silver; on the volume axis only comparable runs are candidates.
FindPrevious(runs, now, owner, axis) ==
    LET owned == OwnedRuns(Earlier(runs, now), owner)
        rejected == IF axis = "volume" THEN {Incomparable(now, r) : r \in owned} \ {None} ELSE {}
        candidates == {r \in owned : axis = "volume" => Incomparable(now, r) = None}
        unowned == \E r \in Earlier(runs, now) \ owned : r.owner = None
    IN  IF candidates # {}
        THEN IF Newest(candidates).readable THEN Baseline(Newest(candidates))
             ELSE NoBaseline("no_committed_snapshot")
        ELSE NoBaseline(FirstRefusal(<<
                 <<"coverage_unknown" \in rejected, "coverage_unknown">>,
                 <<"coverage_mismatch" \in rejected, "coverage_mismatch">>,
                 <<"schema_contract_changed" \in rejected, "schema_contract_changed">>,
                 <<unowned, "owner_unknown">>,
                 <<TRUE, "no_committed_snapshot">>>>))

\* select_baseline over the catalog's committed snapshots of one table.
SelectBaseline(snapshots, now, owner, axis) ==
    LET candidates == {s \in snapshots : s.ok /\ s.id # now.id}
        owned == {s \in candidates : s.owner = owner}
        covered == {s \in owned : s.coverage = now.coverage}
        comparable == {s \in covered : s.contract = now.contract}
        code == FirstRefusal(<<
            <<owned = {} /\ \E s \in candidates : s.owner = None, "owner_unknown">>,
            <<owned = {}, "no_committed_snapshot">>,
            <<axis = "volume" /\ now.coverage = None, "coverage_unknown">>,
            <<axis = "volume" /\ now.contract = None, "schema_contract_changed">>,
            <<axis = "volume" /\ covered = {}, "coverage_mismatch">>,
            <<axis = "volume" /\ comparable = {}, "schema_contract_changed">>>>)
    IN  IF code # "ok" THEN NoBaseline(code)
        ELSE Baseline(Newest(IF axis = "schema" THEN owned ELSE comparable))

\* The silver stage: each axis is compared with its baseline or says why not.
Drift(runs, now, owner) ==
    [axis \in {"schema", "volume"} |->
        LET found == FindPrevious(runs, now, owner, axis)
        IN  [evaluated |-> found.run # None, reason |-> found.reason,
             findings |-> IF found.run = None THEN {} ELSE DetectDrift(now, found.run, axis)]]
=============================================================================
