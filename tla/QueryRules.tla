---------------------------- MODULE QueryRules ----------------------------
(***************************************************************************)
(* What a read computes: a page of rows, an aggregate, a column profile,   *)
(* and which SQL is let through.  A table is a sequence of rows [k, u, v]  *)
(* (a grouping key, a unit, a number) and 0 is null in every column.       *)
(***************************************************************************)
EXTENDS RuleBase

----------------------------------------------------------------------------
(* Filters.  A condition as the request gives it: a value and a list of    *)
(* values may each be given or not.                                        *)

ValueOps == {"eq", "ne", "lt", "gte"}

NoValueOps == {"is_null", "is_not_null"}

\* parse_filters: every operator gets exactly the operand it needs, never null.
FilterParses(f) ==
    /\ f.op \in ValueOps \cup NoValueOps \cup {"in"}
    /\ CASE f.op \in ValueOps -> f.value.given /\ f.value.val # 0 /\ ~f.values.given
         [] f.op = "in" -> ~f.value.given /\ f.values.given /\ f.values.val # {}
                           /\ 0 \notin f.values.val
         [] OTHER -> ~f.value.given /\ ~f.values.given

Compare(op, a, b) ==
    CASE op = "eq" -> a = b [] op = "ne" -> a # b [] op = "lt" -> a < b [] op = "gte" -> a >= b

\* _sql_predicate: SQL's three-valued answer; a comparison with null is unknown.
SqlAnswer(f, x) ==
    CASE f.op = "is_null" -> IF x = 0 THEN "true" ELSE "false"
      [] f.op = "is_not_null" -> IF x = 0 THEN "false" ELSE "true"
      [] f.op = "in" -> IF x # 0 /\ x \in f.values.val THEN "true"
                        ELSE IF x = 0 \/ 0 \in f.values.val THEN "unknown" ELSE "false"
      [] OTHER -> IF x = 0 \/ f.value.val = 0 THEN "unknown"
                  ELSE IF Compare(f.op, x, f.value.val) THEN "true" ELSE "false"

\* filter_predicate: the same condition as a Polars expression; "in" is any_horizontal
\* over equalities, each null when the cell is.
PolarsAnswer(f, x) ==
    LET eq(y) == IF x = 0 \/ y = 0 THEN "unknown" ELSE IF x = y THEN "true" ELSE "false"
        each == {eq(y) : y \in f.values.val}
    IN  CASE f.op = "is_null" -> IF x = 0 THEN "true" ELSE "false"
          [] f.op = "is_not_null" -> IF x # 0 THEN "true" ELSE "false"
          [] f.op = "in" -> IF "true" \in each THEN "true"
                            ELSE IF "unknown" \in each THEN "unknown" ELSE "false"
          [] OTHER -> IF x = 0 THEN "unknown"
                      ELSE IF Compare(f.op, x, f.value.val) THEN "true" ELSE "false"

\* The row numbers a WHERE of these conditions keeps.
Kept(table, filters) ==
    {i \in DOMAIN table : \A f \in filters : SqlAnswer(f, table[i][f.column]) = "true"}

----------------------------------------------------------------------------
(* Pages of rows.                                                          *)

\* One sort key's verdict on two cells: -1, 0 or 1, nulls last either way.
CellOrder(x, y, desc) ==
    IF x = y THEN 0
    ELSE IF x = 0 \/ y = 0 THEN (IF x = 0 THEN 1 ELSE -1)
    ELSE IF (x < y) = desc THEN 1 ELSE -1

\* The first key that tells two rows apart decides.
KeyOrder(sort, r, s) ==
    LET told == {n \in DOMAIN sort : CellOrder(r[sort[n].column], s[sort[n].column], sort[n].desc) # 0}
    IN  IF told = {} THEN 0
        ELSE LET n == CHOOSE n \in told : \A m \in told : n <= m
             IN  CellOrder(r[sort[n].column], s[sort[n].column], sort[n].desc)

\* ORDER BY the sort keys and then the row's place in the file.
SortedRows(table, rows, sort) ==
    SetToSortSeq(rows, LAMBDA i, j : \/ KeyOrder(sort, table[i], table[j]) = -1
                                     \/ KeyOrder(sort, table[i], table[j]) = 0 /\ i < j)

\* The row at offset + page_size, without any order.
Beyond(table, plan) == Cardinality(Kept(table, plan.filters)) > plan.offset + plan.size

\* read_page: the rows of the page, the exact count if asked for, and has_more.
ReadPage(table, plan) ==
    LET kept == Kept(table, plan.filters)
        ordered == SortedRows(table, kept, plan.sort)
    IN  [rows |-> SubSeq(ordered, plan.offset + 1,
                         IF plan.offset + plan.size < Len(ordered) THEN plan.offset + plan.size
                         ELSE Len(ordered)),
         count |-> IF plan.count THEN Cardinality(kept) ELSE -1,
         more |-> Beyond(table, plan)]

\* The answer's next_offset (-1: none) and its count, which without filters falls back on
\* the snapshot's recorded row count (-1: not recorded).
NextOffset(page, plan) == IF page.more THEN plan.offset + Len(page.rows) ELSE -1

AnswerCount(page, plan, recorded) ==
    IF page.count = -1 /\ plan.filters = {} THEN recorded ELSE page.count

----------------------------------------------------------------------------
(* Aggregates.                                                             *)

\* _parse_measure: count_rows takes no column, sum needs additive, nothing else may
\* claim it.
MeasureParses(m) ==
    /\ (m.fn = "count_rows") = (m.column = "")
    /\ m.fn = "sum" => m.additive = "yes"
    /\ m.fn # "sum" => m.additive = "absent"

\* key_columns: splitting by unit makes the unit a key.
Keys(plan) ==
    IF plan.unit /\ plan.policy = "split" THEN plan.group \cup {"u"} ELSE plan.group

\* output_columns: keys, the unit when it is no key, the measures' names.
OutputColumns(plan) ==
    Keys(plan) \cup (IF plan.unit THEN {"u"} ELSE {}) \cup {m.alias : m \in plan.measures}

\* parse_aggregate_plan: names are unique and apart from the keys, the order's keys are
\* output columns.
AggregateParses(plan) ==
    /\ plan.measures # {} /\ \A m \in plan.measures : MeasureParses(m)
    /\ \A m, n \in plan.measures : m # n => m.alias # n.alias
    /\ {m.alias : m \in plan.measures} \cap (plan.group \cup (IF plan.unit THEN {"u"} ELSE {})) = {}
    /\ plan.order # "" => plan.order \in OutputColumns(plan)

\* check_aggregate_plan: what the column types allow; types says of each column whether
\* it is "number", "text", "flag" or "nested".
AggregateChecks(plan, types) ==
    /\ \A c \in plan.group \cup (IF plan.unit THEN {"u"} ELSE {}) : types[c] # "nested"
    /\ \A m \in plan.measures : m.column # "" =>
         /\ types[m.column] # "nested"
         /\ m.fn = "sum" => types[m.column] = "number"
         /\ m.fn \in {"min", "max"} => types[m.column] \in {"number", "text"}

\* The groups: sets of row numbers that agree on the keys (nulls are one value); with no
\* key one group, also of an empty table.
Groups(table, kept, keys) ==
    IF keys = {} THEN {kept}
    ELSE {{j \in kept : \A c \in keys : table[j][c] = table[i][c]} : i \in kept}

\* _measure_sql.
MeasureOf(table, group, m) ==
    LET present == {i \in group : table[i][m.column] # 0}
    IN  CASE m.fn = "count_rows" -> Cardinality(group)
          [] m.fn = "count" -> Cardinality(present)
          [] m.fn = "count_null" -> Cardinality(group) - Cardinality(present)
          [] m.fn = "count_distinct" -> Cardinality({table[i][m.column] : i \in present})
          [] m.fn = "sum" -> IF present = {} THEN 0
                             ELSE MapThenSumSet(LAMBDA i : table[i][m.column], present)
          [] m.fn = "max" -> IF present = {} THEN 0
                             ELSE CHOOSE x \in {table[i][m.column] : i \in present} :
                                      \A i \in present : table[i][m.column] <= x

\* Mutant: rows without a unit are not counted as a unit of their own.
UnitsNonNull(table, group) == {table[i].u : i \in group} \ {0}

\* units_n counts the distinct units and null as one more.
Units(table, group) == {table[i].u : i \in group}

\* run_aggregate: refused for too many groups, then for a group of several units when the
\* unit is not a key; else the groups.
Aggregate(table, plan, maxGroups) ==
    LET kept == Kept(table, plan.filters)
        keys == Keys(plan)
        groups == Groups(table, kept, keys)
    IN  IF Cardinality(groups) > maxGroups THEN [code |-> "too_many_groups", groups |-> {}]
        ELSE IF plan.unit /\ "u" \notin keys /\ \E g \in groups : Cardinality(Units(table, g)) > 1
             THEN [code |-> "mixed_units", groups |-> {}]
             ELSE [code |-> "ok", groups |-> groups]

\* ORDER BY the asked key (descending, nulls last), then every key not asked for.
GroupBefore(table, plan, g, h) ==
    LET value(s) == IF plan.order \in {m.alias : m \in plan.measures}
                    THEN MeasureOf(table, s, CHOOSE m \in plan.measures : m.alias = plan.order)
                    ELSE table[CHOOSE i \in s : TRUE][plan.order]
        byOrder == IF plan.order = "" THEN 0 ELSE CellOrder(value(g), value(h), TRUE)
        rest == <<[column |-> "k", desc |-> FALSE], [column |-> "u", desc |-> FALSE]>>
        keys == SelectSeq(rest, LAMBDA s : s.column \in Keys(plan) \ {plan.order})
    IN  \/ byOrder = -1
        \/ byOrder = 0 /\ g # {} /\ h # {}
             /\ KeyOrder(keys, table[CHOOSE i \in g : TRUE], table[CHOOSE i \in h : TRUE]) = -1

\* The answer: the first "limit" groups, truncated when there are more, or none when they
\* are too large to send.
TopGroups(table, plan, groups, maxSent) ==
    LET ordered == SetToSortSeq(groups, LAMBDA g, h : GroupBefore(table, plan, g, h))
        n == IF Len(ordered) < plan.limit THEN Len(ordered) ELSE plan.limit
    IN  IF n > maxSent THEN [code |-> "result_too_large", rows |-> <<>>, truncated |-> FALSE]
        ELSE [code |-> "ok", rows |-> SubSeq(ordered, 1, n), truncated |-> n < Cardinality(groups)]

----------------------------------------------------------------------------
(* Column profiles.  A column's type is a sequence of containers ("List",  *)
(* "Struct") around leaf types; pii says whether a text in it matches a    *)
(* pattern, name whether its name looks like one.                          *)

\* _can_hold_text: some leaf is text or a type that is not known.
CanHoldText(c) == c.leaves \cap {"text", "other"} # {}

\* The values are looked at in a text column and in a list of texts.
Checked(c) == c.leaves = {"text"} /\ c.wraps \in {<<>>, <<"List">>}

\* profile_table: the kinds found.
PiiKinds(c) ==
    (IF Checked(c) /\ c.pii THEN {"pattern"} ELSE {})
      \cup (IF ~Checked(c) /\ CanHoldText(c) THEN {"unchecked_values"} ELSE {})
      \cup (IF c.name THEN {"name"} ELSE {})

Sensitivity(c, allowed) ==
    IF PiiKinds(c) = {} THEN "not_detected" ELSE IF allowed THEN "allowed_by_spec" ELSE "suspected"

\* _range_body: finite values only, and not of a small group.
RangeStatus(c, finite, minimum) ==
    IF c.wraps # <<>> \/ ~(c.leaves \subseteq {"number", "date"}) THEN "not_applicable"
    ELSE IF finite = 0 THEN "no_values"
    ELSE IF finite < minimum THEN "withheld_small_group" ELSE "exact"

ProfileColumn(c, allowed, finite, minimum) ==
    IF Sensitivity(c, allowed) = "suspected" THEN [status |-> "withheld", range |-> "none"]
    ELSE [status |-> "profiled", range |-> RangeStatus(c, finite, minimum)]

----------------------------------------------------------------------------
(* Which SQL is let through.  A statement has common tables in order and a *)
(* main query; each is a scope with the relations it names, the functions  *)
(* it calls and whether it samples.  A relation is "dataset", another      *)
(* table, a quoted, qualified or function relation, or a common table.     *)

Scopes(q) == {q.main} \cup {q.ctes[i].body : i \in DOMAIN q.ctes}

\* _reject_unsupported_relations and _reject_unsafe_functions.
SafeScope(s) ==
    /\ s.relations \cap {"values", "tablefunction"} = {}
    /\ ~s.samples
    /\ s.calls \cap {"introspective", "nondeterministic"} = {}

\* With: not recursive, and no common table shadows dataset.
NamesOk(q) == ~q.recursive /\ \A i \in DOMAIN q.ctes : q.ctes[i].name # "dataset"

\* _validate_scope: what is not a common table in scope must be the plain dataset.
Resolves(q, s, before) ==
    \A r \in s.relations : r \in {q.ctes[i].name : i \in 1..before} \cup {"dataset"}

\* _reachable_dataset_refs: whether the scope, or a common table it selects from, reads
\* dataset.
Reaches(q) ==
    LET names(i) == {q.ctes[j].name : j \in 1..i - 1}
        own[i \in 1..Len(q.ctes)] ==
            \/ "dataset" \in q.ctes[i].body.relations \ names(i)
            \/ \E j \in 1..i - 1 : q.ctes[j].name \in q.ctes[i].body.relations /\ own[j]
    IN  \/ "dataset" \in q.main.relations \ names(Len(q.ctes) + 1)
        \/ \E j \in 1..Len(q.ctes) : q.ctes[j].name \in q.main.relations /\ own[j]

ValidateSql(q) ==
    /\ q.kind = "select" /\ NamesOk(q)
    /\ \A s \in Scopes(q) : SafeScope(s)
    /\ \A i \in DOMAIN q.ctes : Resolves(q, q.ctes[i].body, i - 1)
    /\ Resolves(q, q.main, Len(q.ctes))
    /\ Reaches(q)

----------------------------------------------------------------------------
(* A run's own table.                                                      *)

\* resolve_query_context: which check refuses first.
QueryContext(r) ==
    FirstRefusal(<<<<r.stage \notin {"silver", "gold"}, "bad_stage">>,
                   <<~r.manifest, "no_run">>,
                   <<~r.owned, "forbidden">>,
                   <<r.dataset # r.asked, "wrong_dataset">>,
                   <<r.source = "" /\ Cardinality(r.sources) # 1, "source_needed">>,
                   <<r.source # "" /\ r.source \notin r.sources, "wrong_source">>,
                   <<~r.completed \/ r.file # "file", "unavailable">>>>)

\* QueryApiService.query: a deployment of several users hides that a foreign run exists.
ContextAnswer(r, hides) ==
    CASE QueryContext(r) = "forbidden" -> IF hides THEN <<400, "no_run">> ELSE <<403, "forbidden">>
      [] QueryContext(r) = "unavailable" -> <<404, "unavailable">>
      [] QueryContext(r) = "ok" -> <<200, "ok">>
      [] OTHER -> <<400, QueryContext(r)>>
=============================================================================
