------------------------------ MODULE PlanGuard ------------------------------
(***************************************************************************)
(* The SQL the model writes for a valid plan and the guard that compares   *)
(* the two before the database sees it (security/query_plan_guard.py and   *)
(* the row limit of security/sql_guard.py).                                *)
(*                                                                         *)
(* The guard looks at the syntax of one SELECT; here, a record.  Next to   *)
(* it stands what it is for: Meaning, the rows a query selects from, what  *)
(* it groups by and what it returns.                                       *)
(***************************************************************************)
EXTENDS QueryPlanning, Integers

CONSTANTS
    SqlPredicates,      \* predicates the model may write
    Words,              \* what _time_preset_present looks for in the text of a bound
    Dates,              \* expressions of a date, and the words in the text of each
    DateWords,
    PresetBounds,       \* the bounds the preset of a time range asks for
    TimeNeeds,          \* the words its check looks for, by the side of the bounds
    MaxRows,            \* max_rows of sql_guard
    MaxEdits            \* bound: how far the SQL may be from the plan's own

VARIABLES
    sql,        \* the SELECT under review
    edits       \* how many edits away from the plan's own SQL

guardVars == <<stage, bundle, plan, sql, edits>>

Domain == {-1, 1, 2, 3}     \* values a column may have
Nothing == "nothing"
Operators == {"EQ", "NE", "IN", "GT", "GTE", "LT", "LTE"}
Sides == {"lower", "upper", "equal"}

\* A predicate compares a column with string literals, numbers or dates; one
\* that is flipped has the column on the right.
Arguments == [n : Domain, form : {"string", "number"} \cup Dates]
Predicates == [col : Columns, op : Operators, args : SUBSET Arguments, flipped : BOOLEAN]
Values(p) == {a.n : a \in p.args}

\* The words in the text of a predicate, and the side on which it bounds a column.
WordsOf(p) == UNION {DateWords[a.form] : a \in {x \in p.args : x.form \in Dates}}
Side(p) ==
    CASE p.op = "EQ" -> "equal"
      [] p.op \in {"GT", "GTE"} -> IF p.flipped THEN "upper" ELSE "lower"
      [] p.op \in {"LT", "LTE"} -> IF p.flipped THEN "lower" ELSE "upper"
      [] OTHER -> "none"
BoundWords(P, side) == UNION {WordsOf(p) : p \in {o \in P : Side(o) = side}}

\* The predicates of a metric are conjuncts of its example SQL, and its columns
\* are those of this SQL.  The bounds of a preset pass its check.  MAX_QUERY_ROWS
\* is not below the limit of a plan, as it is by default (both 200).
ASSUME GuardAssumption ==
    /\ SqlPredicates \subseteq Predicates
    /\ FilterPool \subseteq [col : Columns, op : Operators, vals : (SUBSET Domain) \ {{}},
                              kind : {"ids", "literals"}]
    /\ \A f \in FilterPool : f.op # "IN" => \E n \in Domain : f.vals = {n}
    /\ MetricPredicates \in [Metrics -> SUBSET Predicates]
    /\ \A m \in Metrics : {p.col : p \in MetricPredicates[m]} \subseteq MetricColumns[m]
    /\ Dates \cap {"string", "number"} = {} /\ DateWords \in [Dates -> SUBSET Words]
    /\ PresetBounds \subseteq Predicates /\ PresetBounds # {} /\ \A p \in PresetBounds : p.col = TimeColumn
    /\ TimeNeeds \subseteq [Sides -> SUBSET Words]
    /\ \E need \in TimeNeeds : \A side \in Sides : need[side] \subseteq BoundWords(PresetBounds, side)
    /\ Nothing \notin Assets
    /\ MaxRows \in Nat /\ PlanLimit <= MaxRows /\ MaxEdits \in Nat

\* A predicate of the WHERE clause stands there by itself, in a disjunction
\* with the others that do, or under a parenthesised NOT.
In(p, under) ==
    [col |-> p.col, op |-> p.op, args |-> p.args, flipped |-> p.flipped, under |-> under]
Written(P) == {In(p, "and") : p \in P}

TimeBounds(d) == IF d.time THEN PresetBounds ELSE {}

\* A value of the dictionary is written as a string, a literal as a number.
FormOf(f) == IF f.kind = "ids" THEN "string" ELSE "number"
AsPredicate(f) ==
    [col |-> f.col, op |-> f.op, args |-> {[n |-> n, form |-> FormOf(f)] : n \in f.vals},
     flipped |-> FALSE]
PlanFilters(d) == {AsPredicate(f) : f \in d.filters}

RequiredPredicates(d) == UNION {MetricPredicates[m] : m \in d.metrics}
PlannedTables(d) == ReferencedTables(d) \cup TablesOf(d.joins)
PlannedOutputs(d) == d.metrics \cup d.dims

\* The SQL a plan asks for.  Rows are grouped where there is something to
\* aggregate or a grain.
OwnSql(d) ==
    [flat |-> TRUE,
     tables |-> [t \in Tables |-> IF t \in PlannedTables(d) THEN 1 ELSE 0],
     joins |-> [r \in Relations |-> IF r \in d.joins THEN "inner" ELSE "none"],
     where |-> Written(PlanFilters(d) \cup RequiredPredicates(d) \cup TimeBounds(d)),
     outputs |-> [n \in Assets |-> IF n \in PlannedOutputs(d) THEN n ELSE Nothing],
     group |-> IF d.metrics \cup d.grain = {} THEN {} ELSE d.dims, sorted |-> TRUE, limit |-> PlanLimit]

-----------------------------------------------------------------------------
(* query_plan_alignment_errors.                                            *)

Joined(q) == {r \in Relations : q.joins[r] # "none"}
OutputNames(q) == {n \in Assets : q.outputs[n] # Nothing}
Selected(q) == {q.outputs[n] : n \in OutputNames(q)}
SelectedColumns(q) == Selected(q) \cap Columns
MetricColumnsOf(S) == UNION {MetricColumns[m] : m \in S \cap Metrics}
WhereColumns(q) == {p.col : p \in q.where}
JoinColumns(q) == UNION {Ends[r] : r \in Joined(q)}
ActualColumns(q) ==
    WhereColumns(q) \cup JoinColumns(q) \cup SelectedColumns(q) \cup q.group
      \cup MetricColumnsOf(Selected(q))

\* QueryPlan v1 knows one flat SELECT.
Flat(q) == q.flat

PlannedColumnsPresent(d, q) ==
    PlainColumns(d) \cup MetricColumnsOf(d.metrics) \subseteq ActualColumns(q)

\* The expression of each metric, and its own predicates among the conjuncts.
MetricsPresent(d, q) ==
    /\ \A m \in d.metrics : q.outputs[m] = m
    /\ Written(RequiredPredicates(d)) \subseteq q.where

JoinsPresent_Fault(d, q) == d.joins \subseteq Joined(q)
\* Every relation of the chosen paths, as an inner join.
JoinsPresent(d, q) == \A r \in d.joins : q.joins[r] = "inner"

\* The columns a plan has predicates on; with those it joins by, the ones that
\* predicates of the SQL may be on.
ComparedColumns(d) ==
    FilterColumns(d) \cup TimeColumns(d) \cup {p.col : p \in RequiredPredicates(d)}

AllowedColumns_Fault(d) ==
    FilterColumns(d) \cup TimeColumns(d) \cup UNION {Ends[r] : r \in d.joins}
AllowedColumns(d) == ComparedColumns(d) \cup UNION {Ends[r] : r \in d.joins}
NothingUnplanned(d, q) ==
    /\ WhereColumns(q) \cup JoinColumns(q) \subseteq AllowedColumns(d)
    /\ {t \in Tables : q.tables[t] > 0} \subseteq PlannedTables(d)

\* _operator_nodes outside disjunctions: for one column, all predicates of one
\* operator are seen together, whichever side the column is on; a negation
\* around them is not seen.
OperatorNodes(q, col, op) == {p \in q.where : p.col = col /\ p.op = op /\ p.under # "or"}

\* _predicate_literals_for_column.  The sign of a number is no part of its literal.
Digits(n) == IF n < 0 THEN -n ELSE n
Strings(P) == UNION {{a.n : a \in {x \in p.args : x.form = "string"}} : p \in P}
Numbers(P) == UNION {{Digits(a.n) : a \in {x \in p.args : x.form = "number"}} : p \in P}

\* Values of the dictionary are looked for among the strings only, literals
\* among the numbers only.
FiltersPresent(d, q) ==
    \A f \in d.filters :
      LET nodes == OperatorNodes(q, f.col, f.op)
      IN nodes # {} /\ f.vals = IF f.kind = "ids" THEN Strings(nodes) ELSE Numbers(nodes)

\* _time_preset_present: words in the joined texts of all bounds of a side.
TimeNodes(q) == {p \in q.where : p.col = TimeColumn /\ p.under # "or"}
TimePresent(d, q) ==
    d.time => \E need \in TimeNeeds :
                \A side \in Sides : need[side] \subseteq BoundWords(TimeNodes(q), side)

\* That the grain is selected follows from the outputs.
GrainPresent(d, q) == d.grain \subseteq q.group

OutputsPlanned(d, q) ==
    /\ OutputNames(q) = PlannedOutputs(d)
    /\ \A n \in d.dims : q.outputs[n] = n

SortPlanned(q) == q.sorted

\* sql_guard refuses a query of no table and a limit above its own, and adds
\* the limit that is missing.
ReadsTables(q) == \E t \in Tables : q.tables[t] > 0
GuardedLimit(q) == IF q.limit = 0 THEN MaxRows ELSE q.limit
LimitPlanned(q) == q.limit <= MaxRows /\ GuardedLimit(q) <= PlanLimit

Accepts(d, q) ==
    /\ Flat(q)
    /\ PlannedColumnsPresent(d, q) /\ MetricsPresent(d, q) /\ JoinsPresent(d, q)
    /\ NothingUnplanned(d, q) /\ FiltersPresent(d, q) /\ TimePresent(d, q)
    /\ GrainPresent(d, q) /\ OutputsPlanned(d, q)
    /\ SortPlanned(q) /\ LimitPlanned(q) /\ ReadsTables(q)

-----------------------------------------------------------------------------
(* The model writes the SQL, and writes it anew.                           *)

GuardInit ==
    /\ stage = "ground" /\ bundle = NoBundle
    /\ plan = [metrics |-> {}, dims |-> {}, grain |-> {}, filters |-> {}, time |-> FALSE,
               joins |-> {}]
    /\ sql = OwnSql(plan) /\ edits = 0

WriteSql == DraftPlan /\ sql' = OwnSql(plan') /\ edits' = 0

Edits(q) ==
    {[q EXCEPT !.where = @ \cup {In(p, under)}] : p \in SqlPredicates, under \in {"and", "or", "not"}}
    \cup {[q EXCEPT !.where = @ \ {p}] : p \in q.where}
    \cup {[q EXCEPT !.joins[r] = kind] : r \in Relations, kind \in {"none", "inner", "left"}}
    \cup {[q EXCEPT !.tables[t] = n] : t \in Tables, n \in 0..2}
    \cup {[q EXCEPT !.outputs[n] = v] : n \in PlannedOutputs(plan), v \in Metrics \cup plan.dims \cup {Nothing}}
    \cup {[q EXCEPT !.group = (@ \ {c}) \cup ({c} \ @)] : c \in PlainColumns(plan)}
    \cup {[q EXCEPT !.sorted = ~@], [q EXCEPT !.flat = ~@]}
    \cup {[q EXCEPT !.limit = n] : n \in 0..MaxRows + 1}

RewriteSql ==
    /\ stage = "sql" /\ edits < MaxEdits
    /\ \E q \in Edits(sql) : q # sql /\ sql' = q
    /\ edits' = edits + 1
    /\ UNCHANGED planningVars

GuardNext ==
    \/ Ground /\ UNCHANGED <<sql, edits>>
    \/ WriteSql
    \/ RewriteSql

GuardSpec == GuardInit /\ [][GuardNext]_guardVars

PlanTypeOK ==
    /\ stage \in {"ground", "draft", "sql"}
    /\ DOMAIN bundle = DOMAIN NoBundle
    /\ plan.metrics \subseteq Metrics /\ plan.dims \subseteq Columns /\ plan.grain \subseteq plan.dims
    /\ plan.filters \subseteq FilterPool /\ plan.time \in BOOLEAN /\ plan.joins \subseteq Relations
    /\ sql.outputs \in [Assets -> Assets \cup {Nothing}] /\ sql.group \subseteq Columns
    /\ sql.limit \in 0..MaxRows + 1 /\ edits \in 0..MaxEdits

-----------------------------------------------------------------------------
(* What a query means.                                                     *)

\* An order comparison, of the two in the order they are written in.
Ordered(op, x, y) ==
    CASE op = "GT" -> x > y
      [] op = "GTE" -> x >= y
      [] op = "LT" -> x < y
      [] op = "LTE" -> x <= y

Holds(p, row) ==
    LET v == row[p.col]
    IN CASE p.op \in {"EQ", "IN"} -> v \in Values(p)
         [] p.op = "NE" -> v \notin Values(p)
         [] OTHER -> \A n \in Values(p) :
                       IF p.flipped THEN Ordered(p.op, n, v) ELSE Ordered(p.op, v, n)

Rows == [{p.col : p \in SqlPredicates \cup PresetBounds} -> Domain]
Under(where, under) == {p \in where : p.under = under}

SelectedRows(where) ==
    {row \in Rows :
      /\ \A p \in Under(where, "and") : Holds(p, row)
      /\ \A p \in Under(where, "not") : ~Holds(p, row)
      /\ Under(where, "or") # {} => \E p \in Under(where, "or") : Holds(p, row)}

\* What a query returns, but for its time range, of which the guard reads only words.
BesideTime(d, where) == {p \in where : ~(d.time /\ p.col = TimeColumn)}
Meaning(d, q) ==
    [rows |-> SelectedRows(BesideTime(d, q.where)), tables |-> q.tables, joins |-> q.joins,
     outputs |-> q.outputs, group |-> q.group]

\* PostgreSQL refuses a query that reads columns of tables it does not have, or
\* that aggregates and returns columns it does not group by.
Aggregates(q) == q.group # {} \/ Selected(q) \cap Metrics # {}
Runs(q) ==
    /\ \A c \in ActualColumns(q) : q.tables[TableOf[c]] > 0
    /\ Aggregates(q) => SelectedColumns(q) \subseteq q.group

\* SQL that compares a column in one place only, with the column first, strings
\* for the columns of the dictionary and numbers without a sign for the others,
\* negates nothing, groups by what the plan asks for and names a table once.  Of
\* the columns a plan joins by and those it has predicates on the guard knows
\* the names only: so no predicate of the SQL's own is on the former, and no
\* relation of its own between any of them.  The time range is left aside.
Plain(p) ==
    /\ p.under # "not" /\ ~p.flipped
    /\ \A a \in p.args :
         a.n >= 0 /\ a.form = IF p.col \in ControlledColumns THEN "string" ELSE "number"
Disciplined(d, q) ==
    /\ \A p, o \in BesideTime(d, q.where) : p.col = o.col => p = o
    /\ \A p \in BesideTime(d, q.where) : Plain(p)
    /\ q.group \subseteq OwnSql(d).group
    /\ \A t \in Tables : q.tables[t] <= 1
    /\ WhereColumns(q) \cap JoinColumns(q) \subseteq ComparedColumns(d)
    /\ \A r \in Joined(q) \ d.joins : ~(Ends[r] \subseteq AllowedColumns(d))

-----------------------------------------------------------------------------
(* Properties.                                                             *)

\* Whatever SQL the guard accepts reads the tables of the plan, joins them by
\* its relations and returns its metrics and dimensions, within its limit, of
\* rows on which the predicates of its metrics hold.
AcceptedReadsThePlan(d, q) ==
    /\ {t \in Tables : q.tables[t] > 0} = PlannedTables(d)
    /\ \A r \in d.joins : q.joins[r] = "inner"
    /\ q.outputs = OwnSql(d).outputs /\ GuardedLimit(q) <= PlanLimit
    /\ \A row \in SelectedRows(q.where), p \in RequiredPredicates(d) : Holds(p, row)

\* Of disciplined SQL it accepts what returns exactly what the plan asks for:
\* the guard's look at single nodes of the syntax adds up to the rows, joins,
\* groups and columns of the plan.
AcceptedSqlIsPlanned ==
    stage = "sql" /\ Accepts(plan, sql) /\ Runs(sql) =>
      /\ AcceptedReadsThePlan(plan, sql)
      /\ Disciplined(plan, sql) => Meaning(plan, sql) = Meaning(plan, OwnSql(plan))

\* The guard is strict about predicates, sets of values and the window of time,
\* as the architecture document says: what it accepts selects the plan's rows.
GuardIsStrict ==
    stage = "sql" /\ Accepts(plan, sql) /\ Runs(sql) =>
      SelectedRows(sql.where) = SelectedRows(OwnSql(plan).where)

\* Two filters, or a filter and a metric or the time range, that use one operator
\* on one column with different values: the guard takes their values together.
SharesOperator(d) ==
    \E f \in d.filters, p \in PlanFilters(d) \cup RequiredPredicates(d) \cup TimeBounds(d) :
      f.col = p.col /\ f.op = p.op /\ p.args # AsPredicate(f).args

\* Valid plans that no SQL is accepted for: a literal below zero is never found,
\* and a plan that names no asset has no table to read.
NoSqlFor(d) ==
    \/ \E f \in d.filters : f.kind = "literals" /\ \E n \in f.vals : n < 0
    \/ d.metrics \cup PlainColumns(d) = {}

\* The linker, the validator and the guard do not leave the model without a
\* way: connected tables can be joined by the linked paths, and the SQL a
\* valid plan asks for is accepted, but for the plans that are named above.
PlansAreExecutable ==
    /\ LinkedPathsAnswer
    /\ stage = "sql" /\ sql = OwnSql(plan) /\ ~SharesOperator(plan) /\ ~NoSqlFor(plan) =>
         Accepts(plan, sql) /\ Runs(sql)
=============================================================================
