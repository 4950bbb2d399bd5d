---------------------------- MODULE QueryPlanning ----------------------------
(***************************************************************************)
(* From a question to a valid plan (grounding/linker.py,                   *)
(* grounding/query_plan.py): the linker picks evidence and join paths from *)
(* the catalog, the model drafts a plan, the validator checks the draft    *)
(* against both.                                                           *)
(*                                                                         *)
(* Scores are data: any set of tables may come out as relevant and any     *)
(* asset may be left out of the evidence.  Every table is of one schema.   *)
(***************************************************************************)
EXTENDS Naturals, FiniteSets

CONSTANTS
    Tables, Columns, Metrics, Relations,    \* assets of the catalog
    TableOf,            \* the table of a column
    Ends,               \* the two columns a relation equates
    MetricColumns,      \* columns in the example SQL of a metric, of each table it reads
    MetricPredicates,   \* conjuncts of that SQL
    ControlledColumns,  \* columns whose values are in the dictionary
    IdentifierColumns,  \* columns named id or ..._id
    TimeColumn,         \* the column a time range may be on
    MaxHops,            \* max_join_hops
    FilterPool,         \* filters a draft may have: [col, op, vals, kind]
    DimensionPool,      \* bound: columns a draft may return
    MaxFilters,         \* bound: filters of a draft
    RelationStates,     \* bound: functions Relations -> status
    NotCurrent,         \* bound: sets of assets that may be unpublished or expired
    Unscored,           \* bound: sets of assets that may score too low
    PlanLimit           \* the limit of a plan

ASSUME PlanningAssumption ==
    /\ IsFiniteSet(Relations)
    /\ Metrics \cap Columns = {}
    /\ TableOf \in [Columns -> Tables]
    /\ Ends \in [Relations -> SUBSET Columns]
    /\ \A r \in Relations : \E a, b \in Columns : a # b /\ Ends[r] = {a, b}
    /\ MetricColumns \in [Metrics -> (SUBSET Columns) \ {{}}]
    /\ RelationStates \subseteq [Relations -> {"confirmed", "candidate", "restricted"}]
    /\ ControlledColumns \subseteq Columns /\ IdentifierColumns \subseteq Columns
    /\ TimeColumn \in Columns \ ControlledColumns /\ DimensionPool \subseteq Columns
    /\ MaxHops \in Nat /\ MaxFilters \in Nat /\ PlanLimit \in Nat \ {0}

VARIABLES
    stage,      \* ground, draft, or sql
    bundle,     \* the GroundingBundle: snapshot and catalog
    plan        \* the valid plan, its paths replaced by their relations

planningVars == <<stage, bundle, plan>>

NoBundle == [current |-> {}, confirmed |-> {}, relevant |-> {}, paths |-> {},
             evidence |-> {}, values |-> {}, ambiguous |-> FALSE]
Assets == Columns \cup Metrics
ValueIds == {<<f.col, f.vals>> : f \in {g \in FilterPool : g.kind = "ids"}}

-----------------------------------------------------------------------------
(* The linker.                                                             *)

RelationTables(r) == {TableOf[c] : c \in Ends[r]}
TablesOf(K) == UNION {RelationTables(r) : r \in K}

\* A set of relations connects two tables when every cut between them is crossed.
Connects(K, s, t) ==
    \A S \in SUBSET Tables : s \in S /\ t \notin S =>
        \E r \in K : RelationTables(r) \cap S # {} /\ ~(RelationTables(r) \subseteq S)

\* _shortest_path: breadth first over the confirmed relations, up to MaxHops.
ShortestPaths(confirmed, s, t) ==
    LET within == {K \in SUBSET confirmed : Cardinality(K) <= MaxHops /\ Connects(K, s, t)}
    IN {K \in within : \A L \in within : Cardinality(K) <= Cardinality(L)}

\* _join_paths: one path for every two relevant tables that are connected.
JoinPaths(confirmed, relevant) ==
    {CHOOSE K \in ShortestPaths(confirmed, p[1], p[2]) : TRUE :
       p \in {q \in relevant \X relevant : q[1] # q[2] /\ ShortestPaths(confirmed, q[1], q[2]) # {}}}

\* The endpoints of a path: the tables it passes once.
PathEnds(K) == {t \in TablesOf(K) : Cardinality({r \in K : t \in RelationTables(r)}) = 1}

\* What is published, unrestricted and in force.
Current(gone) == Assets \ gone

\* The scores of texts and vectors: any set of tables may come out as
\* relevant, and columns and metrics may score too low to be evidence.
Relevant == SUBSET Tables
Scored(current, unscored) == current \ unscored

\* _link_values: the dictionary's values are found in the question or not.
ValuesFound == {{}, ValueIds}

\* link: of the relations between current columns, those nobody restricts.
\* Values that score alike are an ambiguity, as is a candidate relation of two
\* relevant tables.
Link(current, status, relevant, unscored, values, tie) ==
    LET eligible == {r \in Relations : status[r] # "restricted" /\ Ends[r] \subseteq current}
        confirmed == {r \in eligible : status[r] = "confirmed"}
        paths == JoinPaths(confirmed, relevant)
    IN [current |-> current, confirmed |-> confirmed, relevant |-> relevant, paths |-> paths,
        evidence |-> Scored(current, unscored) \cup UNION paths, values |-> values,
        ambiguous |-> tie \/ \E r \in eligible \ confirmed : RelationTables(r) \subseteq relevant]

\* GroundingService.search.
Ground ==
    /\ stage = "ground"
    /\ \E gone \in NotCurrent, status \in RelationStates,
          relevant \in Relevant, unscored \in Unscored,
          values \in ValuesFound, tie \in BOOLEAN :
         bundle' = Link(Current(gone), status, relevant, unscored, values, tie)
    /\ stage' = "draft"
    /\ UNCHANGED plan

-----------------------------------------------------------------------------
(* The validator.  A draft cites the evidence it needs, too little of it,  *)
(* or evidence that was not found, and may declare an ambiguity.           *)

\* A draft may be without metrics, and its grain is any part of its dimensions.
Drafts ==
    {d \in [metrics : SUBSET Metrics, dims : SUBSET DimensionPool, grain : SUBSET DimensionPool,
            filters : {F \in SUBSET FilterPool : Cardinality(F) <= MaxFilters}, time : BOOLEAN,
            paths : SUBSET bundle.paths, cites : {"required", "less", "foreign"},
            ambiguous : BOOLEAN] :
       d.grain \subseteq d.dims}

TimeColumns(d) == IF d.time THEN {TimeColumn} ELSE {}
FilterColumns(d) == {f.col : f \in d.filters}
PlainColumns(d) == d.dims \cup FilterColumns(d) \cup TimeColumns(d)
MetricTables(d) == {TableOf[c] : c \in UNION {MetricColumns[m] : m \in d.metrics}}
ReferencedTables(d) == MetricTables(d) \cup {TableOf[c] : c \in PlainColumns(d)}

\* require_asset, for metrics, dimensions, filters and the time range.
AssetsGrounded(d) ==
    \A a \in d.metrics \cup PlainColumns(d) : a \in bundle.current /\ a \in bundle.evidence

FiltersGrounded(d) ==
    \A f \in d.filters :
      /\ f.kind = "literals" => f.col \notin IdentifierColumns \cup ControlledColumns
      /\ f.kind = "ids" => f.col \in ControlledColumns /\ <<f.col, f.vals>> \in bundle.values

\* The join paths P chosen for the tables T.
PathsNeeded(T, P) == \A K \in P : PathEnds(K) \subseteq T
PathsConfirmed(P) == UNION P \subseteq bundle.confirmed
PathsCover(T, P) == Cardinality(T) > 1 => T \subseteq UNION {TablesOf(K) : K \in P}
PathsConnect(P) ==
    \A s, t \in UNION {TablesOf(K) : K \in P} : Connects(UNION P, s, t)
JoinsAnswer(T, P) ==
    PathsNeeded(T, P) /\ PathsConfirmed(P) /\ PathsCover(T, P) /\ PathsConnect(P)

\* QueryPlanValidator.validate.  A draft cites something.
PlanStatus(d) ==
    IF ~(/\ AssetsGrounded(d) /\ FiltersGrounded(d)
         /\ JoinsAnswer(ReferencedTables(d), d.paths)
         /\ d.cites = "required" /\ bundle.evidence # {})
      THEN "BLOCKED"
    ELSE IF d.ambiguous \/ bundle.ambiguous THEN "NEEDS_CLARIFICATION"
    ELSE "VALID"

\* The model drafts until a draft is valid.  A refused draft leaves nothing
\* behind that the next one depends on.
DraftPlan ==
    /\ stage = "draft"
    /\ \E d \in Drafts :
         /\ PlanStatus(d) = "VALID"
         /\ plan' = [metrics |-> d.metrics, dims |-> d.dims, grain |-> d.grain,
                     filters |-> d.filters, time |-> d.time, joins |-> UNION d.paths]
    /\ stage' = "sql"
    /\ bundle' = NoBundle     \* what follows reads the plan only

\* Any two of these tables are connected within the hops that are searched.
Reachable(T) ==
    \A s, t \in T : s # t => ShortestPaths(bundle.confirmed, s, t) # {}

\* The linker finds the paths the validator asks for: tables that are relevant
\* and connected can be joined, by the paths between them.
LinkedPathsAnswer ==
    stage = "draft" => \A T \in SUBSET bundle.relevant :
      Reachable(T) => JoinsAnswer(T, {K \in bundle.paths : PathEnds(K) \subseteq T})
=============================================================================
