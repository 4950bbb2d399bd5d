------------------------------ MODULE QueryTools ------------------------------
(***************************************************************************)
(* The three tools a model queries the database with, within one run:      *)
(* search_schema_knowledge, validate_query_plan and safe_read_sql          *)
(* (tools/knowledge.py, tools/query_plan.py, tools/safe_read_sql.py).      *)
(* They hand each other evidence and plan through the request's grounding  *)
(* state (grounding/context.py).                                           *)
(*                                                                         *)
(* The model calls one tool at a time, in any order; every await of a tool *)
(* ends a step.  SQL is told apart by the draft it implements (PlanGuard   *)
(* has the details); what a search finds, by the drafts it grounds.        *)
(***************************************************************************)
EXTENDS FiniteSets

CONSTANTS
    QueryDrafts,    \* plans the model drafts
    NoDraft         \* what other SQL implements

ASSUME ToolsAssumption == NoDraft \notin QueryDrafts

VARIABLES
    setting,    \* the modes this run has
    runState,   \* its status: active, paused (NEEDS_CLARIFICATION) or closed
    tool,       \* the tool being executed
    found,      \* RequestGroundingState.bundle
    authorized, \* RequestGroundingState.validated_plan
    stored,     \* query_plans of the run: the status a draft was stored with
    answered    \* the queries the database was asked, since the run began

toolVars == <<setting, runState, tool, found, authorized, stored, answered>>

QueryStatus == {"VALID", "NEEDS_CLARIFICATION", "BLOCKED"}
QuerySql == QueryDrafts \cup {NoDraft}
NotFound == [known |-> FALSE, grounds |-> {}, ambiguous |-> FALSE]
NotAuthorized == [draft |-> NoDraft, status |-> "BLOCKED"]
NoTool == [at |-> "none", about |-> NoDraft, status |-> "BLOCKED"]

\* The settings: GROUNDING_V2_MODE as the rollout has it; whether an ambiguity
\* pauses the run; whether a trace that is not stored is an error.
Settings == [grounding : {"off", "shadow", "enforce"}, pauses : BOOLEAN, traced : BOOLEAN]

ToolsTypeOK ==
    /\ setting \in Settings
    /\ runState \in {"active", "paused", "closed"}
    /\ tool \in [at : {"none", "search", "ask", "pause", "validate", "save",
                       "status", "guard", "trace", "query"},
                 about : QuerySql, status : QueryStatus]
    /\ found \in [known : BOOLEAN, grounds : SUBSET QueryDrafts, ambiguous : BOOLEAN]
    /\ authorized \in [draft : QuerySql, status : QueryStatus]
    /\ stored \in [QueryDrafts -> QueryStatus \cup {"none"}]
    /\ answered \subseteq QuerySql

ToolsInit ==
    /\ setting \in Settings
    /\ runState = "active" /\ tool = NoTool
    /\ found = NotFound /\ authorized = NotAuthorized
    /\ stored = [d \in QueryDrafts |-> "none"] /\ answered = {}

Enforced == setting.grounding = "enforce"
At(l) == tool.at = l
Goes(l) == tool' = [tool EXCEPT !.at = l]
Returns == tool' = NoTool
groundingState == <<found, authorized>>

\* The hook lets a tool start while the run is active.
Call(l, q) ==
    /\ At("none") /\ runState = "active"
    /\ tool' = [NoTool EXCEPT !.at = l, !.about = q]
    /\ UNCHANGED <<setting, runState, found, authorized, stored, answered>>

-----------------------------------------------------------------------------
(* search_schema_knowledge.                                                *)

record_grounding_Fault(b) == found' = b /\ UNCHANGED authorized
record_grounding(b) == found' = b /\ authorized' = NotAuthorized

\* With enough options an ambiguity asks the user; only under enforce.
SearchFinds(G, ambiguous, options) ==
    /\ At("search") /\ setting.grounding # "off"
    /\ record_grounding([known |-> TRUE, grounds |-> G, ambiguous |-> ambiguous])
    /\ IF Enforced /\ setting.pauses /\ ambiguous /\ options THEN Goes("ask") ELSE Returns
    /\ UNCHANGED <<setting, runState, stored, answered>>

\* Without grounding, or when the search fails, nothing is recorded.
SearchFindsNothing ==
    /\ At("search")
    /\ Returns
    /\ UNCHANGED <<setting, runState, found, authorized, stored, answered>>

\* ClarificationService.create reads the run and saves the card ...
SaveClarification ==
    /\ At("ask")
    /\ IF runState = "active" THEN Goes("pause") ELSE Returns
    /\ UNCHANGED <<setting, runState, found, authorized, stored, answered>>

\* ... and pauses the run, unless it is closed by now.
PauseRun ==
    /\ At("pause")
    /\ runState' = IF runState = "active" THEN "paused" ELSE runState
    /\ Returns
    /\ UNCHANGED <<setting, found, authorized, stored, answered>>

-----------------------------------------------------------------------------
(* validate_query_plan.                                                    *)

\* QueryPlanValidator: a draft may have an ambiguity of its own.
Verdict(b, d, declares) ==
    IF d \notin b.grounds THEN "BLOCKED"
    ELSE IF b.ambiguous \/ declares THEN "NEEDS_CLARIFICATION" ELSE "VALID"

ValidatePlan(declares) ==
    /\ At("validate")
    /\ IF found.known
         THEN /\ authorized' = NotAuthorized
              /\ tool' = [tool EXCEPT !.at = "save", !.status = Verdict(found, tool.about, declares)]
         ELSE Returns /\ UNCHANGED authorized
    /\ UNCHANGED <<setting, runState, found, stored, answered>>

Authorize == authorized' = [draft |-> tool.about, status |-> tool.status]

\* QueryPlanStore.save keeps the first row of a draft.
SavePlan ==
    /\ At("save")
    /\ stored' = [stored EXCEPT ![tool.about] = IF @ = "none" THEN tool.status ELSE @]
    /\ Authorize /\ Returns
    /\ UNCHANGED <<setting, runState, found, answered>>

\* A plan that is not persisted authorizes nothing under enforce.
SavePlanFails ==
    /\ At("save")
    /\ IF Enforced THEN UNCHANGED authorized ELSE Authorize
    /\ Returns
    /\ UNCHANGED <<setting, runState, found, stored, answered>>

-----------------------------------------------------------------------------
(* safe_read_sql.                                                          *)

ReadStatus ==
    /\ At("status")
    /\ IF runState = "active" THEN Goes("guard") ELSE Returns
    /\ UNCHANGED <<setting, runState, found, authorized, stored, answered>>

\* validate_sql_against_query_plan.
Aligned(q) == found.known /\ authorized.status = "VALID" /\ authorized.draft = q

\* The other guards may reject the SQL whatever the plan is.
GuardSql(passes) ==
    /\ At("guard")
    /\ IF passes /\ (Enforced => Aligned(tool.about)) THEN Goes("trace") ELSE Returns
    /\ UNCHANGED <<setting, runState, found, authorized, stored, answered>>

\* A trace that cannot be stored stops the query when traces are enforced.
TraceGuard(fails) ==
    /\ At("trace")
    /\ IF fails /\ setting.traced THEN Returns ELSE Goes("query")
    /\ UNCHANGED <<setting, runState, found, authorized, stored, answered>>

\* What comes of the query, and the trace after it, changes nothing here.
RunQuery ==
    /\ At("query")
    /\ answered' = answered \cup {tool.about}
    /\ Returns
    /\ UNCHANGED <<setting, runState, found, authorized, stored>>

-----------------------------------------------------------------------------
(* Around the tools.                                                       *)

\* A cancel leaves the tool running.
CancelRun ==
    /\ runState = "active"
    /\ runState' = "closed"
    /\ UNCHANGED <<setting, tool, found, authorized, stored, answered>>

\* The timeout, a disconnect or the end of the answer leave no tool behind.
EndRun ==
    /\ runState = "active"
    /\ runState' = "closed" /\ Returns
    /\ UNCHANGED <<setting, found, authorized, stored, answered>>

ToolsNext ==
    \/ Call("search", NoDraft)
    \/ \E d \in QueryDrafts : Call("validate", d)
    \/ \E q \in QuerySql : Call("status", q)
    \/ \E G \in SUBSET QueryDrafts, ambiguous, options \in BOOLEAN : SearchFinds(G, ambiguous, options)
    \/ SearchFindsNothing \/ SaveClarification \/ PauseRun
    \/ \E declares \in BOOLEAN : ValidatePlan(declares)
    \/ SavePlan \/ SavePlanFails
    \/ ReadStatus
    \/ \E passes \in BOOLEAN : GuardSql(passes)
    \/ \E fails \in BOOLEAN : TraceGuard(fails)
    \/ RunQuery
    \/ CancelRun \/ EndRun

ToolsSpec == ToolsInit /\ [][ToolsNext]_toolVars

-----------------------------------------------------------------------------
(* Properties.                                                             *)

\* Under enforce, what the database is asked implements a draft that the
\* evidence found last grounds without an ambiguity, in a run that does not
\* wait for its user; and every query asked so far has its plan stored.
OnlyAuthorizedSql ==
    Enforced =>
      /\ At("query") => /\ tool.about \in found.grounds /\ ~found.ambiguous
                        /\ runState # "paused"
      /\ \A q \in answered : q \in QueryDrafts /\ stored[q] # "none"

\* What makes it inductive: the plan in force is one the evidence in force
\* grounds, and it is stored; a tool that passed the guard is about this plan.
ToolsInv ==
    /\ authorized.status = "VALID" => authorized.draft \in found.grounds /\ ~found.ambiguous
    /\ At("save") /\ tool.status = "VALID" => tool.about \in found.grounds /\ ~found.ambiguous
    /\ At("save") => authorized = NotAuthorized /\ tool.about \in QueryDrafts
    /\ At("validate") => tool.about \in QueryDrafts
    /\ Enforced /\ authorized.status = "VALID" => stored[authorized.draft] # "none"
    /\ Enforced /\ (At("trace") \/ At("query")) => Aligned(tool.about)
    /\ runState = "paused" => At("none")
    /\ OnlyAuthorizedSql
=============================================================================
