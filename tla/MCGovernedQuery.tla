--------------------------- MODULE MCGovernedQuery ---------------------------
(***************************************************************************)
(* What governs a query to the database: the rollout policy that decides   *)
(* the mode of its request, the tools it goes through, the plan and the    *)
(* guard in front of the database.  The parts share no variable; each is   *)
(* explored in full while the two others stay at an initial state.         *)
(*                                                                         *)
(* The catalog: orders, customers and refunds, a cycle of three relations, *)
(* two metrics of which one has a predicate of its own, a controlled       *)
(* status, an ordered level, and a day.                                    *)
(***************************************************************************)
EXTENDS Rollout, QueryTools, PlanGuard, TLC

VARIABLE part   \* the part that is explored

MCListedBefore == {<<"canary", "base">>}
MCEarlierPolicies ==
    {[key |-> "canary", version |-> 1, scope |-> "global", enforce |-> TRUE,
      active |-> TRUE, reason |-> "none"]}

written(c, o, A) == [col |-> c, op |-> o, args |-> A, flipped |-> FALSE]
strings(V) == {[n |-> v, form |-> "string"] : v \in V}
numbers(V) == {[n |-> v, form |-> "number"] : v \in V}
filter(c, o, v, k) == [col |-> c, op |-> o, vals |-> v, kind |-> k]

\* The preset YESTERDAY: from CURRENT_DATE - INTERVAL '1 DAY' to CURRENT_DATE.  The
\* text of the date ten days ago has the same words.
MCDateWords ==
    ("yesterday" :> {"CURRENT_DATE", "- INTERVAL", "'1", "DAY"}) @@ ("today" :> {"CURRENT_DATE"})
      @@ ("ten_days_ago" :> {"CURRENT_DATE", "- INTERVAL", "'1", "DAY"})
MCTimeNeeds ==
    {[lower |-> {"CURRENT_DATE", "- INTERVAL", "'1", "DAY"}, upper |-> {"CURRENT_DATE"}, equal |-> {}]}
date(d) ==
    {[n |-> CASE d = "ten_days_ago" -> 1 [] d = "yesterday" -> 2 [] d = "today" -> 3, form |-> d]}
MCPresetBounds ==
    {written("day", "GTE", date("yesterday")), written("day", "LT", date("today"))}

MCColumns == {"status", "day", "o_id", "o_customer_id", "c_id", "level", "r_order_id", "r_customer_id"}
MCTableOf ==
    [c \in MCColumns |->
       IF c \in {"status", "day", "o_id", "o_customer_id"} THEN "orders"
       ELSE IF c \in {"c_id", "level"} THEN "customers" ELSE "refunds"]
MCEnds ==
    ("r1" :> {"o_customer_id", "c_id"}) @@ ("r2" :> {"o_id", "r_order_id"})
      @@ ("r3" :> {"r_customer_id", "c_id"})
MCMetricColumns == ("paid" :> {"status"}) @@ ("refunded" :> {"r_order_id"})
MCMetricPredicates ==
    ("paid" :> {written("status", "IN", strings({1, 2}))}) @@ ("refunded" :> {})
MCFilterPool ==
    {filter("status", "IN", {1}, "ids"), filter("level", "GT", {1}, "literals"),
     filter("level", "LT", {-1}, "literals"), filter("c_id", "EQ", {1}, "literals"),
     filter("status", "NE", {3}, "literals")}
MCRelationStates ==
    {("r1" :> a) @@ ("r2" :> b) @@ ("r3" :> "confirmed") :
       a \in {"confirmed", "candidate"}, b \in {"confirmed", "restricted"}}
MCSqlPredicates ==
    {written("status", "IN", strings({1})), written("status", "IN", strings({1}) \cup numbers({2})),
     written("level", "GT", numbers({-1})), [written("level", "GT", numbers({1})) EXCEPT !.flipped = TRUE],
     written("c_id", "EQ", numbers({1})), written("day", "GTE", date("ten_days_ago")),
     written("day", "LTE", date("today"))}

GovernedInit ==
    /\ part \in {"rollout", "tools", "guard"}
    /\ RolloutInit /\ ToolsInit /\ GuardInit
    /\ part # "tools" => setting = [grounding |-> "off", pauses |-> FALSE, traced |-> FALSE]

GovernedNext ==
    /\ UNCHANGED part
    /\ \/ part = "rollout" /\ RolloutNext /\ UNCHANGED <<toolVars, guardVars>>
       \/ part = "tools" /\ ToolsNext /\ UNCHANGED <<rolloutVars, guardVars>>
       \/ part = "guard" /\ GuardNext /\ UNCHANGED <<rolloutVars, toolVars>>

governedVars == <<part, rolloutVars, toolVars, guardVars>>

\* In the other parts no fair action of the rollout is enabled.
GovernedSpec == GovernedInit /\ [][GovernedNext]_governedVars /\ RolloutFairness

\* The three parts keep the types of their state.
GovernedTypeOK == RolloutTypeOK /\ ToolsTypeOK /\ PlanTypeOK
=============================================================================
