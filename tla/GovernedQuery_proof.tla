------------------------- MODULE GovernedQuery_proof -------------------------
(***************************************************************************)
(* Proofs about what governs a query: for every set of policies, processes *)
(* and requests the rollout keeps its types; for every set of drafts what  *)
(* reaches the database implements a plan that is validated, current and   *)
(* stored; for every catalog the linked paths can be joined, the SQL of a  *)
(* valid plan is accepted, and accepted SQL returns what its plan says.    *)
(***************************************************************************)
EXTENDS MCGovernedQuery, FiniteSetTheorems, WellFoundedInduction, TLAPS

-----------------------------------------------------------------------------
(***************************************************************************)
(* The tools.                                                              *)
(***************************************************************************)
LEMMA ToolsStepTypes ==
    ASSUME ToolsTypeOK, ToolsNext
    PROVE  ToolsTypeOK'
<1> USE ToolsAssumption DEF ToolsTypeOK, Settings, QueryStatus, QuerySql, At, Goes, Returns, NoTool
<1>1. ASSUME NEW q \in QuerySql, NEW l \in {"search", "validate", "status"}, Call(l, q)
      PROVE  ToolsTypeOK'
  BY <1>1 DEF Call
<1>2. ASSUME NEW G \in SUBSET QueryDrafts, NEW a \in BOOLEAN, NEW o \in BOOLEAN, SearchFinds(G, a, o)
      PROVE  ToolsTypeOK'
  <2>1. found' \in [known : BOOLEAN, grounds : SUBSET QueryDrafts, ambiguous : BOOLEAN]
    BY <1>2 DEF SearchFinds, record_grounding
  <2>2. authorized' \in [draft : QuerySql, status : QueryStatus]
    BY <1>2 DEF SearchFinds, record_grounding, NotAuthorized
  <2> QED
    BY <1>2, <2>1, <2>2 DEF SearchFinds
<1>3. CASE SearchFindsNothing
  BY <1>3 DEF SearchFindsNothing
<1>4. CASE SaveClarification
  BY <1>4 DEF SaveClarification
<1>5. CASE PauseRun
  BY <1>5 DEF PauseRun
<1>6. ASSUME NEW v \in BOOLEAN, ValidatePlan(v)
      PROVE  ToolsTypeOK'
  <2>1. Verdict(found, tool.about, v) \in QueryStatus
    BY DEF Verdict
  <2>2. CASE found.known
    <3>1. /\ authorized' = NotAuthorized
          /\ tool' = [tool EXCEPT !.at = "save", !.status = Verdict(found, tool.about, v)]
          /\ UNCHANGED <<setting, runState, found, stored, answered>>
      BY <1>6, <2>2 DEF ValidatePlan
    <3> QED
      BY <2>1, <3>1 DEF NotAuthorized
  <2>3. CASE ~found.known
    BY <1>6, <2>3 DEF ValidatePlan
  <2> QED
    BY <2>2, <2>3
<1>7. CASE SavePlan
  BY <1>7 DEF SavePlan, Authorize
<1>8. CASE SavePlanFails
  BY <1>8 DEF SavePlanFails, Authorize
<1>9. CASE ReadStatus
  BY <1>9 DEF ReadStatus
<1>10. ASSUME NEW p \in BOOLEAN, GuardSql(p)
       PROVE  ToolsTypeOK'
  BY <1>10 DEF GuardSql
<1>11. ASSUME NEW f \in BOOLEAN, TraceGuard(f)
       PROVE  ToolsTypeOK'
  BY <1>11 DEF TraceGuard
<1>12. CASE RunQuery
  BY <1>12 DEF RunQuery
<1>13. CASE CancelRun \/ EndRun
  BY <1>13 DEF CancelRun, EndRun
<1>14. NoDraft \in QuerySql /\ QueryDrafts \subseteq QuerySql
  OBVIOUS
<1> HIDE DEF ToolsTypeOK, Settings, QueryStatus, QuerySql, At, Goes, Returns, NoTool
<1> QED
  BY <1>1, <1>2, <1>3, <1>4, <1>5, <1>6, <1>7, <1>8, <1>9, <1>10, <1>11, <1>12, <1>13, <1>14 DEF ToolsNext

\* The state of the tools keeps its types.
THEOREM ToolsTypeCorrect == ToolsSpec => []ToolsTypeOK
<1>1. ToolsInit => ToolsTypeOK
  BY ToolsAssumption DEF ToolsInit, ToolsTypeOK, NoTool, NotFound, NotAuthorized, QueryStatus, QuerySql
<1>2. ToolsTypeOK /\ [ToolsNext]_toolVars => ToolsTypeOK'
  <2>1. ToolsTypeOK /\ UNCHANGED toolVars => ToolsTypeOK'
    BY DEF ToolsTypeOK, toolVars
  <2> QED
    BY <2>1, ToolsStepTypes
<1> QED
  BY <1>1, <1>2, PTL DEF ToolsSpec

-----------------------------------------------------------------------------
\* The plan in force: a search or a validation takes it back, a save gives it.
LEMMA VerdictGrounds ==
    ASSUME NEW b, NEW d, NEW v \in BOOLEAN, Verdict(b, d, v) = "VALID"
    PROVE  d \in b.grounds /\ ~b.ambiguous
BY DEF Verdict

LEMMA ToolsStepInv ==
    ASSUME ToolsTypeOK, ToolsInv, ToolsNext
    PROVE  ToolsInv'
<1> USE ToolsAssumption DEF ToolsTypeOK, QuerySql, At, Goes, Returns, NoTool, Enforced, ToolsInv, OnlyAuthorizedSql
<1>1. ASSUME NEW q \in QuerySql, NEW l \in {"search", "status"}, Call(l, q)
      PROVE  ToolsInv'
  BY <1>1 DEF Call, Aligned
<1>2. ASSUME NEW d \in QueryDrafts, Call("validate", d)
      PROVE  ToolsInv'
  BY <1>2 DEF Call, Aligned
<1>3. ASSUME NEW G \in SUBSET QueryDrafts, NEW a \in BOOLEAN, NEW o \in BOOLEAN, SearchFinds(G, a, o)
      PROVE  ToolsInv'
  <2>1. authorized'.status = "BLOCKED"
    BY <1>3 DEF SearchFinds, record_grounding, NotAuthorized
  <2>2. tool'.at \in {"ask", "none"} /\ UNCHANGED <<setting, runState, stored, answered>>
    BY <1>3 DEF SearchFinds
  <2>3. runState' # "paused"
    BY <1>3 DEF SearchFinds
  <2> QED
    BY <2>1, <2>2, <2>3
<1>4. CASE SearchFindsNothing
  BY <1>4 DEF SearchFindsNothing
<1>5. CASE SaveClarification
  BY <1>5 DEF SaveClarification
<1>6. CASE PauseRun
  BY <1>6 DEF PauseRun
<1>7. ASSUME NEW v \in BOOLEAN, ValidatePlan(v)
      PROVE  ToolsInv'
  <2>1. CASE found.known
    <3>1. /\ authorized' = NotAuthorized
          /\ tool'.at = "save" /\ tool'.about = tool.about
          /\ tool'.status = Verdict(found, tool.about, v)
          /\ UNCHANGED <<setting, runState, found, stored, answered>>
      BY <1>7, <2>1 DEF ValidatePlan
    <3>2. tool'.status = "VALID" => tool.about \in found.grounds /\ ~found.ambiguous
      BY <3>1, VerdictGrounds
    <3>3. tool.about \in QueryDrafts /\ runState # "paused" /\ authorized'.status # "VALID"
      BY <1>7, <3>1 DEF ValidatePlan, NotAuthorized
    <3> QED
      BY <3>1, <3>2, <3>3 DEF NotAuthorized
  <2>2. CASE ~found.known
    BY <1>7, <2>2 DEF ValidatePlan
  <2> QED
    BY <2>1, <2>2
<1>8. CASE SavePlan
  <2>1. /\ authorized' = [draft |-> tool.about, status |-> tool.status]
        /\ tool'.at = "none" /\ runState' # "paused"
        /\ UNCHANGED <<setting, runState, found, answered>>
    BY <1>8 DEF SavePlan, Authorize
  <2>2. \A d \in QueryDrafts : stored[d] # "none" => stored'[d] # "none"
    BY <1>8 DEF SavePlan, QueryStatus
  <2>3. stored'[tool.about] # "none"
    BY <1>8 DEF SavePlan, QueryStatus
  <2>4. tool.status = "VALID" => tool.about \in found.grounds /\ ~found.ambiguous
    BY <1>8 DEF SavePlan
  <2> QED
    BY <2>1, <2>2, <2>3, <2>4
<1>9. CASE SavePlanFails
  BY <1>9 DEF SavePlanFails, Authorize, NotAuthorized
<1>10. CASE ReadStatus
  BY <1>10 DEF ReadStatus
<1>11. ASSUME NEW p \in BOOLEAN, GuardSql(p)
       PROVE  ToolsInv'
  BY <1>11 DEF GuardSql, Aligned
<1>12. ASSUME NEW f \in BOOLEAN, TraceGuard(f)
       PROVE  ToolsInv'
  BY <1>12 DEF TraceGuard, Aligned
<1>13. CASE RunQuery
  <2>1. Enforced => tool.about \in QueryDrafts /\ stored[tool.about] # "none"
    BY <1>13 DEF RunQuery, Aligned
  <2> QED
    BY <1>13, <2>1 DEF RunQuery
<1>14. CASE CancelRun \/ EndRun
  BY <1>14 DEF CancelRun, EndRun, Aligned
<1>15. NoDraft \in QuerySql
  OBVIOUS
<1> HIDE DEF ToolsTypeOK, QuerySql, At, Goes, Returns, NoTool, Enforced, ToolsInv, OnlyAuthorizedSql
<1> QED
  BY <1>1, <1>2, <1>3, <1>4, <1>5, <1>6, <1>7, <1>8, <1>9, <1>10, <1>11, <1>12, <1>13, <1>14, <1>15 DEF ToolsNext

\* Under enforce the database is only asked what a validated, current and
\* stored plan says, in a run that does not wait for its user.
THEOREM OnlyAuthorizedSqlRuns == ToolsSpec => []OnlyAuthorizedSql
<1>1. ToolsInit => ToolsInv
  BY DEF ToolsInit, ToolsInv, OnlyAuthorizedSql, At, NoTool, NotAuthorized, Enforced
<1>2. ToolsTypeOK /\ ToolsInv /\ [ToolsNext]_toolVars => ToolsInv'
  <2>1. ToolsInv /\ UNCHANGED toolVars => ToolsInv'
    BY DEF ToolsInv, OnlyAuthorizedSql, At, Enforced, Aligned, toolVars
  <2> QED
    BY <2>1, ToolsStepInv
<1>3. ToolsInv => OnlyAuthorizedSql
  BY DEF ToolsInv
<1> QED
  BY <1>1, <1>2, <1>3, ToolsTypeCorrect, PTL DEF ToolsSpec

-----------------------------------------------------------------------------
(***************************************************************************)
(* A finite set of numbers has a largest one: a smallest set without one   *)
(* would, without one of its numbers, have a largest one.                  *)
(***************************************************************************)
LEMMA FiniteSetHasLargest ==
    ASSUME NEW S \in SUBSET Nat, IsFiniteSet(S), S # {}
    PROVE  \E m \in S : \A n \in S : n <= m
<1> DEFINE HasLargest(X) == \E m \in X : \A n \in X : n <= m
           T == {X \in SUBSET S : X # {} /\ ~HasLargest(X)}
<1>1. SUFFICES ASSUME T # {} PROVE FALSE
  <2>1. S \in SUBSET S
    OBVIOUS
  <2> QED
    BY <1>1, <2>1
<1>2. IsWellFoundedOn(StrictSubsetOrdering(S), SUBSET S)
  BY FS_StrictSubsetOrderingWellFounded, FS_FiniteSubsetsOfFinite
<1>3. PICK X \in T : \A Y \in T : ~(<<Y, X>> \in StrictSubsetOrdering(S))
  <2>1. T \subseteq SUBSET S
    OBVIOUS
  <2> HIDE DEF T
  <2> QED
    BY <1>1, <1>2, <2>1, WFMin
<1>4. PICK x \in X : TRUE
  OBVIOUS
<1>5. \A Y \in SUBSET X : Y # {} /\ Y # X => HasLargest(Y)
  BY <1>3 DEF StrictSubsetOrdering
<1>6. CASE X \ {x} = {}
  <2>1. x \in Nat /\ \A n \in X : n = x
    BY <1>4, <1>6
  <2>2. HasLargest(X)
    BY <1>4, <2>1
  <2> QED
    BY <2>2
<1>7. CASE X \ {x} # {}
  <2>1. PICK m \in X \ {x} : \A n \in X \ {x} : n <= m
    BY <1>4, <1>5, <1>7
  <2>2. x \in Nat /\ m \in Nat /\ \A n \in X : n \in Nat
    OBVIOUS
  <2>3. CASE x <= m
    <3>1. \A n \in X : n <= m
      BY <2>1, <2>3
    <3> QED
      BY <2>1, <3>1
  <2>4. CASE ~(x <= m)
    <3>1. \A n \in X : n <= x
      BY <2>1, <2>2, <2>4
    <3> QED
      BY <1>4, <3>1
  <2> QED
    BY <2>3, <2>4
<1> QED
  BY <1>6, <1>7

-----------------------------------------------------------------------------
(***************************************************************************)
(* The rollout policies.                                                   *)
(***************************************************************************)
Unique(P) == \A p, q \in P : p.key = q.key /\ p.version = q.version => p = q
RolloutInv ==
    /\ RolloutTypeOK /\ IsFiniteSet(policies)
    /\ \A w \in Processes : process[w].at = "insert" => process[w].version # 0

LEMMA LastVersionIsLast ==
    ASSUME RolloutInv, NEW key
    PROVE  /\ LastVersion(key) \in Nat
           /\ \A p \in policies : p.key = key => p.version <= LastVersion(key)
<1> DEFINE Q == {q \in policies : q.key = key}
           V == {p.version : p \in Q}
           f == [p \in Q |-> p.version]
<1>1. IsFiniteSet(Q)
  BY FS_Subset DEF RolloutInv
<1>2. f \in Surjection(Q, V)
  BY DEF Surjection
<1>3. IsFiniteSet(V)
  <2> HIDE DEF Q, V, f
  <2> QED
    BY <1>1, <1>2, FS_Surjection
<1>4. V \subseteq Nat
  BY DEF RolloutInv, RolloutTypeOK, Policy
<1>5. CASE V = {}
  <2>1. \A p \in policies : p.key # key
    BY <1>5
  <2> QED
    BY <1>5, <2>1 DEF LastVersion
<1>6. CASE V # {}
  <2>1. \E m \in V : \A n \in V : n <= m
    <3> HIDE DEF V
    <3> QED
      BY <1>3, <1>4, <1>6, FiniteSetHasLargest
  <2>2. LastVersion(key) = CHOOSE m \in V : \A n \in V : n <= m
    BY <1>6 DEF LastVersion
  <2>3. LastVersion(key) \in V /\ \A n \in V : n <= LastVersion(key)
    <3> HIDE DEF V
    <3> QED
      BY <2>1, <2>2
  <2>4. \A p \in policies : p.key = key => p.version \in V
    OBVIOUS
  <2> QED
    BY <1>4, <2>3, <2>4
<1> QED
  BY <1>5, <1>6

Reasons == Signals \cup {"none", "admin"}
ProcessRecord ==
    [at : {"idle", "choose", "claim", "locked", "list", "insert"}, reason : Reasons,
     target : Policy, version : Nat]
ServingRecord == [at : {"idle", "decided", "running"}, scope : Scopes, enforce : BOOLEAN]

LEMMA SeedIsPolicy == Seed \in Policy
BY RolloutAssumption DEF Seed, Policy, Scopes

LEMMA RestingTypes == Resting \in ProcessRecord /\ Resting.at = "idle"
BY SeedIsPolicy DEF Resting, ProcessRecord, Reasons

\* A process takes one step, and nothing but its record changes.
LEMMA ProcessMoves ==
    ASSUME RolloutInv, NEW w \in Processes, NEW e \in ProcessRecord, e.at = "insert" => e.version # 0,
           process' = [process EXCEPT ![w] = e], UNCHANGED unchangedButProcess
    PROVE  RolloutInv'
<1>1. process \in [Processes -> ProcessRecord]
  BY DEF RolloutInv, RolloutTypeOK, ProcessRecord, Reasons
<1>2. process' \in [Processes -> ProcessRecord]
  BY <1>1
<1>3. \A v \in Processes : process'[v].at = "insert" => process'[v].version # 0
  BY <1>1 DEF RolloutInv
<1> QED
  BY <1>2, <1>3 DEF RolloutInv, RolloutTypeOK, ProcessRecord, Reasons, unchangedButProcess

\* One more policy, whose key and version no other has.
LEMMA PolicyAdded ==
    ASSUME RolloutInv, NEW p \in Policy, policies' = policies \cup {p},
           \A q \in policies : q.key = p.key => q.version # p.version
    PROVE  policies' \subseteq Policy /\ Unique(policies') /\ IsFiniteSet(policies')
<1>1. policies \subseteq Policy /\ Unique(policies) /\ IsFiniteSet(policies)
  BY DEF RolloutInv, RolloutTypeOK, Unique
<1>2. IsFiniteSet(policies')
  BY <1>1, FS_AddElement
<1>3. Unique(policies')
  BY <1>1 DEF Unique
<1> QED
  BY <1>1, <1>2, <1>3

LEMMA RequestKeepsTypes ==
    ASSUME RolloutInv, NEW c \in Clients, Decide(c) \/ PersistDecision(c) \/ EndRequest(c)
    PROVE  RolloutInv'
<1>1. serving \in [Clients -> ServingRecord]
  BY DEF RolloutInv, RolloutTypeOK, ServingRecord
<1>2. NotServing \in ServingRecord
  BY DEF NotServing, ServingRecord, Scopes
<1>3. serving' \in [Clients -> ServingRecord] /\ UNCHANGED <<policies, signals, process, changes>>
  <2>1. CASE Decide(c)
    <3>1. PICK enabled \in BOOLEAN, p \in policies :
            serving' = [serving EXCEPT ![c] =
              [at |-> "decided", scope |-> p.scope, enforce |-> p.enforce /\ enabled]]
      BY <2>1 DEF Decide
    <3>2. p.scope \in Scopes /\ p.enforce \in BOOLEAN
      BY DEF RolloutInv, RolloutTypeOK, Policy
    <3>3. [at |-> "decided", scope |-> p.scope, enforce |-> p.enforce /\ enabled] \in ServingRecord
      BY <3>2 DEF ServingRecord
    <3> QED
      BY <1>1, <2>1, <3>1, <3>3 DEF Decide
  <2>2. CASE PersistDecision(c)
    <3>1. [serving[c] EXCEPT !.at = "running"] \in ServingRecord
      BY <1>1 DEF ServingRecord
    <3>2. PICK e \in ServingRecord : serving' = [serving EXCEPT ![c] = e]
      BY <1>2, <2>2, <3>1 DEF PersistDecision
    <3> QED
      BY <1>1, <2>2, <3>2 DEF PersistDecision
  <2>3. CASE EndRequest(c)
    BY <1>1, <1>2, <2>3 DEF EndRequest
  <2> QED
    BY <2>1, <2>2, <2>3
<1> QED
  BY <1>3 DEF RolloutInv, RolloutTypeOK, ServingRecord

LEMMA ProcessKeepsTypes ==
    ASSUME RolloutInv, NEW w \in Processes,
           \/ LoadSignals(w) \/ ChooseTarget(w) \/ Claim(w) \/ FreeLock(w)
           \/ ListForRollback(w) \/ InsertPolicy(w) \/ InsertFails(w)
    PROVE  RolloutInv'
<1>1. process[w] \in ProcessRecord
  BY DEF RolloutInv, RolloutTypeOK, ProcessRecord, Reasons
<1>2. ASSUME NEW l \in {"locked", "list"}, To(w, l), UNCHANGED unchangedButProcess
      PROVE  RolloutInv'
  <2>1. [process[w] EXCEPT !.at = l] \in ProcessRecord /\ [process[w] EXCEPT !.at = l].at # "insert"
    BY <1>1 DEF ProcessRecord
  <2> QED
    BY <1>2, <2>1, ProcessMoves DEF To
<1>3. ASSUME Rest(w), UNCHANGED unchangedButProcess
      PROVE  RolloutInv'
  BY <1>3, RestingTypes, ProcessMoves DEF Rest
<1>4. CASE LoadSignals(w)
  <2> DEFINE e == [process[w] EXCEPT !.at = "choose", !.reason = Trigger(signals)]
  <2>1. Trigger(signals) \in Reasons
    BY DEF Trigger, Reasons, Signals
  <2>2. e \in ProcessRecord /\ e.at # "insert"
    BY <1>1, <2>1 DEF ProcessRecord
  <2>3. process' = [process EXCEPT ![w] = e] /\ UNCHANGED unchangedButProcess
    BY <1>4 DEF LoadSignals
  <2> HIDE DEF e
  <2> QED
    BY <2>2, <2>3, ProcessMoves
<1>5. CASE ChooseTarget(w)
  <2>1. CASE Rest(w)
    BY <1>3, <1>5, <2>1 DEF ChooseTarget
  <2>2. CASE ~Rest(w)
    <3>1. PICK p \in policies : process' = [process EXCEPT ![w] =
                                  [process[w] EXCEPT !.at = "claim", !.target = p]]
      BY <1>5, <2>2 DEF ChooseTarget, Affected
    <3> DEFINE e == [process[w] EXCEPT !.at = "claim", !.target = p]
    <3>2. p \in Policy
      BY DEF RolloutInv, RolloutTypeOK
    <3>3. e \in ProcessRecord /\ e.at # "insert"
      BY <1>1, <3>2 DEF ProcessRecord
    <3>4. process' = [process EXCEPT ![w] = e] /\ UNCHANGED unchangedButProcess
      BY <1>5, <3>1 DEF ChooseTarget
    <3> HIDE DEF e
    <3> QED
      BY <3>3, <3>4, ProcessMoves
  <2> QED
    BY <2>1, <2>2
<1>6. CASE Claim(w)
  BY <1>2, <1>3, <1>6 DEF Claim
<1>7. CASE FreeLock(w)
  BY <1>2, <1>7 DEF FreeLock
<1>8. CASE ListForRollback(w)
  <2> DEFINE v == LastVersion(process[w].target.key) + 1
             e == [process[w] EXCEPT !.at = "insert", !.version = v]
  <2>1. v \in Nat \ {0}
    BY LastVersionIsLast
  <2>2. e \in ProcessRecord /\ e.version = v
    <3> HIDE DEF v
    <3> QED
      BY <1>1, <2>1 DEF ProcessRecord
  <2>3. process' = [process EXCEPT ![w] = e] /\ UNCHANGED unchangedButProcess
    BY <1>8 DEF ListForRollback
  <2> HIDE DEF e, v
  <2> QED
    BY <2>1, <2>2, <2>3, ProcessMoves
<1>9. CASE InsertPolicy(w)
  <2> DEFINE t == process[w].target
             p == [key |-> t.key, version |-> process[w].version, scope |-> t.scope,
                   enforce |-> FALSE, active |-> TRUE, reason |-> process[w].reason]
  <2>1. t \in Policy /\ process[w].version \in Nat \ {0} /\ process[w].reason \in Reasons
    BY <1>1, <1>9 DEF ProcessRecord, InsertPolicy, RolloutInv
  <2>2. p \in Policy /\ p.key = t.key /\ p.version = process[w].version
    BY <2>1 DEF Policy, Reasons
  <2>3. \/ UNCHANGED policies
        \/ policies' = policies \cup {p} /\ \A q \in policies : q.key = p.key => q.version # p.version
    BY <1>9 DEF InsertPolicy
  <2>4. policies' \subseteq Policy /\ Unique(policies') /\ IsFiniteSet(policies')
    <3> HIDE DEF p
    <3>1. CASE UNCHANGED policies
      BY <3>1 DEF RolloutInv, RolloutTypeOK, Unique
    <3> QED
      BY <2>2, <2>3, <3>1, PolicyAdded
  <2>5. process' = [process EXCEPT ![w] = Resting] /\ UNCHANGED <<signals, serving, changes>>
    BY <1>9 DEF InsertPolicy, Rest
  <2>6. /\ process' \in [Processes -> ProcessRecord]
        /\ \A v \in Processes : process'[v].at = "insert" => process'[v].version # 0
    BY <2>5, RestingTypes DEF RolloutInv, RolloutTypeOK, ProcessRecord, Reasons
  <2> HIDE DEF p, t
  <2> QED
    BY <2>4, <2>5, <2>6 DEF RolloutInv, RolloutTypeOK, Unique, ProcessRecord, Reasons
<1>10. CASE InsertFails(w)
  BY <1>3, <1>10 DEF InsertFails
<1> QED
  BY <1>4, <1>5, <1>6, <1>7, <1>8, <1>9, <1>10

\* Another policy, a policy deactivated, a rollback of an administrator, or
\* other signals.
LEMMA OperatorsKeepTypes ==
    ASSUME RolloutInv,
           \/ \E w \in Processes, p \in policies : AdminRollback(w, p)
           \/ \E key \in PolicyKeys, scope \in Scopes, enforce \in BOOLEAN : AddPolicy(key, scope, enforce)
           \/ \E p \in policies : Deactivate(p)
           \/ \E S \in SignalSets : ChangeSignals(S)
    PROVE  RolloutInv'
<1>1. changes \in 0..MaxChanges /\ (changes < MaxChanges => changes + 1 \in 0..MaxChanges)
  BY RolloutAssumption DEF RolloutInv, RolloutTypeOK
<1>2. ASSUME NEW w \in Processes, NEW p \in policies, AdminRollback(w, p)
      PROVE  RolloutInv'
  <2> DEFINE e == [at |-> "list", reason |-> "admin", target |-> p, version |-> 0]
  <2>1. e \in ProcessRecord /\ e.at # "insert"
    BY DEF ProcessRecord, Reasons, RolloutInv, RolloutTypeOK
  <2>2. process \in [Processes -> ProcessRecord]
    BY DEF RolloutInv, RolloutTypeOK, ProcessRecord, Reasons
  <2>3. process' = [process EXCEPT ![w] = e] /\ changes' \in 0..MaxChanges /\ UNCHANGED <<policies, signals, serving>>
    BY <1>1, <1>2 DEF AdminRollback
  <2> HIDE DEF e
  <2>4. /\ process' \in [Processes -> ProcessRecord]
        /\ \A v \in Processes : process'[v].at = "insert" => process'[v].version # 0
    BY <2>1, <2>2, <2>3 DEF RolloutInv
  <2> QED
    BY <2>3, <2>4 DEF RolloutInv, RolloutTypeOK, ProcessRecord, Reasons
<1>3. ASSUME NEW key \in PolicyKeys, NEW scope \in Scopes, NEW enforce \in BOOLEAN, AddPolicy(key, scope, enforce)
      PROVE  RolloutInv'
  <2> DEFINE p == [key |-> key, version |-> LastVersion(key) + 1, scope |-> scope,
                   enforce |-> enforce, active |-> TRUE, reason |-> "none"]
  <2>1. LastVersion(key) \in Nat /\ \A q \in policies : q.key = key => q.version <= LastVersion(key)
    BY LastVersionIsLast
  <2>2. p \in Policy /\ p.key = key /\ p.version = LastVersion(key) + 1
    BY <2>1 DEF Policy
  <2>3. \A q \in policies : q.key = p.key => q.version # p.version
    BY <2>1, <2>2 DEF RolloutInv, RolloutTypeOK, Policy
  <2>4. policies' = policies \cup {p} /\ changes' \in 0..MaxChanges /\ UNCHANGED <<signals, process, serving>>
    BY <1>1, <1>3 DEF AddPolicy
  <2> HIDE DEF p
  <2>5. policies' \subseteq Policy /\ Unique(policies') /\ IsFiniteSet(policies')
    BY <2>2, <2>3, <2>4, PolicyAdded
  <2> QED
    BY <2>4, <2>5 DEF RolloutInv, RolloutTypeOK, Unique
<1>4. ASSUME NEW p \in policies, Deactivate(p)
      PROVE  RolloutInv'
  <2> DEFINE o == [p EXCEPT !.active = FALSE]
  <2>1. p \in Policy
    BY DEF RolloutInv, RolloutTypeOK
  <2>2. o \in Policy /\ o.key = p.key /\ o.version = p.version
    BY <2>1 DEF Policy
  <2>3. /\ policies' = (policies \ {p}) \cup {o} /\ changes' \in 0..MaxChanges
        /\ UNCHANGED <<signals, process, serving>>
    BY <1>1, <1>4 DEF Deactivate
  <2> HIDE DEF o
  <2>4. IsFiniteSet(policies')
    BY <2>3, FS_RemoveElement, FS_AddElement DEF RolloutInv
  <2>5. Unique(policies') /\ policies' \subseteq Policy
    BY <2>2, <2>3 DEF RolloutInv, RolloutTypeOK, Unique
  <2> QED
    BY <2>3, <2>4, <2>5 DEF RolloutInv, RolloutTypeOK, Unique
<1>5. ASSUME NEW S \in SignalSets, ChangeSignals(S)
      PROVE  RolloutInv'
  BY <1>1, <1>5, RolloutAssumption DEF ChangeSignals, RolloutInv, RolloutTypeOK
<1> QED
  BY <1>2, <1>3, <1>4, <1>5

LEMMA RolloutInvHolds == RolloutInit /\ [][RolloutNext]_rolloutVars => []RolloutInv
<1>1. RolloutInit => RolloutInv
  <2> SUFFICES ASSUME RolloutInit PROVE RolloutInv
    OBVIOUS
  <2>1. policies \subseteq Policy /\ Unique(policies)
    BY SeedIsPolicy, RolloutAssumption DEF RolloutInit, Unique
  <2>2. IsFiniteSet(policies)
    <3>1. policies = EarlierPolicies \cup {Seed}
      BY DEF RolloutInit
    <3> QED
      BY <3>1, FS_AddElement, RolloutAssumption
  <2>3. /\ process \in [Processes -> ProcessRecord]
        /\ \A v \in Processes : process[v].at # "insert"
    BY RestingTypes DEF RolloutInit
  <2>4. serving \in [Clients -> ServingRecord]
    BY DEF RolloutInit, NotServing, ServingRecord, Scopes
  <2>5. signals \subseteq Signals /\ changes \in 0..MaxChanges
    BY RolloutAssumption DEF RolloutInit
  <2> QED
    BY <2>1, <2>2, <2>3, <2>4, <2>5 DEF RolloutInv, RolloutTypeOK, Unique, ProcessRecord, Reasons, ServingRecord
<1>2. RolloutInv /\ [RolloutNext]_rolloutVars => RolloutInv'
  <2>1. RolloutInv /\ UNCHANGED rolloutVars => RolloutInv'
    BY DEF RolloutInv, RolloutTypeOK, rolloutVars
  <2> QED
    BY <2>1, RequestKeepsTypes, ProcessKeepsTypes, OperatorsKeepTypes DEF RolloutNext
<1> QED
  BY <1>1, <1>2, PTL

\* The policies keep their types: whichever monitors, administrators and
\* operators add policies at a time, no two get one key and version.
THEOREM OnePolicyPerVersion == RolloutSpec => []RolloutTypeOK
<1>1. RolloutInv => RolloutTypeOK
  BY DEF RolloutInv
<1> QED
  BY <1>1, RolloutInvHolds, PTL DEF RolloutSpec

-----------------------------------------------------------------------------
(***************************************************************************)
(* The paths of the linker.  A path is a smallest connection of its two    *)
(* tables: without one of its relations some cut between them is not       *)
(* crossed any more.  Everything about paths follows from such cuts.       *)
(***************************************************************************)
Crosses(r, S) == RelationTables(r) \cap S # {} /\ ~(RelationTables(r) \subseteq S)
LeastPath(K, a, b) ==
    /\ K \subseteq Relations /\ a \in Tables /\ b \in Tables /\ a # b
    /\ Connects(K, a, b)
    /\ \A r \in K : ~Connects(K \ {r}, a, b)

\* A relation is of one table or of two.
LEMMA RelationTablesType ==
    ASSUME NEW r \in Relations
    PROVE  \E t, w \in Tables : RelationTables(r) = {t, w}
<1>1. PICK x \in Columns, y \in Columns : Ends[r] = {x, y}
  BY PlanningAssumption
<1>2. RelationTables(r) = {TableOf[x], TableOf[y]}
  BY <1>1 DEF RelationTables
<1>3. TableOf[x] \in Tables /\ TableOf[y] \in Tables
  BY PlanningAssumption
<1> QED
  BY <1>2, <1>3

LEMMA TablesOfType ==
    ASSUME NEW K \in SUBSET Relations
    PROVE  TablesOf(K) \subseteq Tables
BY RelationTablesType DEF TablesOf

\* Connections have no direction.
LEMMA ConnectsSymmetric ==
    ASSUME NEW K \in SUBSET Relations, NEW a \in Tables, NEW b \in Tables, Connects(K, a, b)
    PROVE  Connects(K, b, a)
<1> SUFFICES ASSUME NEW S \in SUBSET Tables, b \in S, a \notin S
             PROVE  \E r \in K : RelationTables(r) \cap S # {} /\ ~(RelationTables(r) \subseteq S)
  BY DEF Connects
<1>1. PICK r \in K : RelationTables(r) \cap (Tables \ S) # {} /\ ~(RelationTables(r) \subseteq Tables \ S)
  BY DEF Connects
<1>2. RelationTables(r) \subseteq Tables
  BY RelationTablesType
<1> QED
  BY <1>1, <1>2

LEMMA LeastPathSymmetric ==
    ASSUME NEW K, NEW a, NEW b, LeastPath(K, a, b)
    PROVE  LeastPath(K, b, a)
<1>1. Connects(K, b, a)
  BY ConnectsSymmetric DEF LeastPath
<1>2. ASSUME NEW r \in K, Connects(K \ {r}, b, a)
      PROVE  FALSE
  <2>1. K \ {r} \in SUBSET Relations /\ a \in Tables /\ b \in Tables
    BY DEF LeastPath
  <2>2. Connects(K \ {r}, a, b)
    BY <1>2, <2>1, ConnectsSymmetric
  <2> QED
    BY <2>2 DEF LeastPath
<1> QED
  BY <1>1, <1>2 DEF LeastPath

\* What breadth first search returns has no relation to spare.
LEMMA ShortestIsLeast ==
    ASSUME NEW C \in SUBSET Relations, NEW a \in Tables, NEW b \in Tables, a # b,
           NEW K \in ShortestPaths(C, a, b)
    PROVE  LeastPath(K, a, b)
<1>1. /\ K \subseteq C /\ Connects(K, a, b) /\ Cardinality(K) <= MaxHops
      /\ \A L \in SUBSET C : Cardinality(L) <= MaxHops /\ Connects(L, a, b) =>
           Cardinality(K) <= Cardinality(L)
  BY DEF ShortestPaths
<1>2. IsFiniteSet(K)
  BY <1>1, FS_Subset, PlanningAssumption
<1>3. ASSUME NEW r \in K, Connects(K \ {r}, a, b)
      PROVE  FALSE
  <2>1. Cardinality(K \ {r}) = Cardinality(K) - 1
    BY <1>2, FS_RemoveElement
  <2>2. Cardinality(K) \in Nat
    BY <1>2, FS_CardinalityType
  <2>3. Cardinality(K \ {r}) <= MaxHops
    BY <1>1, <2>1, <2>2, PlanningAssumption
  <2>4. Cardinality(K) <= Cardinality(K \ {r})
    BY <1>1, <1>3, <2>3
  <2> QED
    BY <2>1, <2>2, <2>4
<1> QED
  BY <1>1, <1>3 DEF LeastPath

\* Without one of its relations a path has a cut that only this one crosses.
LEMMA CutOfOne ==
    ASSUME NEW K, NEW a, NEW b, LeastPath(K, a, b), NEW r \in K
    PROVE  \E S \in SUBSET Tables : a \in S /\ b \notin S /\ \A o \in K : Crosses(o, S) => o = r
<1>1. ~Connects(K \ {r}, a, b)
  BY DEF LeastPath
<1>2. PICK S \in SUBSET Tables :
        a \in S /\ b \notin S /\ ~\E o \in K \ {r} : Crosses(o, S)
  BY <1>1 DEF Connects, Crosses
<1> QED
  BY <1>2

LEMMA EveryCutIsCrossed ==
    ASSUME NEW K, NEW a, NEW b, LeastPath(K, a, b), NEW S \in SUBSET Tables, a \in S, b \notin S
    PROVE  \E r \in K : Crosses(r, S)
BY DEF LeastPath, Connects, Crosses

\* A path lies on one side of a cut that none of its relations crosses.
LEMMA PathOnOneSide ==
    ASSUME NEW K, NEW a, NEW b, LeastPath(K, a, b), NEW S \in SUBSET Tables,
           \A r \in K : ~Crosses(r, S)
    PROVE  TablesOf(K) \subseteq S \/ TablesOf(K) \cap S = {}
<1>1. SUFFICES ASSUME NEW r \in K, NEW o \in K, RelationTables(r) \subseteq S, RelationTables(o) \cap S = {}
               PROVE  FALSE
  BY <1>1 DEF TablesOf, Crosses
<1>2. RelationTables(r) # {} /\ RelationTables(o) # {}
  BY RelationTablesType DEF LeastPath
<1>3. a \in S <=> b \in S
  <2>1. ~(a \in S /\ b \notin S)
    BY EveryCutIsCrossed
  <2>2. ~(b \in S /\ a \notin S)
    BY EveryCutIsCrossed, LeastPathSymmetric
  <2> QED
    BY <2>1, <2>2
<1>4. CASE a \in S
  <2>1. PICK U \in SUBSET Tables : a \in U /\ b \notin U /\ \A x \in K : Crosses(x, U) => x = o
    BY CutOfOne
  <2>2. PICK x \in K : Crosses(x, U \cap S)
    BY <1>4, <2>1, EveryCutIsCrossed
  <2>3. Crosses(x, U) /\ x # o
    BY <1>1, <2>2 DEF Crosses
  <2> QED
    BY <2>1, <2>3
<1>5. CASE a \notin S
  <2>1. PICK U \in SUBSET Tables : a \in U /\ b \notin U /\ \A x \in K : Crosses(x, U) => x = r
    BY CutOfOne
  <2>2. PICK x \in K : Crosses(x, U \cup S)
    <3>1. b \notin S
      BY <1>3, <1>5
    <3> QED
      BY <2>1, <3>1, EveryCutIsCrossed
  <2>3. Crosses(x, U) /\ x # r
    BY <1>1, <2>2 DEF Crosses
  <2> QED
    BY <2>1, <2>3
<1> QED
  BY <1>4, <1>5

LEMMA TableIsReached ==
    ASSUME NEW K, NEW a, NEW b, LeastPath(K, a, b)
    PROVE  \E r \in K : a \in RelationTables(r)
<1>1. {a} \in SUBSET Tables /\ a \in {a} /\ b \notin {a}
  BY DEF LeastPath
<1>2. PICK r \in K : Crosses(r, {a})
  BY <1>1, EveryCutIsCrossed
<1> QED
  BY <1>2 DEF Crosses

\* A path leaves the table it starts at by one relation only.
LEMMA OneWayOut ==
    ASSUME NEW K, NEW a, NEW b, LeastPath(K, a, b),
           NEW r \in K, NEW o \in K, a \in RelationTables(r), a \in RelationTables(o)
    PROVE  r = o
<1>1. SUFFICES ASSUME r # o PROVE FALSE
  OBVIOUS
<1>2. PICK S \in SUBSET Tables : a \in S /\ b \notin S /\ \A x \in K : Crosses(x, S) => x = r
  BY CutOfOne
<1>3. PICK U \in SUBSET Tables : a \in U /\ b \notin U /\ \A x \in K : Crosses(x, U) => x = o
  BY CutOfOne
<1>4. RelationTables(o) \subseteq S /\ RelationTables(r) \subseteq U
  BY <1>1, <1>2, <1>3 DEF Crosses
<1>5. PICK x \in K : Crosses(x, S \cup U)
  BY <1>2, <1>3, EveryCutIsCrossed
<1>6. Crosses(x, S) \/ Crosses(x, U)
  BY <1>5 DEF Crosses
<1>7. x = r \/ x = o
  BY <1>2, <1>3, <1>6
<1> QED
  BY <1>4, <1>5, <1>7 DEF Crosses

\* A path passes every other table twice.
LEMMA NoOtherEnd ==
    ASSUME NEW K, NEW a, NEW b, LeastPath(K, a, b), NEW v \in Tables, v # a, v # b, NEW r \in K,
           v \in RelationTables(r)
    PROVE  \E o \in K : o # r /\ v \in RelationTables(o)
<1>1. SUFFICES ASSUME \A o \in K : v \in RelationTables(o) => o = r PROVE FALSE
  OBVIOUS
<1>2. PICK w \in Tables : RelationTables(r) = {v, w}
  BY RelationTablesType DEF LeastPath
<1>3. PICK U \in SUBSET Tables : a \in U /\ b \notin U /\ \A x \in K : Crosses(x, U) => x = r
  BY CutOfOne
<1> DEFINE S == IF w \in U THEN U \cup {v} ELSE U \ {v}
<1>4. S \in SUBSET Tables /\ a \in S /\ b \notin S
  BY <1>3
<1>5. ~Crosses(r, S)
  BY <1>2 DEF Crosses
<1>6. PICK x \in K : Crosses(x, S)
  <2> HIDE DEF S
  <2> QED
    BY <1>4, EveryCutIsCrossed
<1>7. v \notin RelationTables(x)
  BY <1>1, <1>5, <1>6
<1>8. Crosses(x, U)
  BY <1>6, <1>7 DEF Crosses
<1> QED
  BY <1>3, <1>5, <1>6, <1>8

\* What the linker calls the ends of a path are the two tables it was searched
\* for.
LEMMA EndsOfPath ==
    ASSUME NEW K, NEW a, NEW b, LeastPath(K, a, b)
    PROVE  PathEnds(K) = {a, b}
<1> DEFINE At_(t) == {r \in K : t \in RelationTables(r)}
<1>1. \A t : IsFiniteSet(At_(t))
  <2>1. IsFiniteSet(K)
    BY FS_Subset, PlanningAssumption DEF LeastPath
  <2> QED
    BY <2>1, FS_Subset
<1>2. \A t : t \in PathEnds(K) <=> \E r : At_(t) = {r}
  <2>1. \A t : t \in PathEnds(K) <=> t \in TablesOf(K) /\ Cardinality(At_(t)) = 1
    BY DEF PathEnds
  <2>2. \A t : Cardinality(At_(t)) = 1 <=> \E r : At_(t) = {r}
    <3> TAKE t
    <3> HIDE DEF At_
    <3> QED
      BY <1>1, FS_Singleton
  <2>3. \A t, r : At_(t) = {r} => t \in TablesOf(K)
    BY DEF TablesOf
  <2> HIDE DEF At_
  <2> QED
    BY <2>1, <2>2, <2>3
<1>3. ASSUME NEW x, NEW y, LeastPath(K, x, y)
      PROVE  x \in PathEnds(K)
  <2>1. PICK r \in K : x \in RelationTables(r)
    BY <1>3, TableIsReached
  <2>2. At_(x) = {r}
    BY <1>3, <2>1, OneWayOut
  <2> QED
    BY <1>2, <2>2
<1>4. ASSUME NEW v \in PathEnds(K), v # a, v # b
      PROVE  FALSE
  <2>1. PICK r : At_(v) = {r}
    BY <1>2
  <2>2. r \in K /\ v \in RelationTables(r) /\ \A o \in K : v \in RelationTables(o) => o = r
    BY <2>1
  <2>3. v \in Tables
    BY <2>2, RelationTablesType DEF LeastPath
  <2> QED
    BY <1>4, <2>2, <2>3, NoOtherEnd
<1>5. a \in PathEnds(K) /\ b \in PathEnds(K)
  BY <1>3, LeastPathSymmetric
<1> QED
  BY <1>4, <1>5

\* What the linker hands over: the paths between the relevant tables, by
\* confirmed relations.
Linked ==
    /\ bundle.confirmed \subseteq Relations /\ bundle.relevant \subseteq Tables
    /\ bundle.paths = JoinPaths(bundle.confirmed, bundle.relevant)

LEMMA PathOf ==
    ASSUME Linked, NEW K \in bundle.paths
    PROVE  /\ K \subseteq bundle.confirmed
           /\ \E a, b \in bundle.relevant : LeastPath(K, a, b)
<1>1. PICK p \in bundle.relevant \X bundle.relevant :
        /\ p[1] # p[2] /\ ShortestPaths(bundle.confirmed, p[1], p[2]) # {}
        /\ K = CHOOSE L \in ShortestPaths(bundle.confirmed, p[1], p[2]) : TRUE
  BY DEF Linked, JoinPaths
<1>2. K \in ShortestPaths(bundle.confirmed, p[1], p[2])
  BY <1>1
<1>3. LeastPath(K, p[1], p[2])
  BY <1>1, <1>2, ShortestIsLeast DEF Linked
<1>4. K \subseteq bundle.confirmed
  BY <1>2 DEF ShortestPaths
<1> QED
  BY <1>3, <1>4

LEMMA PathBetween ==
    ASSUME Linked, NEW a \in bundle.relevant, NEW b \in bundle.relevant, a # b,
           ShortestPaths(bundle.confirmed, a, b) # {}
    PROVE  \E K \in bundle.paths : LeastPath(K, a, b)
<1> DEFINE p == <<a, b>>
           K == CHOOSE L \in ShortestPaths(bundle.confirmed, a, b) : TRUE
<1>1. K \in ShortestPaths(bundle.confirmed, a, b)
  OBVIOUS
<1>2. LeastPath(K, a, b)
  <2> HIDE DEF K
  <2> QED
    BY <1>1, ShortestIsLeast DEF Linked
<1>3. p \in bundle.relevant \X bundle.relevant /\ p[1] = a /\ p[2] = b
  OBVIOUS
<1>4. K \in bundle.paths
  BY <1>3 DEF Linked, JoinPaths
<1> QED
  BY <1>2, <1>4

\* The paths that end within a set of reachable tables join these tables: what
\* every one of the validator's checks of joins asks for.
LEMMA LinkedPathsJoin ==
    ASSUME Linked, NEW T \in SUBSET bundle.relevant, Reachable(T)
    PROVE  JoinsAnswer(T, {K \in bundle.paths : PathEnds(K) \subseteq T})
<1> DEFINE P == {K \in bundle.paths : PathEnds(K) \subseteq T}
<1>1. \A s, t \in T : s # t => \E K \in P : LeastPath(K, s, t)
  <2> SUFFICES ASSUME NEW s \in T, NEW t \in T, s # t
               PROVE  \E K \in P : LeastPath(K, s, t)
    OBVIOUS
  <2>1. PICK K \in bundle.paths : LeastPath(K, s, t)
    BY PathBetween DEF Reachable
  <2>2. PathEnds(K) = {s, t}
    BY <2>1, EndsOfPath
  <2> QED
    BY <2>1, <2>2
<1>2. \A K \in P : \E a, b \in T : LeastPath(K, a, b)
  <2> SUFFICES ASSUME NEW K \in P
               PROVE  \E a, b \in T : LeastPath(K, a, b)
    OBVIOUS
  <2>1. PICK a \in bundle.relevant, b \in bundle.relevant : LeastPath(K, a, b)
    BY PathOf
  <2>2. PathEnds(K) = {a, b}
    BY <2>1, EndsOfPath
  <2> QED
    BY <2>1, <2>2
<1>3. PathsNeeded(T, P)
  BY DEF PathsNeeded
<1>4. PathsConfirmed(P)
  BY PathOf DEF PathsConfirmed
<1>5. PathsCover(T, P)
  <2> SUFFICES ASSUME Cardinality(T) > 1, NEW s \in T
               PROVE  s \in UNION {TablesOf(K) : K \in P}
    BY DEF PathsCover
  <2>1. T # {s}
    <3>1. Cardinality({s}) = 1
      BY FS_Singleton
    <3> QED
      BY <3>1
  <2>2. PICK t \in T : s # t
    BY <2>1
  <2>3. PICK K \in P : LeastPath(K, s, t)
    BY <1>1, <2>2
  <2>4. s \in TablesOf(K)
    BY <2>3, TableIsReached DEF TablesOf
  <2> QED
    BY <2>4
<1>6. PathsConnect(P)
  <2> SUFFICES ASSUME NEW K \in P, NEW L \in P, NEW x \in TablesOf(K), NEW y \in TablesOf(L),
                      NEW S \in SUBSET Tables, x \in S, y \notin S,
                      \A r \in UNION P : ~Crosses(r, S)
               PROVE  FALSE
    BY DEF PathsConnect, Connects, Crosses
  <2>1. PICK a \in T, b \in T : LeastPath(K, a, b)
    BY <1>2
  <2>2. PICK c \in T, d \in T : LeastPath(L, c, d)
    BY <1>2
  <2>3. TablesOf(K) \subseteq S /\ TablesOf(L) \cap S = {}
    BY <2>1, <2>2, PathOnOneSide
  <2>4. a \in TablesOf(K) /\ c \in TablesOf(L)
    BY <2>1, <2>2, TableIsReached DEF TablesOf
  <2>5. PICK M \in P : LeastPath(M, a, c)
    BY <1>1, <2>3, <2>4
  <2>6. \E r \in M : Crosses(r, S)
    BY <2>3, <2>4, <2>5, EveryCutIsCrossed
  <2> QED
    BY <2>6
<1> QED
  BY <1>3, <1>4, <1>5, <1>6 DEF JoinsAnswer

-----------------------------------------------------------------------------
(***************************************************************************)
(* The types of plans and of the SQL written for them.                     *)
(***************************************************************************)
PlanRecords ==
    [metrics : SUBSET Metrics, dims : SUBSET Columns, grain : SUBSET Columns,
     filters : SUBSET FilterPool, time : BOOLEAN, joins : SUBSET Relations]
Nodes == [col : Columns, op : Operators, args : SUBSET Arguments, flipped : BOOLEAN,
          under : {"and", "or", "not"}]
\* What the validator checks of a plan: its grain is of its dimensions, and it
\* takes the values of controlled columns, and only those, from the dictionary.
PlanIsChecked(d) ==
    /\ d.grain \subseteq d.dims
    /\ \A f \in d.filters : f.kind = "ids" <=> f.col \in ControlledColumns
SqlRecords ==
    [flat : BOOLEAN, tables : [Tables -> 0..2], joins : [Relations -> {"none", "inner", "left"}],
     where : SUBSET Nodes, outputs : [Assets -> Assets \cup {Nothing}], group : SUBSET Columns,
     sorted : BOOLEAN, limit : 0..MaxRows + 1]
PlanInv ==
    /\ stage \in {"ground", "draft", "sql"} /\ DOMAIN bundle = DOMAIN NoBundle
    /\ stage = "draft" => Linked
    /\ plan \in PlanRecords /\ PlanIsChecked(plan) /\ sql \in SqlRecords /\ edits \in 0..MaxEdits

LEMMA NodeOfPredicate ==
    ASSUME NEW p \in Predicates, NEW under \in {"and", "or", "not"}
    PROVE  In(p, under) \in Nodes
BY DEF In, Predicates, Nodes

\* What a plan compares: predicates of columns, of its filters and metrics and
\* of the time range.
LEMMA PlannedPredicates ==
    ASSUME NEW d \in PlanRecords
    PROVE  PlanFilters(d) \cup RequiredPredicates(d) \cup TimeBounds(d) \subseteq Predicates
<1>1. PlanFilters(d) \subseteq Predicates
  <2> SUFFICES ASSUME NEW f \in d.filters
               PROVE  AsPredicate(f) \in Predicates
    BY DEF PlanFilters
  <2>1. f.col \in Columns /\ f.op \in Operators /\ f.vals \subseteq Domain
    BY GuardAssumption DEF PlanRecords
  <2>2. {[n |-> n, form |-> FormOf(f)] : n \in f.vals} \subseteq Arguments
    BY <2>1 DEF Arguments, FormOf
  <2> QED
    BY <2>1, <2>2 DEF AsPredicate, Predicates
<1>2. RequiredPredicates(d) \subseteq Predicates
  BY GuardAssumption DEF PlanRecords, RequiredPredicates
<1>3. TimeBounds(d) \subseteq Predicates
  BY GuardAssumption DEF TimeBounds
<1> QED
  BY <1>1, <1>2, <1>3

LEMMA OwnSqlType ==
    ASSUME NEW d \in PlanRecords
    PROVE  OwnSql(d) \in SqlRecords
<1>1. Written(PlanFilters(d) \cup RequiredPredicates(d) \cup TimeBounds(d)) \subseteq Nodes
  BY PlannedPredicates, NodeOfPredicate DEF Written
<1>2. [t \in Tables |-> IF t \in PlannedTables(d) THEN 1 ELSE 0] \in [Tables -> 0..2]
  OBVIOUS
<1>3. [r \in Relations |-> IF r \in d.joins THEN "inner" ELSE "none"]
        \in [Relations -> {"none", "inner", "left"}]
  OBVIOUS
<1>4. [n \in Assets |-> IF n \in PlannedOutputs(d) THEN n ELSE Nothing] \in [Assets -> Assets \cup {Nothing}]
  OBVIOUS
<1>5. (IF d.metrics \cup d.grain = {} THEN {} ELSE d.dims) \subseteq Columns
  BY DEF PlanRecords
<1>6. PlanLimit \in 0..MaxRows + 1
  BY PlanningAssumption, GuardAssumption
<1> QED
  BY <1>1, <1>2, <1>3, <1>4, <1>5, <1>6 DEF OwnSql, SqlRecords

LEMMA EditsType ==
    ASSUME PlanInv, NEW q \in Edits(sql)
    PROVE  q \in SqlRecords
<1>1. sql \in SqlRecords /\ plan \in PlanRecords
  BY DEF PlanInv
<1>2. sql.where \subseteq Nodes /\ sql.group \subseteq Columns /\ sql.flat \in BOOLEAN /\ sql.sorted \in BOOLEAN
  BY <1>1 DEF SqlRecords
<1>3. ASSUME NEW p \in SqlPredicates, NEW under \in {"and", "or", "not"},
             q = [sql EXCEPT !.where = @ \cup {In(p, under)}]
      PROVE  q \in SqlRecords
  <2>1. In(p, under) \in Nodes
    BY NodeOfPredicate, GuardAssumption
  <2>2. sql.where \cup {In(p, under)} \in SUBSET Nodes
    BY <1>2, <2>1
  <2> HIDE DEF In
  <2> QED
    BY <1>1, <1>3, <2>2 DEF SqlRecords
<1>4. ASSUME NEW p \in sql.where, q = [sql EXCEPT !.where = @ \ {p}]
      PROVE  q \in SqlRecords
  <2>1. sql.where \ {p} \in SUBSET Nodes
    BY <1>2
  <2> QED
    BY <1>1, <1>4, <2>1 DEF SqlRecords
<1>5. ASSUME NEW r \in Relations, NEW kind \in {"none", "inner", "left"}, q = [sql EXCEPT !.joins[r] = kind]
      PROVE  q \in SqlRecords
  <2>1. [sql.joins EXCEPT ![r] = kind] \in [Relations -> {"none", "inner", "left"}]
    BY <1>1 DEF SqlRecords
  <2> QED
    BY <1>1, <1>5, <2>1 DEF SqlRecords
<1>6. ASSUME NEW t \in Tables, NEW n \in 0..2, q = [sql EXCEPT !.tables[t] = n]
      PROVE  q \in SqlRecords
  <2>1. [sql.tables EXCEPT ![t] = n] \in [Tables -> 0..2]
    BY <1>1 DEF SqlRecords
  <2> QED
    BY <1>1, <1>6, <2>1 DEF SqlRecords
<1>7. ASSUME NEW n \in PlannedOutputs(plan), NEW v \in Metrics \cup plan.dims \cup {Nothing},
             q = [sql EXCEPT !.outputs[n] = v]
      PROVE  q \in SqlRecords
  <2>1. n \in Assets /\ v \in Assets \cup {Nothing}
    BY <1>1 DEF PlanRecords, PlannedOutputs, Assets
  <2>2. [sql.outputs EXCEPT ![n] = v] \in [Assets -> Assets \cup {Nothing}]
    BY <1>1, <2>1 DEF SqlRecords
  <2> QED
    BY <1>1, <1>7, <2>2 DEF SqlRecords
<1>8. ASSUME NEW c \in PlainColumns(plan), q = [sql EXCEPT !.group = (@ \ {c}) \cup ({c} \ @)]
      PROVE  q \in SqlRecords
  <2>1. \A f \in plan.filters : f.col \in Columns
    BY <1>1, GuardAssumption DEF PlanRecords
  <2>2. c \in Columns
    BY <1>1, <2>1, PlanningAssumption DEF PlainColumns, FilterColumns, TimeColumns, PlanRecords
  <2>3. (sql.group \ {c}) \cup ({c} \ sql.group) \in SUBSET Columns
    BY <1>2, <2>2
  <2> QED
    BY <1>1, <1>8, <2>3 DEF SqlRecords
<1>9. ASSUME q \in {[sql EXCEPT !.sorted = ~@], [sql EXCEPT !.flat = ~@]}
      PROVE  q \in SqlRecords
  <2>1. (~sql.sorted) \in BOOLEAN /\ (~sql.flat) \in BOOLEAN
    BY <1>2, Zenon
  <2>2. [sql EXCEPT !.sorted = ~sql.sorted] \in SqlRecords /\ [sql EXCEPT !.flat = ~sql.flat] \in SqlRecords
    BY <1>1, <2>1 DEF SqlRecords
  <2> QED
    BY <1>9, <2>2
<1>10. ASSUME NEW n \in 0..MaxRows + 1, q = [sql EXCEPT !.limit = n]
       PROVE  q \in SqlRecords
  BY <1>1, <1>10 DEF SqlRecords
<1> QED
  BY <1>3, <1>4, <1>5, <1>6, <1>7, <1>8, <1>9, <1>10 DEF Edits

LEMMA GroundLinks ==
    ASSUME Ground
    PROVE  Linked' /\ DOMAIN bundle' = DOMAIN NoBundle
<1>1. PICK gone \in NotCurrent, status \in RelationStates, relevant \in Relevant, unscored \in Unscored,
           values \in ValuesFound, tie \in BOOLEAN :
        bundle' = Link(Current(gone), status, relevant, unscored, values, tie)
  BY DEF Ground
<1>2. /\ bundle'.confirmed \subseteq Relations /\ bundle'.relevant = relevant
      /\ bundle'.paths = JoinPaths(bundle'.confirmed, relevant)
  BY <1>1 DEF Link
<1>3. DOMAIN bundle' = DOMAIN NoBundle
  BY <1>1 DEF Link, NoBundle
<1> QED
  BY <1>2, <1>3 DEF Linked, Relevant

LEMMA PlanStep ==
    ASSUME PlanInv, GuardNext
    PROVE  PlanInv'
<1>1. CASE Ground /\ UNCHANGED <<sql, edits>>
  BY <1>1, GroundLinks DEF Ground, PlanInv
<1>2. CASE WriteSql
  <2>1. PICK d \in Drafts :
            /\ PlanStatus(d) = "VALID"
            /\ plan' = [metrics |-> d.metrics, dims |-> d.dims, grain |-> d.grain,
                        filters |-> d.filters, time |-> d.time, joins |-> UNION d.paths]
    BY <1>2 DEF WriteSql, DraftPlan
  <2>2. Linked
    BY <1>2 DEF WriteSql, DraftPlan, PlanInv
  <2>3. UNION d.paths \subseteq Relations
    <3>1. \A K \in bundle.paths : K \subseteq Relations
      BY <2>2, PathOf DEF Linked
    <3>2. d.paths \subseteq bundle.paths
      BY DEF Drafts
    <3> QED
      BY <3>1, <3>2
  <2>4. /\ d.metrics \subseteq Metrics /\ d.dims \subseteq Columns /\ d.grain \subseteq d.dims
        /\ d.filters \subseteq FilterPool /\ d.time \in BOOLEAN
    BY PlanningAssumption DEF Drafts
  <2>5. plan' \in PlanRecords
    BY <2>1, <2>3, <2>4 DEF PlanRecords
  <2>8. PlanIsChecked(plan')
    <3>1. FiltersGrounded(d)
      BY <2>1 DEF PlanStatus
    <3>2. \A f \in d.filters : f.kind \in {"ids", "literals"}
      BY <2>4, GuardAssumption
    <3>3. \A f \in d.filters : f.kind = "ids" <=> f.col \in ControlledColumns
      BY <3>1, <3>2 DEF FiltersGrounded
    <3> QED
      BY <2>1, <2>4, <3>3 DEF PlanIsChecked
  <2>6. sql' \in SqlRecords
    <3>1. OwnSql(plan') \in SqlRecords
      BY <2>5, OwnSqlType
    <3> QED
      BY <1>2, <3>1 DEF WriteSql
  <2>7. stage' = "sql" /\ bundle' = NoBundle /\ edits' = 0
    BY <1>2 DEF WriteSql, DraftPlan
  <2> QED
    BY <2>5, <2>6, <2>7, <2>8, GuardAssumption DEF PlanInv
<1>3. CASE RewriteSql
  <2>1. sql' \in SqlRecords
    BY <1>3, EditsType DEF RewriteSql
  <2>2. edits' \in 0..MaxEdits
    BY <1>3, GuardAssumption DEF RewriteSql, PlanInv
  <2>3. UNCHANGED <<stage, bundle, plan>> /\ stage = "sql"
    BY <1>3 DEF RewriteSql, planningVars
  <2> QED
    BY <2>1, <2>2, <2>3 DEF PlanInv
<1> QED
  BY <1>1, <1>2, <1>3 DEF GuardNext

LEMMA PlanInvHolds == GuardSpec => []PlanInv
<1>1. GuardInit => PlanInv
  <2> SUFFICES ASSUME GuardInit PROVE PlanInv
    OBVIOUS
  <2>1. plan \in PlanRecords /\ PlanIsChecked(plan)
    BY DEF GuardInit, PlanRecords, PlanIsChecked
  <2>2. sql \in SqlRecords
    BY <2>1, OwnSqlType DEF GuardInit
  <2> QED
    BY <2>1, <2>2, GuardAssumption DEF GuardInit, PlanInv
<1>2. PlanInv /\ [GuardNext]_guardVars => PlanInv'
  <2>1. PlanInv /\ UNCHANGED guardVars => PlanInv'
    BY DEF PlanInv, PlanIsChecked, Linked, guardVars
  <2> QED
    BY <2>1, PlanStep
<1> QED
  BY <1>1, <1>2, PTL DEF GuardSpec

LEMMA PlanInvTypes == PlanInv => PlanTypeOK
BY DEF PlanInv, PlanIsChecked, PlanTypeOK, PlanRecords, SqlRecords

-----------------------------------------------------------------------------
(***************************************************************************)
(* The guard does not refuse the SQL that a plan asks for.                 *)
(***************************************************************************)
Compared(d) == PlanFilters(d) \cup RequiredPredicates(d) \cup TimeBounds(d)

LEMMA ComparedColumnsAre ==
    ASSUME NEW d \in PlanRecords
    PROVE  ComparedColumns(d) = {p.col : p \in Compared(d)}
<1>1. FilterColumns(d) = {p.col : p \in PlanFilters(d)}
  <2>1. \A f : AsPredicate(f).col = f.col
    BY DEF AsPredicate
  <2> QED
    BY <2>1 DEF FilterColumns, PlanFilters
<1>2. TimeColumns(d) = {p.col : p \in TimeBounds(d)}
  BY GuardAssumption DEF TimeColumns, TimeBounds
<1> QED
  BY <1>1, <1>2 DEF ComparedColumns, Compared

\* A planned predicate is one on a column of the plan or of a metric in it.
LEMMA ComparedTables ==
    ASSUME NEW d \in PlanRecords, NEW c \in ComparedColumns(d)
    PROVE  TableOf[c] \in PlannedTables(d)
<1>1. CASE c \in FilterColumns(d) \cup TimeColumns(d)
  BY <1>1 DEF PlannedTables, ReferencedTables, PlainColumns
<1>2. CASE \E p \in RequiredPredicates(d) : c = p.col
  <2>1. PICK m \in d.metrics : \E p \in MetricPredicates[m] : c = p.col
    BY <1>2 DEF RequiredPredicates
  <2>2. m \in Metrics
    BY DEF PlanRecords
  <2>3. c \in MetricColumns[m]
    BY <2>1, <2>2, GuardAssumption
  <2>4. TableOf[c] \in MetricTables(d)
    BY <2>3 DEF MetricTables
  <2> QED
    BY <2>4 DEF PlannedTables, ReferencedTables
<1> QED
  BY <1>1, <1>2 DEF ComparedColumns

LEMMA OwnColumns ==
    ASSUME NEW d \in PlanRecords
    PROVE  LET q == OwnSql(d)
           IN /\ WhereColumns(q) = ComparedColumns(d)
              /\ Joined(q) = d.joins
              /\ OutputNames(q) = PlannedOutputs(d)
              /\ Selected(q) = PlannedOutputs(d)
              /\ SelectedColumns(q) = d.dims
              /\ MetricColumnsOf(Selected(q)) = MetricColumnsOf(d.metrics)
<1> DEFINE q == OwnSql(d)
<1>1. d.metrics \subseteq Metrics /\ d.dims \subseteq Columns /\ d.joins \subseteq Relations
  BY DEF PlanRecords
<1>2. PlannedOutputs(d) \subseteq Assets
  BY <1>1 DEF PlannedOutputs, Assets
<1>3. WhereColumns(q) = ComparedColumns(d)
  <2>1. q.where = Written(Compared(d))
    BY DEF OwnSql, Compared
  <2>2. {p.col : p \in Written(Compared(d))} = {p.col : p \in Compared(d)}
    <3>1. \A p : In(p, "and").col = p.col
      BY DEF In
    <3> QED
      BY <3>1 DEF Written
  <2> QED
    BY <2>1, <2>2, ComparedColumnsAre DEF WhereColumns
<1>4. Joined(q) = d.joins
  <2>1. \A r \in Relations : q.joins[r] = IF r \in d.joins THEN "inner" ELSE "none"
    BY DEF OwnSql
  <2> QED
    BY <1>1, <2>1 DEF Joined
<1>5. \A n \in Assets : q.outputs[n] = IF n \in PlannedOutputs(d) THEN n ELSE Nothing
  BY DEF OwnSql
<1>6. OutputNames(q) = PlannedOutputs(d)
  BY <1>2, <1>5, GuardAssumption DEF OutputNames
<1>7. Selected(q) = PlannedOutputs(d)
  BY <1>2, <1>5, <1>6 DEF Selected
<1>8. PlannedOutputs(d) \cap Columns = d.dims /\ PlannedOutputs(d) \cap Metrics = d.metrics
  BY <1>1, PlanningAssumption DEF PlannedOutputs
<1>9. SelectedColumns(q) = d.dims
  BY <1>7, <1>8 DEF SelectedColumns
<1>10. MetricColumnsOf(Selected(q)) = MetricColumnsOf(d.metrics)
  BY <1>1, <1>7, <1>8 DEF MetricColumnsOf
<1> HIDE DEF q
<1> QED
  BY <1>3, <1>4, <1>6, <1>7, <1>9, <1>10 DEF q

LEMMA OwnSqlRuns ==
    ASSUME NEW d \in PlanRecords
    PROVE  Runs(OwnSql(d))
<1> DEFINE q == OwnSql(d)
<1>1. d.metrics \subseteq Metrics /\ d.dims \subseteq Columns /\ d.joins \subseteq Relations
  BY DEF PlanRecords
<1>2. q.group = IF d.metrics \cup d.grain = {} THEN {} ELSE d.dims
  BY DEF OwnSql
<1>3. ActualColumns(q) =
        ComparedColumns(d) \cup (UNION {Ends[r] : r \in d.joins}) \cup d.dims \cup MetricColumnsOf(d.metrics)
  <2>1. /\ WhereColumns(q) = ComparedColumns(d) /\ Joined(q) = d.joins
        /\ SelectedColumns(q) = d.dims /\ MetricColumnsOf(Selected(q)) = MetricColumnsOf(d.metrics)
    BY OwnColumns
  <2>2. JoinColumns(q) = UNION {Ends[r] : r \in d.joins}
    BY <2>1 DEF JoinColumns
  <2>3. ActualColumns(q) =
          WhereColumns(q) \cup JoinColumns(q) \cup SelectedColumns(q) \cup q.group \cup MetricColumnsOf(Selected(q))
    BY DEF ActualColumns
  <2> HIDE DEF q
  <2>4. ActualColumns(q) =
          ComparedColumns(d) \cup (UNION {Ends[r] : r \in d.joins}) \cup d.dims \cup q.group \cup MetricColumnsOf(d.metrics)
    BY <2>1, <2>2, <2>3
  <2>5. q.group \subseteq d.dims
    BY <1>2
  <2> QED
    BY <2>4, <2>5
<1>4. \A c \in ActualColumns(q) : TableOf[c] \in PlannedTables(d) /\ c \in Columns
  <2> SUFFICES ASSUME NEW c \in ActualColumns(q)
               PROVE  TableOf[c] \in PlannedTables(d) /\ c \in Columns
    OBVIOUS
  <2>1. CASE c \in ComparedColumns(d)
    <3>1. c \in Columns
      BY <2>1, ComparedColumnsAre, PlannedPredicates DEF Compared, Predicates
    <3> QED
      BY <2>1, <3>1, ComparedTables
  <2>2. ASSUME NEW r \in d.joins, c \in Ends[r]
        PROVE  TableOf[c] \in PlannedTables(d) /\ c \in Columns
    BY <1>1, <2>2, PlanningAssumption DEF PlannedTables, TablesOf, RelationTables
  <2>3. CASE c \in d.dims
    BY <1>1, <2>3 DEF PlannedTables, ReferencedTables, PlainColumns
  <2>4. ASSUME NEW m \in d.metrics, c \in MetricColumns[m]
        PROVE  TableOf[c] \in PlannedTables(d) /\ c \in Columns
    BY <1>1, <2>4, PlanningAssumption DEF PlannedTables, ReferencedTables, MetricTables
  <2>5. \/ c \in ComparedColumns(d)
        \/ \E r \in d.joins : c \in Ends[r]
        \/ c \in d.dims
        \/ \E m \in d.metrics : c \in MetricColumns[m]
    <3>1. \/ c \in ComparedColumns(d) \/ c \in UNION {Ends[r] : r \in d.joins}
          \/ c \in d.dims \/ c \in MetricColumnsOf(d.metrics)
      <4> HIDE DEF q
      <4> QED
        BY <1>3
    <3>2. c \in MetricColumnsOf(d.metrics) => \E m \in d.metrics : c \in MetricColumns[m]
      BY DEF MetricColumnsOf
    <3> QED
      BY <3>1, <3>2
  <2> HIDE DEF q
  <2> QED
    BY <2>1, <2>2, <2>3, <2>4, <2>5
<1>5. \A t \in PlannedTables(d) : t \in Tables => q.tables[t] = 1
  BY DEF OwnSql
<1>6. \A c \in Columns : TableOf[c] \in Tables
  BY PlanningAssumption
<1>7. Aggregates(q) => SelectedColumns(q) \subseteq q.group
  <2>1. SelectedColumns(q) = d.dims /\ Selected(q) = PlannedOutputs(d)
    BY OwnColumns
  <2>2. PlannedOutputs(d) \cap Metrics = d.metrics
    BY <1>1, PlanningAssumption DEF PlannedOutputs
  <2> HIDE DEF q
  <2> QED
    BY <1>2, <2>1, <2>2 DEF Aggregates
<1> HIDE DEF q
<1>8. \A c \in ActualColumns(q) : q.tables[TableOf[c]] > 0
  BY <1>4, <1>5, <1>6
<1> QED
  BY <1>7, <1>8 DEF Runs, q

\* What the guard reads of the literals that a filter is written with.
LEMMA FilterIsRead ==
    ASSUME NEW f \in FilterPool, NEW P, P # {}, \A p \in P : p.args = AsPredicate(f).args,
           f.kind = "literals" => \A n \in f.vals : n >= 0
    PROVE  f.vals = IF f.kind = "ids" THEN Strings(P) ELSE Numbers(P)
<1> DEFINE arg_(n) == [n |-> n, form |-> FormOf(f)]
           args_ == {arg_(n) : n \in f.vals}
<1>1. AsPredicate(f).args = args_
  BY DEF AsPredicate
<1>2. f.kind \in {"ids", "literals"} /\ f.vals \subseteq Domain
  BY GuardAssumption
<1>3. /\ \A n : arg_(n).n = n /\ arg_(n).form = FormOf(f)
      /\ FormOf(f) = IF f.kind = "ids" THEN "string" ELSE "number"
  BY DEF FormOf
<1> HIDE DEF arg_
<1>4. {x \in args_ : x.form = FormOf(f)} = args_ /\ {a.n : a \in args_} = f.vals
  BY <1>3
<1>5. CASE f.kind = "ids"
  <2>1. Strings(P) = {a.n : a \in {x \in args_ : x.form = "string"}}
    <3> HIDE DEF args_
    <3> QED
      BY <1>1 DEF Strings
  <2> QED
    BY <1>3, <1>4, <1>5, <2>1
<1>6. CASE f.kind = "literals"
  <2>1. Numbers(P) = {Digits(a.n) : a \in {x \in args_ : x.form = "number"}}
    <3> HIDE DEF args_
    <3> QED
      BY <1>1 DEF Numbers
  <2>2. \A n \in f.vals : Digits(n) = n
    BY <1>2, <1>6 DEF Digits, Domain
  <2>3. {Digits(a.n) : a \in args_} = f.vals
    BY <1>3, <2>2
  <2>4. {x \in args_ : x.form = "number"} = args_
    BY <1>3, <1>4, <1>6
  <2> QED
    BY <1>6, <2>1, <2>3, <2>4
<1> QED
  BY <1>2, <1>5, <1>6

\* The tables of a plan are tables, and a plan that names an asset has some.
LEMMA PlanHasTables ==
    ASSUME NEW d \in PlanRecords
    PROVE  /\ PlannedTables(d) \subseteq Tables
           /\ d.metrics \cup PlainColumns(d) # {} => PlannedTables(d) # {}
<1>1. d.metrics \subseteq Metrics /\ d.dims \subseteq Columns /\ d.joins \subseteq Relations
  BY DEF PlanRecords
<1>2. PlainColumns(d) \subseteq Columns
  BY <1>1, GuardAssumption, PlanningAssumption
     DEF PlainColumns, FilterColumns, TimeColumns, PlanRecords
<1>3. \A m \in d.metrics : MetricColumns[m] \subseteq Columns /\ MetricColumns[m] # {}
  BY <1>1, PlanningAssumption
<1>4. MetricTables(d) \subseteq Tables /\ (d.metrics # {} => MetricTables(d) # {})
  <2>1. \A c \in UNION {MetricColumns[m] : m \in d.metrics} : TableOf[c] \in Tables
    BY <1>3, PlanningAssumption
  <2>2. d.metrics # {} => UNION {MetricColumns[m] : m \in d.metrics} # {}
    BY <1>3
  <2> QED
    BY <2>1, <2>2 DEF MetricTables
<1>5. TablesOf(d.joins) \subseteq Tables
  BY <1>1, PlanningAssumption DEF TablesOf, RelationTables
<1>6. /\ {TableOf[c] : c \in PlainColumns(d)} \subseteq Tables
      /\ PlainColumns(d) # {} => {TableOf[c] : c \in PlainColumns(d)} # {}
  BY <1>2, PlanningAssumption
<1> QED
  BY <1>4, <1>5, <1>6 DEF PlannedTables, ReferencedTables

LEMMA OwnSqlAccepted ==
    ASSUME NEW d \in PlanRecords, PlanIsChecked(d), ~SharesOperator(d), ~NoSqlFor(d)
    PROVE  Accepts(d, OwnSql(d))
<1> DEFINE q == OwnSql(d)
<1>1. d.metrics \subseteq Metrics /\ d.dims \subseteq Columns /\ d.joins \subseteq Relations
  BY DEF PlanRecords
<1>2. /\ q.where = Written(Compared(d)) /\ q.sorted /\ q.flat /\ q.limit = PlanLimit
      /\ q.group = IF d.metrics \cup d.grain = {} THEN {} ELSE d.dims
  BY DEF OwnSql, Compared
<1>3. \A n \in PlannedOutputs(d) : q.outputs[n] = n
  BY <1>1 DEF OwnSql, PlannedOutputs, Assets
<1>4. PlannedColumnsPresent(d, q)
  <2>1. FilterColumns(d) \cup TimeColumns(d) \subseteq ComparedColumns(d)
    BY DEF ComparedColumns
  <2> HIDE DEF q
  <2> QED
    BY <2>1, OwnColumns DEF PlannedColumnsPresent, PlainColumns, ActualColumns, q
<1>5. MetricsPresent(d, q)
  BY <1>2, <1>3 DEF MetricsPresent, PlannedOutputs, Written, Compared
<1>6. JoinsPresent(d, q)
  BY <1>1 DEF JoinsPresent, OwnSql
<1>7. NothingUnplanned(d, q)
  <2>1. \A t \in Tables : q.tables[t] > 0 => t \in PlannedTables(d)
    BY DEF OwnSql
  <2> QED
    BY <2>1, OwnColumns DEF NothingUnplanned, AllowedColumns, JoinColumns
<1>8. FiltersPresent(d, q)
  <2> SUFFICES ASSUME NEW f \in d.filters
               PROVE  LET nodes == OperatorNodes(q, f.col, f.op)
                      IN nodes # {} /\ f.vals = IF f.kind = "ids" THEN Strings(nodes) ELSE Numbers(nodes)
    BY DEF FiltersPresent
  <2> DEFINE found_ == OperatorNodes(q, f.col, f.op)
  <2>1. AsPredicate(f) \in Compared(d)
    BY DEF PlanFilters, Compared
  <2>2. In(AsPredicate(f), "and") \in found_
    BY <1>2, <2>1 DEF OperatorNodes, Written, In, AsPredicate
  <2>3. \A n \in found_ : n.args = AsPredicate(f).args
    <3> SUFFICES ASSUME NEW n \in found_
                 PROVE  n.args = AsPredicate(f).args
      OBVIOUS
    <3>1. n \in q.where /\ n.col = f.col /\ n.op = f.op
      BY DEF OperatorNodes
    <3>2. PICK p \in Compared(d) : n = In(p, "and")
      BY <1>2, <3>1 DEF Written
    <3>3. p.col = f.col /\ p.op = f.op /\ n.args = p.args
      BY <3>1, <3>2 DEF In
    <3> QED
      BY <3>3 DEF SharesOperator, Compared
  <2>4. f \in FilterPool
    BY DEF PlanRecords
  <2>5. f.kind = "literals" => \A n \in f.vals : n >= 0
    <3>1. f.kind = "literals" => \A n \in f.vals : ~(n < 0)
      BY DEF NoSqlFor
    <3>2. f.vals \subseteq Domain
      BY <2>4, GuardAssumption
    <3> QED
      BY <3>1, <3>2 DEF Domain
  <2> HIDE DEF q, found_
  <2>6. f.vals = IF f.kind = "ids" THEN Strings(found_) ELSE Numbers(found_)
    BY <2>2, <2>3, <2>4, <2>5, FilterIsRead
  <2> QED
    BY <2>2, <2>6 DEF found_
<1>9. TimePresent(d, q)
  <2> SUFFICES ASSUME d.time
               PROVE  \E need \in TimeNeeds :
                        \A side \in Sides : need[side] \subseteq BoundWords(TimeNodes(q), side)
    BY DEF TimePresent
  <2>1. PICK need \in TimeNeeds : \A side \in Sides : need[side] \subseteq BoundWords(PresetBounds, side)
    BY GuardAssumption
  <2>2. ASSUME NEW side \in Sides, NEW w \in BoundWords(PresetBounds, side)
        PROVE  w \in BoundWords(TimeNodes(q), side)
    <3>1. PICK p \in PresetBounds : Side(p) = side /\ w \in WordsOf(p)
      BY <2>2 DEF BoundWords
    <3>2. In(p, "and") \in TimeNodes(q)
      <4>1. p \in Compared(d) /\ p.col = TimeColumn
        BY GuardAssumption DEF Compared, TimeBounds
      <4> QED
        BY <1>2, <4>1 DEF TimeNodes, Written, In
    <3>3. Side(In(p, "and")) = Side(p) /\ WordsOf(In(p, "and")) = WordsOf(p)
      BY DEF Side, WordsOf, In
    <3> HIDE DEF q
    <3> QED
      BY <3>1, <3>2, <3>3 DEF BoundWords
  <2> HIDE DEF q
  <2> QED
    BY <2>1, <2>2
<1>10. GrainPresent(d, q)
  <2>1. d.grain \subseteq d.dims
    BY DEF PlanIsChecked
  <2> QED
    BY <1>2, <2>1 DEF GrainPresent
<1>13. ReadsTables(q)
  <2>1. PICK t \in PlannedTables(d) : t \in Tables
    BY PlanHasTables DEF NoSqlFor
  <2> QED
    BY <2>1 DEF ReadsTables, OwnSql
<1>11. OutputsPlanned(d, q)
  BY <1>3, OwnColumns DEF OutputsPlanned, PlannedOutputs
<1>12. LimitPlanned(q)
  BY <1>2, PlanningAssumption, GuardAssumption DEF LimitPlanned, GuardedLimit
<1> HIDE DEF q
<1> QED
  BY <1>2, <1>4, <1>5, <1>6, <1>7, <1>8, <1>9, <1>10, <1>11, <1>12, <1>13
     DEF Accepts, Flat, SortPlanned, q

\* For every catalog: tables that are relevant and connected are joined by the
\* linked paths, and the SQL a valid plan asks for passes the guard, but for the
\* plans that NoSqlFor and SharesOperator name.
THEOREM PlansCanBeExecuted == GuardSpec => []PlansAreExecutable
<1>1. PlanInv => LinkedPathsAnswer
  BY LinkedPathsJoin DEF PlanInv, LinkedPathsAnswer
<1>2. PlanInv =>
        (stage = "sql" /\ sql = OwnSql(plan) /\ ~SharesOperator(plan) /\ ~NoSqlFor(plan) =>
           Accepts(plan, sql) /\ Runs(sql))
  BY OwnSqlAccepted, OwnSqlRuns DEF PlanInv
<1>3. PlanInv => PlansAreExecutable
  BY <1>1, <1>2 DEF PlansAreExecutable
<1> QED
  BY <1>3, PlanInvHolds, PTL

-----------------------------------------------------------------------------
(***************************************************************************)
(* What the guard accepts reads the plan, and means what the plan says if  *)
(* it is disciplined.                                                      *)
(***************************************************************************)
LEMMA NodeIsIn ==
    ASSUME NEW n \in Nodes, NEW p \in Predicates, n.under = "and",
           n.col = p.col, n.op = p.op, n.args = p.args, n.flipped = p.flipped
    PROVE  n = In(p, "and")
BY DEF Nodes, Predicates, In

\* The predicates of a plan beside its time range.
ComparedBeside(d) == {p \in Compared(d) : ~(d.time /\ p.col = TimeColumn)}

\* The literals of the one node the guard finds for a filter are the filter's,
\* if the node is plain.
LEMMA PlainIsAsPlanned ==
    ASSUME NEW f \in FilterPool, f.kind = "ids" <=> f.col \in ControlledColumns,
           NEW n \in Nodes, n.col = f.col, Plain(n),
           f.vals = IF f.kind = "ids" THEN Strings({n}) ELSE Numbers({n})
    PROVE  n.args = AsPredicate(f).args
<1> DEFINE form_ == FormOf(f)
<1>1. n.args \subseteq Arguments /\ \A a \in n.args : a.form = form_ /\ a.n >= 0
  BY DEF Plain, Nodes, FormOf
<1>2. form_ = IF f.kind = "ids" THEN "string" ELSE "number"
  BY DEF FormOf
<1> HIDE DEF form_
<1>3. \A a \in n.args : a = [n |-> a.n, form |-> form_]
  BY <1>1 DEF Arguments
<1>4. \A a \in n.args : Digits(a.n) = a.n
  BY <1>1 DEF Digits, Arguments, Domain
<1>5. f.vals = {a.n : a \in n.args}
  <2>1. CASE f.kind = "ids"
    BY <1>1, <1>2, <2>1 DEF Strings
  <2>2. CASE f.kind # "ids"
    BY <1>1, <1>2, <1>4, <2>2 DEF Numbers
  <2> QED
    BY <2>1, <2>2
<1>6. n.args = {[n |-> v, form |-> form_] : v \in f.vals}
  BY <1>3, <1>5
<1> QED
  BY <1>6 DEF AsPredicate, form_

\* What is planned is there: the guard finds each filter among the nodes of its
\* column and operator, of which there is one.
LEMMA PlannedIsWritten ==
    ASSUME NEW d \in PlanRecords, PlanIsChecked(d), NEW q \in SqlRecords,
           Accepts(d, q), Disciplined(d, q)
    PROVE  Written(ComparedBeside(d)) \subseteq q.where
<1>1. q.where \subseteq Nodes
  BY DEF SqlRecords
<1>2. Compared(d) \subseteq Predicates
  BY PlannedPredicates DEF Compared
<1>3. ASSUME NEW f \in d.filters, ~(d.time /\ f.col = TimeColumn)
      PROVE  In(AsPredicate(f), "and") \in q.where
  <2> DEFINE found_ == OperatorNodes(q, f.col, f.op)
  <2>1. found_ # {} /\ f.vals = IF f.kind = "ids" THEN Strings(found_) ELSE Numbers(found_)
    BY DEF Accepts, FiltersPresent
  <2>2. PICK n \in found_ : TRUE
    BY <2>1
  <2>3. \A o \in found_ : /\ o \in q.where /\ o.col = f.col /\ o.op = f.op /\ o.under # "or"
                          /\ o \in BesideTime(d, q.where)
    BY <1>3 DEF OperatorNodes, BesideTime
  <2> HIDE DEF found_
  <2>4. found_ = {n}
    BY <2>2, <2>3 DEF Disciplined
  <2>5. Plain(n) /\ n \in Nodes
    BY <1>1, <2>2, <2>3 DEF Disciplined
  <2>6. f \in FilterPool /\ (f.kind = "ids" <=> f.col \in ControlledColumns)
    BY DEF PlanRecords, PlanIsChecked
  <2>7. n.args = AsPredicate(f).args
    BY <2>1, <2>2, <2>3, <2>4, <2>5, <2>6, PlainIsAsPlanned
  <2>8. n.under = "and" /\ n.flipped = FALSE
    BY <2>2, <2>3, <2>5 DEF Plain, Nodes
  <2>9. AsPredicate(f) \in Predicates
    BY <1>2 DEF Compared, PlanFilters
  <2>10. AsPredicate(f).col = f.col /\ AsPredicate(f).op = f.op /\ AsPredicate(f).flipped = FALSE
    BY DEF AsPredicate
  <2>11. n = In(AsPredicate(f), "and")
    BY <2>2, <2>3, <2>5, <2>7, <2>8, <2>9, <2>10, NodeIsIn
  <2> QED
    BY <2>2, <2>3, <2>11
<1>4. ASSUME NEW p \in RequiredPredicates(d)
      PROVE  In(p, "and") \in q.where
  BY <1>4 DEF Accepts, MetricsPresent, Written
<1>5. ASSUME NEW p \in ComparedBeside(d)
      PROVE  In(p, "and") \in q.where
  <2>1. p \in Compared(d) /\ ~(d.time /\ p.col = TimeColumn)
    BY DEF ComparedBeside
  <2>2. CASE p \in PlanFilters(d)
    <3>1. PICK f \in d.filters : p = AsPredicate(f)
      BY <2>2 DEF PlanFilters
    <3>2. p.col = f.col
      BY <3>1 DEF AsPredicate
    <3> QED
      BY <1>3, <2>1, <3>1, <3>2
  <2>3. CASE p \in TimeBounds(d)
    BY <2>1, <2>3, GuardAssumption DEF TimeBounds
  <2> QED
    BY <1>4, <2>1, <2>2, <2>3 DEF Compared
<1> QED
  BY <1>5 DEF Written

\* What is there is planned: a predicate is on a column that the plan compares,
\* and next to the planned one there is no other.
LEMMA WrittenIsPlanned ==
    ASSUME NEW d \in PlanRecords, PlanIsChecked(d), NEW q \in SqlRecords,
           Accepts(d, q), Disciplined(d, q)
    PROVE  BesideTime(d, q.where) \subseteq Written(ComparedBeside(d))
<1> SUFFICES ASSUME NEW n \in BesideTime(d, q.where)
             PROVE  n \in Written(ComparedBeside(d))
  OBVIOUS
<1>1. Written(ComparedBeside(d)) \subseteq q.where
  BY PlannedIsWritten
<1>2. n \in q.where /\ ~(d.time /\ n.col = TimeColumn)
  BY DEF BesideTime
<1>3. n.col \in ComparedColumns(d)
  <2>1. n.col \in WhereColumns(q)
    BY <1>2 DEF WhereColumns
  <2>2. n.col \in ComparedColumns(d) \/ \E r \in d.joins : n.col \in Ends[r]
    BY <2>1 DEF Accepts, NothingUnplanned, AllowedColumns
  <2>3. ASSUME NEW r \in d.joins, n.col \in Ends[r]
        PROVE  n.col \in ComparedColumns(d)
    <3>1. r \in Joined(q)
      BY DEF PlanRecords, Accepts, JoinsPresent, Joined
    <3>2. n.col \in JoinColumns(q)
      BY <2>3, <3>1 DEF JoinColumns
    <3> QED
      BY <2>1, <3>2 DEF Disciplined
  <2> QED
    BY <2>2, <2>3
<1>4. PICK p \in Compared(d) : p.col = n.col
  BY <1>3, ComparedColumnsAre
<1>5. p \in ComparedBeside(d)
  BY <1>2, <1>4 DEF ComparedBeside
<1>6. In(p, "and") \in q.where /\ In(p, "and").col = n.col
  BY <1>1, <1>4, <1>5 DEF Written, In
<1>7. In(p, "and") \in BesideTime(d, q.where)
  BY <1>2, <1>6 DEF BesideTime
<1>8. n = In(p, "and")
  BY <1>6, <1>7 DEF Disciplined
<1> QED
  BY <1>5, <1>8 DEF Written

LEMMA TablesArePlanned ==
    ASSUME NEW d \in PlanRecords, NEW q \in SqlRecords, Accepts(d, q), Runs(q)
    PROVE  {t \in Tables : q.tables[t] > 0} = PlannedTables(d)
<1>1. d.metrics \subseteq Metrics /\ d.dims \subseteq Columns /\ d.joins \subseteq Relations
  BY DEF PlanRecords
<1>3. \A t \in Tables : q.tables[t] > 0 => t \in PlannedTables(d)
  BY DEF Accepts, NothingUnplanned
<1>4. ASSUME NEW t \in PlannedTables(d)
      PROVE  q.tables[t] > 0
  <2>1. \A c \in ActualColumns(q) : q.tables[TableOf[c]] > 0
    BY DEF Runs
  <2>2. CASE t \in ReferencedTables(d)
    <3>1. PICK c \in PlainColumns(d) \cup (UNION {MetricColumns[m] : m \in d.metrics}) : t = TableOf[c]
      BY <2>2 DEF ReferencedTables, MetricTables
    <3>2. c \in PlainColumns(d) \/ \E m \in d.metrics : c \in MetricColumns[m]
      BY <3>1
    <3>3. c \in PlainColumns(d) \/ c \in MetricColumnsOf(d.metrics)
      BY <1>1, <3>2 DEF MetricColumnsOf
    <3>4. c \in ActualColumns(q)
      BY <3>3 DEF Accepts, PlannedColumnsPresent
    <3> QED
      BY <2>1, <3>1, <3>4
  <2>3. ASSUME NEW r \in d.joins, t \in RelationTables(r)
        PROVE  q.tables[t] > 0
    <3>1. r \in Joined(q)
      BY <1>1 DEF Accepts, JoinsPresent, Joined
    <3>2. PICK c \in Ends[r] : t = TableOf[c]
      BY <2>3 DEF RelationTables
    <3>3. c \in JoinColumns(q)
      BY <3>1, <3>2 DEF JoinColumns
    <3>4. c \in ActualColumns(q)
      BY <3>3 DEF ActualColumns
    <3> QED
      BY <2>1, <3>2, <3>4
  <2> QED
    BY <2>2, <2>3 DEF PlannedTables, TablesOf
<1>5. PlannedTables(d) \subseteq Tables
  BY PlanHasTables
<1> QED
  BY <1>3, <1>4, <1>5

\* Named once.
LEMMA TablesAreOnce ==
    ASSUME NEW d \in PlanRecords, NEW q \in SqlRecords, Accepts(d, q), Runs(q), Disciplined(d, q)
    PROVE  q.tables = OwnSql(d).tables
<1>1. q.tables \in [Tables -> 0..2] /\ \A t \in Tables : q.tables[t] <= 1
  BY DEF SqlRecords, Disciplined
<1>2. \A t \in Tables : q.tables[t] > 0 <=> t \in PlannedTables(d)
  BY TablesArePlanned
<1>3. \A t \in Tables : q.tables[t] = IF t \in PlannedTables(d) THEN 1 ELSE 0
  <2> TAKE t \in Tables
  <2>1. q.tables[t] \in 0..2
    BY <1>1
  <2> QED
    BY <1>1, <1>2, <2>1
<1> QED
  BY <1>1, <1>3 DEF OwnSql

LEMMA JoinsArePlanned ==
    ASSUME NEW d \in PlanRecords, NEW q \in SqlRecords, Accepts(d, q), Disciplined(d, q)
    PROVE  q.joins = OwnSql(d).joins
<1>1. q.joins \in [Relations -> {"none", "inner", "left"}] /\ d.joins \subseteq Relations
  BY DEF SqlRecords, PlanRecords
<1>2. \A r \in d.joins : q.joins[r] = "inner"
  BY DEF Accepts, JoinsPresent
<1>3. ASSUME NEW r \in Relations, r \notin d.joins, q.joins[r] # "none"
      PROVE  FALSE
  <2>1. r \in Joined(q) \ d.joins
    BY <1>3 DEF Joined
  <2>2. Ends[r] \subseteq JoinColumns(q)
    BY <2>1 DEF JoinColumns
  <2>3. JoinColumns(q) \subseteq AllowedColumns(d)
    BY DEF Accepts, NothingUnplanned
  <2> QED
    BY <2>1, <2>2, <2>3 DEF Disciplined
<1>4. \A r \in Relations : q.joins[r] = IF r \in d.joins THEN "inner" ELSE "none"
  BY <1>2, <1>3
<1> QED
  BY <1>1, <1>4 DEF OwnSql

LEMMA OutputsArePlanned ==
    ASSUME NEW d \in PlanRecords, NEW q \in SqlRecords, Accepts(d, q)
    PROVE  /\ q.outputs = OwnSql(d).outputs
           /\ SelectedColumns(q) = d.dims /\ Selected(q) \cap Metrics = d.metrics
<1>1. d.metrics \subseteq Metrics /\ d.dims \subseteq Columns
  BY DEF PlanRecords
<1>2. q.outputs \in [Assets -> Assets \cup {Nothing}]
  BY DEF SqlRecords
<1>3. \A n \in PlannedOutputs(d) : q.outputs[n] = n
  BY DEF Accepts, OutputsPlanned, MetricsPresent, PlannedOutputs
<1>4. OutputNames(q) = PlannedOutputs(d)
  BY DEF Accepts, OutputsPlanned
<1>5. \A n \in Assets : q.outputs[n] = IF n \in PlannedOutputs(d) THEN n ELSE Nothing
  BY <1>3, <1>4 DEF OutputNames
<1>6. Selected(q) = PlannedOutputs(d)
  BY <1>3, <1>4 DEF Selected
<1>7. SelectedColumns(q) = d.dims /\ Selected(q) \cap Metrics = d.metrics
  BY <1>1, <1>6, PlanningAssumption DEF SelectedColumns, PlannedOutputs
<1> QED
  BY <1>2, <1>5, <1>7 DEF OwnSql

LEMMA GroupsArePlanned ==
    ASSUME NEW d \in PlanRecords, NEW q \in SqlRecords, Accepts(d, q), Runs(q), Disciplined(d, q)
    PROVE  q.group = OwnSql(d).group
<1>1. OwnSql(d).group = IF d.metrics \cup d.grain = {} THEN {} ELSE d.dims
  BY DEF OwnSql
<1>2. q.group \subseteq OwnSql(d).group /\ d.grain \subseteq q.group
  BY DEF Disciplined, Accepts, GrainPresent
<1>3. SelectedColumns(q) = d.dims /\ Selected(q) \cap Metrics = d.metrics
  BY OutputsArePlanned
<1>4. Aggregates(q) => d.dims \subseteq q.group
  BY <1>3 DEF Runs
<1>5. d.metrics \cup d.grain # {} => Aggregates(q)
  BY <1>2, <1>3 DEF Aggregates
<1> QED
  BY <1>1, <1>2, <1>4, <1>5

\* A selected row satisfies each conjunct of the WHERE clause.
LEMMA ConjunctHolds ==
    ASSUME NEW where, NEW p, In(p, "and") \in where, NEW row \in SelectedRows(where)
    PROVE  Holds(p, row)
<1>1. Holds(In(p, "and"), row)
  BY DEF SelectedRows, Under, In
<1>2. /\ In(p, "and").col = p.col /\ In(p, "and").op = p.op /\ In(p, "and").flipped = p.flipped
      /\ Values(In(p, "and")) = Values(p)
  BY DEF In, Values
<1>3. Holds(In(p, "and"), row) <=> Holds(p, row)
  <2> HIDE DEF In, Values
  <2> QED
    BY <1>2 DEF Holds
<1> QED
  BY <1>1, <1>3

LEMMA AcceptedReadsIt ==
    ASSUME NEW d \in PlanRecords, NEW q \in SqlRecords, Accepts(d, q), Runs(q)
    PROVE  AcceptedReadsThePlan(d, q)
<1>1. {t \in Tables : q.tables[t] > 0} = PlannedTables(d)
  BY TablesArePlanned
<1>2. \A r \in d.joins : q.joins[r] = "inner"
  BY DEF Accepts, JoinsPresent
<1>3. q.outputs = OwnSql(d).outputs
  BY OutputsArePlanned
<1>4. GuardedLimit(q) <= PlanLimit
  BY DEF Accepts, LimitPlanned
<1>5. ASSUME NEW row \in SelectedRows(q.where), NEW p \in RequiredPredicates(d)
      PROVE  Holds(p, row)
  <2>1. In(p, "and") \in q.where
    BY DEF Accepts, MetricsPresent, Written
  <2> QED
    BY <2>1, ConjunctHolds
<1> QED
  BY <1>1, <1>2, <1>3, <1>4, <1>5 DEF AcceptedReadsThePlan

LEMMA AcceptedMeansPlanned ==
    ASSUME NEW d \in PlanRecords, PlanIsChecked(d), NEW q \in SqlRecords,
           Accepts(d, q), Runs(q), Disciplined(d, q)
    PROVE  Meaning(d, q) = Meaning(d, OwnSql(d))
<1>1. BesideTime(d, q.where) = BesideTime(d, OwnSql(d).where)
  <2>1. BesideTime(d, OwnSql(d).where) = Written(ComparedBeside(d))
    <3>1. OwnSql(d).where = Written(Compared(d))
      BY DEF OwnSql, Compared
    <3>2. \A p : In(p, "and").col = p.col
      BY DEF In
    <3> QED
      BY <3>1, <3>2 DEF BesideTime, Written, ComparedBeside
  <2>2. Written(ComparedBeside(d)) \subseteq BesideTime(d, q.where)
    <3>1. \A p : In(p, "and").col = p.col
      BY DEF In
    <3> QED
      BY <3>1, PlannedIsWritten DEF BesideTime, Written, ComparedBeside
  <2> QED
    BY <2>1, <2>2, WrittenIsPlanned
<1>2. q.tables = OwnSql(d).tables /\ q.joins = OwnSql(d).joins /\ q.outputs = OwnSql(d).outputs
  BY TablesAreOnce, JoinsArePlanned, OutputsArePlanned
<1>3. q.group = OwnSql(d).group
  BY GroupsArePlanned
<1> QED
  BY <1>1, <1>2, <1>3 DEF Meaning

\* For every catalog, plan and SQL: what the guard accepts reads the tables, joins
\* and outputs of its plan on rows of its metrics; if it is disciplined it returns
\* the plan's rows, beside the time range, and groups.
THEOREM AcceptedIsPlanned == GuardSpec => []AcceptedSqlIsPlanned
<1>1. PlanInv => AcceptedSqlIsPlanned
  BY AcceptedReadsIt, AcceptedMeansPlanned DEF PlanInv, AcceptedSqlIsPlanned
<1> QED
  BY <1>1, PlanInvHolds, PTL

-----------------------------------------------------------------------------
(***************************************************************************)
(* The parts together.                                                     *)
(***************************************************************************)
\* Each part, explored while the others rest, behaves by itself.
THEOREM PartsAreThemselves ==
    GovernedSpec => RolloutInit /\ [][RolloutNext]_rolloutVars /\ ToolsSpec /\ GuardSpec
<1>1. GovernedInit => RolloutInit /\ ToolsInit /\ GuardInit
  BY DEF GovernedInit
<1>2. [GovernedNext]_governedVars => [RolloutNext]_rolloutVars /\ [ToolsNext]_toolVars /\ [GuardNext]_guardVars
  BY DEF GovernedNext, governedVars, rolloutVars, toolVars, guardVars
<1> QED
  BY <1>1, <1>2, PTL DEF GovernedSpec, ToolsSpec, GuardSpec

\* The three parts keep the types of their state.
THEOREM GovernedTypeCorrect == GovernedSpec => []GovernedTypeOK
<1>1. RolloutInv /\ ToolsTypeOK /\ PlanInv => GovernedTypeOK
  BY PlanInvTypes DEF GovernedTypeOK, RolloutInv
<1> QED
  BY <1>1, PartsAreThemselves, RolloutInvHolds, ToolsTypeCorrect, PlanInvHolds, PTL
=============================================================================
