------------------------------- MODULE Rollout -------------------------------
(***************************************************************************)
(* Rollout policies (rollout/policy.py, rollout/monitor.py): every request *)
(* gets its mode from the policy it matches; a monitor in every server     *)
(* process and the administrators downgrade policies to shadow by adding a *)
(* version.  Of the features of a policy the model has one, and it tells   *)
(* enforce from anything less.                                             *)
(*                                                                         *)
(* Each call of the store is a transaction of its own.  Policies are never *)
(* deleted; operators add and deactivate them in the database.             *)
(***************************************************************************)
EXTENDS Naturals, FiniteSets

CONSTANTS
    PolicyKeys,     \* policy_key
    ListedBefore,   \* the order in which the database lists equal versions
    Processes,      \* server processes and administrators, that roll back
    Clients,        \* requests under way at a time
    EarlierPolicies,    \* what operators added before the server starts
    SignalSets,     \* bound: what load_signals may report at a time
    MaxChanges      \* bound: what operators and the environment change

Signals == {"safety_incident", "error_rate_regression", "route_p95",
            "provenance_incomplete", "terminal_closure_incomplete"}
Scopes == {"route_risk", "global"}
Policy ==
    [key : PolicyKeys, version : Nat \ {0}, scope : Scopes, enforce : BOOLEAN,
     active : BOOLEAN, reason : Signals \cup {"none", "admin"}]
Seed == [key |-> CHOOSE k \in PolicyKeys : TRUE, version |-> 1, scope |-> "global",
         enforce |-> FALSE, active |-> TRUE, reason |-> "none"]

\* The rows an operator adds are policies, and (policy_key, version) is unique.
ASSUME RolloutAssumption ==
    /\ PolicyKeys # {} /\ ListedBefore \subseteq PolicyKeys \X PolicyKeys
    /\ EarlierPolicies \subseteq Policy /\ IsFiniteSet(EarlierPolicies)
    /\ \A p, q \in {Seed} \cup EarlierPolicies : p.key = q.key /\ p.version = q.version => p = q
    /\ SignalSets \subseteq SUBSET Signals
    /\ MaxChanges \in Nat

VARIABLES
    policies,   \* agent_state.rollout_policies
    signals,    \* what load_signals would report
    process,    \* evaluate_once and rollback, as far as each process is
    serving,    \* the decision each request runs under
    changes     \* bound: changes so far

rolloutVars == <<policies, signals, process, serving, changes>>

Resting == [at |-> "idle", reason |-> "none", target |-> Seed, version |-> 0]
NotServing == [at |-> "idle", scope |-> "global", enforce |-> FALSE]

RolloutTypeOK ==
    /\ policies \subseteq Policy
    /\ \A p, q \in policies : p.key = q.key /\ p.version = q.version => p = q
    /\ signals \subseteq Signals
    /\ process \in [Processes -> [at : {"idle", "choose", "claim", "locked", "list", "insert"},
                                  reason : Signals \cup {"none", "admin"},
                                  target : Policy, version : Nat]]
    /\ serving \in [Clients -> [at : {"idle", "decided", "running"}, scope : Scopes,
                                enforce : BOOLEAN]]
    /\ changes \in 0..MaxChanges

\* Migration 006 adds the seed, and operators have added more.
RolloutInit ==
    /\ policies = {Seed} \cup EarlierPolicies
    /\ signals = {}
    /\ process = [w \in Processes |-> Resting]
    /\ serving = [c \in Clients |-> NotServing]
    /\ changes = 0

-----------------------------------------------------------------------------
(* Requests.                                                               *)

Precedes(p, q) ==
    \/ p.scope = "route_risk" /\ q.scope = "global"
    \/ p.scope = q.scope /\ p.version > q.version
    \/ p.scope = q.scope /\ p.version = q.version /\ <<p.key, q.key>> \in ListedBefore

\* decide: the first match by scope and version.  A user outside the cohort
\* of the policy gets shadow.  Without a match the request fails.
Decide(c) ==
    /\ serving[c].at = "idle"
    /\ \E onRoute, enabled \in BOOLEAN :
       \E p \in {q \in policies : q.active /\ (q.scope = "global" \/ onRoute)} :
         /\ \A q \in policies \ {p} :
              q.active /\ (q.scope = "global" \/ onRoute) => Precedes(p, q)
         /\ serving' = [serving EXCEPT ![c] =
              [at |-> "decided", scope |-> p.scope, enforce |-> p.enforce /\ enabled]]
    /\ UNCHANGED <<policies, signals, process, changes>>

\* persist_decision, in the run's first steps; when it fails the run fails.
PersistDecision(c) ==
    /\ serving[c].at = "decided"
    /\ \E saved \in BOOLEAN :
         serving' = [serving EXCEPT ![c] = IF saved THEN [@ EXCEPT !.at = "running"] ELSE NotServing]
    /\ UNCHANGED <<policies, signals, process, changes>>

EndRequest(c) ==
    /\ serving[c].at = "running"
    /\ serving' = [serving EXCEPT ![c] = NotServing]
    /\ UNCHANGED <<policies, signals, process, changes>>

-----------------------------------------------------------------------------
(* Downgrades.                                                             *)

To(w, at) == process' = [process EXCEPT ![w].at = at]
Rest(w) == process' = [process EXCEPT ![w] = Resting]
unchangedButProcess == <<policies, signals, serving, changes>>

\* RolloutMonitor.trigger: one reason, the first that applies.
Trigger(S) ==
    IF "safety_incident" \in S THEN "safety_incident"
    ELSE IF "error_rate_regression" \in S THEN "error_rate_regression"
    ELSE IF "route_p95" \in S THEN "route_p95"
    ELSE IF "provenance_incomplete" \in S THEN "provenance_incomplete"
    ELSE "terminal_closure_incomplete"

LoadSignals(w) ==
    /\ process[w].at = "idle" /\ signals # {}
    /\ process' = [process EXCEPT ![w].at = "choose", ![w].reason = Trigger(signals)]
    /\ UNCHANGED unchangedButProcess

\* The policies a reason is about; the key most failures ran under is data.
Affected(reason, key) ==
    {p \in policies : p.active /\
       CASE reason = "error_rate_regression" -> p.key = key
         [] reason = "route_p95" -> p.scope = "route_risk"
         [] OTHER -> p.scope = "global"}

ChooseTarget(w) ==
    /\ process[w].at = "choose"
    /\ \E key \in PolicyKeys :
         LET affected == Affected(process[w].reason, key)
             targets == {p \in affected : \A q \in affected \ {p} :
                p.version > q.version \/ (p.version = q.version /\ <<p.key, q.key>> \in ListedBefore)}
         IN IF \E p \in targets : p.reason # process[w].reason
              THEN \E p \in targets :
                     process' = [process EXCEPT ![w].at = "claim", ![w].target = p]
              ELSE Rest(w)
    /\ UNCHANGED unchangedButProcess

\* claim_monitor_version takes the lock of a policy and its version ...
Claim(w) ==
    /\ process[w].at = "claim"
    /\ IF \E v \in Processes :
            /\ process[v].at = "locked"
            /\ process[v].target.key = process[w].target.key
            /\ process[v].target.version = process[w].target.version
         THEN Rest(w)
         ELSE To(w, "locked")
    /\ UNCHANGED unchangedButProcess

\* ... and the end of its transaction frees the lock, before the rollback.
FreeLock(w) ==
    /\ process[w].at = "locked"
    /\ To(w, "list")
    /\ UNCHANGED unchangedButProcess

\* The endpoint of the administrators starts here, for any policy.
AdminRollback(w, p) ==
    /\ process[w].at = "idle" /\ changes < MaxChanges
    /\ process' = [process EXCEPT ![w] =
         [at |-> "list", reason |-> "admin", target |-> p, version |-> 0]]
    /\ changes' = changes + 1
    /\ UNCHANGED <<policies, signals, serving>>

\* rollback reads the policies again for the next version of the key ...
LastVersion(key) ==
    LET versions == {p.version : p \in {q \in policies : q.key = key}} IN
    IF versions = {} THEN 0 ELSE CHOOSE v \in versions : \A u \in versions : u <= v

ListForRollback_Fault(w) ==
    /\ process[w].at = "list"
    /\ process' = [process EXCEPT ![w].at = "insert", ![w].version = process[w].target.version + 1]
    /\ UNCHANGED unchangedButProcess
ListForRollback(w) ==
    /\ process[w].at = "list"
    /\ process' = [process EXCEPT ![w].at = "insert",
                                  ![w].version = LastVersion(process[w].target.key) + 1]
    /\ UNCHANGED unchangedButProcess

InsertPolicy_Fault(w) ==
    LET t == process[w].target IN
    /\ process[w].at = "insert"
    /\ policies' = policies \cup
         {[key |-> t.key, version |-> process[w].version, scope |-> t.scope,
           enforce |-> FALSE, active |-> TRUE, reason |-> process[w].reason]}
    /\ Rest(w)
    /\ UNCHANGED <<signals, serving, changes>>

\* ... and adds it.  (policy_key, version) is unique: of two processes that
\* chose one version the second fails, as on any error of the database.
InsertPolicy(w) ==
    LET t == process[w].target IN
    /\ process[w].at = "insert"
    /\ IF \E p \in policies : p.key = t.key /\ p.version = process[w].version
         THEN UNCHANGED policies
         ELSE policies' = policies \cup
                {[key |-> t.key, version |-> process[w].version, scope |-> t.scope,
                  enforce |-> FALSE, active |-> TRUE, reason |-> process[w].reason]}
    /\ Rest(w)
    /\ UNCHANGED <<signals, serving, changes>>

InsertFails(w) ==
    /\ process[w].at = "insert"
    /\ Rest(w)
    /\ UNCHANGED unchangedButProcess

-----------------------------------------------------------------------------
(* Operators and the environment.                                          *)

AddPolicy(key, scope, enforce) ==
    /\ changes < MaxChanges
    /\ policies' = policies \cup
         {[key |-> key, version |-> LastVersion(key) + 1, scope |-> scope,
           enforce |-> enforce, active |-> TRUE, reason |-> "none"]}
    /\ changes' = changes + 1
    /\ UNCHANGED <<signals, process, serving>>

Deactivate(p) ==
    /\ changes < MaxChanges /\ p.active
    /\ policies' = (policies \ {p}) \cup {[p EXCEPT !.active = FALSE]}
    /\ changes' = changes + 1
    /\ UNCHANGED <<signals, process, serving>>

ChangeSignals(S) ==
    /\ changes < MaxChanges /\ S # signals
    /\ signals' = S
    /\ changes' = changes + 1
    /\ UNCHANGED <<policies, process, serving>>

RolloutNext ==
    \/ \E c \in Clients : Decide(c) \/ PersistDecision(c) \/ EndRequest(c)
    \/ \E w \in Processes :
         \/ LoadSignals(w) \/ ChooseTarget(w) \/ Claim(w) \/ FreeLock(w)
         \/ ListForRollback(w) \/ InsertPolicy(w) \/ InsertFails(w)
         \/ \E p \in policies : AdminRollback(w, p)
    \/ \E key \in PolicyKeys, scope \in Scopes, enforce \in BOOLEAN : AddPolicy(key, scope, enforce)
    \/ \E p \in policies : Deactivate(p)
    \/ \E S \in SignalSets : ChangeSignals(S)

\* The monitor runs every minute; the database does not fail for ever; every
\* request ends (the run's timeout).
RolloutFairness ==
    /\ \A w \in Processes :
         /\ WF_rolloutVars(LoadSignals(w)) /\ WF_rolloutVars(ChooseTarget(w))
         /\ WF_rolloutVars(Claim(w)) /\ WF_rolloutVars(FreeLock(w))
         /\ WF_rolloutVars(ListForRollback(w))
         /\ WF_rolloutVars(InsertPolicy(w) \/ InsertFails(w))
         /\ SF_rolloutVars(InsertPolicy(w))
    /\ \A c \in Clients : WF_rolloutVars(PersistDecision(c)) /\ WF_rolloutVars(EndRequest(c))

RolloutSpec == RolloutInit /\ [][RolloutNext]_rolloutVars /\ RolloutFairness

-----------------------------------------------------------------------------
(* Properties.                                                             *)

EnforcedGlobally == \E c \in Clients : serving[c].scope = "global" /\ serving[c].enforce

\* A safety incident that lasts ends enforcement under the global policies,
\* whatever versions operators add or deactivate meanwhile, whichever process
\* loses a race for a version, and though the database may refuse an insert.
EmergencyTakesEffect ==
    <>[]("safety_incident" \in signals) => <>[]~EnforcedGlobally
=============================================================================
