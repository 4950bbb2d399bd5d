--------------------------- MODULE ActionApproval ---------------------------
(***************************************************************************)
(* The approval state machine of business-service: ActionService and       *)
(* AuditService over the tables pending_actions, orders and products.      *)
(*                                                                         *)
(* A preview stores a PENDING action bound to its user, its content and    *)
(* the version of the order it was computed from.  A confirm or a cancel   *)
(* is an HTTP request that runs in one database transaction:               *)
(*                                                                         *)
(*   called -> locking -> loaded -> flushing -> auditing -> answered       *)
(*                           \-> failing -> rollback -> refused            *)
(*                                                                         *)
(* Transactions run at READ COMMITTED: a statement sees what is committed  *)
(* when it runs, the row lock of SELECT ... FOR UPDATE is held to the end  *)
(* of the transaction, and the order's @Version is compared when the       *)
(* UPDATE is flushed at commit.  A request slot is used again after it has *)
(* been answered.                                                          *)
(*                                                                         *)
(* An operator X_Fault in front of X is X as a faulty change of the code   *)
(* would make it; the README tells which property notices it.              *)
(***************************************************************************)
EXTENDS Naturals, FiniteSets

CONSTANTS
    Actions,        \* ids of pending actions
    Orders,         \* ids of orders, those not yet created included (a bound)
    InitialOrders,  \* the orders that exist at the start
    Requests,       \* request slots of the server
    Users,          \* users that hold an account
    Role,           \* the role of each user
    PoolSize,       \* connections of the data source
    MaxProductVersion,  \* bound: how often the product's row is changed
    Types,          \* the kinds of action users ask for (a workload)
    Tokens,         \* whether callers present the token of the preview (a workload)
    Trail,          \* the audit event types kept in the state
    NoRequest,      \* "no transaction holds the row lock"
    NoOrder         \* the order of a CREATE_DRAFT_ORDER action

Roles == {"analyst", "operator", "admin"}

EventType == {"ACTION_PREVIEWED", "ACTION_CONFIRMED", "ACTION_CANCELLED", "ACTION_FAILED"}

ActionType ==
    {"CREATE_DRAFT_ORDER", "UPDATE_ORDER_STATUS", "CANCEL_ORDER", "SOFT_DELETE_DRAFT"}

ASSUME ConstantsAssumption ==
    /\ Role \in [Users -> Roles]
    /\ InitialOrders \subseteq Orders
    /\ PoolSize \in Nat \ {0}
    /\ MaxProductVersion \in Nat
    /\ Types \subseteq ActionType
    /\ Tokens \subseteq BOOLEAN
    /\ Trail \subseteq EventType
    /\ NoRequest \notin Requests
    /\ NoOrder \notin Orders

VARIABLES
    actions,    \* pending_actions rows, by id
    orders,     \* committed orders rows, by id
    product,    \* the product a draft order is made of
    due,        \* the actions whose expires_at is in the past
    lock,       \* the request whose transaction holds the action's row lock
    req,        \* the confirm or cancel each request slot runs
    audit       \* audit_events rows of the types in Trail: <<eventType, actionId>>

vars == <<actions, orders, product, due, lock, req, audit>>

-----------------------------------------------------------------------------
(* Domains.                                                                *)

ActionStatus == {"PENDING", "CONFIRMED", "CANCELLED", "EXPIRED"}

OrderStatus == {"DRAFT", "UNPAID", "PAID", "SHIPPED", "CANCELLED"}

\* version is the order's version at the preview; for CREATE_DRAFT_ORDER it
\* is the productVersion kept in the payload.
Action == [status : ActionStatus, user : Users, type : ActionType,
           order : Orders \cup {NoOrder}, target : OrderStatus, version : Nat]

NoAction == [status |-> "NONE"]

Order == [status : OrderStatus, version : Nat, deleted : BOOLEAN]

Absent == [status |-> "ABSENT"]

Pc == {"called", "locking", "loaded", "flushing", "failing", "rollback",
       "auditing", "answered", "refused", "expired", "error"}

Done == {"answered", "refused", "expired", "error"}

\* seen is the version of the order (of the product) the transaction read.
Request == [pc : Pc, verb : {"confirm", "cancel"}, action : Actions,
            user : Users, token : BOOLEAN, seen : Nat]

Idle == [pc |-> "idle"]

TypeOK ==
    /\ actions \in [Actions -> Action \cup {NoAction}]
    /\ orders \in [Orders -> Order \cup {Absent}]
    /\ product \in [version : Nat, available : BOOLEAN]
    /\ due \subseteq Actions
    /\ lock \in [Actions -> Requests \cup {NoRequest}]
    /\ req \in [Requests -> Request \cup {Idle}]
    /\ audit \subseteq Trail \X Actions

-----------------------------------------------------------------------------
(* Business rules, shared by the previews and the executions.              *)

Writer(u) == Role[u] \in {"operator", "admin"}

Allowed(from) ==
    CASE from = "DRAFT"  -> {"UNPAID", "CANCELLED"}
      [] from = "UNPAID" -> {"PAID", "CANCELLED"}
      [] from = "PAID"   -> {"SHIPPED"}
      [] OTHER           -> {}

ActiveOrder_DeletedToo(o) == o \in Orders /\ orders[o] # Absent
ActiveOrder(o) ==
    /\ o \in Orders
    /\ orders[o] # Absent
    /\ ~orders[o].deleted

\* What previewX and executeX require of the tables, the version apart.
RulesHold(type, u, o, target) ==
    \/ /\ type = "CREATE_DRAFT_ORDER"
       /\ product.available
    \/ /\ type = "UPDATE_ORDER_STATUS"
       /\ ActiveOrder(o)
       /\ target \in Allowed(orders[o].status)
    \/ /\ type = "CANCEL_ORDER"
       /\ ActiveOrder(o)
       /\ orders[o].status \in {"DRAFT", "UNPAID"}
    \/ /\ type = "SOFT_DELETE_DRAFT"
       /\ Role[u] = "admin"
       /\ ActiveOrder(o)
       /\ orders[o].status = "DRAFT"

\* The version a preview or an execution reads along with the rows.
ReadVersion(type, o) ==
    IF type = "CREATE_DRAFT_ORDER" THEN product.version ELSE orders[o].version

\* The order row that executeStatus, executeCancel or executeDelete writes.
Changed_SameVersion(ord, act) ==
    [status  |-> IF act.type = "SOFT_DELETE_DRAFT" THEN ord.status ELSE act.target,
     version |-> ord.version,
     deleted |-> ord.deleted \/ act.type = "SOFT_DELETE_DRAFT"]
Changed(ord, act) ==
    [status  |-> IF act.type = "SOFT_DELETE_DRAFT" THEN ord.status ELSE act.target,
     version |-> ord.version + 1,
     deleted |-> ord.deleted \/ act.type = "SOFT_DELETE_DRAFT"]

NewDraft == [status |-> "DRAFT", version |-> 0, deleted |-> FALSE]

\* The row that AuditService.record inserts when it is called through its
\* REQUIRES_NEW proxy.
Event(type, a) == {<<type, a>>} \cap (Trail \X Actions)

-----------------------------------------------------------------------------
Init ==
    /\ actions = [a \in Actions |-> NoAction]
    /\ \E status \in [InitialOrders -> OrderStatus] :
         orders = [o \in Orders |-> IF o \in InitialOrders
                                    THEN [status |-> status[o], version |-> 0, deleted |-> FALSE]
                                    ELSE Absent]
    /\ product = [version |-> 0, available |-> TRUE]
    /\ due = {}
    /\ lock = [a \in Actions |-> NoRequest]
    /\ req = [r \in Requests |-> Idle]
    /\ audit = {}

\* ActionService.preview.  Its ACTION_PREVIEWED goes the way of every event of
\* recordAfterCommit: see AuditAfterCommit.
Preview(a, u, type, o, target) ==
    /\ type \in Types
    /\ actions[a] = NoAction
    /\ Writer(u)
    /\ RulesHold(type, u, o, target)
    /\ actions' = [actions EXCEPT ![a] =
                     [status |-> "PENDING", user |-> u, type |-> type, order |-> o,
                      target |-> target, version |-> ReadVersion(type, o)]]
    /\ UNCHANGED <<orders, product, due, lock, req, audit>>

\* The payloads of the four kinds of action.
PreviewAny ==
    \E a \in Actions, u \in Users :
        \/ Preview(a, u, "CREATE_DRAFT_ORDER", NoOrder, "DRAFT")
        \/ \E o \in Orders :
              \/ \E target \in OrderStatus : Preview(a, u, "UPDATE_ORDER_STATUS", o, target)
              \/ Preview(a, u, "CANCEL_ORDER", o, "CANCELLED")
              \/ Preview(a, u, "SOFT_DELETE_DRAFT", o, "DRAFT")

-----------------------------------------------------------------------------
(* The confirm and cancel requests.                                        *)

At(r, pc) == req[r].pc = pc

InFlight(r) == req[r].pc \notin {"idle"} \cup Done

\* The requests that hold a connection: from the start of the transaction to
\* the end of its afterCommit callbacks.
Connected == {r \in Requests : InFlight(r) /\ ~At(r, "called")}

PoolHasRoom == Cardinality(Connected) < PoolSize

Goto(r, pc) == req' = [req EXCEPT ![r].pc = pc]

Unlock(r) == lock' = [lock EXCEPT ![req[r].action] = NoRequest]

\* The chat workflow (or the UI) posts /actions/{id}/confirm or /cancel.
Call(r, verb, a, u, token) ==
    /\ ~InFlight(r)
    /\ req' = [req EXCEPT ![r] = [pc |-> "called", verb |-> verb, action |-> a,
                                  user |-> u, token |-> token, seen |-> 0]]
    /\ UNCHANGED <<actions, orders, product, due, lock, audit>>

\* The @Transactional proxy opens the transaction, then requireWriter runs.
Begin(r) ==
    /\ At(r, "called")
    /\ PoolHasRoom
    /\ Goto(r, IF Writer(req[r].user) THEN "locking" ELSE "refused")
    /\ UNCHANGED <<actions, orders, product, due, lock, audit>>

\* The pool gives up after its connection timeout: a 500, nothing was done.
BeginTimeout(r) ==
    /\ At(r, "called")
    /\ ~PoolHasRoom
    /\ Goto(r, "error")
    /\ UNCHANGED <<actions, orders, product, due, lock, audit>>

\* findByIdForUpdate returns: no other transaction holds the row.
RowFree_NoRowLock(r) == TRUE
RowFree(r) == lock[req[r].action] = NoRequest

\* loadAndValidate, up to the test of the expiry.
MayDecide_AnyStatus(r) ==
    LET act == actions[req[r].action] IN
    /\ act # NoAction
    /\ act.user = req[r].user
MayDecide(r) ==
    LET act == actions[req[r].action] IN
    /\ act # NoAction
    /\ act.user = req[r].user
    /\ act.status = "PENDING"

\* loadAndValidate throws 403, 404 or 409: the transaction rolls back.
LoadRefused(r) ==
    /\ At(r, "locking")
    /\ RowFree(r)
    /\ MayDecide(r) => req[r].action \notin due /\ ~req[r].token
    /\ Goto(r, "refused")
    /\ UNCHANGED <<actions, orders, product, due, lock, audit>>

\* The approval is past its time to live: ExpiredApprovalException does not
\* roll back, EXPIRED is committed although the request fails.
LoadExpired_RolledBack(r) ==
    /\ At(r, "locking")
    /\ RowFree(r)
    /\ MayDecide(r)
    /\ req[r].action \in due
    /\ Goto(r, "expired")
    /\ UNCHANGED <<actions, orders, product, due, lock, audit>>
LoadExpired(r) ==
    /\ At(r, "locking")
    /\ RowFree(r)
    /\ MayDecide(r)
    /\ req[r].action \in due
    /\ actions' = [actions EXCEPT ![req[r].action].status = "EXPIRED"]
    /\ Goto(r, "expired")
    /\ UNCHANGED <<orders, product, due, lock, audit>>

\* loadAndValidate returns the row, locked for this transaction.
LoadValid(r) ==
    /\ At(r, "locking")
    /\ RowFree(r)
    /\ MayDecide(r)
    /\ req[r].action \notin due
    /\ req[r].token
    /\ lock' = [lock EXCEPT ![req[r].action] = r]
    /\ Goto(r, "loaded")
    /\ UNCHANGED <<actions, orders, product, due, audit>>

\* cancel: the commit of CANCELLED.
CommitCancel(r) ==
    /\ At(r, "loaded")
    /\ req[r].verb = "cancel"
    /\ actions' = [actions EXCEPT ![req[r].action].status = "CANCELLED"]
    /\ Unlock(r)
    /\ Goto(r, "auditing")
    /\ UNCHANGED <<orders, product, due, audit>>

\* What execute requires: the rules of the preview once more, at the version
\* of the preview (versionedOrder, or the productVersion of the payload).
Executable_AnyVersion(act, u) == RulesHold(act.type, u, act.order, act.target)
Executable(act, u) ==
    /\ RulesHold(act.type, u, act.order, act.target)
    /\ ReadVersion(act.type, act.order) = act.version

\* confirm: execute succeeds; its writes wait in the session.
Execute(r) ==
    LET act == actions[req[r].action] IN
    /\ At(r, "loaded")
    /\ req[r].verb = "confirm"
    /\ Executable(act, req[r].user)
    /\ req' = [req EXCEPT ![r].pc = "flushing",
                          ![r].seen = ReadVersion(act.type, act.order)]
    /\ UNCHANGED <<actions, orders, product, due, lock, audit>>

\* confirm: execute throws.
ExecuteFails(r) ==
    /\ At(r, "loaded")
    /\ req[r].verb = "confirm"
    /\ ~Executable(actions[req[r].action], req[r].user)
    /\ Goto(r, "failing")
    /\ UNCHANGED <<actions, orders, product, due, lock, audit>>

\* The catch block: AuditService.record, in a transaction (and on a
\* connection) of its own.
RecordFailure(r) ==
    /\ At(r, "failing")
    /\ PoolHasRoom
    /\ audit' = audit \cup Event("ACTION_FAILED", req[r].action)
    /\ Goto(r, "rollback")
    /\ UNCHANGED <<actions, orders, product, due, lock>>

\* The catch block gets no second connection: its own exception replaces the
\* business one, and the event is not recorded.
RecordTimeout_WaitsForEver(r) == At(r, "failing") /\ FALSE /\ UNCHANGED vars
RecordTimeout(r) ==
    /\ At(r, "failing")
    /\ ~PoolHasRoom
    /\ Goto(r, "rollback")
    /\ UNCHANGED <<actions, orders, product, due, lock, audit>>

\* The exception leaves confirm: the action stays PENDING.
Rollback(r) ==
    /\ At(r, "rollback")
    /\ Unlock(r)
    /\ Goto(r, "refused")
    /\ UNCHANGED <<actions, orders, product, due, audit>>

\* UPDATE orders ... WHERE id = ? AND version = ? matches a row.
VersionMatches_NoOptimisticLock(r) == TRUE
VersionMatches(r) ==
    LET act == actions[req[r].action] IN
    act.type # "CREATE_DRAFT_ORDER" => orders[act.order].version = req[r].seen

\* confirm: the flush and the commit of the order together with CONFIRMED.
CommitConfirm(r) ==
    LET act == actions[req[r].action] IN
    /\ At(r, "flushing")
    /\ VersionMatches(r)
    /\ IF act.type = "CREATE_DRAFT_ORDER"
         THEN \E o \in Orders : /\ orders[o] = Absent
                                /\ orders' = [orders EXCEPT ![o] = NewDraft]
         ELSE orders' = [orders EXCEPT ![act.order] = Changed(orders[act.order], act)]
    /\ actions' = [actions EXCEPT ![req[r].action].status = "CONFIRMED"]
    /\ Unlock(r)
    /\ Goto(r, "auditing")
    /\ UNCHANGED <<product, due, audit>>

\* The optimistic lock fails at the flush, after the try block: the
\* transaction rolls back and no ACTION_FAILED is recorded.
CommitConflict(r) ==
    /\ At(r, "flushing")
    /\ ~VersionMatches(r)
    /\ Unlock(r)
    /\ Goto(r, "refused")
    /\ UNCHANGED <<actions, orders, product, due, audit>>

\* afterCommit calls record on this, past the REQUIRES_NEW proxy: the save
\* joins the transaction that has just committed and is never flushed.  The
\* event is lost without an error and the caller gets a 200.
AuditAfterCommit(r) ==
    /\ At(r, "auditing")
    /\ Goto(r, "answered")
    /\ UNCHANGED <<actions, orders, product, due, lock, audit>>

\* The server stops: transactions in flight are rolled back by the database.
Crash ==
    /\ \E r \in Requests : InFlight(r)
    /\ req' = [r \in Requests |-> IF InFlight(r) THEN [req[r] EXCEPT !.pc = "error"] ELSE req[r]]
    /\ lock' = [a \in Actions |-> NoRequest]
    /\ UNCHANGED <<actions, orders, product, due, audit>>

-----------------------------------------------------------------------------
(* The clock, and the product's other writers.                            *)

\* expires_at passes.
TimeToLiveEnds(a) ==
    /\ actions[a] # NoAction
    /\ a \notin due
    /\ due' = due \cup {a}
    /\ UNCHANGED <<actions, orders, product, lock, req, audit>>

\* Another program changes the product's row.
ProductChanges ==
    /\ product.version < MaxProductVersion
    /\ product' \in [version : {product.version + 1}, available : BOOLEAN]
    /\ UNCHANGED <<actions, orders, due, lock, req, audit>>

-----------------------------------------------------------------------------
CallAny(r) ==
    \E verb \in {"confirm", "cancel"}, a \in Actions, u \in Users, token \in Tokens :
        Call(r, verb, a, u, token)

Load(r) == LoadRefused(r) \/ LoadExpired(r) \/ LoadValid(r)

Serve(r) ==
    \/ Begin(r) \/ BeginTimeout(r)
    \/ CommitCancel(r) \/ Execute(r) \/ ExecuteFails(r)
    \/ RecordFailure(r) \/ RecordTimeout(r) \/ Rollback(r)
    \/ CommitConfirm(r) \/ CommitConflict(r)
    \/ AuditAfterCommit(r)

ServerNext ==
    \/ PreviewAny
    \/ \E r \in Requests : Load(r) \/ Serve(r)
    \/ \E a \in Actions : TimeToLiveEnds(a)
    \/ ProductChanges
    \/ Crash

Next ==
    \/ \E r \in Requests : CallAny(r)
    \/ ServerNext

Spec == Init /\ [][Next]_vars

\* A request thread keeps running; PostgreSQL queues the waiters of a row
\* lock, so a waiter is served although the lock is taken again and again.
Fairness ==
    \A r \in Requests : WF_vars(Serve(r)) /\ SF_vars(Load(r))

FairSpec == Spec /\ Fairness
-----------------------------------------------------------------------------
(* Safety.                                                                 *)

Confirmed(a) == actions[a].status = "CONFIRMED"

OnOrder(a) == actions[a].type # "CREATE_DRAFT_ORDER"

\* Two approvals given against the same version of an order never both take
\* effect: the version bound by the preview lets one of them through
\* (versionedOrder and @Version), whatever the two users do meanwhile.
OneApprovalPerVersion ==
    \A a, b \in Actions :
        /\ a # b /\ Confirmed(a) /\ Confirmed(b)
        /\ OnOrder(a) /\ OnOrder(b) /\ actions[a].order = actions[b].order
        => actions[a].version # actions[b].version

\* The order's row and the approvals agree at every commit: each confirmed
\* action changed its order exactly once, and no refused, failed, cancelled
\* or expired action changed it (one transaction for both rows).
VersionCountsApprovals ==
    \A o \in Orders :
        orders[o] # Absent =>
            orders[o].version = Cardinality({a \in Actions : /\ Confirmed(a)
                                                             /\ actions[a].order = o})

\* A double click, a retry after a timeout or a crash never creates a second
\* draft: the orders made by the service are as many as the confirmed
\* CREATE_DRAFT_ORDER actions.
OneDraftPerApproval ==
    Cardinality({o \in Orders \ InitialOrders : orders[o] # Absent})
        = Cardinality({a \in Actions : Confirmed(a) /\ ~OnOrder(a)})

\* A request refused because the approval had expired leaves EXPIRED behind,
\* although its transaction ended with an exception (noRollbackFor).
ExpiryIsDurable ==
    \A r \in Requests : At(r, "expired") => actions[req[r].action].status = "EXPIRED"

-----------------------------------------------------------------------------
(* Action properties.                                                      *)

\* The approval that a step spends on an order: PENDING until then, locked by
\* a request of its own user with the right token, computed from the very
\* version it changes.
Spends(a, o) ==
    /\ actions[a].status = "PENDING" /\ actions'[a].status = "CONFIRMED"
    /\ lock[a] # NoRequest
    /\ LET r == lock[a] IN
         /\ req[r].action = a /\ req[r].verb = "confirm"
         /\ req[r].user = actions[a].user /\ req[r].token
         /\ Writer(req[r].user)
    /\ IF OnOrder(a)
         THEN /\ actions[a].order = o
              /\ orders[o] # Absent /\ ~orders[o].deleted
              /\ actions[a].version = orders[o].version
              /\ orders'[o].status \in Allowed(orders[o].status) \cup {orders[o].status}
         ELSE orders[o] = Absent

\* An order changes only in a step that spends an approval on it, by one
\* legal transition, and no step changes two orders.
OnlyApprovedChanges ==
    [][\A o \in Orders :
         orders'[o] # orders[o] =>
             /\ \E a \in Actions : Spends(a, o)
             /\ \A p \in Orders \ {o} : orders'[p] = orders[p]]_vars

\* A decided action is never decided again, and what was approved is never
\* rewritten: concurrent confirms and cancels are serialised by the row lock.
DecisionsAreFinal ==
    [][\A a \in Actions : actions[a] # NoAction =>
         /\ actions[a].status # "PENDING" => actions'[a] = actions[a]
         /\ actions'[a] = [actions[a] EXCEPT !.status = actions'[a].status]]_vars

-----------------------------------------------------------------------------
(* The inductive invariant: what a transaction in flight may rely on.      *)

\* Where a transaction holds the row lock of its action.
HoldsRow == {"loaded", "flushing", "failing", "rollback"}

\* What requireWriter and loadAndValidate found stays true until the
\* transaction ends: only the owner of the row lock decides the action.
LockInv ==
    \A r \in Requests :
        /\ At(r, "locking") => Writer(req[r].user)
        /\ req[r].pc \in HoldsRow =>
             /\ lock[req[r].action] = r
             /\ actions[req[r].action] \in Action
             /\ actions[req[r].action].status = "PENDING"
             /\ actions[req[r].action].user = req[r].user
             /\ req[r].token
             /\ Writer(req[r].user)

\* What execute read: as long as the order's version is the one seen, the
\* rules that were checked hold.
FlushInv ==
    \A r \in Requests : At(r, "flushing") =>
        LET act == actions[req[r].action] IN
        /\ req[r].verb = "confirm"
        /\ req[r].seen = act.version
        /\ OnOrder(req[r].action) /\ orders[act.order].version = req[r].seen
             => RulesHold(act.type, act.user, act.order, act.target)

\* An action is about an existing order, at a version it has or had; a
\* confirmed one has moved the order past that version.
BasisInv ==
    \A a \in Actions : actions[a] # NoAction =>
        /\ ~OnOrder(a) => actions[a].order = NoOrder
        /\ actions[a].type = "CANCEL_ORDER" => actions[a].target = "CANCELLED"
        /\ OnOrder(a) =>
             /\ actions[a].order \in Orders
             /\ orders[actions[a].order] # Absent
             /\ actions[a].version <= orders[actions[a].order].version
             /\ Confirmed(a) => actions[a].version # orders[actions[a].order].version

\* The requests whose transaction has committed a decision.
Decided(r) == req[r].pc \in {"auditing", "answered"}

\* A decision that was committed stays, and it is the one of a single request:
\* of the confirms and cancels of an action one gets past its commit.
DecidedInv ==
    \A r \in Requests : Decided(r) =>
        /\ actions[req[r].action].status =
             IF req[r].verb = "confirm" THEN "CONFIRMED" ELSE "CANCELLED"
        /\ \A s \in Requests : Decided(s) /\ req[s].action = req[r].action => s = r

ApprovalInv ==
    /\ TypeOK /\ LockInv /\ FlushInv /\ BasisInv /\ DecidedInv
    /\ OneApprovalPerVersion /\ ExpiryIsDurable

-----------------------------------------------------------------------------
(* Liveness.                                                               *)

\* Every request is answered: neither the row lock, nor the pool a failing
\* confirm draws a second connection from, blocks it for ever.
AllAnswered == \A r \in Requests : At(r, "called") ~> req[r].pc \in Done

-----------------------------------------------------------------------------
(* What the README claims and the code does not do.                        *)

\* README, security boundary: execution is refused when the audit is not
\* available; acceptance scenarios: the transaction commits and the audit is
\* recorded.  Stated of a confirm: an executed action has its event, or the
\* request that executed it is still about to write it.
ExecutedIsAudited ==
    \A a \in Actions : Confirmed(a) =>
        \/ <<"ACTION_CONFIRMED", a>> \in audit
        \/ \E r \in Requests : At(r, "auditing") /\ req[r].action = a
=============================================================================
