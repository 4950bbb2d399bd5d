------------------------ MODULE ActionApproval_proof ------------------------
(***************************************************************************)
(* Proofs about the approval state machine, for every number of actions,   *)
(* orders, requests and users and every pool size.                         *)
(***************************************************************************)
EXTENDS ApprovalRefinement, FiniteSetTheorems, TLAPS

USE DEF Pc, Done, ActionType, ActionStatus, OrderStatus, EventType, Roles

(***************************************************************************)
(* A request that is under way is a proper request, and stays one when it  *)
(* moves on.                                                               *)
(***************************************************************************)
LEMMA RequestUnderWay ==
    ASSUME TypeOK, NEW r \in Requests, req[r].pc # "idle"
    PROVE  req[r] \in Request
BY DEF TypeOK, Idle

LEMMA GotoKeepsType ==
    ASSUME TypeOK, NEW r \in Requests, req[r].pc # "idle", NEW pc \in Pc, Goto(r, pc)
    PROVE  /\ req' \in [Requests -> Request \cup {Idle}]
           /\ req'[r] = [req[r] EXCEPT !.pc = pc]
           /\ \A s \in Requests \ {r} : req'[s] = req[s]
<1>1. req[r] \in Request
  BY RequestUnderWay
<1>2. req \in [Requests -> Request \cup {Idle}]
  BY DEF TypeOK
<1>3. [req[r] EXCEPT !.pc = pc] \in Request
  BY <1>1 DEF Request
<1> QED
  BY <1>2, <1>3 DEF Goto

\* A change of an action's status is a change of its status only.
LEMMA StatusKeepsType ==
    ASSUME TypeOK, NEW a \in Actions, actions[a] # NoAction, NEW s \in ActionStatus,
           actions' = [actions EXCEPT ![a].status = s]
    PROVE  /\ actions' \in [Actions -> Action \cup {NoAction}]
           /\ actions'[a] = [actions[a] EXCEPT !.status = s]
           /\ actions'[a] \in Action
           /\ \A b \in Actions \ {a} : actions'[b] = actions[b]
<1>1. actions \in [Actions -> Action \cup {NoAction}] /\ actions[a] \in Action
  BY DEF TypeOK
<1>2. [actions[a] EXCEPT !.status = s] \in Action
  BY <1>1 DEF Action
<1> QED
  BY <1>1, <1>2

LEMMA EventKeepsType ==
    ASSUME TypeOK, NEW type, NEW a \in Actions, audit' = audit \cup Event(type, a)
    PROVE  audit' \subseteq Trail \X Actions
BY DEF TypeOK, Event

LEMMA UnlockKeepsType ==
    ASSUME TypeOK, NEW r \in Requests, req[r] \in Request, Unlock(r)
    PROVE  /\ lock' \in [Actions -> Requests \cup {NoRequest}]
           /\ lock'[req[r].action] = NoRequest
           /\ \A a \in Actions \ {req[r].action} : lock'[a] = lock[a]
BY DEF TypeOK, Unlock, Request

LEMMA ChangedIsOrder ==
    ASSUME NEW ord \in Order, NEW act \in Action
    PROVE  Changed(ord, act) \in Order
BY DEF Changed, Order, Action

-----------------------------------------------------------------------------
(***************************************************************************)
(* Type correctness: every value of every table column and request field   *)
(* stays in its domain, for instances of every size.                       *)
(***************************************************************************)
LEMMA InitType ==
    ASSUME Init
    PROVE  TypeOK
<1>1. orders \in [Orders -> Order \cup {Absent}]
  <2>1. PICK status \in [InitialOrders -> OrderStatus] :
          orders = [o \in Orders |-> IF o \in InitialOrders
                                     THEN [status |-> status[o], version |-> 0, deleted |-> FALSE]
                                     ELSE Absent]
    BY DEF Init
  <2>2. \A o \in InitialOrders :
          [status |-> status[o], version |-> 0, deleted |-> FALSE] \in Order
    BY DEF Order
  <2> QED
    BY <2>1, <2>2
<1> QED
  BY <1>1 DEF Init, TypeOK

LEMMA PreviewType == 
    ASSUME TypeOK, NEW a \in Actions, NEW u \in Users, NEW type \in ActionType,
           NEW o \in Orders \cup {NoOrder}, NEW target \in OrderStatus,
           type # "CREATE_DRAFT_ORDER" => o \in Orders,
           Preview(a, u, type, o, target)
    PROVE  TypeOK'
<1>1. ReadVersion(type, o) \in Nat
  <2>1. CASE type = "CREATE_DRAFT_ORDER"
    BY <2>1 DEF ReadVersion, TypeOK
  <2>2. CASE type # "CREATE_DRAFT_ORDER"
    <3>1. ActiveOrder(o)
      BY <2>2 DEF Preview, RulesHold
    <3>2. orders[o] \in Order
      BY <3>1 DEF ActiveOrder, TypeOK
    <3> QED
      BY <2>2, <3>2 DEF ReadVersion, Order
  <2> QED
    BY <2>1, <2>2
<1>2. [status |-> "PENDING", user |-> u, type |-> type, order |-> o,
       target |-> target, version |-> ReadVersion(type, o)] \in Action
  BY <1>1 DEF Action
<1>3. audit' \subseteq Trail \X Actions
  BY DEF Preview, TypeOK, Event
<1> QED
  BY <1>2, <1>3 DEF Preview, TypeOK

LEMMA PreviewAnyType ==
    ASSUME TypeOK, PreviewAny
    PROVE  TypeOK'
<1> PICK a \in Actions, u \in Users :
        \/ Preview(a, u, "CREATE_DRAFT_ORDER", NoOrder, "DRAFT")
        \/ \E o \in Orders :
              \/ \E target \in OrderStatus : Preview(a, u, "UPDATE_ORDER_STATUS", o, target)
              \/ Preview(a, u, "CANCEL_ORDER", o, "CANCELLED")
              \/ Preview(a, u, "SOFT_DELETE_DRAFT", o, "DRAFT")
  BY DEF PreviewAny
<1>1. CASE Preview(a, u, "CREATE_DRAFT_ORDER", NoOrder, "DRAFT")
  BY <1>1, PreviewType
<1>2. ASSUME NEW o \in Orders, NEW target \in OrderStatus,
             Preview(a, u, "UPDATE_ORDER_STATUS", o, target)
      PROVE  TypeOK'
  BY <1>2, PreviewType
<1>3. ASSUME NEW o \in Orders, Preview(a, u, "CANCEL_ORDER", o, "CANCELLED")
      PROVE  TypeOK'
  BY <1>3, PreviewType
<1>4. ASSUME NEW o \in Orders, Preview(a, u, "SOFT_DELETE_DRAFT", o, "DRAFT")
      PROVE  TypeOK'
  BY <1>4, PreviewType
<1> QED
  BY <1>1, <1>2, <1>3, <1>4

LEMMA LoadType ==
    ASSUME TypeOK, NEW r \in Requests, Load(r)
    PROVE  TypeOK'
<1> USE DEF At
<1>0. req[r] \in Request /\ req[r].pc # "idle" /\ req[r].action \in Actions
  BY RequestUnderWay DEF Load, LoadRefused, LoadExpired, LoadValid, Request
<1>1. CASE LoadRefused(r)
  BY <1>0, <1>1, GotoKeepsType DEF LoadRefused, TypeOK
<1>2. CASE LoadExpired(r)
  BY <1>0, <1>2, GotoKeepsType, StatusKeepsType DEF LoadExpired, MayDecide, TypeOK
<1>3. CASE LoadValid(r)
  BY <1>0, <1>3, GotoKeepsType DEF LoadValid, TypeOK
<1> QED
  BY <1>1, <1>2, <1>3 DEF Load

LEMMA ServeType ==
    ASSUME TypeOK, LockInv, BasisInv, NEW r \in Requests, Serve(r)
    PROVE  TypeOK'
<1> USE DEF At
<1>0. req[r] \in Request /\ req[r].pc # "idle" /\ req[r].action \in Actions
  BY RequestUnderWay DEF Serve, Begin, BeginTimeout, CommitCancel, Execute, ExecuteFails,
     RecordFailure, RecordTimeout, Rollback, CommitConfirm, CommitConflict,
     AuditAfterCommit, Request
<1> DEFINE a == req[r].action
<1>a. req[r].pc \in HoldsRow => actions[a] \in Action /\ actions[a] # NoAction
  BY DEF LockInv, Action, NoAction
<1>1. CASE Begin(r)
  BY <1>0, <1>1, GotoKeepsType DEF Begin, TypeOK
<1>2. CASE BeginTimeout(r)
  BY <1>0, <1>2, GotoKeepsType DEF BeginTimeout, TypeOK
<1>3. CASE CommitCancel(r)
  BY <1>0, <1>3, <1>a, GotoKeepsType, UnlockKeepsType, StatusKeepsType
     DEF CommitCancel, TypeOK, HoldsRow
<1>4. CASE Execute(r)
  <2>1. actions[a] \in Action
    BY <1>4, <1>a DEF Execute, HoldsRow
  <2>2. ReadVersion(actions[a].type, actions[a].order) \in Nat
    <3>1. CASE actions[a].type = "CREATE_DRAFT_ORDER"
      BY <3>1 DEF ReadVersion, TypeOK
    <3>2. CASE actions[a].type # "CREATE_DRAFT_ORDER"
      <4>1. ActiveOrder(actions[a].order)
        BY <1>4, <3>2 DEF Execute, Executable, RulesHold
      <4>2. orders[actions[a].order] \in Order
        BY <4>1 DEF ActiveOrder, TypeOK
      <4> QED
        BY <3>2, <4>2 DEF ReadVersion, Order
    <3> QED
      BY <3>1, <3>2
  <2>3. [req[r] EXCEPT !.pc = "flushing",
                       !.seen = ReadVersion(actions[a].type, actions[a].order)] \in Request
    BY <1>0, <2>2 DEF Request
  <2> QED
    BY <1>4, <2>3 DEF Execute, TypeOK
<1>5. CASE ExecuteFails(r)
  BY <1>0, <1>5, GotoKeepsType DEF ExecuteFails, TypeOK
<1>6. CASE RecordFailure(r)
  BY <1>0, <1>6, GotoKeepsType, EventKeepsType DEF RecordFailure, TypeOK
<1>7. CASE RecordTimeout(r)
  BY <1>0, <1>7, GotoKeepsType DEF RecordTimeout, TypeOK
<1>8. CASE Rollback(r)
  BY <1>0, <1>8, GotoKeepsType, UnlockKeepsType DEF Rollback, TypeOK
<1>9. CASE CommitConfirm(r)
  <2>1. actions' \in [Actions -> Action \cup {NoAction}]
    BY <1>0, <1>9, <1>a, StatusKeepsType DEF CommitConfirm, HoldsRow
  <2>2. orders' \in [Orders -> Order \cup {Absent}]
    <3>1. CASE actions[a].type = "CREATE_DRAFT_ORDER"
      <4>1. PICK o \in Orders : orders' = [orders EXCEPT ![o] = NewDraft]
        BY <1>9, <3>1 DEF CommitConfirm
      <4>2. NewDraft \in Order
        BY DEF NewDraft, Order
      <4> QED
        BY <4>1, <4>2 DEF TypeOK
    <3>2. CASE actions[a].type # "CREATE_DRAFT_ORDER"
      <4>1. actions[a] \in Action /\ orders[actions[a].order] \in Order
        BY <1>0, <1>9, <1>a, <3>2 DEF CommitConfirm, HoldsRow, BasisInv, OnOrder, TypeOK
      <4>2. Changed(orders[actions[a].order], actions[a]) \in Order
        BY <4>1, ChangedIsOrder
      <4> QED
        BY <1>9, <3>2, <4>2 DEF CommitConfirm, TypeOK
    <3> QED
      BY <3>1, <3>2
  <2>3. req' \in [Requests -> Request \cup {Idle}]
    BY <1>0, <1>9, GotoKeepsType DEF CommitConfirm
  <2>4. lock' \in [Actions -> Requests \cup {NoRequest}]
    BY <1>0, <1>9, UnlockKeepsType DEF CommitConfirm
  <2> QED
    BY <1>9, <2>1, <2>2, <2>3, <2>4 DEF CommitConfirm, TypeOK
<1>10. CASE CommitConflict(r)
  BY <1>0, <1>10, GotoKeepsType, UnlockKeepsType DEF CommitConflict, TypeOK
<1>11. CASE AuditAfterCommit(r)
  BY <1>0, <1>11, GotoKeepsType DEF AuditAfterCommit, TypeOK
<1> QED
  BY <1>1, <1>2, <1>3, <1>4, <1>5, <1>6, <1>7, <1>8, <1>9, <1>10, <1>11 DEF Serve

\* The remaining steps.
LEMMA OtherType ==
    ASSUME TypeOK,
           \/ \E r \in Requests : CallAny(r)
           \/ \E a \in Actions : TimeToLiveEnds(a)
           \/ ProductChanges
           \/ Crash
    PROVE  TypeOK'
<1>1. ASSUME NEW r \in Requests, CallAny(r)
      PROVE  TypeOK'
  <2> PICK verb \in {"confirm", "cancel"}, a \in Actions, u \in Users, token \in Tokens :
             Call(r, verb, a, u, token)
    BY <1>1 DEF CallAny
  <2>1. [pc |-> "called", verb |-> verb, action |-> a, user |-> u,
         token |-> token, seen |-> 0] \in Request
    BY ConstantsAssumption DEF Request
  <2> QED
    BY <2>1 DEF Call, TypeOK
<1>2. ASSUME NEW a \in Actions, TimeToLiveEnds(a)
      PROVE  TypeOK'
  BY <1>2 DEF TimeToLiveEnds, TypeOK
<1>3. CASE ProductChanges
  BY <1>3 DEF ProductChanges, TypeOK
<1>4. CASE Crash
  <2>1. \A r \in Requests : InFlight(r) => [req[r] EXCEPT !.pc = "error"] \in Request
    BY RequestUnderWay DEF InFlight, Request
  <2>2. req' \in [Requests -> Request \cup {Idle}]
    BY <1>4, <2>1 DEF Crash, TypeOK
  <2> QED
    BY <1>4, <2>2 DEF Crash, TypeOK
<1> QED
  BY <1>1, <1>2, <1>3, <1>4

LEMMA NextType ==
    ASSUME TypeOK, LockInv, BasisInv, [Next]_vars
    PROVE  TypeOK'
<1>1. CASE UNCHANGED vars
  BY <1>1 DEF vars, TypeOK
<1>2. CASE Next
  BY <1>2, PreviewAnyType, LoadType, ServeType, OtherType DEF Next, ServerNext
<1> QED
  BY <1>1, <1>2

-----------------------------------------------------------------------------
(***************************************************************************)
(* The row lock.  A step of one request leaves alone what another request  *)
(* that holds its row relies on.                                           *)
(***************************************************************************)
LEMMA RowIsHeld ==
    ASSUME TypeOK, LockInv, NEW r \in Requests, Load(r) \/ Serve(r),
           NEW s \in Requests \ {r}, req[s].pc \in HoldsRow
    PROVE  /\ req'[s] = req[s]
           /\ lock'[req[s].action] = s
           /\ actions'[req[s].action] = actions[req[s].action]
<1> USE DEF At
<1>0. /\ req[r] \in Request /\ req[r].pc # "idle" /\ req[r].action \in Actions
      /\ req[s] \in Request /\ req[s].action \in Actions
  <2>1. req[r].pc # "idle" /\ req[s].pc # "idle"
    BY DEF Load, LoadRefused, LoadExpired, LoadValid, Serve, Begin, BeginTimeout,
       CommitCancel, Execute, ExecuteFails, RecordFailure, RecordTimeout, Rollback,
       CommitConfirm, CommitConflict, AuditAfterCommit, HoldsRow
  <2> QED
    BY <2>1, RequestUnderWay DEF Request
<1>1. lock[req[s].action] = s
  BY DEF LockInv
<1>2. s # NoRequest
  BY ConstantsAssumption
<1>3. req \in [Requests -> Request \cup {Idle}] /\ lock \in [Actions -> Requests \cup {NoRequest}]
      /\ actions \in [Actions -> Action \cup {NoAction}]
  BY DEF TypeOK
<1>4. CASE Load(r)
  BY <1>0, <1>1, <1>2, <1>3, <1>4
     DEF Load, LoadRefused, LoadExpired, LoadValid, RowFree, Goto
<1>5. CASE CommitCancel(r) \/ CommitConfirm(r) \/ CommitConflict(r) \/ Rollback(r)
  <2>1. lock[req[r].action] = r
    BY <1>5 DEF LockInv, HoldsRow, CommitCancel, CommitConfirm, CommitConflict, Rollback
  <2>2. req[r].action # req[s].action
    BY <1>1, <2>1
  <2> QED
    BY <1>0, <1>1, <1>3, <1>5, <2>2
       DEF CommitCancel, CommitConfirm, CommitConflict, Rollback, Goto, Unlock
<1>6. CASE Execute(r)
  BY <1>0, <1>1, <1>3, <1>6 DEF Execute
<1>7. CASE \/ Begin(r) \/ BeginTimeout(r) \/ ExecuteFails(r) \/ RecordFailure(r)
           \/ RecordTimeout(r) \/ AuditAfterCommit(r)
  BY <1>0, <1>1, <1>3, <1>7
     DEF Begin, BeginTimeout, ExecuteFails, RecordFailure, RecordTimeout, AuditAfterCommit, Goto
<1> QED
  BY <1>4, <1>5, <1>6, <1>7 DEF Serve

\* The part of LockInv that speaks of one request.
HoldsFor(r) ==
    /\ At(r, "locking") => Writer(req[r].user)
    /\ req[r].pc \in HoldsRow =>
         /\ lock[req[r].action] = r
         /\ actions[req[r].action] \in Action
         /\ actions[req[r].action].status = "PENDING"
         /\ actions[req[r].action].user = req[r].user
         /\ req[r].token
         /\ Writer(req[r].user)

LEMMA LockStep ==
    ASSUME TypeOK, LockInv, NEW r \in Requests, Load(r) \/ Serve(r)
    PROVE  LockInv'
<1> USE DEF At
<1> SUFFICES ASSUME NEW s \in Requests
             PROVE  HoldsFor(s)'
  BY DEF LockInv, HoldsFor
<1>1. CASE s # r
  <2>1. req'[s] = req[s]
    BY <1>1, RequestUnderWay DEF Load, LoadRefused, LoadExpired, LoadValid, Serve, Begin,
       BeginTimeout, CommitCancel, Execute, ExecuteFails, RecordFailure, RecordTimeout,
       Rollback, CommitConfirm, CommitConflict, AuditAfterCommit, Goto, TypeOK
  <2>2. CASE req[s].pc \in HoldsRow
    BY <1>1, <2>1, <2>2, RowIsHeld DEF LockInv, HoldsFor, Writer, HoldsRow
  <2>3. CASE req[s].pc \notin HoldsRow
    BY <2>1, <2>3 DEF LockInv, HoldsFor, Writer
  <2> QED
    BY <2>2, <2>3
<1>2. CASE s = r
  <2>0. req[r] \in Request /\ req[r].pc # "idle" /\ req[r].action \in Actions
    BY RequestUnderWay DEF Load, LoadRefused, LoadExpired, LoadValid, Serve, Begin,
       BeginTimeout, CommitCancel, Execute, ExecuteFails, RecordFailure, RecordTimeout,
       Rollback, CommitConfirm, CommitConflict, AuditAfterCommit, Request
  <2> DEFINE a == req[r].action
  <2>1. CASE LoadRefused(r) \/ LoadExpired(r) \/ CommitCancel(r) \/ CommitConfirm(r)
             \/ CommitConflict(r) \/ Rollback(r) \/ BeginTimeout(r)
             \/ AuditAfterCommit(r)
    <3>1. req'[r].pc \in {"refused", "expired", "auditing", "error", "answered"}
      BY <2>0, <2>1
         DEF LoadRefused, LoadExpired, CommitCancel, CommitConfirm, CommitConflict,
             Rollback, BeginTimeout, AuditAfterCommit, Goto, TypeOK, Request
    <3> QED
      BY <1>2, <3>1 DEF HoldsFor, HoldsRow
  <2>2. CASE Begin(r)
    <3>1. req'[r].user = req[r].user
      BY <2>0, <2>2 DEF Begin, Goto, Request, TypeOK
    <3>2. req'[r].pc \in {"locking", "refused"} /\ (req'[r].pc = "locking" => Writer(req[r].user))
      BY <2>0, <2>2 DEF Begin, Goto, TypeOK
    <3> QED
      BY <1>2, <3>1, <3>2 DEF HoldsFor, HoldsRow, Writer
  <2>3. CASE LoadValid(r)
    <3>1. req'[r] = [req[r] EXCEPT !.pc = "loaded"]
      BY <2>0, <2>3, GotoKeepsType DEF LoadValid
    <3>2. /\ req'[r].action = a /\ req'[r].user = req[r].user
          /\ req'[r].token = req[r].token /\ req'[r].pc = "loaded"
      BY <2>0, <3>1 DEF Request
    <3>3. lock'[a] = r /\ actions' = actions
      BY <2>0, <2>3 DEF LoadValid, TypeOK
    <3>4. /\ actions[a] \in Action /\ actions[a].status = "PENDING"
          /\ actions[a].user = req[r].user /\ req[r].token
      BY <2>0, <2>3 DEF LoadValid, MayDecide, TypeOK
    <3>5. Writer(req[r].user)
      BY <2>3 DEF LoadValid, LockInv
    <3> QED
      BY <1>2, <3>2, <3>3, <3>4, <3>5 DEF HoldsFor, Writer
  <2>4. CASE Execute(r)
    <3>1. /\ req'[r].action = a /\ req'[r].user = req[r].user
          /\ req'[r].token = req[r].token /\ req'[r].pc = "flushing"
      BY <2>0, <2>4 DEF Execute, Request, TypeOK
    <3>2. lock' = lock /\ actions' = actions
      BY <2>4 DEF Execute
    <3>3. req[r].pc \in HoldsRow
      BY <2>4 DEF Execute, HoldsRow
    <3> QED
      BY <1>2, <3>1, <3>2, <3>3 DEF HoldsFor, Writer, LockInv
  <2>5. CASE ExecuteFails(r) \/ RecordFailure(r) \/ RecordTimeout(r)
    <3>1. /\ req'[r].action = a /\ req'[r].user = req[r].user
          /\ req'[r].token = req[r].token /\ req'[r].pc \in {"failing", "rollback"}
      BY <2>0, <2>5 DEF ExecuteFails, RecordFailure, RecordTimeout, Goto, Request, TypeOK
    <3>2. lock' = lock /\ actions' = actions /\ req[r].pc \in HoldsRow
      BY <2>5 DEF ExecuteFails, RecordFailure, RecordTimeout, HoldsRow
    <3> QED
      BY <1>2, <3>1, <3>2 DEF HoldsFor, Writer, LockInv
  <2> QED
    BY <2>1, <2>2, <2>3, <2>4, <2>5 DEF Load, Serve
<1> QED
  BY <1>1, <1>2

\* A preview only fills a row that no transaction holds.
LEMMA PreviewEffect ==
    ASSUME TypeOK, PreviewAny
    PROVE  /\ \E a \in Actions :
                /\ actions[a] = NoAction
                /\ actions'[a].status = "PENDING"
                /\ actions'[a].type = "CANCEL_ORDER" => actions'[a].target = "CANCELLED"
                /\ actions'[a].type = "CREATE_DRAFT_ORDER" => actions'[a].order = NoOrder
                /\ actions'[a].type # "CREATE_DRAFT_ORDER" =>
                     /\ actions'[a].order \in Orders
                     /\ orders[actions'[a].order] # Absent
                     /\ actions'[a].version = orders[actions'[a].order].version
                /\ \A b \in Actions \ {a} : actions'[b] = actions[b]
           /\ UNCHANGED <<orders, product, due, lock, req>>
<1> PICK a \in Actions, u \in Users :
        \/ Preview(a, u, "CREATE_DRAFT_ORDER", NoOrder, "DRAFT")
        \/ \E o \in Orders :
              \/ \E target \in OrderStatus : Preview(a, u, "UPDATE_ORDER_STATUS", o, target)
              \/ Preview(a, u, "CANCEL_ORDER", o, "CANCELLED")
              \/ Preview(a, u, "SOFT_DELETE_DRAFT", o, "DRAFT")
  BY DEF PreviewAny
<1> PICK type \in ActionType, o \in Orders \cup {NoOrder}, target \in OrderStatus :
        /\ Preview(a, u, type, o, target)
        /\ type = "CREATE_DRAFT_ORDER" => o = NoOrder
        /\ type # "CREATE_DRAFT_ORDER" => o \in Orders
        /\ type = "CANCEL_ORDER" => target = "CANCELLED"
  OBVIOUS
<1>1. actions' = [actions EXCEPT ![a] =
                    [status |-> "PENDING", user |-> u, type |-> type, order |-> o,
                     target |-> target, version |-> ReadVersion(type, o)]]
  BY DEF Preview
<1>2. type # "CREATE_DRAFT_ORDER" =>
        orders[o] # Absent /\ ReadVersion(type, o) = orders[o].version
  BY DEF Preview, RulesHold, ActiveOrder, ReadVersion
<1>3. actions[a] = NoAction /\ UNCHANGED <<orders, product, due, lock, req>>
  BY DEF Preview
<1> QED
  BY <1>1, <1>2, <1>3 DEF TypeOK

LEMMA LockOther ==
    ASSUME TypeOK, LockInv,
           \/ PreviewAny
           \/ \E r \in Requests : CallAny(r)
           \/ \E a \in Actions : TimeToLiveEnds(a)
           \/ ProductChanges
           \/ Crash
    PROVE  LockInv'
<1> USE DEF At
<1>0. SUFFICES ASSUME NEW s \in Requests
               PROVE  HoldsFor(s)'
  BY DEF LockInv, HoldsFor
<1>1. CASE PreviewAny
  <2>1. req' = req /\ lock' = lock
    BY <1>1, PreviewEffect
  <2>2. \A b \in Actions : actions[b] # NoAction => actions'[b] = actions[b]
    BY <1>1, PreviewEffect
  <2>3. req[s].pc \in HoldsRow => req[s].action \in Actions
    BY RequestUnderWay DEF HoldsRow, Request
  <2>4. req[s].pc \in HoldsRow => actions[req[s].action] # NoAction
    BY DEF LockInv, NoAction
  <2> QED
    BY <2>1, <2>2, <2>3, <2>4 DEF LockInv, HoldsFor, Writer
<1>2. ASSUME NEW r \in Requests, CallAny(r)
      PROVE  HoldsFor(s)'
  <2>1. lock' = lock /\ actions' = actions
    BY <1>2 DEF CallAny, Call
  <2>2. req'[s] = req[s] \/ req'[s].pc = "called"
    BY <1>2 DEF CallAny, Call, TypeOK
  <2> QED
    BY <2>1, <2>2 DEF LockInv, HoldsFor, Writer, HoldsRow
<1>3. CASE ProductChanges \/ \E a \in Actions : TimeToLiveEnds(a)
  BY <1>3 DEF ProductChanges, TimeToLiveEnds, LockInv, HoldsFor, Writer
<1>4. CASE Crash
  <2>1. req'[s].pc \in {"idle"} \cup Done
    BY <1>4 DEF Crash, InFlight, TypeOK, Request, Idle
  <2> QED
    BY <2>1 DEF HoldsFor, HoldsRow
<1> QED
  BY <1>1, <1>2, <1>3, <1>4

LEMMA NextLock ==
    ASSUME TypeOK, LockInv, [Next]_vars
    PROVE  LockInv'
<1>1. CASE UNCHANGED vars
  BY <1>1 DEF vars, LockInv, At, Writer
<1>2. CASE Next
  BY <1>2, LockStep, LockOther DEF Next, ServerNext
<1> QED
  BY <1>1, <1>2

-----------------------------------------------------------------------------
(***************************************************************************)
(* The two tables.  Only CommitConfirm writes an order; only it, the other *)
(* decisions and the previews write actions.                               *)
(***************************************************************************)

\* The step decides action a, and only a; the orders stay.
Closes(a, status) ==
    /\ actions[a] \in Action
    /\ actions[a].status = "PENDING"
    /\ actions' = [actions EXCEPT ![a].status = status]

LEMMA TablesStep ==
    ASSUME TypeOK, LockInv, Next
    PROVE  \/ UNCHANGED <<actions, orders>>
           \/ PreviewAny
           \/ /\ UNCHANGED orders
              /\ \E a \in Actions : Closes(a, "EXPIRED") \/ Closes(a, "CANCELLED")
           \/ \E r \in Requests : CommitConfirm(r)
<1> USE DEF At
<1>1. CASE PreviewAny
  BY <1>1
<1>2. ASSUME NEW r \in Requests, LoadExpired(r)
      PROVE  \E a \in Actions : Closes(a, "EXPIRED") /\ UNCHANGED orders
  <2>1. req[r].action \in Actions
    BY <1>2, RequestUnderWay DEF LoadExpired, Request
  <2> QED
    BY <1>2, <2>1 DEF LoadExpired, MayDecide, Closes, TypeOK
<1>3. ASSUME NEW r \in Requests, CommitCancel(r)
      PROVE  \E a \in Actions : Closes(a, "CANCELLED") /\ UNCHANGED orders
  <2>1. req[r].action \in Actions
    BY <1>3, RequestUnderWay DEF CommitCancel, Request
  <2> QED
    BY <1>3, <2>1 DEF CommitCancel, Closes, LockInv, HoldsRow
<1>4. ASSUME NEW r \in Requests,
             \/ CallAny(r) \/ LoadRefused(r) \/ LoadValid(r) \/ Begin(r) \/ BeginTimeout(r)
             \/ Execute(r) \/ ExecuteFails(r) \/ RecordFailure(r) \/ RecordTimeout(r)
             \/ Rollback(r) \/ CommitConflict(r) \/ AuditAfterCommit(r)
      PROVE  UNCHANGED <<actions, orders>>
  BY <1>4 DEF CallAny, Call, LoadRefused, LoadValid, Begin, BeginTimeout, Execute,
     ExecuteFails, RecordFailure, RecordTimeout, Rollback, CommitConflict,
     AuditAfterCommit
<1>5. CASE ProductChanges \/ Crash \/ \E a \in Actions : TimeToLiveEnds(a)
  BY <1>5 DEF ProductChanges, Crash, TimeToLiveEnds
<1> QED
  BY <1>1, <1>2, <1>3, <1>4, <1>5 DEF Next, ServerNext, Load, Serve

\* The commit of a confirm: the action goes from PENDING to CONFIRMED, and its
\* order from the version of the preview to the next one.
LEMMA ConfirmEffect ==
    ASSUME TypeOK, LockInv, FlushInv, BasisInv, NEW r \in Requests, CommitConfirm(r),
           NEW a, a = req[r].action
    PROVE  /\ a \in Actions /\ Closes(a, "CONFIRMED") /\ lock[a] = r
           /\ \/ /\ ~OnOrder(a)
                 /\ \E o \in Orders : /\ orders[o] = Absent
                                      /\ orders' = [orders EXCEPT ![o] = NewDraft]
              \/ /\ OnOrder(a)
                 /\ actions[a].order \in Orders
                 /\ orders[actions[a].order] \in Order
                 /\ actions[a].version = orders[actions[a].order].version
                 /\ orders' = [orders EXCEPT ![actions[a].order] =
                                 Changed(orders[actions[a].order], actions[a])]
                 /\ RulesHold(actions[a].type, actions[a].user, actions[a].order, actions[a].target)
<1> USE DEF At
<1>1. a \in Actions
  BY RequestUnderWay DEF CommitConfirm, Request
<1>2. lock[a] = r /\ Closes(a, "CONFIRMED") /\ actions[a] # NoAction
  BY DEF CommitConfirm, LockInv, HoldsRow, Closes, NoAction
<1>3. CASE ~OnOrder(a)
  BY <1>1, <1>2, <1>3 DEF CommitConfirm, OnOrder
<1>4. CASE OnOrder(a)
  <2>1. actions[a].order \in Orders /\ orders[actions[a].order] \in Order
    BY <1>1, <1>2, <1>4 DEF BasisInv, TypeOK
  <2>2. actions[a].version = req[r].seen /\ orders[actions[a].order].version = req[r].seen
    BY <1>4 DEF CommitConfirm, VersionMatches, FlushInv, OnOrder
  <2>3. RulesHold(actions[a].type, actions[a].user, actions[a].order, actions[a].target)
    BY <1>4, <2>2 DEF CommitConfirm, FlushInv
  <2> QED
    BY <1>1, <1>2, <1>4, <2>1, <2>2, <2>3 DEF CommitConfirm, OnOrder
<1> QED
  BY <1>3, <1>4

\* An order row never disappears and its version never decreases; when the
\* version stays, the row stays.
LEMMA OrdersGrow ==
    ASSUME TypeOK, LockInv, FlushInv, BasisInv, [Next]_vars,
           NEW o \in Orders, orders[o] # Absent
    PROVE  /\ orders'[o] \in Order
           /\ orders[o].version <= orders'[o].version
           /\ orders'[o].version = orders[o].version => orders'[o] = orders[o]
<1>1. orders[o] \in Order /\ orders[o].version \in Nat
  BY DEF TypeOK, Order
<1>2. CASE orders' = orders
  BY <1>1, <1>2
<1>3. ASSUME NEW r \in Requests, CommitConfirm(r)
      PROVE  /\ orders'[o] \in Order
             /\ orders[o].version <= orders'[o].version
             /\ orders'[o].version = orders[o].version => orders'[o] = orders[o]
  <2> DEFINE a == req[r].action
  <2>0. a \in Actions /\ actions[a] \in Action
    BY <1>3, ConfirmEffect DEF Closes
  <2>1. CASE ~OnOrder(a)
    <3>1. orders'[o] = orders[o]
      BY <1>3, <2>1, ConfirmEffect DEF TypeOK
    <3> QED
      BY <1>1, <3>1
  <2>2. CASE OnOrder(a)
    <3>1. CASE o # actions[a].order
      <4>1. orders'[o] = orders[o]
        BY <1>3, <2>2, <3>1, ConfirmEffect DEF TypeOK
      <4> QED
        BY <1>1, <4>1
    <3>2. CASE o = actions[a].order
      <4>1. orders'[o] = Changed(orders[o], actions[a])
        BY <1>3, <2>2, <3>2, ConfirmEffect DEF TypeOK
      <4>2. orders'[o] \in Order
        BY <1>1, <2>0, <4>1, ChangedIsOrder
      <4>3. orders'[o].version = orders[o].version + 1
        BY <4>1 DEF Changed
      <4> QED
        BY <1>1, <4>2, <4>3
    <3> QED
      BY <3>1, <3>2
  <2> QED
    BY <2>1, <2>2
<1>4. CASE UNCHANGED vars
  BY <1>2, <1>4 DEF vars
<1>5. CASE Next
  BY <1>2, <1>3, <1>5, TablesStep, PreviewEffect
<1> QED
  BY <1>4, <1>5

BasisFor(a) ==
    actions[a] # NoAction =>
        /\ ~OnOrder(a) => actions[a].order = NoOrder
        /\ actions[a].type = "CANCEL_ORDER" => actions[a].target = "CANCELLED"
        /\ OnOrder(a) =>
             /\ actions[a].order \in Orders
             /\ orders[actions[a].order] # Absent
             /\ actions[a].version <= orders[actions[a].order].version
             /\ Confirmed(a) => actions[a].version # orders[actions[a].order].version

\* An action that keeps its row, or that is closed without being confirmed,
\* keeps its basis.
LEMMA BasisKept ==
    ASSUME TypeOK, LockInv, FlushInv, BasisInv, [Next]_vars,
           NEW a \in Actions, actions[a] # NoAction,
           \/ actions'[a] = actions[a]
           \/ \E s \in {"EXPIRED", "CANCELLED"} : actions'[a] = [actions[a] EXCEPT !.status = s]
    PROVE  BasisFor(a)'
<1>1. actions[a] \in Action
  BY DEF TypeOK
<1>2. /\ actions'[a].type = actions[a].type /\ actions'[a].order = actions[a].order
      /\ actions'[a].target = actions[a].target /\ actions'[a].version = actions[a].version
      /\ actions'[a].status = "CONFIRMED" => actions[a].status = "CONFIRMED"
  BY <1>1 DEF Action
<1>3. CASE ~OnOrder(a)
  BY <1>2, <1>3 DEF BasisInv, BasisFor, OnOrder
<1>4. CASE OnOrder(a)
  <2> DEFINE o == actions[a].order
  <2>1. /\ o \in Orders /\ orders[o] # Absent /\ actions[a].version <= orders[o].version
        /\ Confirmed(a) => actions[a].version # orders[o].version
    BY <1>4 DEF BasisInv
  <2>2. orders'[o] \in Order /\ orders[o].version <= orders'[o].version
    BY <2>1, OrdersGrow
  <2>3. orders[o].version \in Nat /\ orders'[o].version \in Nat /\ actions[a].version \in Nat
    BY <1>1, <2>1, <2>2 DEF TypeOK, Order, Action
  <2>4. actions[a].version <= orders'[o].version
    BY <2>1, <2>2, <2>3
  <2>5. Confirmed(a) => actions[a].version # orders'[o].version
    BY <2>1, <2>2, <2>3
  <2>6. orders'[o] # Absent
    BY <2>2 DEF Order, Absent
  <2> QED
    BY <1>2, <1>4, <2>1, <2>4, <2>5, <2>6 DEF BasisInv, BasisFor, OnOrder, Confirmed
<1> QED
  BY <1>3, <1>4

LEMMA NextBasis ==
    ASSUME TypeOK, LockInv, FlushInv, BasisInv, [Next]_vars
    PROVE  BasisInv'
<1> SUFFICES ASSUME NEW a \in Actions
             PROVE  BasisFor(a)'
  BY DEF BasisInv, BasisFor
<1>0. CASE actions'[a] = actions[a]
  <2>1. CASE actions[a] = NoAction
    BY <1>0, <2>1 DEF BasisFor
  <2>2. CASE actions[a] # NoAction
    BY <1>0, <2>2, BasisKept
  <2> QED
    BY <2>1, <2>2
<1>1. CASE UNCHANGED vars
  BY <1>0, <1>1 DEF vars
<1>2. CASE PreviewAny
  <2>1. PICK b \in Actions :
            /\ actions[b] = NoAction
            /\ actions'[b].status = "PENDING"
            /\ actions'[b].type = "CANCEL_ORDER" => actions'[b].target = "CANCELLED"
            /\ actions'[b].type = "CREATE_DRAFT_ORDER" => actions'[b].order = NoOrder
            /\ actions'[b].type # "CREATE_DRAFT_ORDER" =>
                 /\ actions'[b].order \in Orders
                 /\ orders[actions'[b].order] # Absent
                 /\ actions'[b].version = orders[actions'[b].order].version
            /\ \A c \in Actions \ {b} : actions'[c] = actions[c]
    BY <1>2, PreviewEffect
  <2>2. CASE a = b
    <3>1. orders' = orders
      BY <1>2, PreviewEffect
    <3>2. OnOrder(a)' => orders[actions'[a].order].version \in Nat
      BY <2>1, <2>2 DEF OnOrder, TypeOK, Order
    <3> QED
      BY <2>1, <2>2, <3>1, <3>2 DEF BasisFor, OnOrder, Confirmed
  <2> QED
    BY <1>0, <2>1, <2>2
<1>3. ASSUME NEW b \in Actions, NEW st \in {"EXPIRED", "CANCELLED"}, Closes(b, st), [Next]_vars
      PROVE  BasisFor(a)'
  <2>1. CASE a = b
    <3>1. actions'[a] = [actions[a] EXCEPT !.status = st] /\ actions[a] # NoAction
      BY <1>3, <2>1 DEF Closes, TypeOK, NoAction, Action
    <3> QED
      BY <3>1, BasisKept
  <2>2. CASE a # b
    BY <1>0, <1>3, <2>2 DEF Closes, TypeOK
  <2> QED
    BY <2>1, <2>2
<1>4. ASSUME NEW r \in Requests, CommitConfirm(r)
      PROVE  BasisFor(a)'
  <2> DEFINE b == req[r].action
  <2>0. b \in Actions /\ Closes(b, "CONFIRMED")
    BY <1>4, ConfirmEffect
  <2>1. CASE a # b
    BY <1>0, <2>0, <2>1 DEF Closes, TypeOK
  <2>2. CASE a = b
    <3>1. actions'[a] = [actions[a] EXCEPT !.status = "CONFIRMED"] /\ actions[a] # NoAction
      BY <2>0, <2>2 DEF Closes, TypeOK, NoAction, Action
    <3>2. /\ actions'[a].type = actions[a].type /\ actions'[a].order = actions[a].order
          /\ actions'[a].target = actions[a].target /\ actions'[a].version = actions[a].version
      BY <2>0, <2>2, <3>1 DEF Action, Closes
    <3>3. CASE ~OnOrder(a)
      BY <3>1, <3>2, <3>3 DEF BasisInv, BasisFor, OnOrder
    <3>4. CASE OnOrder(a)
      <4> DEFINE o == actions[a].order
      <4>1. /\ o \in Orders /\ orders[o] \in Order
            /\ actions[a].version = orders[o].version
            /\ orders' = [orders EXCEPT ![o] = Changed(orders[o], actions[a])]
        BY <1>4, <2>2, <3>4, ConfirmEffect
      <4>2. orders'[o] = Changed(orders[o], actions[a])
        BY <4>1 DEF TypeOK
      <4>3. orders'[o].version = orders[o].version + 1 /\ orders[o].version \in Nat
        BY <4>1, <4>2 DEF Changed, Order
      <4>4. orders'[o] # Absent
        <5>1. orders'[o] \in Order
          BY <2>0, <2>2, <4>1, <4>2, ChangedIsOrder DEF Closes
        <5> QED
          BY <5>1 DEF Order, Absent
      <4>5. actions[a].version <= orders'[o].version /\ actions[a].version # orders'[o].version
        BY <4>1, <4>3
      <4> QED
        BY <3>1, <3>2, <3>4, <4>1, <4>4, <4>5 DEF BasisInv, BasisFor, OnOrder
    <3> QED
      BY <3>3, <3>4
  <2> QED
    BY <2>1, <2>2
<1>5. CASE Next
  BY <1>0, <1>2, <1>3, <1>4, <1>5, TablesStep
<1> QED
  BY <1>1, <1>5

\* Two confirmed actions on one order: the later one was at the order's
\* version, the earlier one below it.
LEMMA NextOneApproval ==
    ASSUME TypeOK, LockInv, FlushInv, BasisInv, OneApprovalPerVersion, [Next]_vars
    PROVE  OneApprovalPerVersion'
<1> DEFINE Clash(a, b) == /\ Confirmed(a) /\ Confirmed(b) /\ OnOrder(a) /\ OnOrder(b)
                          /\ actions[a].order = actions[b].order
                          /\ actions[a].version = actions[b].version
<1> SUFFICES ASSUME NEW a \in Actions, NEW b \in Actions, a # b, Clash(a, b)'
             PROVE  FALSE
  BY DEF OneApprovalPerVersion
<1>0. CASE \A c \in Actions : actions'[c].status = "CONFIRMED" => actions'[c] = actions[c]
  BY <1>0 DEF Confirmed, OnOrder, OneApprovalPerVersion
<1>1. CASE UNCHANGED vars
  BY <1>0, <1>1 DEF vars
<1>2. CASE PreviewAny
  BY <1>0, <1>2, PreviewEffect
<1>3. ASSUME NEW c \in Actions, NEW st \in {"EXPIRED", "CANCELLED"}, Closes(c, st)
      PROVE  FALSE
  BY <1>0, <1>3 DEF Closes, TypeOK, Action
<1>4. ASSUME NEW r \in Requests, CommitConfirm(r)
      PROVE  FALSE
  <2> DEFINE c == req[r].action
  <2>0. c \in Actions /\ Closes(c, "CONFIRMED") /\ actions[c] \in Action
    BY <1>4, ConfirmEffect DEF Closes
  <2>1. \A d \in Actions \ {c} : actions'[d] = actions[d]
    BY <2>0 DEF Closes, TypeOK
  <2>2. /\ actions'[c].order = actions[c].order /\ actions'[c].version = actions[c].version
        /\ actions'[c].type = actions[c].type
    BY <2>0 DEF Closes, TypeOK, Action
  <2>3. ASSUME NEW d \in Actions \ {c}, Confirmed(d), OnOrder(d), OnOrder(c),
               actions[d].order = actions[c].order, actions[d].version = actions[c].version
        PROVE  FALSE
    <3>1. actions[c].version = orders[actions[c].order].version
      BY <1>4, <2>3, ConfirmEffect
    <3>2. actions[d] # NoAction
      BY <2>3 DEF Confirmed, NoAction
    <3>3. actions[d].version # orders[actions[d].order].version
      BY <2>3, <3>2 DEF BasisInv
    <3> QED
      BY <2>3, <3>1, <3>3
  <2>4. CASE a = c
    BY <2>1, <2>2, <2>3, <2>4 DEF Confirmed, OnOrder
  <2>5. CASE b = c
    BY <2>1, <2>2, <2>3, <2>5 DEF Confirmed, OnOrder
  <2>6. CASE a # c /\ b # c
    BY <2>1, <2>6 DEF Confirmed, OnOrder, OneApprovalPerVersion
  <2> QED
    BY <2>4, <2>5, <2>6
<1>5. CASE Next
  BY <1>0, <1>2, <1>3, <1>4, <1>5, TablesStep
<1> QED
  BY <1>1, <1>5

FlushFor(r) ==
    At(r, "flushing") =>
        LET act == actions[req[r].action] IN
        /\ req[r].verb = "confirm"
        /\ req[r].seen = act.version
        /\ OnOrder(req[r].action) /\ orders[act.order].version = req[r].seen
             => RulesHold(act.type, act.user, act.order, act.target)

\* A request waiting for its commit stays as it is while others move.
LEMMA FlushKept ==
    ASSUME TypeOK, LockInv, FlushInv, BasisInv, [Next]_vars,
           NEW s \in Requests, At(s, "flushing"),
           req'[s] = req[s], actions'[req[s].action] = actions[req[s].action]
    PROVE  FlushFor(s)'
<1> DEFINE a == req[s].action
           o == actions[a].order
<1>1. a \in Actions /\ actions[a] \in Action /\ actions[a] # NoAction
  BY RequestUnderWay DEF At, Request, LockInv, HoldsRow, NoAction
<1>2. /\ req[s].verb = "confirm" /\ req[s].seen = actions[a].version
      /\ OnOrder(a) /\ orders[o].version = req[s].seen
           => RulesHold(actions[a].type, actions[a].user, o, actions[a].target)
  BY DEF FlushInv
<1>3. ASSUME OnOrder(a), orders'[o].version = req[s].seen
      PROVE  RulesHold(actions[a].type, actions[a].user, o, actions[a].target)'
  <2>1. o \in Orders /\ orders[o] # Absent /\ actions[a].version <= orders[o].version
    BY <1>1, <1>3 DEF BasisInv
  <2>2. /\ orders'[o] \in Order /\ orders[o].version <= orders'[o].version
        /\ orders'[o].version = orders[o].version => orders'[o] = orders[o]
    BY <2>1, OrdersGrow
  <2>3. orders[o].version \in Nat /\ orders'[o].version \in Nat /\ actions[a].version \in Nat
    BY <1>1, <2>1, <2>2 DEF TypeOK, Order, Action
  <2>4. orders'[o] = orders[o] /\ orders[o].version = req[s].seen
    <3>1. actions[a].version = orders'[o].version
      BY <1>2, <1>3
    <3>2. actions[a].version <= orders[o].version /\ orders[o].version <= actions[a].version
      BY <2>1, <2>2, <3>1
    <3> HIDE DEF a, o
    <3>3. orders[o].version = orders'[o].version
      BY <2>3, <3>1, <3>2
    <3> QED
      BY <1>3, <2>2, <3>3
  <2>5. RulesHold(actions[a].type, actions[a].user, o, actions[a].target)
    BY <1>2, <1>3, <2>4
  <2> QED
    BY <1>3, <2>4, <2>5 DEF RulesHold, ActiveOrder, OnOrder
<1> QED
  BY <1>2, <1>3 DEF FlushFor, OnOrder

LEMMA NextFlush ==
    ASSUME TypeOK, LockInv, FlushInv, BasisInv, [Next]_vars
    PROVE  FlushInv'
<1> USE DEF At
<1> SUFFICES ASSUME NEW s \in Requests, req'[s].pc = "flushing"
             PROVE  FlushFor(s)'
  BY DEF FlushInv, FlushFor
<1>0. ASSUME req'[s] = req[s], actions'[req[s].action] = actions[req[s].action]
      PROVE  FlushFor(s)'
  BY <1>0, FlushKept
<1>1. CASE UNCHANGED vars
  BY <1>0, <1>1 DEF vars
<1>2. CASE PreviewAny
  <2>1. req' = req
    BY <1>2, PreviewEffect
  <2>2. req[s].action \in Actions /\ actions[req[s].action] # NoAction
    BY <2>1, RequestUnderWay DEF Request, LockInv, HoldsRow, NoAction
  <2> QED
    BY <1>0, <1>2, <2>1, <2>2, PreviewEffect
<1>3. ASSUME NEW r \in Requests, CallAny(r)
      PROVE  FlushFor(s)'
  <2>1. req'[s] = req[s] /\ actions' = actions
    BY <1>3 DEF CallAny, Call, TypeOK
  <2> QED
    BY <1>0, <2>1
<1>4. CASE ProductChanges \/ \E a \in Actions : TimeToLiveEnds(a)
  BY <1>0, <1>4 DEF ProductChanges, TimeToLiveEnds
<1>5. CASE Crash
  <2>1. req'[s].pc \in {"idle"} \cup Done
    BY <1>5 DEF Crash, InFlight, TypeOK, Request, Idle
  <2> QED
    BY <2>1
<1>6. ASSUME NEW r \in Requests, Load(r) \/ Serve(r)
      PROVE  FlushFor(s)'
  <2>1. CASE r # s
    <3>1. req'[s] = req[s]
      BY <1>6, <2>1 DEF Load, LoadRefused, LoadExpired, LoadValid, Serve, Begin,
         BeginTimeout, CommitCancel, Execute, ExecuteFails, RecordFailure, RecordTimeout,
         Rollback, CommitConfirm, CommitConflict, AuditAfterCommit, Goto, TypeOK
    <3>2. actions'[req[s].action] = actions[req[s].action]
      BY <1>6, <2>1, <3>1, RowIsHeld DEF HoldsRow
    <3> QED
      BY <1>0, <3>1, <3>2
  <2>2. CASE r = s
    <3>0. req[r] \in Request /\ req[r].action \in Actions
      BY <1>6, RequestUnderWay DEF Load, LoadRefused, LoadExpired, LoadValid, Serve, Begin,
         BeginTimeout, CommitCancel, Execute, ExecuteFails, RecordFailure, RecordTimeout,
         Rollback, CommitConfirm, CommitConflict, AuditAfterCommit, Request
    <3>1. Execute(s)
      BY <1>6, <2>2, <3>0 DEF Load, LoadRefused, LoadExpired, LoadValid, Serve, Begin,
         BeginTimeout, CommitCancel, ExecuteFails, RecordFailure, RecordTimeout,
         Rollback, CommitConfirm, CommitConflict, AuditAfterCommit, Goto,
         TypeOK, Request
    <3> DEFINE a == req[s].action
    <3>2. /\ req'[s].action = a /\ req'[s].verb = "confirm"
          /\ req'[s].seen = ReadVersion(actions[a].type, actions[a].order)
      BY <2>2, <3>0, <3>1 DEF Execute, TypeOK, Request
    <3>3. actions' = actions /\ orders' = orders /\ product' = product
      BY <3>1 DEF Execute
    <3>4. /\ RulesHold(actions[a].type, req[s].user, actions[a].order, actions[a].target)
          /\ ReadVersion(actions[a].type, actions[a].order) = actions[a].version
          /\ actions[a].user = req[s].user
      BY <3>1 DEF Execute, Executable, LockInv, HoldsRow
    <3> QED
      BY <3>2, <3>3, <3>4 DEF FlushFor, RulesHold, ActiveOrder
  <2> QED
    BY <2>1, <2>2
<1>7. CASE Next
  BY <1>2, <1>3, <1>4, <1>5, <1>6, <1>7 DEF Next, ServerNext
<1> QED
  BY <1>1, <1>7

-----------------------------------------------------------------------------
(***************************************************************************)
(* Decisions: they are final, committed by one request each, and audited   *)
(* after the commit.                                                       *)
(***************************************************************************)

\* A row of pending_actions changes by its status only, and only from PENDING.
LEMMA StatusMoves ==
    ASSUME TypeOK, LockInv, FlushInv, BasisInv, [Next]_vars,
           NEW a \in Actions, actions[a] # NoAction
    PROVE  /\ actions[a].status # "PENDING" => actions'[a] = actions[a]
           /\ actions'[a] = [actions[a] EXCEPT !.status = actions'[a].status]
<1> DEFINE Final == /\ actions[a].status # "PENDING" => actions'[a] = actions[a]
                    /\ actions'[a] = [actions[a] EXCEPT !.status = actions'[a].status]
<1>0. ASSUME actions'[a] = actions[a]
      PROVE  Final
  BY <1>0 DEF TypeOK, Action
<1>1. CASE UNCHANGED vars
  BY <1>0, <1>1 DEF vars
<1>2. CASE PreviewAny
  BY <1>0, <1>2, PreviewEffect
<1>3. ASSUME NEW b \in Actions, NEW s, Closes(b, s)
      PROVE  Final
  BY <1>0, <1>3 DEF Closes, TypeOK, Action
<1>4. ASSUME NEW r \in Requests, CommitConfirm(r)
      PROVE  Final
  BY <1>3, <1>4, ConfirmEffect
<1>5. CASE Next
  BY <1>0, <1>2, <1>3, <1>4, <1>5, TablesStep
<1> QED
  BY <1>1, <1>5

\* A decided action keeps its status.
LEMMA StatusStays ==
    ASSUME TypeOK, LockInv, FlushInv, BasisInv, [Next]_vars, NEW a \in Actions,
           actions[a].status \in {"CONFIRMED", "CANCELLED", "EXPIRED"}
    PROVE  actions'[a] = actions[a]
<1>1. actions[a] # NoAction /\ actions[a].status # "PENDING"
  BY DEF NoAction
<1> QED
  BY <1>1, StatusMoves

\* How a request gets past a commit: by its own commit, or by the event that
\* is recorded after it.
LEMMA PastCommit ==
    ASSUME TypeOK, [Next]_vars, NEW s \in Requests,
           req'[s].pc \in {"auditing", "answered", "expired"}
    PROVE  \/ req'[s] = req[s]
           \/ At(s, "auditing") /\ req'[s] = [req[s] EXCEPT !.pc = "answered"]
           \/ LoadExpired(s) \/ CommitCancel(s) \/ CommitConfirm(s)
<1> USE DEF At
<1>1. CASE UNCHANGED vars \/ PreviewAny \/ ProductChanges \/ \E a \in Actions : TimeToLiveEnds(a)
  BY <1>1, PreviewEffect DEF vars, ProductChanges, TimeToLiveEnds
<1>2. ASSUME NEW r \in Requests, CallAny(r)
      PROVE  req'[s] = req[s]
  BY <1>2 DEF CallAny, Call, TypeOK
<1>3. CASE Crash
  BY <1>3 DEF Crash, InFlight, TypeOK
<1>4. ASSUME NEW r \in Requests \ {s}, Load(r) \/ Serve(r)
      PROVE  req'[s] = req[s]
  BY <1>4 DEF Load, LoadRefused, LoadExpired, LoadValid, Serve, Begin,
     BeginTimeout, CommitCancel, Execute, ExecuteFails, RecordFailure, RecordTimeout,
     Rollback, CommitConfirm, CommitConflict, AuditAfterCommit, Goto, TypeOK
<1>5. CASE Load(s) \/ Serve(s)
  <2>0. req[s] \in Request /\ req[s].pc # "idle"
    BY <1>5, RequestUnderWay DEF Load, LoadRefused, LoadExpired, LoadValid, Serve, Begin,
       BeginTimeout, CommitCancel, Execute, ExecuteFails, RecordFailure, RecordTimeout,
       Rollback, CommitConfirm, CommitConflict, AuditAfterCommit
  <2>1. CASE AuditAfterCommit(s)
    BY <2>0, <2>1, GotoKeepsType DEF AuditAfterCommit
  <2>2. CASE LoadExpired(s) \/ CommitCancel(s) \/ CommitConfirm(s)
    BY <2>2
  <2>3. CASE \/ LoadRefused(s) \/ LoadValid(s) \/ Begin(s) \/ BeginTimeout(s) \/ Execute(s)
             \/ ExecuteFails(s) \/ RecordFailure(s) \/ RecordTimeout(s) \/ Rollback(s)
             \/ CommitConflict(s)
    <3>1. req'[s].pc \in Pc \ {"auditing", "answered", "expired"}
      BY <2>0, <2>3 DEF LoadRefused, LoadValid, Begin, BeginTimeout, Execute, ExecuteFails,
         RecordFailure, RecordTimeout, Rollback, CommitConflict, Goto, Request,
         TypeOK
    <3> QED
      BY <3>1
  <2> QED
    BY <1>5, <2>1, <2>2, <2>3 DEF Load, Serve
<1>6. CASE Next
  BY <1>1, <1>2, <1>3, <1>4, <1>5, <1>6 DEF Next, ServerNext
<1> QED
  BY <1>1, <1>6

\* A commit leaves the status that the request asked for.
LEMMA CommitEffect ==
    ASSUME TypeOK, LockInv, FlushInv, NEW r \in Requests,
           CommitCancel(r) \/ CommitConfirm(r)
    PROVE  /\ req[r].action \in Actions
           /\ actions[req[r].action].status = "PENDING"
           /\ req'[r] = [req[r] EXCEPT !.pc = "auditing"]
           /\ req'[r].action = req[r].action /\ req'[r].verb = req[r].verb
           /\ \A s \in Requests \ {r} : req'[s] = req[s]
           /\ actions'[req[r].action].status =
                IF req[r].verb = "confirm" THEN "CONFIRMED" ELSE "CANCELLED"
           /\ audit' = audit
<1> USE DEF At
<1>1. req[r] \in Request /\ req[r].pc # "idle" /\ req[r].action \in Actions
  BY RequestUnderWay DEF CommitCancel, CommitConfirm, Request
<1>a. /\ req'[r] = [req[r] EXCEPT !.pc = "auditing"]
      /\ \A s \in Requests \ {r} : req'[s] = req[s]
  BY <1>1, GotoKeepsType DEF CommitCancel, CommitConfirm
<1>2. /\ req'[r] = [req[r] EXCEPT !.pc = "auditing"]
      /\ req'[r].action = req[r].action /\ req'[r].verb = req[r].verb
      /\ \A s \in Requests \ {r} : req'[s] = req[s]
  BY <1>1, <1>a DEF Request
<1>3. actions[req[r].action] \in Action /\ actions[req[r].action].status = "PENDING"
  BY DEF CommitCancel, CommitConfirm, LockInv, HoldsRow
<1>4. CASE CommitCancel(r)
  BY <1>1, <1>2, <1>3, <1>4 DEF CommitCancel, TypeOK, Action
<1>5. CASE CommitConfirm(r)
  BY <1>1, <1>2, <1>3, <1>5 DEF CommitConfirm, FlushInv, TypeOK, Action
<1> QED
  BY <1>4, <1>5

\* A request that finds its action expired stays with it.
LEMMA ExpiryEffect ==
    ASSUME TypeOK, NEW r \in Requests, LoadExpired(r)
    PROVE  /\ req'[r].pc = "expired" /\ req'[r].action = req[r].action
           /\ actions'[req[r].action].status = "EXPIRED"
<1>1. req[r] \in Request /\ req[r].pc # "idle"
  BY RequestUnderWay DEF LoadExpired, At
<1>2. req'[r] = [req[r] EXCEPT !.pc = "expired"]
  BY <1>1, GotoKeepsType DEF LoadExpired, Pc
<1>3. req[r].action \in Actions /\ actions[req[r].action] # NoAction
  BY <1>1 DEF LoadExpired, MayDecide, Request
<1>4. actions'[req[r].action] = [actions[req[r].action] EXCEPT !.status = "EXPIRED"]
  BY <1>3 DEF LoadExpired, TypeOK
<1>5. actions[req[r].action] \in Action
  BY <1>3 DEF TypeOK
<1> QED
  BY <1>1, <1>2, <1>4, <1>5 DEF Request, Action

LEMMA NextDecided ==
    ASSUME TypeOK, LockInv, FlushInv, BasisInv, DecidedInv, [Next]_vars
    PROVE  DecidedInv'
<1> USE DEF At
<1> DEFINE Outcome(r) == actions[req[r].action].status =
                           IF req[r].verb = "confirm" THEN "CONFIRMED" ELSE "CANCELLED"
           Commits(r) == CommitCancel(r) \/ CommitConfirm(r)
\* A request that has committed before stays with its action and its verb.
<1>1. ASSUME NEW r \in Requests, Decided(r)', ~Commits(r)
      PROVE  /\ Decided(r) /\ req[r].action \in Actions /\ Outcome(r)
             /\ req'[r].action = req[r].action /\ req'[r].verb = req[r].verb
  <2>1. \/ req'[r] = req[r]
        \/ At(r, "auditing") /\ req'[r] = [req[r] EXCEPT !.pc = "answered"]
    <3>1. LoadExpired(r) => req'[r].pc = "expired"
      BY ExpiryEffect
    <3> QED
      BY <1>1, <3>1, PastCommit DEF Decided
  <2>2. Decided(r)
    BY <1>1, <2>1 DEF Decided
  <2>3. req[r] \in Request
    BY <2>2, RequestUnderWay DEF Decided
  <2>4. req'[r].action = req[r].action /\ req'[r].verb = req[r].verb
    BY <2>1, <2>3 DEF Request
  <2>5. req[r].action \in Actions
    BY <2>3 DEF Request
  <2>6. Outcome(r)
    BY <2>2 DEF DecidedInv
  <2> QED
    BY <2>2, <2>4, <2>5, <2>6
<1>2. ASSUME NEW r \in Requests, Decided(r)'
      PROVE  Outcome(r)'
  <2>1. CASE Commits(r)
    BY <2>1, CommitEffect
  <2>2. CASE ~Commits(r)
    <3>1. /\ req[r].action \in Actions /\ Outcome(r)
          /\ req'[r].action = req[r].action /\ req'[r].verb = req[r].verb
      BY <1>1, <1>2, <2>2
    <3>2. actions'[req[r].action] = actions[req[r].action]
      BY <3>1, StatusStays
    <3> QED
      BY <3>1, <3>2
  <2> QED
    BY <2>1, <2>2
\* The one that commits now finds its action undecided.
<1>3. ASSUME NEW r \in Requests, NEW s \in Requests, r # s, Commits(r), Decided(s)'
      PROVE  req'[s].action # req'[r].action
  <2>1. req'[s] = req[s] /\ req[s].action \in Actions /\ Decided(s)
    <3>1. req'[s] = req[s]
      BY <1>3, CommitEffect
    <3>2. Decided(s)
      BY <1>3, <3>1 DEF Decided
    <3>3. req[s] \in Request
      BY <3>2, RequestUnderWay DEF Decided
    <3> QED
      BY <3>1, <3>2, <3>3 DEF Request
  <2>2. actions[req[s].action].status # "PENDING"
    BY <2>1 DEF DecidedInv
  <2>3. actions[req[r].action].status = "PENDING" /\ req'[r].action = req[r].action
    BY <1>3, CommitEffect
  <2> QED
    BY <2>1, <2>2, <2>3
<1>4. ASSUME NEW r \in Requests, NEW s \in Requests, Decided(r)', Decided(s)',
             req'[s].action = req'[r].action
      PROVE  s = r
  BY <1>1, <1>3, <1>4 DEF DecidedInv
<1> QED
  BY <1>2, <1>4 DEF DecidedInv

LEMMA NextExpiry ==
    ASSUME TypeOK, LockInv, FlushInv, BasisInv, ExpiryIsDurable, [Next]_vars
    PROVE  ExpiryIsDurable'
<1> USE DEF At
<1> SUFFICES ASSUME NEW r \in Requests, req'[r].pc = "expired"
             PROVE  actions'[req'[r].action].status = "EXPIRED"
  BY DEF ExpiryIsDurable
<1>1. CASE LoadExpired(r)
  BY <1>1, ExpiryEffect
<1>2. CASE req'[r] = req[r]
  <2>1. req[r].action \in Actions /\ actions[req[r].action].status = "EXPIRED"
    BY <1>2, RequestUnderWay DEF ExpiryIsDurable, Request
  <2> QED
    BY <1>2, <2>1, StatusStays
<1>3. CASE CommitCancel(r) \/ CommitConfirm(r)
  BY <1>3, CommitEffect, RequestUnderWay DEF CommitCancel, CommitConfirm, Request
<1>4. CASE At(r, "auditing") /\ req'[r] = [req[r] EXCEPT !.pc = "answered"]
  BY <1>4, RequestUnderWay DEF Request
<1> QED
  BY <1>1, <1>2, <1>3, <1>4, PastCommit

-----------------------------------------------------------------------------
(***************************************************************************)
(* The invariant, and what follows from it.                                *)
(***************************************************************************)
LEMMA InitInv ==
    ASSUME Init
    PROVE  ApprovalInv
<1>1. TypeOK
  BY InitType
<1>2. \A r \in Requests : req[r].pc = "idle"
  BY DEF Init, Idle
<1>3. \A a \in Actions : actions[a] = NoAction
  BY DEF Init
<1>4. LockInv /\ FlushInv /\ DecidedInv /\ ExpiryIsDurable
  BY <1>2 DEF LockInv, FlushInv, DecidedInv, ExpiryIsDurable, Decided, At, HoldsRow
<1>5. BasisInv /\ OneApprovalPerVersion
  BY <1>3 DEF BasisInv, OneApprovalPerVersion, Confirmed, NoAction
<1> QED
  BY <1>1, <1>4, <1>5 DEF ApprovalInv

LEMMA NextInv ==
    ASSUME ApprovalInv, [Next]_vars
    PROVE  ApprovalInv'
BY NextType, NextLock, NextFlush, NextBasis, NextDecided, NextOneApproval, NextExpiry
DEF ApprovalInv

\* Whatever the tables, the requests and the moment, the facts a transaction
\* relies on between its reads and its commit hold.
THEOREM Invariance == Spec => []ApprovalInv
<1>1. Init => ApprovalInv
  BY InitInv
<1>2. ApprovalInv /\ [Next]_vars => ApprovalInv'
  BY NextInv
<1> QED
  BY <1>1, <1>2, PTL DEF Spec

\* Every column and field stays in its domain.
THEOREM TypeCorrect == Spec => []TypeOK
<1>1. ApprovalInv => TypeOK
  BY DEF ApprovalInv
<1> QED
  BY <1>1, Invariance, PTL

\* Two approvals of one version of an order never both take effect, for any
\* number of users, requests and orders.
THEOREM AtMostOneApproval == Spec => []OneApprovalPerVersion
<1>1. ApprovalInv => OneApprovalPerVersion
  BY DEF ApprovalInv
<1> QED
  BY <1>1, Invariance, PTL

\* A decision is never taken back or taken twice.
THEOREM Finality == Spec => DecisionsAreFinal
<1> DEFINE Final(a) == actions[a] # NoAction =>
         /\ actions[a].status # "PENDING" => actions'[a] = actions[a]
         /\ actions'[a] = [actions[a] EXCEPT !.status = actions'[a].status]
<1>1. ASSUME ApprovalInv, [Next]_vars, NEW a \in Actions
      PROVE  Final(a)
  BY <1>1, StatusMoves DEF ApprovalInv
<1>2. ApprovalInv /\ [Next]_vars => [\A a \in Actions : Final(a)]_vars
  BY <1>1
<1> QED
  BY <1>2, Invariance, PTL DEF Spec, DecisionsAreFinal

\* A request refused for its expired approval has left EXPIRED behind.
THEOREM ExpiryStays == Spec => []ExpiryIsDurable
<1>1. ApprovalInv => ExpiryIsDurable
  BY DEF ApprovalInv
<1> QED
  BY <1>1, Invariance, PTL

-----------------------------------------------------------------------------
(***************************************************************************)
(* What a commit does to its order.                                        *)
(***************************************************************************)
\* A row of the table is not the absence of one.
LEMMA OrderIsThere ==
    ASSUME NEW ord \in Order
    PROVE  ord # Absent
<1>1. DOMAIN ord = {"status", "version", "deleted"}
  BY DEF Order
<1>2. DOMAIN Absent = {"status"}
  BY DEF Absent
<1> QED
  BY <1>1, <1>2

LEMMA ChangeIsLegal ==
    ASSUME ApprovalInv, NEW a \in Actions, actions[a] \in Action, OnOrder(a),
           NEW o, o = actions[a].order,
           RulesHold(actions[a].type, actions[a].user, o, actions[a].target)
    PROVE  /\ o \in Orders /\ orders[o] \in Order /\ ~orders[o].deleted
           /\ \/ /\ actions[a].type # "SOFT_DELETE_DRAFT"
                 /\ actions[a].target \in Allowed(orders[o].status)
              \/ /\ actions[a].type = "SOFT_DELETE_DRAFT"
                 /\ orders[o].status = "DRAFT"
<1>1. o \in Orders /\ orders[o] \in Order /\ ~orders[o].deleted
  BY DEF RulesHold, OnOrder, ActiveOrder, ApprovalInv, TypeOK
<1>2. CASE actions[a].type = "CANCEL_ORDER"
  <2>1. actions[a].target = "CANCELLED"
    BY <1>2 DEF ApprovalInv, BasisInv, Action, NoAction
  <2>2. orders[o].status \in {"DRAFT", "UNPAID"}
    BY <1>2 DEF RulesHold
  <2> QED
    BY <1>1, <1>2, <2>1, <2>2 DEF Allowed
<1>3. CASE actions[a].type # "CANCEL_ORDER"
  BY <1>1, <1>3 DEF RulesHold, OnOrder
<1> QED
  BY <1>2, <1>3

\* An order changes only by spending a PENDING approval, locked by a confirm
\* of its own user with the right token and given for the version it changes;
\* and only one order in a step.
THEOREM ApprovedOnly == Spec => OnlyApprovedChanges
<1> DEFINE Legal(o) == orders'[o] # orders[o] =>
             /\ \E a \in Actions : Spends(a, o)
             /\ \A p \in Orders \ {o} : orders'[p] = orders[p]
<1>1. ASSUME ApprovalInv, [Next]_vars, NEW o \in Orders
      PROVE  Legal(o)
  <2> USE DEF ApprovalInv
  <2>1. CASE orders' = orders
    BY <2>1
  <2>2. ASSUME NEW r \in Requests, CommitConfirm(r), orders'[o] # orders[o]
        PROVE  Legal(o)
    <3> DEFINE a == req[r].action
    <3>0. a \in Actions /\ Closes(a, "CONFIRMED") /\ lock[a] = r /\ r # NoRequest
      BY <1>1, <2>2, ConfirmEffect, ConstantsAssumption
    <3>a. actions'[a].status = "CONFIRMED"
      BY <1>1, <3>0 DEF Closes, TypeOK, Action
    <3>1. /\ a \in Actions /\ Closes(a, "CONFIRMED") /\ lock[a] = r /\ r # NoRequest
          /\ actions'[a].status = "CONFIRMED"
      BY <3>0, <3>a
    <3>2. /\ req[r].verb = "confirm" /\ req[r].user = actions[a].user /\ req[r].token
          /\ Writer(req[r].user)
      BY <1>1, <2>2 DEF CommitConfirm, At, LockInv, FlushInv, HoldsRow
    <3>3. CASE ~OnOrder(a)
      <4>1. PICK p \in Orders : orders[p] = Absent /\ orders' = [orders EXCEPT ![p] = NewDraft]
        BY <1>1, <2>2, <3>3, ConfirmEffect
      <4>2. p = o
        BY <1>1, <2>2, <4>1 DEF TypeOK
      <4>3. Spends(a, o)
        BY <3>1, <3>2, <3>3, <4>1, <4>2 DEF Spends, Closes
      <4> QED
        BY <1>1, <3>1, <4>1, <4>2, <4>3 DEF TypeOK
    <3>4. CASE OnOrder(a)
      <4> DEFINE p == actions[a].order
      <4>1. /\ p \in Orders /\ orders[p] \in Order
            /\ actions[a].version = orders[p].version
            /\ orders' = [orders EXCEPT ![p] = Changed(orders[p], actions[a])]
            /\ RulesHold(actions[a].type, actions[a].user, p, actions[a].target)
        BY <1>1, <2>2, <3>4, ConfirmEffect
      <4>2. p = o
        BY <1>1, <2>2, <4>1 DEF TypeOK
      <4>3. /\ orders[o] # Absent /\ ~orders[o].deleted
            /\ orders'[o].status \in Allowed(orders[o].status) \cup {orders[o].status}
        <5>1. orders'[o] = Changed(orders[o], actions[a])
          BY <1>1, <4>1, <4>2 DEF TypeOK
        <5>2. actions[a] \in Action /\ orders[o] \in Order
          BY <3>1, <4>1, <4>2 DEF Closes
        <5>3. /\ ~orders[o].deleted
              /\ \/ actions[a].type # "SOFT_DELETE_DRAFT" /\ actions[a].target \in Allowed(orders[o].status)
                 \/ actions[a].type = "SOFT_DELETE_DRAFT" /\ orders[o].status = "DRAFT"
          BY <1>1, <3>1, <3>4, <4>1, <4>2, <5>2, ChangeIsLegal
        <5>4. orders[o] # Absent
          BY <3>4, <4>1, <4>2, <5>2, OrderIsThere
        <5> QED
          BY <5>1, <5>3, <5>4 DEF Changed
      <4>4. Spends(a, o)
        BY <3>1, <3>2, <3>4, <4>1, <4>2, <4>3 DEF Spends, Closes
      <4> QED
        BY <1>1, <3>1, <4>1, <4>2, <4>4 DEF TypeOK
    <3> QED
      BY <3>3, <3>4
  <2>3. CASE UNCHANGED vars
    BY <2>1, <2>3 DEF vars
  <2>4. CASE Next
    BY <1>1, <2>1, <2>2, <2>4, TablesStep, PreviewEffect
  <2> QED
    BY <1>1, <2>3, <2>4
<1>2. ApprovalInv /\ [Next]_vars => [\A o \in Orders : Legal(o)]_vars
  BY <1>1
<1> QED
  BY <1>2, Invariance, PTL DEF Spec, OnlyApprovedChanges

-----------------------------------------------------------------------------
(***************************************************************************)
(* Counting.  The confirmed actions and the orders created by the service  *)
(* are finitely many at every moment, however large the constants are.     *)
(***************************************************************************)
ConfirmedActions == {a \in Actions : Confirmed(a)}
Used(o) == {a \in Actions : Confirmed(a) /\ actions[a].order = o}
DraftApprovals == {a \in Actions : Confirmed(a) /\ ~OnOrder(a)}
Drafts == {o \in Orders \ InitialOrders : orders[o] # Absent}

CountInv ==
    /\ IsFiniteSet(ConfirmedActions)
    /\ IsFiniteSet(Drafts)
    /\ \A o \in InitialOrders : orders[o] # Absent
    /\ VersionCountsApprovals
    /\ OneDraftPerApproval

\* A step that confirms nothing and writes no order changes no count.
LEMMA NothingCounted ==
    ASSUME CountInv, orders' = orders,
           \A a \in Actions : /\ Confirmed(a) => actions'[a] = actions[a]
                              /\ Confirmed(a)' => Confirmed(a)
    PROVE  CountInv'
<1>1. ConfirmedActions' = ConfirmedActions
  BY DEF ConfirmedActions, Confirmed
<1>2. ASSUME NEW o
      PROVE  Used(o)' = Used(o)
  BY DEF Used, Confirmed
<1>3. DraftApprovals' = DraftApprovals
  BY DEF DraftApprovals, Confirmed, OnOrder
<1>4. Drafts' = Drafts
  BY DEF Drafts
<1>5. VersionCountsApprovals'
  BY <1>2 DEF CountInv, VersionCountsApprovals, Used
<1>6. OneDraftPerApproval'
  BY <1>3, <1>4 DEF CountInv, OneDraftPerApproval, DraftApprovals, Drafts
<1> QED
  BY <1>1, <1>4, <1>5, <1>6 DEF CountInv

\* The commit of a confirm adds one action to the confirmed ones.
LEMMA ConfirmCounts ==
    ASSUME ApprovalInv, NEW a \in Actions, Closes(a, "CONFIRMED")
    PROVE  /\ a \notin ConfirmedActions
           /\ ConfirmedActions' = ConfirmedActions \cup {a}
           /\ \A o : Used(o)' = IF o = actions[a].order THEN Used(o) \cup {a} ELSE Used(o)
           /\ DraftApprovals' = IF OnOrder(a) THEN DraftApprovals ELSE DraftApprovals \cup {a}
<1>1. /\ actions'[a].status = "CONFIRMED" /\ actions'[a].order = actions[a].order
      /\ actions'[a].type = actions[a].type
      /\ \A b \in Actions \ {a} : actions'[b] = actions[b]
  BY DEF Closes, ApprovalInv, TypeOK, Action
<1>2. ~Confirmed(a)
  BY DEF Closes, Confirmed
<1>3. \A b \in Actions : Confirmed(b)' <=> Confirmed(b) \/ b = a
  BY <1>1 DEF Confirmed
<1>4. \A b \in Actions : actions'[b].order = actions[b].order /\ (OnOrder(b)' <=> OnOrder(b))
  BY <1>1 DEF OnOrder
<1>5. ConfirmedActions' = ConfirmedActions \cup {a}
  BY <1>3 DEF ConfirmedActions
<1>6. ASSUME NEW o
      PROVE  Used(o)' = IF o = actions[a].order THEN Used(o) \cup {a} ELSE Used(o)
  BY <1>3, <1>4 DEF Used
<1>7. DraftApprovals' = IF OnOrder(a) THEN DraftApprovals ELSE DraftApprovals \cup {a}
  BY <1>3, <1>4 DEF DraftApprovals
<1> QED
  BY <1>2, <1>5, <1>6, <1>7 DEF ConfirmedActions

LEMMA UsedIsFinite ==
    ASSUME CountInv
    PROVE  /\ \A o : IsFiniteSet(Used(o)) /\ Cardinality(Used(o)) \in Nat
           /\ IsFiniteSet(DraftApprovals)
<1>1. ASSUME NEW o
      PROVE  IsFiniteSet(Used(o)) /\ Cardinality(Used(o)) \in Nat
  <2>1. Used(o) \subseteq ConfirmedActions
    BY DEF Used, ConfirmedActions
  <2> QED
    BY <2>1, FS_Subset, FS_CardinalityType DEF CountInv
<1>2. IsFiniteSet(DraftApprovals)
  <2>1. DraftApprovals \subseteq ConfirmedActions
    BY DEF DraftApprovals, ConfirmedActions
  <2> QED
    BY <2>1, FS_Subset DEF CountInv
<1> QED
  BY <1>1, <1>2

\* One more approval of an order moves its version by one; one more draft
\* comes with one more approval.
LEMMA ConfirmKeepsCount ==
    ASSUME ApprovalInv, CountInv, NEW r \in Requests, CommitConfirm(r)
    PROVE  CountInv'
<1> DEFINE a == req[r].action
<1>0. a \in Actions /\ Closes(a, "CONFIRMED") /\ actions[a] \in Action
  BY ConfirmEffect DEF ApprovalInv, Closes
<1>1. /\ a \notin ConfirmedActions
      /\ ConfirmedActions' = ConfirmedActions \cup {a}
      /\ \A o : Used(o)' = IF o = actions[a].order THEN Used(o) \cup {a} ELSE Used(o)
      /\ DraftApprovals' = IF OnOrder(a) THEN DraftApprovals ELSE DraftApprovals \cup {a}
  BY <1>0, ConfirmCounts
<1>2. IsFiniteSet(ConfirmedActions')
  BY <1>1, FS_AddElement DEF CountInv
<1>3. a \notin DraftApprovals /\ \A o : a \notin Used(o)
  BY <1>1 DEF DraftApprovals, Used, ConfirmedActions
<1>4. \A o \in Orders : orders[o] # Absent => orders[o].version = Cardinality(Used(o))
  BY DEF CountInv, VersionCountsApprovals, Used
<1>5. Cardinality(Drafts) = Cardinality(DraftApprovals)
  BY DEF CountInv, OneDraftPerApproval, Drafts, DraftApprovals
<1>6. orders \in [Orders -> Order \cup {Absent}]
  BY DEF ApprovalInv, TypeOK
<1>7. CASE ~OnOrder(a)
  <2>1. PICK o \in Orders : orders[o] = Absent /\ orders' = [orders EXCEPT ![o] = NewDraft]
    BY <1>7, ConfirmEffect DEF ApprovalInv
  <2>2. o \notin InitialOrders /\ NewDraft # Absent /\ actions[a].order = NoOrder
    BY <1>0, <1>7, <2>1 DEF CountInv, NewDraft, Absent, ApprovalInv, BasisInv, Closes, NoAction
  <2>3. \A p \in Orders : Used(p)' = Used(p)
    BY <1>1, <2>2, ConstantsAssumption
  <2>4. Used(o) = {}
    <3>1. ASSUME NEW b \in Used(o)
          PROVE  FALSE
      <4>1. b \in Actions /\ actions[b] # NoAction /\ actions[b].order = o
        BY <3>1 DEF Used, Confirmed, NoAction
      <4> QED
        BY <2>1, <4>1, ConstantsAssumption DEF ApprovalInv, BasisInv
    <3> QED
      BY <3>1
  <2>5. VersionCountsApprovals'
    <3>1. ASSUME NEW p \in Orders, orders'[p] # Absent
          PROVE  orders'[p].version = Cardinality(Used(p)')
      <4>1. CASE p = o
        BY <1>6, <2>1, <2>3, <2>4, <4>1, FS_EmptySet DEF NewDraft
      <4>2. CASE p # o
        BY <1>4, <1>6, <2>1, <2>3, <3>1, <4>2
      <4> QED
        BY <4>1, <4>2
    <3> QED
      BY <3>1 DEF VersionCountsApprovals, Used
  <2>6. Drafts' = Drafts \cup {o} /\ o \notin Drafts
    BY <1>6, <2>1, <2>2 DEF Drafts
  <2>7. IsFiniteSet(Drafts') /\ Cardinality(Drafts') = Cardinality(DraftApprovals')
    <3>1. DraftApprovals' = DraftApprovals \cup {a}
      BY <1>1, <1>7
    <3>2. /\ IsFiniteSet(Drafts \cup {o})
          /\ Cardinality(Drafts \cup {o}) = Cardinality(Drafts) + 1
      BY <2>6, FS_AddElement DEF CountInv
    <3>3. Cardinality(DraftApprovals \cup {a}) = Cardinality(DraftApprovals) + 1
      BY <1>3, UsedIsFinite, FS_AddElement
    <3> QED
      BY <1>5, <2>6, <3>1, <3>2, <3>3
  <2>8. OneDraftPerApproval'
    BY <2>7 DEF OneDraftPerApproval, Drafts, DraftApprovals
  <2>9. \A p \in InitialOrders : orders'[p] # Absent
    BY <1>6, <2>1, <2>2, ConstantsAssumption DEF CountInv
  <2> QED
    BY <1>2, <2>5, <2>7, <2>8, <2>9 DEF CountInv
<1>8. CASE OnOrder(a)
  <2> DEFINE o == actions[a].order
  <2>1. /\ o \in Orders /\ orders[o] \in Order
        /\ orders' = [orders EXCEPT ![o] = Changed(orders[o], actions[a])]
    BY <1>8, ConfirmEffect DEF ApprovalInv
  <2>2. orders[o] # Absent /\ Changed(orders[o], actions[a]) # Absent
    BY <1>0, <2>1, ChangedIsOrder DEF Order, Absent
  <2>3. VersionCountsApprovals'
    <3>1. ASSUME NEW p \in Orders, orders'[p] # Absent
          PROVE  orders'[p].version = Cardinality(Used(p)')
      <4>1. CASE p = o
        <5>1. Used(p)' = Used(p) \cup {a}
          BY <1>1, <4>1
        <5>2. Cardinality(Used(p) \cup {a}) = Cardinality(Used(p)) + 1
          BY <1>3, UsedIsFinite, FS_AddElement
        <5>3. orders'[p].version = orders[p].version + 1
          BY <1>6, <2>1, <4>1 DEF Changed
        <5> QED
          BY <1>4, <2>2, <4>1, <5>1, <5>2, <5>3
      <4>2. CASE p # o
        BY <1>1, <1>4, <1>6, <2>1, <3>1, <4>2
      <4> QED
        BY <4>1, <4>2
    <3> QED
      BY <3>1 DEF VersionCountsApprovals, Used
  <2>4. Drafts' = Drafts /\ DraftApprovals' = DraftApprovals
    BY <1>1, <1>6, <1>8, <2>1, <2>2 DEF Drafts
  <2>5. OneDraftPerApproval'
    BY <1>5, <2>4 DEF OneDraftPerApproval, Drafts, DraftApprovals
  <2>6. \A p \in InitialOrders : orders'[p] # Absent
    BY <1>6, <2>1, <2>2, ConstantsAssumption DEF CountInv
  <2> QED
    BY <1>2, <2>3, <2>4, <2>5, <2>6 DEF CountInv
<1> QED
  BY <1>7, <1>8

LEMMA InitCount ==
    ASSUME Init
    PROVE  CountInv
<1>1. \A a \in Actions : ~Confirmed(a)
  BY DEF Init, Confirmed, NoAction
<1>2. ConfirmedActions = {} /\ DraftApprovals = {} /\ \A o : Used(o) = {}
  BY <1>1 DEF ConfirmedActions, DraftApprovals, Used
<1>3. \A o \in Orders : orders[o] # Absent <=> o \in InitialOrders
  BY DEF Init, Absent
<1>4. \A o \in InitialOrders : orders[o].version = 0
  BY ConstantsAssumption DEF Init
<1>5. Drafts = {}
  BY <1>3 DEF Drafts
<1>6. VersionCountsApprovals
  BY <1>2, <1>3, <1>4, FS_EmptySet DEF VersionCountsApprovals, Used
<1>7. OneDraftPerApproval
  BY <1>2, <1>5 DEF OneDraftPerApproval, Drafts, DraftApprovals
<1> QED
  BY <1>2, <1>3, <1>5, <1>6, <1>7, FS_EmptySet, ConstantsAssumption DEF CountInv

LEMMA NextCount ==
    ASSUME ApprovalInv, CountInv, [Next]_vars
    PROVE  CountInv'
<1>1. CASE UNCHANGED <<actions, orders>>
  BY <1>1, NothingCounted DEF Confirmed
<1>2. CASE PreviewAny
  <2>1. \A a \in Actions : /\ Confirmed(a) => actions'[a] = actions[a]
                           /\ Confirmed(a)' => Confirmed(a)
    BY <1>2, PreviewEffect DEF ApprovalInv, Confirmed, NoAction
  <2> QED
    BY <1>2, <2>1, PreviewEffect, NothingCounted DEF ApprovalInv
<1>3. ASSUME NEW a \in Actions, Closes(a, "EXPIRED") \/ Closes(a, "CANCELLED"),
             UNCHANGED orders
      PROVE  CountInv'
  <2>1. \A b \in Actions : /\ Confirmed(b) => actions'[b] = actions[b]
                           /\ Confirmed(b)' => Confirmed(b)
    BY <1>3 DEF Closes, Confirmed, ApprovalInv, TypeOK, Action
  <2> QED
    BY <1>3, <2>1, NothingCounted
<1>4. ASSUME NEW r \in Requests, CommitConfirm(r)
      PROVE  CountInv'
  BY <1>4, ConfirmKeepsCount
<1>5. CASE UNCHANGED vars
  BY <1>1, <1>5 DEF vars
<1>6. CASE Next
  BY <1>1, <1>2, <1>3, <1>4, <1>6, TablesStep DEF ApprovalInv
<1> QED
  BY <1>5, <1>6

LEMMA CountInvariance == Spec => []CountInv
<1>1. Init => CountInv
  BY InitCount
<1>2. ApprovalInv /\ CountInv /\ [Next]_vars => CountInv'
  BY NextCount
<1> QED
  BY <1>1, <1>2, Invariance, PTL DEF Spec

\* Each confirmed action changed its order exactly once, and nothing else
\* did: an order's version is the number of approvals spent on it.
THEOREM EveryApprovalOnce == Spec => []VersionCountsApprovals
<1>1. CountInv => VersionCountsApprovals
  BY DEF CountInv
<1> QED
  BY <1>1, CountInvariance, PTL

\* No retry, double click or crash makes a second draft of one approval: the
\* orders created are as many as the approvals given for a draft.
THEOREM DraftsAreApproved == Spec => []OneDraftPerApproval
<1>1. CountInv => OneDraftPerApproval
  BY DEF CountInv
<1> QED
  BY <1>1, CountInvariance, PTL
=============================================================================
