---------------------- MODULE ApprovalRefinement_proof ----------------------
(***************************************************************************)
(* ActionApproval implements OrderLedger: the initial states map to        *)
(* initial states, and every step maps to a step of the ledger or to no    *)
(* step.  Everything but the previews, the commits and the expiry is       *)
(* invisible to the ledger.                                                *)
(***************************************************************************)
EXTENDS ActionApproval_proof

USE DEF OrderStatus

ap == [a \in Actions |-> ApprovalOf(actions[a])]

LEMMA InitRefines ==
    ASSUME Init
    PROVE  Ledger!Init
<1>1. ap = [a \in Actions |-> Ledger!NoApproval]
  BY DEF Init, ap, ApprovalOf, Ledger!NoApproval
<1>2. PICK status \in [InitialOrders -> OrderStatus] :
          orders = [o \in Orders |-> IF o \in InitialOrders
                                     THEN [status |-> status[o], version |-> 0, deleted |-> FALSE]
                                     ELSE Absent]
  BY DEF Init
<1>3. orders = [o \in Orders |-> IF o \in InitialOrders
                                 THEN Ledger!Row(status[o], 0, FALSE) ELSE Ledger!NoRow]
  BY <1>2 DEF Absent, Ledger!NoRow, Ledger!Row
<1>4. status \in [InitialOrders -> Ledger!Status]
  BY DEF Ledger!Status
<1>5. \E s \in [InitialOrders -> Ledger!Status] :
         orders = [o \in Orders |-> IF o \in InitialOrders
                                    THEN Ledger!Row(s[o], 0, FALSE) ELSE Ledger!NoRow]
  BY <1>3, <1>4
<1> QED
  BY <1>1, <1>5 DEF Ledger!Init, ap

\* The approval of an action follows its row.
LEMMA OneApprovalMoves ==
    ASSUME NEW a \in Actions, \A b \in Actions \ {a} : ap'[b] = ap[b],
           NEW x, x = ApprovalOf(actions'[a])
    PROVE  ap' = [ap EXCEPT ![a] = x]
<1>1. ap'[a] = x
  BY DEF ap
<1>2. DOMAIN ap = Actions /\ DOMAIN ap' = Actions
  BY DEF ap
<1>3. ap = [b \in Actions |-> ap[b]] /\ ap' = [b \in Actions |-> ap'[b]]
  BY DEF ap
<1> HIDE DEF ap
<1> QED
  BY <1>1, <1>3

\* The previews are the ledger's proposals.
LEMMA PreviewRefines ==
    ASSUME ApprovalInv, PreviewAny
    PROVE  Ledger!Next
<1> USE DEF ApprovalInv
<1>1. PICK a \in Actions :
            /\ actions[a] = NoAction
            /\ actions'[a].status = "PENDING"
            /\ actions'[a].type = "CREATE_DRAFT_ORDER" => actions'[a].order = NoOrder
            /\ actions'[a].type # "CREATE_DRAFT_ORDER" =>
                 /\ actions'[a].order \in Orders
                 /\ orders[actions'[a].order] # Absent
                 /\ actions'[a].version = orders[actions'[a].order].version
            /\ \A b \in Actions \ {a} : actions'[b] = actions[b]
  BY PreviewEffect
<1>2. orders' = orders
  BY PreviewEffect
<1>3. ap[a] = Ledger!NoApproval
  BY <1>1 DEF ap, ApprovalOf, Ledger!NoApproval
<1>4. actions'[a] # NoAction
  BY <1>1 DEF NoAction
<1>5. \A b \in Actions \ {a} : ap'[b] = ap[b]
  BY <1>1 DEF ap
<1>6. CASE actions'[a].type = "CREATE_DRAFT_ORDER"
  <2>1. ap' = [ap EXCEPT ![a] = [state |-> "open", order |-> NoOrder, version |-> 0]]
    <3>1. ApprovalOf(actions'[a]) = [state |-> "open", order |-> NoOrder, version |-> 0]
      BY <1>1, <1>4, <1>6 DEF ApprovalOf
    <3> QED
      BY <1>5, <3>1, OneApprovalMoves
  <2>2. Ledger!Propose(a)
    BY <1>2, <1>3, <2>1 DEF Ledger!Propose, ap
  <2> QED
    BY <2>2 DEF Ledger!Next
<1>7. CASE actions'[a].type # "CREATE_DRAFT_ORDER"
  <2> DEFINE o == actions'[a].order
  <2>1. o \in Orders /\ o # NoOrder /\ orders[o] # Ledger!NoRow
    BY <1>1, <1>7, ConstantsAssumption DEF Absent, Ledger!NoRow
  <2>2. ap' = [ap EXCEPT ![a] = [state |-> "open", order |-> o, version |-> orders[o].version]]
    <3>1. ApprovalOf(actions'[a]) = [state |-> "open", order |-> o, version |-> orders[o].version]
      BY <1>1, <1>4, <1>7, <2>1 DEF ApprovalOf
    <3> QED
      BY <1>5, <3>1, OneApprovalMoves
  <2>3. Ledger!Propose(a)
    BY <1>2, <1>3, <2>1, <2>2 DEF Ledger!Propose, ap
  <2> QED
    BY <2>3 DEF Ledger!Next
<1> QED
  BY <1>6, <1>7

\* Closing an action closes its approval.
LEMMA ClosesRefines ==
    ASSUME TypeOK, NEW a \in Actions, NEW s \in {"CONFIRMED", "CANCELLED", "EXPIRED"},
           Closes(a, s)
    PROVE  Ledger!Close(a, IF s = "CONFIRMED" THEN "applied" ELSE "void")
<1> DEFINE state == IF s = "CONFIRMED" THEN "applied" ELSE "void"
<1>1. actions'[a] = [actions[a] EXCEPT !.status = s] /\ actions[a] \in Action
  BY DEF Closes, TypeOK
<1>2. actions[a] # NoAction /\ actions'[a] # NoAction
  BY <1>1 DEF Action, NoAction
<1>3. actions'[a].order = actions[a].order /\ actions'[a].version = actions[a].version
      /\ actions'[a].status = s
  BY <1>1 DEF Action
<1>4. ap[a].state = "open"
  BY <1>2 DEF ap, ApprovalOf, Closes
<1>5. \A b \in Actions \ {a} : ap'[b] = ap[b]
  BY DEF ap, Closes, TypeOK
<1>6. ap'[a] = [ap[a] EXCEPT !.state = state]
  BY <1>2, <1>3 DEF ap, ApprovalOf, Closes
<1>7. ap' = [ap EXCEPT ![a].state = state]
  BY <1>5, <1>6 DEF ap
<1> QED
  BY <1>4, <1>7 DEF Ledger!Close, ap

LEMMA ConfirmRefines ==
    ASSUME ApprovalInv, NEW r \in Requests, CommitConfirm(r)
    PROVE  Ledger!Next
<1> DEFINE a == req[r].action
<1> USE DEF ApprovalInv
<1>1. a \in Actions /\ Closes(a, "CONFIRMED") /\ actions[a] \in Action /\ actions[a] # NoAction
  BY ConfirmEffect DEF Closes, Action, NoAction
<1>2. Ledger!Close(a, "applied")
  BY <1>1, ClosesRefines
<1>3. ap[a].order = actions[a].order
  BY <1>1 DEF ap, ApprovalOf
<1>4. CASE ~OnOrder(a)
  <2>1. actions[a].order = NoOrder
    BY <1>1, <1>4 DEF BasisInv
  <2>2. PICK o \in Orders : orders[o] = Absent /\ orders' = [orders EXCEPT ![o] = NewDraft]
    BY <1>4, ConfirmEffect
  <2>3. Ledger!Create(a)
    BY <1>2, <1>3, <2>1, <2>2
       DEF Ledger!Create, Ledger!NoRow, Ledger!Row, Absent, NewDraft, ap
  <2> QED
    BY <1>1, <2>3 DEF Ledger!Next
<1>5. CASE OnOrder(a)
  <2> DEFINE o == actions[a].order
  <2>1. /\ o \in Orders /\ orders[o] \in Order
        /\ actions[a].version = orders[o].version
        /\ orders' = [orders EXCEPT ![o] = Changed(orders[o], actions[a])]
        /\ RulesHold(actions[a].type, actions[a].user, o, actions[a].target)
    BY <1>5, ConfirmEffect
  <2>2. ap[a].order = o /\ ap[a].version = orders[o].version
    <3>1. actions[a] # NoAction
      BY <1>1
    <3>2. o # NoOrder
      BY <2>1, ConstantsAssumption
    <3>3. ApprovalOf(actions[a]).order = o /\ ApprovalOf(actions[a]).version = actions[a].version
      BY <3>1, <3>2 DEF ApprovalOf
    <3> QED
      BY <1>1, <2>1, <3>3 DEF ap
  <2>3. ~orders[o].deleted /\ orders[o] # Ledger!NoRow
    <3>1. ~orders[o].deleted
      BY <1>1, <1>5, <2>1, ChangeIsLegal
    <3>2. orders[o] # Ledger!NoRow
      BY <2>1, OrderIsThere DEF Absent, Ledger!NoRow
    <3> QED
      BY <3>1, <3>2
  <2>4. CASE actions[a].type = "SOFT_DELETE_DRAFT"
    <3>1. orders[o].status = "DRAFT"
      BY <1>1, <1>5, <2>1, <2>4, ChangeIsLegal
    <3>2. orders[o] = Ledger!Row("DRAFT", orders[o].version, FALSE)
      BY <2>1, <2>3, <3>1 DEF Order, Ledger!Row
    <3>3. Changed(orders[o], actions[a]) = Ledger!Row("DRAFT", orders[o].version + 1, TRUE)
      BY <2>4, <3>1 DEF Changed, Ledger!Row
    <3>4. Ledger!Remove(a)
      BY <1>2, <2>1, <2>2, <3>2, <3>3 DEF Ledger!Remove, ap
    <3> QED
      BY <1>1, <3>4 DEF Ledger!Next
  <2>5. CASE actions[a].type # "SOFT_DELETE_DRAFT"
    <3>1. actions[a].target \in Allowed(orders[o].status) /\ orders[o].status \in OrderStatus
      BY <1>1, <1>5, <2>1, <2>5, ChangeIsLegal DEF Order
    <3>2. <<orders[o].status, actions[a].target>> \in Ledger!Edge
          /\ actions[a].target \in Ledger!Status
      BY <3>1 DEF Allowed, Ledger!Edge, Ledger!Status
    <3>3. Changed(orders[o], actions[a])
            = Ledger!Row(actions[a].target, orders[o].version + 1, FALSE)
      BY <2>1, <2>3, <2>5 DEF Changed, Ledger!Row
    <3>4. Ledger!Move(a)
      BY <1>2, <2>1, <2>2, <2>3, <3>2, <3>3 DEF Ledger!Move, ap
    <3> QED
      BY <1>1, <3>4 DEF Ledger!Next
  <2> QED
    BY <2>4, <2>5
<1> QED
  BY <1>4, <1>5

\* Requests, row locks, the optimistic lock, crashes and lost answers look
\* like one atomic change of the ledger for each approval, for instances of
\* every size.
THEOREM Refinement == Spec => ImplementsLedger
<1>1. Init => Ledger!Init
  BY InitRefines
<1>2. ASSUME ApprovalInv, [Next]_vars
      PROVE  [Ledger!Next]_(Ledger!vars)
  <2>1. CASE UNCHANGED <<actions, orders>>
    BY <2>1 DEF Ledger!vars
  <2>2. CASE PreviewAny
    BY <1>2, <2>2, PreviewRefines
  <2>3. ASSUME NEW a \in Actions, NEW s \in {"EXPIRED", "CANCELLED"}, Closes(a, s),
               UNCHANGED orders
        PROVE  Ledger!Next
    <3>1. Ledger!Close(a, "void")
      BY <1>2, <2>3, ClosesRefines DEF ApprovalInv
    <3> QED
      BY <2>3, <3>1 DEF Ledger!Next, Ledger!Void
  <2>4. ASSUME NEW r \in Requests, CommitConfirm(r)
        PROVE  Ledger!Next
    BY <1>2, <2>4, ConfirmRefines
  <2>5. CASE UNCHANGED vars
    BY <2>1, <2>5 DEF vars
  <2>6. CASE Next
    BY <1>2, <2>1, <2>2, <2>3, <2>4, <2>6, TablesStep DEF ApprovalInv
  <2> QED
    BY <1>2, <2>5, <2>6
<1> QED
  BY <1>1, <1>2, Invariance, PTL DEF Spec, ImplementsLedger, Ledger!Spec
=============================================================================
