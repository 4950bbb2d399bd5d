---------------------------- MODULE OrderLedger ----------------------------
(***************************************************************************)
(* What the approval service promises, without requests, transactions,     *)
(* locks or crashes: a ledger of orders that changes only by approvals.    *)
(* An approval is given for one version of one order, or for a new draft;  *)
(* in a single step it is either applied to that version or made void, and *)
(* after that it is never used again.                                      *)
(***************************************************************************)
EXTENDS Naturals

CONSTANTS Actions, Orders, InitialOrders, NoOrder

VARIABLES
    ledger,     \* the orders
    approval    \* the approvals: [state, order, version], or NoApproval

vars == <<ledger, approval>>

NoApproval == [state |-> "none"]
NoRow == [status |-> "ABSENT"]

Row(status, version, deleted) ==
    [status |-> status, version |-> version, deleted |-> deleted]

Status == {"DRAFT", "UNPAID", "PAID", "SHIPPED", "CANCELLED"}

\* The edges of the order's life cycle.
Edge == {<<"DRAFT", "UNPAID">>, <<"DRAFT", "CANCELLED">>, <<"UNPAID", "PAID">>,
         <<"UNPAID", "CANCELLED">>, <<"PAID", "SHIPPED">>}

Init ==
    /\ approval = [a \in Actions |-> NoApproval]
    /\ \E s \in [InitialOrders -> Status] :
         ledger = [o \in Orders |-> IF o \in InitialOrders THEN Row(s[o], 0, FALSE) ELSE NoRow]

\* Somebody asks for a change of the order as it is now, or for a new draft.
Propose(a) ==
    /\ approval[a] = NoApproval
    /\ \/ \E o \in Orders :
            /\ ledger[o] # NoRow
            /\ approval' = [approval EXCEPT ![a] =
                              [state |-> "open", order |-> o, version |-> ledger[o].version]]
       \/ approval' = [approval EXCEPT ![a] =
                          [state |-> "open", order |-> NoOrder, version |-> 0]]
    /\ UNCHANGED ledger

Close(a, state) ==
    /\ approval[a].state = "open"
    /\ approval' = [approval EXCEPT ![a].state = state]

\* The order moves along one edge of its life cycle.
Move(a) ==
    /\ Close(a, "applied")
    /\ LET o == approval[a].order IN
         /\ o \in Orders
         /\ ledger[o] # NoRow
         /\ ~ledger[o].deleted
         /\ ledger[o].version = approval[a].version
         /\ \E s \in Status :
              /\ <<ledger[o].status, s>> \in Edge
              /\ ledger' = [ledger EXCEPT ![o] = Row(s, ledger[o].version + 1, FALSE)]

\* A draft is deleted.
Remove(a) ==
    /\ Close(a, "applied")
    /\ LET o == approval[a].order IN
         /\ o \in Orders
         /\ ledger[o] = Row("DRAFT", approval[a].version, FALSE)
         /\ ledger' = [ledger EXCEPT ![o] = Row("DRAFT", approval[a].version + 1, TRUE)]

\* A draft is created.
Create(a) ==
    /\ Close(a, "applied")
    /\ approval[a].order = NoOrder
    /\ \E o \in Orders :
         /\ ledger[o] = NoRow
         /\ ledger' = [ledger EXCEPT ![o] = Row("DRAFT", 0, FALSE)]

\* The approval is withdrawn by its user or has expired.
Void(a) ==
    /\ Close(a, "void")
    /\ UNCHANGED ledger

Next == \E a \in Actions : Propose(a) \/ Move(a) \/ Remove(a) \/ Create(a) \/ Void(a)

Spec == Init /\ [][Next]_vars
=============================================================================
