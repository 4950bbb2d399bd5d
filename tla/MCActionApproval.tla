-------------------------- MODULE MCActionApproval --------------------------
(* The instances of ActionApproval that TLC checks.                         *)
EXTENDS ApprovalRefinement, TLC

CONSTANTS opal, ada, ann, a1, a2, o1, n1, n2, r1, r2, r3

\* An admin may do everything the service offers.
OneUser == {ada}
RoleOfOne == ada :> "admin"

\* An action has an owner, another user who may write and one who may not.
ThreeUsers == {ada, opal, ann}
RoleOfThree == (ada :> "admin") @@ (opal :> "operator") @@ (ann :> "analyst")

\* Requests are served alike, and so are the orders not yet created.
Interchangeable == Permutations(Requests) \cup Permutations({n1, n2})

\* A bound: the product changes, or a third request comes, where there is one
\* draft to create and an order that nobody may change.
Alone(type) ==
    \A a \in Actions : actions[a] # NoAction =>
       actions[a].type = type /\ \A b \in Actions : actions[b] # NoAction => a = b
Competing == \A r \in Requests : req[r].pc # "idle"
CrowdsAreSmall ==
    product.version > 0 \/ Competing =>
      /\ ~(product.version > 0 /\ Competing)
      /\ Alone("CREATE_DRAFT_ORDER") /\ orders[o1].status = "SHIPPED"
=============================================================================
