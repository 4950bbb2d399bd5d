------------------------- MODULE ApprovalRefinement -------------------------
(* ActionApproval implements OrderLedger.                                   *)
EXTENDS ActionApproval

\* The approval a pending_actions row stands for; the version of a product is
\* no concern of the ledger.
ApprovalOf(act) ==
    IF act = NoAction
      THEN [state |-> "none"]
      ELSE [state   |-> IF act.status = "PENDING" THEN "open"
                        ELSE IF act.status = "CONFIRMED" THEN "applied" ELSE "void",
            order   |-> act.order,
            version |-> IF act.order = NoOrder THEN 0 ELSE act.version]

Ledger == INSTANCE OrderLedger
              WITH ledger   <- orders,
                   approval <- [a \in Actions |-> ApprovalOf(actions[a])]

\* Requests, row locks, the second read at the execution, the version check
\* at the flush, crashes and lost answers together look like one atomic
\* change of the ledger for each approval.
ImplementsLedger == Ledger!Spec
=============================================================================
