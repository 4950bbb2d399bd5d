----------------------------- MODULE Questions -----------------------------
(***************************************************************************)
(* What the clarification service promises, without stores, calls, tasks,  *)
(* crashes or clients: a run asks its user one question at most, which is  *)
(* answered once, by one child run, or lapses; the ticket that comes with  *)
(* the answer is spent once, in one step and for a run that waits, or      *)
(* lapses; and it starts the child once.                                   *)
(***************************************************************************)
CONSTANTS Runs, NoRun

VARIABLES
    question,   \* what a run has asked: [state, child]
    ticket,     \* the ticket of a child, and whether the child has begun
    asker       \* a run goes on, waits for its user, or is closed otherwise

vars == <<question, ticket, asker>>

Init ==
    /\ question = [p \in Runs |-> [state |-> "none", child |-> NoRun]]
    /\ ticket = [r \in Runs |-> "none"]
    /\ asker = [p \in Runs |-> "busy"]

Moves(p, from, to) ==
    /\ question[p].state = from
    /\ question' = [question EXCEPT ![p].state = to]
    /\ UNCHANGED <<ticket, asker>>

Ask(p) == asker[p] = "busy" /\ Moves(p, "none", "open")

Lapse(p) == Moves(p, "open", "lapsed")

Answer(p, r) ==
    /\ question[p].state = "open" /\ ticket[r] = "none"
    /\ question' = [question EXCEPT ![p] = [state |-> "answered", child |-> r]]
    /\ ticket' = [ticket EXCEPT ![r] = "valid"]
    /\ UNCHANGED asker

Turns(r, from, to) ==
    /\ ticket[r] = from
    /\ ticket' = [ticket EXCEPT ![r] = to]
    /\ UNCHANGED <<question, asker>>

TicketLapses(r) == Turns(r, "valid", "lapsed")

\* Whoever claims the child, and however often: the ticket is spent for a run
\* that waits for this answer.
Spend(r) ==
    /\ \E p \in Runs : question[p].child = r /\ asker[p] = "waiting"
    /\ Turns(r, "valid", "spent")

Begin(r) == Turns(r, "spent", "begun")

\* Only a run that has asked waits.
Wait(p) ==
    /\ asker[p] = "busy" /\ question[p].state # "none"
    /\ asker' = [asker EXCEPT ![p] = "waiting"]
    /\ UNCHANGED <<question, ticket>>

\* Runs are closed, with or without a question of theirs pending.
Leave ==
    /\ asker' \in [Runs -> {"busy", "waiting", "gone"}]
    /\ \A p \in Runs : asker'[p] = asker[p] \/ (asker[p] = "busy" /\ asker'[p] = "gone")
    /\ UNCHANGED <<question, ticket>>

Next ==
    \/ \E p \in Runs : Ask(p) \/ Lapse(p) \/ Wait(p)
    \/ \E p, r \in Runs : Answer(p, r)
    \/ \E r \in Runs : TicketLapses(r) \/ Spend(r) \/ Begin(r)
    \/ Leave

Spec == Init /\ [][Next]_vars
=============================================================================
