---------------------- MODULE ClarificationRefinement ----------------------
(* Clarification implements Questions.                                      *)
EXTENDS Clarification

\* The question a clarification_requests row stands for.
QuestionOf(c) ==
    [state |-> IF c.child # NoRun THEN "answered"
               ELSE IF c.due THEN "lapsed"
               ELSE IF c.saved THEN "open" ELSE "none",
     child |-> c.child]

\* The ticket of a child: its row of clarification_resume_tokens, and whether
\* its stream has begun.
TicketOf(t, at) ==
    IF t = "expired" THEN "lapsed"
    ELSE IF t = "consumed" THEN IF at = "none" THEN "spent" ELSE "begun"
    ELSE t

AskerOf(s) ==
    IF s = "NEEDS_CLARIFICATION" THEN "waiting"
    ELSE IF s \in TERMINAL_STATUSES THEN "gone" ELSE "busy"

Desk == INSTANCE Questions
            WITH question <- [p \in Runs |-> QuestionOf(card[p])],
                 ticket   <- [r \in Runs |-> TicketOf(token[r], pc[r])],
                 asker    <- [p \in Runs |-> AskerOf(status[p])]

\* The card saved before its run pauses, the answer that races with the pause,
\* the claim in two steps, double calls, cancels, crashes and restarts together
\* look like one question that is answered once and one ticket that is spent
\* once.
ImplementsQuestions == Desk!Spec
=============================================================================
