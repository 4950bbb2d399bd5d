------------------------- MODULE ApprovalChat_proof -------------------------
(***************************************************************************)
(* Proofs about the cards of the chat.  The chat is one more user of the   *)
(* approval state machine: everything proved of ActionApproval holds under *)
(* it, and what a card says follows from what a committed request knows.   *)
(***************************************************************************)
EXTENDS ApprovalChat, ActionApproval_proof

\* A card that reports a decision belongs to a request that was answered, and
\* names the decision this request asked for.
CardInv ==
    \A r \in Requests :
        /\ card[r] = "executed"  => At(r, "answered") /\ req[r].verb = "confirm"
        /\ card[r] = "cancelled" => At(r, "answered") /\ req[r].verb # "confirm"

\* What the chat does to the approval is what any caller may do.
LEMMA ChatStep ==
    ASSUME [ChatNext]_chatVars
    PROVE  [Next]_vars
BY DEF ChatNext, chatVars, Command, Deliver, ClientTimeout, Next

THEOREM ChatIsACaller == ChatSpec => Spec
<1>1. ChatInit => Init
  BY DEF ChatInit
<1>2. [ChatNext]_chatVars => [Next]_vars
  BY ChatStep
<1> QED
  BY <1>1, <1>2, PTL DEF ChatSpec, Spec

LEMMA CardTypes == ChatSpec => [](card \in [Requests -> Card])
<1>1. ChatInit => card \in [Requests -> Card]
  BY DEF ChatInit, Card
<1>2. card \in [Requests -> Card] /\ [ChatNext]_chatVars => (card \in [Requests -> Card])'
  BY DEF ChatNext, chatVars, Command, Deliver, ClientTimeout, Card
<1> QED
  BY <1>1, <1>2, PTL DEF ChatSpec

\* An answered request stays as it is until its slot is used again.
LEMMA AnsweredStays ==
    ASSUME TypeOK, ServerNext, NEW r \in Requests, At(r, "answered")
    PROVE  req'[r] = req[r]
<1> USE DEF At
<1>1. CASE PreviewAny \/ ProductChanges \/ \E a \in Actions : TimeToLiveEnds(a)
  BY <1>1, PreviewEffect DEF ProductChanges, TimeToLiveEnds
<1>2. CASE Crash
  BY <1>2 DEF Crash, InFlight, Done, TypeOK
<1>3. ASSUME NEW s \in Requests, Load(s) \/ Serve(s)
      PROVE  req'[r] = req[r]
  BY <1>3 DEF Load, LoadRefused, LoadExpired, LoadValid, Serve, Begin,
     BeginTimeout, CommitCancel, Execute, ExecuteFails, RecordFailure, RecordTimeout,
     Rollback, CommitConfirm, CommitConflict, AuditAfterCommit, Goto, TypeOK
<1> QED
  BY <1>1, <1>2, <1>3 DEF ServerNext

LEMMA CardStep ==
    ASSUME TypeOK, card \in [Requests -> Card], CardInv, [ChatNext]_chatVars
    PROVE  CardInv'
<1> USE DEF At
<1> SUFFICES ASSUME NEW s \in Requests, card'[s] \in {"executed", "cancelled"}
             PROVE  /\ req'[s].pc = "answered"
                    /\ card'[s] = "executed" <=> req'[s].verb = "confirm"
  BY DEF CardInv
<1>0. ASSUME card'[s] = card[s], req'[s] = req[s]
      PROVE  /\ req'[s].pc = "answered"
             /\ card'[s] = "executed" <=> req'[s].verb = "confirm"
  BY <1>0 DEF CardInv
<1>1. CASE UNCHANGED chatVars
  BY <1>0, <1>1 DEF chatVars, vars
<1>2. ASSUME NEW r \in Requests, Command(r)
      PROVE  /\ req'[s].pc = "answered"
             /\ card'[s] = "executed" <=> req'[s].verb = "confirm"
  <2>1. r # s
    BY <1>2 DEF Command
  <2>2. card'[s] = card[s] /\ req'[s] = req[s]
    BY <1>2, <2>1 DEF Command, CallAny, Call, TypeOK
  <2> QED
    BY <1>0, <2>2
<1>3. ASSUME NEW r \in Requests, Deliver(r) \/ ClientTimeout(r)
      PROVE  /\ req'[s].pc = "answered"
             /\ card'[s] = "executed" <=> req'[s].verb = "confirm"
  <2>1. req' = req
    BY <1>3 DEF Deliver, ClientTimeout, vars
  <2>2. CASE r # s
    <3>1. card'[s] = card[s]
      BY <1>3, <2>2 DEF Deliver, ClientTimeout
    <3> QED
      BY <1>0, <2>1, <3>1
  <2>3. CASE r = s
    BY <1>3, <2>1, <2>3 DEF Deliver, ClientTimeout
  <2> QED
    BY <2>2, <2>3
<1>4. CASE ServerNext /\ UNCHANGED card
  BY <1>0, <1>4, AnsweredStays DEF CardInv
<1> QED
  BY <1>1, <1>2, <1>3, <1>4 DEF ChatNext

LEMMA CardsAnswer == ChatSpec => []CardInv
<1>1. ChatInit => CardInv
  BY DEF ChatInit, CardInv
<1>2. TypeOK /\ card \in [Requests -> Card] /\ CardInv /\ [ChatNext]_chatVars => CardInv'
  BY CardStep
<1> QED
  BY <1>1, <1>2, CardTypes, ChatIsACaller, TypeCorrect, PTL DEF ChatSpec

-----------------------------------------------------------------------------
\* Every request and every card stays in its domain.
THEOREM ChatTypeCorrect == ChatSpec => []ChatTypeOK
<1>1. TypeOK /\ card \in [Requests -> Card] => ChatTypeOK
  BY DEF ChatTypeOK
<1> QED
  BY <1>1, CardTypes, ChatIsACaller, TypeCorrect, PTL

\* A double click, a second tab or a retry never shows a second card
\* "executed", nor one next to a card "cancelled", however many commands were
\* sent for the action.
THEOREM OneCard == ChatSpec => []OneDecisionCard
<1>1. ASSUME ApprovalInv, CardInv
      PROVE  OneDecisionCard
  BY <1>1 DEF ApprovalInv, CardInv, DecidedInv, Decided, At, OneDecisionCard
<1>2. ApprovalInv /\ CardInv => OneDecisionCard
  BY <1>1
<1> QED
  BY <1>2, CardsAnswer, ChatIsACaller, Invariance, PTL

\* What a card reports is what the tables hold, for ever.
THEOREM CardsAreTrue == ChatSpec => []CardsHold
<1>1. ASSUME ApprovalInv, CardInv
      PROVE  CardsHold
  BY <1>1 DEF ApprovalInv, CardInv, DecidedInv, Decided, At, CardsHold
<1>2. ApprovalInv /\ CardInv => CardsHold
  BY <1>1
<1> QED
  BY <1>2, CardsAnswer, ChatIsACaller, Invariance, PTL
=============================================================================
