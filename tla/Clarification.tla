---------------------------- MODULE Clarification ----------------------------
(***************************************************************************)
(* Clarification cards and resumed runs (harness/clarification.py and the  *)
(* clarify and resume endpoints of state/api.py) on top of RunLifecycle.   *)
(*                                                                         *)
(* A tool saves a card and closes its run as NEEDS_CLARIFICATION; the      *)
(* user's answer creates a RECEIVED child and a token; presenting the      *)
(* token claims the child, whose stream then starts.  With PostgreSQL      *)
(* (Durable) a claim is one transaction, in memory it is two steps.        *)
(***************************************************************************)
EXTENDS RunLifecycle

CONSTANTS
    Claims,     \* calls of the resume endpoint
    Askers      \* the runs whose search tool asks its user (a workload)

VARIABLES
    card,       \* clarification_requests, by parent: its child and expiry
    token,      \* clarification_resume_tokens, by child
    claim       \* the calls of the resume endpoint

cvars == <<card, token, claim>>

NoCard == [child |-> NoRun, saved |-> FALSE, due |-> FALSE]

ClaimResult == {"none", "resumed", "replay", "invalid", "expired", "error", "gone", "lost"}

ClarTypeOK ==
    /\ TypeOK
    /\ card \in [Runs -> [child : Runs \cup {NoRun}, saved : BOOLEAN, due : BOOLEAN]]
    /\ token \in [Runs -> {"none", "valid", "expired", "consumed"}]
    /\ claim \in [Claims -> [at : {"idle", "checked", "consumed", "claimed", "done"},
                             run : Runs \cup {NoRun}, result : ClaimResult]]

ClarInit ==
    /\ Init
    /\ card = [r \in Runs |-> NoCard]
    /\ token = [r \in Runs |-> "none"]
    /\ claim = [k \in Claims |-> [at |-> "idle", run |-> NoRun, result |-> "none"]]

-----------------------------------------------------------------------------
(* The card.                                                               *)

SaveCard_Fault(r) ==
    /\ AskUser(r) /\ r \in Askers
    /\ UNCHANGED cvars

\* create(): save, which PostgreSQL skips when the parent has a card already.
SaveCard(r) ==
    /\ AskUser(r) /\ r \in Askers
    /\ card' = IF Durable /\ card[r].saved THEN card
               ELSE [card EXCEPT ![r] = [child |-> NoRun, saved |-> TRUE, due |-> FALSE]]
    /\ UNCHANGED <<token, claim>>

CardExpires(p) ==
    /\ card[p].saved /\ ~card[p].due
    /\ card' = [card EXCEPT ![p].due = TRUE]
    /\ UNCHANGED <<vars, token, claim>>

Answer_Fault(p, r) ==
    /\ up
    /\ about[p].kind = "READ_QUERY"
    /\ card[p].saved /\ ~card[p].due
    /\ pc[r] = "none"
    /\ InsertRun(r, "READ_QUERY", about[p].conversation, p, "resumed")
    /\ card' = [card EXCEPT ![p].child = r]
    /\ token' = [token EXCEPT ![r] = "valid"]
    /\ UNCHANGED <<store, up, tvars, cancel, ran, lost, claim>>
\* answer_with_resume: the card is spent, the child and its token are made.
\* What the parent's status is does not matter here.
Answer(p, r) ==
    /\ up
    /\ about[p].kind = "READ_QUERY"
    /\ card[p].saved /\ ~card[p].due /\ card[p].child = NoRun
    /\ pc[r] = "none"
    /\ InsertRun(r, "READ_QUERY", about[p].conversation, p, "resumed")
    /\ card' = [card EXCEPT ![p].child = r]
    /\ token' = [token EXCEPT ![r] = "valid"]
    /\ UNCHANGED <<store, up, tvars, cancel, ran, lost, claim>>

-----------------------------------------------------------------------------
(* The claim.                                                              *)

TokenExpires(r) ==
    /\ token[r] = "valid"
    /\ token' = [token EXCEPT ![r] = "expired"]
    /\ UNCHANGED <<vars, card, claim>>

Answered(k, r, result) ==
    claim' = [claim EXCEPT ![k] = [at |-> "done", run |-> r, result |-> result]]

ClaimRead_Fault(k, r) ==
    /\ up /\ claim[k].at = "idle"
    /\ token[r] # "none"
    /\ IF status[r] # "RECEIVED" THEN Answered(k, r, "replay")
       ELSE claim' = [claim EXCEPT ![k] = [at |-> "checked", run |-> r, result |-> "none"]]
    /\ UNCHANGED <<vars, card, token>>
\* claim_resume: the child and its parent are read.
ClaimRead(k, r) ==
    /\ up /\ claim[k].at = "idle"
    /\ token[r] # "none"
    /\ IF status[r] # "RECEIVED" THEN Answered(k, r, "replay")
       ELSE IF status[about[r].parent] # "NEEDS_CLARIFICATION" THEN Answered(k, r, "invalid")
       ELSE claim' = [claim EXCEPT ![k] = [at |-> "checked", run |-> r, result |-> "none"]]
    /\ UNCHANGED <<vars, card, token>>

\* claim_resume_atomic: PostgreSQL refuses FOR UPDATE OF child,t because t is
\* on the nullable side of the LEFT JOIN; the transaction does nothing.
ClaimAtomic(k) ==
    /\ Durable
    /\ claim[k].at = "checked"
    /\ Answered(k, claim[k].run, "error")
    /\ UNCHANGED <<vars, card, token>>

ConsumeToken_Fault(k) ==
    /\ ~Durable
    /\ claim[k].at = "checked"
    /\ LET r == claim[k].run IN
         IF token[r] = "consumed"
           THEN Answered(k, r, "replay") /\ UNCHANGED token
           ELSE /\ token' = [token EXCEPT ![r] = "consumed"]
                /\ claim' = [claim EXCEPT ![k].at = "consumed"]
    /\ UNCHANGED <<vars, card>>
\* InMemoryClarificationStore.claim_resume: the token is spent under its lock.
ConsumeToken(k) ==
    /\ ~Durable
    /\ claim[k].at = "checked"
    /\ LET r == claim[k].run IN
         CASE token[r] = "consumed" -> Answered(k, r, "replay") /\ UNCHANGED token
           [] token[r] = "expired"  -> Answered(k, r, "expired") /\ UNCHANGED token
           [] token[r] = "valid"    -> /\ token' = [token EXCEPT ![r] = "consumed"]
                                       /\ claim' = [claim EXCEPT ![k].at = "consumed"]
    /\ UNCHANGED <<vars, card>>

StartChild_Fault(k) ==
    /\ claim[k].at = "consumed"
    /\ SetStatus(claim[k].run, "CONTEXT_BUILDING", "none")
    /\ claim' = [claim EXCEPT ![k].at = "claimed"]
    /\ UNCHANGED <<store, up, tvars, cancel, ran, lost, card, token>>
\* ... and the child is moved on; it may have been cancelled meanwhile.
StartChild(k) ==
    /\ claim[k].at = "consumed"
    /\ LET r == claim[k].run IN
         IF MayBecome(r, "CONTEXT_BUILDING")
           THEN /\ SetStatus(r, "CONTEXT_BUILDING", "none")
                /\ claim' = [claim EXCEPT ![k].at = "claimed"]
           ELSE /\ Answered(k, r, "error")
                /\ UNCHANGED rvars
    /\ UNCHANGED <<store, up, tvars, cancel, ran, lost, card, token>>

\* The response's generator starts: execute_resumed_stream.
Resume(k) ==
    /\ claim[k].at = "claimed"
    /\ LET r == claim[k].run IN
         /\ pc' = [pc EXCEPT ![r] = "stage"]
         /\ todo' = [todo EXCEPT ![r] = Stages("resumed")]
         /\ Answered(k, r, "resumed")
    /\ UNCHANGED <<store, up, rvars, why, cancel, ran, lost, card, token>>

\* The client has gone before the generator starts.
ClientGone(k) ==
    /\ claim[k].at = "claimed"
    /\ Answered(k, claim[k].run, "gone")
    /\ UNCHANGED <<vars, card, token>>

CrashAll ==
    /\ Crash
    /\ claim' = [k \in Claims |->
         IF claim[k].at \in {"idle", "done"} THEN claim[k]
         ELSE [at |-> "done", run |-> claim[k].run, result |-> "lost"]]
    /\ UNCHANGED <<card, token>>

-----------------------------------------------------------------------------
Claiming(k) ==
    \/ \E r \in Runs : ClaimRead(k, r)
    \/ ClaimAtomic(k) \/ ConsumeToken(k) \/ StartChild(k) \/ Resume(k) \/ ClientGone(k)

ClarNext ==
    \/ \E r \in Runs : SaveCard(r) \/ CardExpires(r) \/ TokenExpires(r)
    \/ \E p, r \in Runs : Answer(p, r)
    \/ \E k \in Claims : Claiming(k)
    \/ CrashAll
    \/ /\ \/ \E r \in Runs : Harness(r) \/ Surroundings(r)
          \/ \E p, r \in Runs : RecoverAs(p, r)
          \/ CancelCall
          \/ Restart
       /\ UNCHANGED cvars

ClarSpec == ClarInit /\ [][ClarNext]_<<vars, cvars>>

-----------------------------------------------------------------------------
(* Properties.                                                             *)

Children(p) == {r \in Runs : token[r] # "none" /\ about[r].parent = p}

\* A card is spent once: double clicks and answers that race with the pause,
\* with a cancel or with a restart leave one child, the one the card names.
OneChildPerCard == \A p \in Runs : Children(p) = {card[p].child} \ {NoRun}

\* A resumed child's stream runs once, on a token spent for it, and only for
\* a read whose parent waits for it: not for a parent that was cancelled
\* between saving its card and pausing.
ResumedOnce ==
    \A r \in Runs : Exists(r) /\ about[r].parent # NoRun /\ pc[r] # "none" =>
        /\ token[r] = "consumed"
        /\ status[about[r].parent] = "NEEDS_CLARIFICATION"
        /\ about[about[r].parent].kind = "READ_QUERY"
        /\ Cardinality({k \in Claims : /\ claim[k].run = r
                                       /\ claim[k].result = "resumed"}) = 1

\* A child that was claimed has a stream, or a call about to start it, or
\* lost its client on the way; one not claimed has no stream.
ClaimedChildrenAreOwned ==
    \A r \in Runs : Active(r) /\ about[r].parent # NoRun /\ up =>
        IF status[r] = "RECEIVED"
          THEN pc[r] = "none"
          ELSE \/ pc[r] \in Live \/ r \in lost
               \/ \E k \in Claims : /\ claim[k].run = r
                                    /\ claim[k].at = "claimed" \/ claim[k].result = "gone"

\* What has expired is not applied: an expired card gets no child, an expired
\* token starts nothing.
ExpiredIsNotApplied ==
    [][/\ \A p \in Runs : card[p].due => card'[p] = card[p]
       /\ \A r \in Runs : token[r] = "expired" =>
            token'[r] = "expired" /\ pc'[r] = pc[r]]_<<vars, cvars>>

\* Phase D architecture: the atomic claim checks owner, states, expiry and
\* kind.  Stated of the endpoint: it answers every call deterministically.
ClaimsAreServed == \A k \in Claims : claim[k].result # "error"

-----------------------------------------------------------------------------
(* The inductive invariant, next to what RunLifecycle knows of its runs.   *)

\* A run that saved a card is closed, is being closed, or is about to pause:
\* it never comes to save another one.
Asked(r) ==
    \/ status[r] \in TERMINAL_STATUSES
    \/ pc[r] \in {"cleanup", "finish", "ended"}
    \/ pc[r] = "ask" /\ status[r] \in {"LINKING", "GENERATING", "TOOL_RUNNING"}

CardInv(p) ==
    /\ card[p].saved => pc[p] # "none" /\ Asked(p)
    /\ ~card[p].saved => card[p].child = NoRun /\ ~card[p].due
    /\ card[p].child # NoRun =>
         token[card[p].child] # "none" /\ about[card[p].child].parent = p

\* A token belongs to the child its parent's card names, and is spent before
\* the child's stream starts.
TokenInv(r) ==
    /\ token[r] # "none" =>
         /\ Exists(r) /\ about[r].parent \in Runs
         /\ about[about[r].parent].kind = "READ_QUERY"
         /\ card[about[r].parent].child = r
    /\ token[r] \in {"valid", "expired"} => pc[r] = "none"

\* A child with a stream was resumed by a call; one without a stream that has
\* left RECEIVED is in the hands of a call.
ChildInv(r) ==
    Exists(r) /\ about[r].parent # NoRun =>
      /\ pc[r] # "none" =>
           /\ status[r] # "RECEIVED" /\ token[r] = "consumed"
           /\ status[about[r].parent] = "NEEDS_CLARIFICATION"
           /\ \E k \in Claims : claim[k].run = r /\ claim[k].result = "resumed"
      /\ up /\ Active(r) /\ status[r] # "RECEIVED" /\ pc[r] = "none" =>
           \E k \in Claims : /\ claim[k].run = r
                             /\ claim[k].at = "claimed" \/ claim[k].result = "gone"

Owns(k) == claim[k].at \in {"consumed", "claimed"} \/ claim[k].result = "resumed"

ClaimInv(k) ==
    LET r == claim[k].run IN
    /\ claim[k].at \in {"checked", "consumed", "claimed"} => up
    /\ claim[k].at = "checked" \/ Owns(k) =>
         /\ r \in Runs /\ token[r] # "none"
         /\ status[about[r].parent] = "NEEDS_CLARIFICATION"
    /\ Owns(k) => token[r] = "consumed"
    /\ claim[k].at \in {"consumed", "claimed"} => pc[r] = "none"
    /\ claim[k].at = "claimed" => status[r] # "RECEIVED"
    /\ claim[k].result = "resumed" => pc[r] # "none"
    /\ claim[k].at # "done" => claim[k].result = "none"

\* A token is spent for one call.
OneOwner == \A k, l \in Claims : Owns(k) /\ Owns(l) /\ claim[k].run = claim[l].run => k = l

CardsInv ==
    /\ \A r \in Runs : CardInv(r) /\ TokenInv(r) /\ ChildInv(r)
    /\ \A k \in Claims : ClaimInv(k)
    /\ OneOwner

\* Only a pause leaves a run waiting for its user, and no run pauses before
\* its card is saved.
WaitInv ==
    \A r \in Runs :
        /\ pc[r] = "ask" \/ status[r] = "NEEDS_CLARIFICATION" => card[r].saved
        /\ \A i \in DOMAIN todo[r] : todo[r][i] # "NEEDS_CLARIFICATION"

ClarInv ==
    /\ ClarTypeOK /\ TaskInv /\ BudgetInv /\ CancelInv /\ ActiveRunsAreOwned
    /\ CardsInv /\ WaitInv
=============================================================================
