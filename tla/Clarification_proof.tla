------------------------ MODULE Clarification_proof ------------------------
(***************************************************************************)
(* Proofs about clarification cards and resumed runs, for every set of     *)
(* runs, calls and conversations, every budget and both stores.            *)
(***************************************************************************)
EXTENDS ClarificationRefinement, RunLifecycle_proof, FiniteSetTheorems

RunsInv == TypeOK /\ TaskInv /\ CancelInv /\ \A r \in Runs : Sound(r)

ClaimRecord == [at : {"idle", "checked", "consumed", "claimed", "done"},
                run : Runs \cup {NoRun}, result : ClaimResult]
CardRecord == [child : Runs \cup {NoRun}, saved : BOOLEAN, due : BOOLEAN]

CardsOK ==
    /\ card \in [Runs -> CardRecord]
    /\ token \in [Runs -> {"none", "valid", "expired", "consumed"}]
    /\ claim \in [Claims -> ClaimRecord]

LEMMA ClarParts == ClarInv <=> RunsInv /\ CardsOK /\ CardsInv /\ WaitInv
BY SoundParts, Zenon DEF ClarInv, ClarTypeOK, RunsInv, CardsOK, CardRecord, ClaimRecord

-----------------------------------------------------------------------------
(***************************************************************************)
(* What a step does to the run of a card: its row, and its task.           *)
(***************************************************************************)
\* A row that is there stays or moves on; a task does not vanish.
Frame(r) ==
    /\ Exists(r) => Exists(r)' /\ about'[r] = about[r]
    /\ status[r] \in TERMINAL_STATUSES => status'[r] = status[r]
    /\ pc[r] # "none" => pc'[r] # "none"
    /\ ~Exists(r) /\ Exists(r)' =>
         status'[r] = "RECEIVED" /\ (pc'[r] = "none" \/ about'[r].parent = NoRun)
    /\ Exists(r) /\ status'[r] = "RECEIVED" => status[r] = "RECEIVED"
    /\ pc[r] # "none" /\ Asked(r) => Asked(r)'

\* A run without a task waits, or is closed from outside.
Idle(r) ==
    Exists(r) /\ pc[r] = "none" =>
        pc'[r] = "none" /\ (status'[r] = status[r] \/ status'[r] \in TERMINAL_STATUSES)

Process == up' => up \/ \A r \in Runs : ~Active(r)'

\* The task of r takes a step that is not the one of a card.
LEMMA TaskAsked ==
    ASSUME TypeOK, NEW r \in Runs, Harness(r) \/ Surroundings(r),
           status[r] \notin TERMINAL_STATUSES, Asked(r), pc[r] # "none"
    PROVE  Asked(r)'
<1>0. RowsOK /\ TasksOK
  BY TypeParts
<1>1. CASE pc[r] \in {"cleanup", "finish", "ended"}
  <2>1. Cleanup(r) \/ Finish(r) \/ CleanupFails(r)
    BY <1>1 DEF Harness, Surroundings, Advance, AdvanceRejected, Hook, BeforeTool, CountToolCall,
       RecheckRun, MarkToolRunning, CountRetry, AfterTool, UnmarkToolRunning, Pause, Verify,
       Create, Checkpoint, ToolReturns, OperationEnds, Timeout, Disconnect, Fault, Inside
  <2>2. pc'[r] \in {"finish", "ended"}
    BY <1>0, <2>1 DEF TasksOK, Cleanup, Finish, CleanupFails, Goto, EndTask
  <2> QED
    BY <2>2 DEF Asked
<1>2. CASE pc[r] = "ask" /\ status[r] \in {"LINKING", "GENERATING", "TOOL_RUNNING"}
  <2>1. Pause(r) \/ Timeout(r) \/ Disconnect(r) \/ Fault(r)
    BY <1>2 DEF Harness, Surroundings, Advance, AdvanceRejected, Hook, BeforeTool, CountToolCall,
       RecheckRun, MarkToolRunning, CountRetry, AfterTool, UnmarkToolRunning, Verify, Cleanup,
       Finish, CleanupFails, Create, Checkpoint, ToolReturns, OperationEnds
  <2>2. CASE Pause(r)
    <3>1. MayBecome(r, "NEEDS_CLARIFICATION")
      BY <1>2 DEF MayBecome, ALLOWED_TRANSITIONS
    <3>2. status'[r] = "NEEDS_CLARIFICATION"
      BY <1>0, <2>2, <3>1 DEF Pause, SetStatus, RowsOK
    <3> QED
      BY <3>2 DEF Asked, TERMINAL_STATUSES
  <2>3. CASE Timeout(r) \/ Disconnect(r) \/ Fault(r)
    <3>1. pc'[r] = "cleanup"
      BY <1>0, <2>3 DEF Timeout, Disconnect, Fault, Abort, TasksOK
    <3> QED
      BY <3>1 DEF Asked
  <2> QED
    BY <2>1, <2>2, <2>3
<1> QED
  BY <1>1, <1>2 DEF Asked

LEMMA TaskPc ==
    ASSUME TypeOK, NEW r \in Runs, Harness(r) \/ Surroundings(r) \/ AskUser(r)
    PROVE  Create(r) \/ (pc[r] # "none" /\ pc'[r] # "none")
<1>0. TasksOK
  BY TypeParts
<1> USE <1>0 DEF TasksOK, Goto, Abort, EndTask, EnterTool, tvars
<1>1. CASE Advance(r) \/ AdvanceRejected(r) \/ Pause(r) \/ Verify(r) \/ Cleanup(r) \/ Finish(r)
  BY <1>1 DEF Advance, AdvanceRejected, Pause, Verify, Cleanup, Finish
<1>2. CASE Hook(r)
  BY <1>2 DEF Hook, BeforeTool, CountToolCall, RecheckRun, MarkToolRunning, CountRetry,
     AfterTool, UnmarkToolRunning
<1>3. CASE Surroundings(r) \/ AskUser(r)
  BY <1>3 DEF Surroundings, AskUser, Checkpoint, ToolReturns, OperationEnds, Timeout,
     Disconnect, Fault, CleanupFails, Inside
<1> QED
  BY <1>1, <1>2, <1>3 DEF Harness

LEMMA RowFrame ==
    ASSUME NEW r \in Runs, RowKept(r) \/ RowMoved(r),
           pc[r] # "none" => pc'[r] # "none",
           pc[r] # "none" /\ Asked(r) /\ status[r] \notin TERMINAL_STATUSES => Asked(r)'
    PROVE  Frame(r)
<1>1. /\ Exists(r) <=> Exists(r)'
      /\ about'[r] = about[r]
  BY RowStaysMade
<1>2. status[r] \in TERMINAL_STATUSES => status'[r] = status[r]
  BY TableType DEF RowKept, RowMoved
<1>3. status'[r] = "RECEIVED" => status[r] = "RECEIVED"
  BY TableType DEF RowKept, RowMoved
<1> QED
  BY <1>1, <1>2, <1>3 DEF Frame, Asked

LEMMA SameFrame ==
    ASSUME NEW r \in Runs, status'[r] = status[r], about'[r] = about[r], pc'[r] = pc[r]
    PROVE  Frame(r) /\ Idle(r)
BY DEF Frame, Idle, Exists, Asked

LEMMA TaskFrame ==
    ASSUME TypeOK, TaskInv, CancelInv, NEW r \in Runs, Harness(r) \/ Surroundings(r)
    PROVE  \A q \in Runs : Frame(q) /\ Idle(q)
<1>1. Alone(r) /\ RowStep
  <2>1. Next
    BY DEF Next
  <2> QED
    BY <2>1, TaskStepAlone, NextRows
<1>2. ASSUME NEW q \in Runs \ {r}
      PROVE  Frame(q) /\ Idle(q)
  BY <1>1, <1>2, SameFrame DEF Alone
<1>3. CASE Create(r)
  <2>1. /\ pc[r] = "none" /\ ~Exists(r) /\ status'[r] = "RECEIVED"
        /\ about'[r].parent = NoRun
    BY <1>3 DEF Create, InsertRun, TypeOK
  <2>2. Frame(r) /\ Idle(r)
    BY <2>1 DEF Frame, Idle, Exists, TERMINAL_STATUSES
  <2> QED
    BY <1>2, <2>2
<1>4. CASE ~Create(r)
  <2>1. pc[r] # "none" /\ pc'[r] # "none"
    BY <1>4, TaskPc
  <2>2. Exists(r)
    BY <2>1 DEF TaskInv
  <2>3. RowKept(r) \/ RowMoved(r)
    BY <1>1, <2>2 DEF RowStep, RowMade
  <2>4. Frame(r)
    BY <2>1, <2>3, RowFrame, TaskAsked
  <2> QED
    BY <1>2, <2>1, <2>4 DEF Idle
<1> QED
  BY <1>3, <1>4

LEMMA OtherFrame ==
    ASSUME TypeOK, TaskInv, CancelInv,
           (\E p, r \in Runs : RecoverAs(p, r)) \/ CancelCall \/ Crash \/ Restart
    PROVE  \A q \in Runs : Frame(q) /\ Idle(q)
<1>0. RowsOK
  BY TypeParts
<1> SUFFICES ASSUME NEW q \in Runs
             PROVE  Frame(q) /\ Idle(q)
  OBVIOUS
<1>1. ASSUME NEW p \in Runs, NEW r \in Runs, RecoverAs(p, r)
      PROVE  Frame(q) /\ Idle(q)
  <2>1. /\ ~Exists(r) /\ pc[r] = "none" /\ pc' = pc
        /\ status' = [status EXCEPT ![r] = "RECEIVED"]
        /\ about' = [about EXCEPT ![r] = [kind |-> "READ_QUERY", conversation |-> about[p].conversation,
                                          parent |-> p, mode |-> about[p].mode]]
    BY <1>1 DEF RecoverAs, InsertRun, tvars
  <2>2. CASE q # r
    BY <1>0, <2>1, <2>2, SameFrame DEF RowsOK
  <2>3. CASE q = r
    <3>1. status'[q] = "RECEIVED" /\ pc'[q] = "none"
      BY <1>0, <2>1, <2>3 DEF RowsOK
    <3> QED
      BY <2>1, <2>3, <3>1 DEF Frame, Idle, Exists, TERMINAL_STATUSES
  <2> QED
    BY <2>2, <2>3
<1>2. CASE CancelCall
  <2>1. pc' = pc
    BY <1>2 DEF CancelCall, CancelRead, CancelWrite, tvars
  <2>2. RowKept(q) \/ (RowMoved(q) /\ status'[q] = "CANCELLED")
    BY <1>0, <1>2 DEF CancelCall, CancelRead, CancelWrite, CancelInv, rvars, RowsOK, SetStatus,
       MayBecome, RowKept, RowMoved
  <2>3. Asked(q) => Asked(q)'
    BY <2>1, <2>2 DEF Asked, RowKept, TERMINAL_STATUSES
  <2>4. Frame(q)
    BY <2>1, <2>2, <2>3, RowFrame
  <2> QED
    BY <2>1, <2>2, <2>4 DEF Idle, RowKept, TERMINAL_STATUSES
<1>3. CASE Crash
  <2>1. RowKept(q)
    BY <1>3 DEF Crash, rvars, RowKept
  <2>2. pc'[q] = IF pc[q] \in Live THEN "ended" ELSE pc[q]
    BY <1>3 DEF Crash
  <2>3. "none" \notin Live /\ "ask" \in Live
    BY DEF Live, Inside
  <2>4. Asked(q) => Asked(q)'
    BY <2>1, <2>2, <2>3 DEF Asked, RowKept
  <2>5. Frame(q)
    BY <2>1, <2>2, <2>3, <2>4, RowFrame
  <2> QED
    BY <2>1, <2>2, <2>3, <2>5 DEF Idle, RowKept
<1>4. CASE Restart
  <2>1. /\ pc' = pc /\ about' = about
        /\ status'[q] = IF Active(q) THEN "FAILED" ELSE status[q]
    BY <1>4 DEF Restart, tvars
  <2> QED
    BY <2>1 DEF Frame, Idle, Active, Exists, Asked, TERMINAL_STATUSES
<1> QED
  BY <1>1, <1>2, <1>3, <1>4

\* A restart leaves no run active; nothing else starts the process.
LEMMA ProcessStep ==
    ASSUME TypeOK, Next
    PROVE  Process /\ (~Crash /\ up => up')
<1>1. ASSUME NEW r \in Runs, Harness(r) \/ Surroundings(r) \/ AskUser(r)
      PROVE  up' = up
  BY <1>1, TaskStepAlone DEF Alone
<1>2. ASSUME CancelCall \/ \E p, r \in Runs : RecoverAs(p, r)
      PROVE  up' = up
  BY <1>2 DEF CancelCall, CancelRead, CancelWrite, RecoverAs
<1>3. CASE Crash
  BY <1>3 DEF Crash, Process
<1>4. CASE Restart
  BY <1>4 DEF Restart, Process, Active, Exists, TERMINAL_STATUSES
<1> QED
  BY <1>1, <1>2, <1>3, <1>4 DEF Next, Process

LEMMA AskFrame ==
    ASSUME TypeOK, TaskInv, NEW r \in Runs, AskUser(r)
    PROVE  /\ \A q \in Runs : Frame(q) /\ Idle(q)
           /\ pc[r] # "none" /\ ~Asked(r)
           /\ pc'[r] # "none" /\ Asked(r)'
<1>0. TasksOK
  BY TypeParts
<1>1. Alone(r) /\ pc'[r] = "ask" /\ pc[r] = "tool" /\ status' = status /\ about' = about
  BY <1>0, TaskStepAlone DEF AskUser, Goto, TasksOK, rvars
<1>2. ASSUME NEW q \in Runs \ {r}
      PROVE  Frame(q) /\ Idle(q)
  BY <1>1, <1>2, SameFrame DEF Alone
<1>3. ~Asked(r) /\ Asked(r)'
  BY <1>1 DEF AskUser, Asked, TERMINAL_STATUSES
<1>4. Frame(r) /\ Idle(r)
  BY <1>1, <1>3 DEF Frame, Idle, Exists
<1> QED
  BY <1>1, <1>2, <1>3, <1>4

-----------------------------------------------------------------------------
(***************************************************************************)
(* What keeps the parts of CardsInv.                                       *)
(***************************************************************************)
LEMMA CardKept ==
    ASSUME CardsOK, NEW p \in Runs, CardInv(p), \A r \in Runs : TokenInv(r) /\ Frame(r),
           card'[p].child = card[p].child,
           card[p].saved => card'[p].saved,
           card'[p].saved => card[p].saved \/ (pc'[p] # "none" /\ Asked(p)'),
           card'[p].due => card[p].due \/ card'[p].saved,
           \A r \in Runs : token[r] # "none" => token'[r] # "none"
    PROVE  CardInv(p)'
<1>1. card[p].child \in Runs \cup {NoRun}
  BY DEF CardsOK, CardRecord
<1>2. card'[p].saved => pc'[p] # "none" /\ Asked(p)'
  BY DEF CardInv, Frame
<1>3. ~card'[p].saved => card'[p].child = NoRun /\ ~card'[p].due
  BY DEF CardInv
<1>4. ASSUME card[p].child # NoRun
      PROVE  token'[card[p].child] # "none" /\ about'[card[p].child].parent = p
  <2>1. card[p].child \in Runs /\ token[card[p].child] # "none" /\ about[card[p].child].parent = p
    BY <1>1, <1>4 DEF CardInv
  <2> QED
    BY <2>1 DEF TokenInv, Frame
<1> QED
  BY <1>2, <1>3, <1>4 DEF CardInv

\* The parent of a child with a token is there.
LEMMA ParentExists ==
    ASSUME TaskInv, NEW r \in Runs, TokenInv(r), token[r] # "none", \A p \in Runs : CardInv(p)
    PROVE  about[r].parent \in Runs /\ Exists(about[r].parent)
<1>1. about[r].parent \in Runs /\ card[about[r].parent].child = r /\ r # NoRun
  BY RunAssumption DEF TokenInv
<1>2. pc[about[r].parent] # "none"
  BY <1>1 DEF CardInv
<1> QED
  BY <1>1, <1>2 DEF TaskInv

LEMMA TokenKept ==
    ASSUME TaskInv, NEW r \in Runs, TokenInv(r), \A p \in Runs : CardInv(p) /\ Frame(p),
           token[r] # "none",
           card'[about[r].parent].child = card[about[r].parent].child,
           token'[r] \in {"valid", "expired"} => pc'[r] = "none"
    PROVE  TokenInv(r)'
<1>1. about[r].parent \in Runs /\ Exists(about[r].parent)
  BY ParentExists
<1>2. Exists(r)' /\ about'[r] = about[r] /\ about'[about[r].parent] = about[about[r].parent]
  BY <1>1 DEF TokenInv, Frame
<1> QED
  BY <1>1, <1>2 DEF TokenInv

LEMMA ChildKept ==
    ASSUME RowsOK, TaskInv, NEW r \in Runs, ChildInv(r), \A p \in Runs : Frame(p),
           Idle(r), Process,
           token[r] = "consumed" => token'[r] = "consumed",
           \A k \in Claims : claim[k].result = "resumed" => claim'[k] = claim[k],
           up' => \A k \in Claims : claim[k].run = r /\ (claim[k].at = "claimed" \/ claim[k].result = "gone")
                    => claim'[k].run = r /\ (claim'[k].at = "claimed" \/ claim'[k].result = "gone")
    PROVE  ChildInv(r)'
<1> SUFFICES ASSUME Exists(r)', about'[r].parent # NoRun
             PROVE  /\ pc'[r] # "none" =>
                         /\ status'[r] # "RECEIVED" /\ token'[r] = "consumed"
                         /\ status'[about'[r].parent] = "NEEDS_CLARIFICATION"
                         /\ \E k \in Claims : claim'[k].run = r /\ claim'[k].result = "resumed"
                    /\ up' /\ Active(r)' /\ status'[r] # "RECEIVED" /\ pc'[r] = "none" =>
                         \E k \in Claims : /\ claim'[k].run = r
                                           /\ claim'[k].at = "claimed" \/ claim'[k].result = "gone"
  BY Zenon DEF ChildInv
<1>1. CASE ~Exists(r)
  <2>1. status'[r] = "RECEIVED" /\ pc'[r] = "none"
    BY <1>1 DEF Frame
  <2> QED
    BY <2>1
<1>2. CASE Exists(r)
  <2>0. about'[r] = about[r]
    BY <1>2 DEF Frame
  <2>1. about[r].parent \in Runs
    <3>1. about[r] \in About
      BY <1>2 DEF RowsOK, TaskInv
    <3> QED
      BY <2>0, <3>1 DEF About
  <2>2. ASSUME pc'[r] # "none"
        PROVE  /\ status'[r] # "RECEIVED" /\ token'[r] = "consumed"
               /\ status'[about'[r].parent] = "NEEDS_CLARIFICATION"
               /\ \E k \in Claims : claim'[k].run = r /\ claim'[k].result = "resumed"
    <3>1. pc[r] # "none"
      BY <1>2, <2>2 DEF Idle
    <3>2. /\ status[r] # "RECEIVED" /\ token[r] = "consumed"
          /\ status[about[r].parent] = "NEEDS_CLARIFICATION"
          /\ \E k \in Claims : claim[k].run = r /\ claim[k].result = "resumed"
      BY <1>2, <2>0, <3>1 DEF ChildInv
    <3>3. status'[r] # "RECEIVED" /\ status'[about[r].parent] = "NEEDS_CLARIFICATION"
      BY <1>2, <2>1, <3>2 DEF Frame, TERMINAL_STATUSES
    <3> QED
      BY <2>0, <3>2, <3>3
  <2>3. ASSUME up', Active(r)', status'[r] # "RECEIVED", pc'[r] = "none"
        PROVE  \E k \in Claims : /\ claim'[k].run = r
                                 /\ claim'[k].at = "claimed" \/ claim'[k].result = "gone"
    <3>1. pc[r] = "none" /\ up
      BY <2>3 DEF Frame, Process
    <3>2. status'[r] = status[r]
      BY <1>2, <2>3, <3>1 DEF Idle, Active
    <3>3. Active(r) /\ status[r] # "RECEIVED"
      BY <2>3, <3>2 DEF Active, Exists
    <3>4. PICK k \in Claims : claim[k].run = r /\ (claim[k].at = "claimed" \/ claim[k].result = "gone")
      BY <1>2, <2>0, <3>1, <3>3 DEF ChildInv
    <3> QED
      BY <2>3, <3>4
  <2> QED
    BY <2>2, <2>3
<1> QED
  BY <1>1, <1>2

LEMMA ClaimKept ==
    ASSUME TaskInv, NEW k \in Claims, ClaimInv(k), claim'[k] = claim[k],
           \A r \in Runs : Frame(r) /\ TokenInv(r) /\ CardInv(r),
           claim[k].at \in {"checked", "consumed", "claimed"} => up',
           \A r \in Runs : /\ token[r] # "none" => token'[r] # "none"
                           /\ token[r] = "consumed" => token'[r] = "consumed",
           claim[k].at \in {"consumed", "claimed"} => Idle(claim[k].run)
    PROVE  ClaimInv(k)'
<1> DEFINE r == claim[k].run
<1>1. ASSUME claim[k].at = "checked" \/ Owns(k)
      PROVE  /\ r \in Runs /\ token'[r] # "none" /\ Exists(r)
             /\ status'[about'[r].parent] = "NEEDS_CLARIFICATION"
  <2>1. r \in Runs /\ token[r] # "none" /\ status[about[r].parent] = "NEEDS_CLARIFICATION"
    BY <1>1 DEF ClaimInv
  <2>2. about[r].parent \in Runs /\ Exists(r)
    BY <2>1, ParentExists DEF TokenInv
  <2> QED
    BY <2>1, <2>2 DEF Frame, TERMINAL_STATUSES
<1>2. Owns(k) => token'[r] = "consumed"
  BY <1>1 DEF ClaimInv
<1>3. ASSUME claim[k].at \in {"consumed", "claimed"}
      PROVE  pc'[r] = "none"
  BY <1>1, <1>3 DEF ClaimInv, Owns, Idle
<1>4. ASSUME claim[k].at = "claimed"
      PROVE  status'[r] # "RECEIVED"
  BY <1>1, <1>4 DEF ClaimInv, Owns, Frame
<1>5. ASSUME claim[k].result = "resumed"
      PROVE  pc'[r] # "none"
  BY <1>1, <1>5 DEF ClaimInv, Owns, Frame
<1>6. Owns(k)' <=> Owns(k)
  BY DEF Owns
<1>7. claim[k].at # "done" => claim[k].result = "none"
  BY DEF ClaimInv
<1> HIDE DEF r
<1>8. claim'[k].run = r
  BY DEF r
<1> QED
  BY <1>1, <1>2, <1>3, <1>4, <1>5, <1>6, <1>7, <1>8 DEF ClaimInv

-----------------------------------------------------------------------------
(***************************************************************************)
(* Steps that leave children where they are: those of the runs, the        *)
(* saving and the expiry of cards, and a crash.                            *)
(***************************************************************************)
CardStep(p) ==
    /\ card'[p].child = card[p].child
    /\ card[p].saved => card'[p].saved
    /\ card'[p].saved => card[p].saved \/ (pc'[p] # "none" /\ Asked(p)')
    /\ card'[p].due => card[p].due \/ card'[p].saved

TokenStep(r) == token'[r] = token[r] \/ (token[r] = "valid" /\ token'[r] = "expired")

ClaimStep(k) ==
    \/ /\ claim'[k] = claim[k]
       /\ claim[k].at \in {"checked", "consumed", "claimed"} => up'
    \/ /\ claim[k].at \notin {"idle", "done"} /\ ~up'
       /\ claim'[k] = [at |-> "done", run |-> claim[k].run, result |-> "lost"]

LEMMA StepKeepsCards ==
    ASSUME RunsInv, CardsOK, CardsInv, Process,
           \A r \in Runs : Frame(r) /\ Idle(r) /\ CardStep(r) /\ TokenStep(r),
           \A k \in Claims : ClaimStep(k)
    PROVE  CardsInv'
<1>0. /\ RowsOK /\ TaskInv
      /\ \A r \in Runs : CardInv(r) /\ TokenInv(r) /\ ChildInv(r)
      /\ \A k \in Claims : ClaimInv(k)
      /\ OneOwner
  BY TypeParts DEF RunsInv, CardsInv
<1>1. \A r \in Runs : /\ token[r] # "none" <=> token'[r] # "none"
                      /\ token[r] = "consumed" => token'[r] = "consumed"
                      /\ token'[r] \in {"valid", "expired"} => token[r] \in {"valid", "expired"}
  BY DEF TokenStep
<1>2. ASSUME NEW r \in Runs
      PROVE  CardInv(r)'
  BY <1>0, <1>1, CardKept DEF CardStep
<1>3. ASSUME NEW r \in Runs
      PROVE  TokenInv(r)'
  <2>1. CASE token[r] = "none"
    BY <1>1, <2>1 DEF TokenInv
  <2>2. CASE token[r] # "none"
    <3>1. about[r].parent \in Runs
      BY <1>0, <2>2 DEF TokenInv
    <3>2. token'[r] \in {"valid", "expired"} => pc'[r] = "none"
      BY <1>0, <1>1 DEF TokenInv, Idle
    <3> QED
      BY <1>0, <2>2, <3>1, <3>2, TokenKept DEF CardStep
  <2> QED
    BY <2>1, <2>2
<1>4. ASSUME NEW k \in Claims
      PROVE  \/ /\ claim'[k] = claim[k]
                /\ claim[k].at \in {"checked", "consumed", "claimed"} => up'
             \/ /\ claim[k].at \notin {"idle", "done"} /\ ~up'
                /\ claim'[k].at = "done" /\ claim'[k].result = "lost"
  <2>1. CASE claim'[k] = [at |-> "done", run |-> claim[k].run, result |-> "lost"]
    <3>1. claim'[k].at = "done" /\ claim'[k].result = "lost"
      BY <2>1
    <3> QED
      BY <3>1 DEF ClaimStep
  <2>2. CASE claim'[k] # [at |-> "done", run |-> claim[k].run, result |-> "lost"]
    BY <2>2, Zenon DEF ClaimStep
  <2> QED
    BY <2>1, <2>2
<1>5. ASSUME NEW r \in Runs
      PROVE  ChildInv(r)'
  <2>1. ASSUME NEW k \in Claims, claim[k].result = "resumed"
        PROVE  claim'[k] = claim[k]
    <3>1. claim[k].at = "done"
      BY <1>0, <2>1 DEF ClaimInv
    <3> QED
      BY <1>4, <3>1
  <2>2. up' => \A k \in Claims : claim'[k] = claim[k]
    BY <1>4
  <2> QED
    BY <1>0, <1>1, <2>1, <2>2, ChildKept
<1>6. ASSUME NEW k \in Claims
      PROVE  ClaimInv(k)'
  <2>1. CASE /\ claim'[k] = claim[k]
             /\ claim[k].at \in {"checked", "consumed", "claimed"} => up'
    <3>1. claim[k].at \in {"consumed", "claimed"} => Idle(claim[k].run)
      BY <1>0 DEF ClaimInv, Owns
    <3> QED
      BY <1>0, <1>1, <2>1, <3>1, ClaimKept
  <2>2. CASE claim'[k].at = "done" /\ claim'[k].result = "lost"
    BY <2>2 DEF ClaimInv, Owns
  <2> QED
    BY <1>4, <2>1, <2>2
<1>7. OneOwner'
  <2>1. ASSUME NEW k \in Claims, Owns(k)'
        PROVE  Owns(k) /\ claim'[k].run = claim[k].run
    BY <1>4, <2>1 DEF Owns
  <2> QED
    BY <1>0, <2>1 DEF OneOwner
<1> QED
  BY <1>2, <1>3, <1>5, <1>6, <1>7 DEF CardsInv

LEMMA NextRuns ==
    ASSUME RunsInv, Next
    PROVE  RunsInv'
BY NextType, NextCancel, NextSound, SoundParts, AnswerParts DEF RunsInv, Sound, Task, TaskInv

LEMMA SameRuns ==
    ASSUME RunsInv, UNCHANGED vars
    PROVE  RunsInv'
BY SoundParts DEF RunsInv, vars, TypeOK, TaskInv, CancelInv, Sound, Task, Budget, Owned, Exists, Active

\* The calls of a process that goes on.
LEMMA CallsGoOn ==
    ASSUME CardsInv, up => up', UNCHANGED claim
    PROVE  \A k \in Claims : ClaimStep(k)
BY DEF CardsInv, ClaimInv, ClaimStep

LEMMA RunsStep ==
    ASSUME RunsInv, CardsOK, CardsInv, UNCHANGED cvars,
           \/ \E r \in Runs : Harness(r) \/ Surroundings(r)
           \/ \E p, r \in Runs : RecoverAs(p, r)
           \/ CancelCall \/ Restart
    PROVE  RunsInv' /\ CardsOK' /\ CardsInv'
<1>1. Next /\ (up => up')
  <2>1. ASSUME NEW r \in Runs, Harness(r) \/ Surroundings(r)
        PROVE  up' = up
    BY <2>1, TaskStepAlone DEF Alone, RunsInv
  <2> QED
    BY <2>1 DEF Next, RecoverAs, CancelCall, CancelRead, CancelWrite, Restart
<1>2. \A q \in Runs : Frame(q) /\ Idle(q)
  BY TaskFrame, OtherFrame DEF RunsInv
<1>3. Process
  BY <1>1, ProcessStep DEF RunsInv
<1>4. /\ \A r \in Runs : CardStep(r) /\ TokenStep(r)
      /\ \A k \in Claims : ClaimStep(k)
  BY <1>1, CallsGoOn DEF cvars, CardStep, TokenStep
<1>5. CardsOK'
  BY DEF CardsOK, cvars
<1> QED
  BY <1>1, <1>2, <1>3, <1>4, <1>5, NextRuns, StepKeepsCards

LEMMA SaveCardStep ==
    ASSUME RunsInv, CardsOK, CardsInv, NEW r \in Runs, SaveCard(r)
    PROVE  RunsInv' /\ CardsOK' /\ CardsInv'
<1> DEFINE new == [child |-> NoRun, saved |-> TRUE, due |-> FALSE]
<1>1. AskUser(r) /\ Next /\ UNCHANGED <<token, claim>>
  BY DEF SaveCard, Next
<1>2. /\ \A q \in Runs : Frame(q) /\ Idle(q)
      /\ pc[r] # "none" /\ ~Asked(r) /\ pc'[r] # "none" /\ Asked(r)'
  BY <1>1, AskFrame DEF RunsInv
<1>3. ~card[r].saved
  BY <1>2, Zenon DEF CardsInv, CardInv
<1>4. card[r].child = NoRun
  BY <1>3 DEF CardsInv, CardInv
<1>5. new \in CardRecord /\ new.child = NoRun /\ new.saved
  BY DEF CardRecord
<1>6. card' = [card EXCEPT ![r] = new]
  BY <1>3, Zenon DEF SaveCard
<1> HIDE DEF new
<1>7. card' \in [Runs -> CardRecord] /\ card'[r] = new /\ \A p \in Runs \ {r} : card'[p] = card[p]
  BY <1>5, <1>6 DEF CardsOK
<1>8. CardsOK'
  BY <1>1, <1>7 DEF CardsOK
<1>9. \A p \in Runs : CardStep(p)
  BY <1>2, <1>4, <1>5, <1>7, Zenon DEF CardStep
<1>10. Process /\ up' = up
  BY <1>1, ProcessStep DEF RunsInv, AskUser
<1>11. /\ \A q \in Runs : TokenStep(q)
       /\ \A k \in Claims : ClaimStep(k)
  BY <1>1, <1>10, CallsGoOn DEF TokenStep
<1> QED
  BY <1>1, <1>2, <1>8, <1>9, <1>10, <1>11, NextRuns, StepKeepsCards

LEMMA ExpiryStep ==
    ASSUME RunsInv, CardsOK, CardsInv, NEW r \in Runs, CardExpires(r) \/ TokenExpires(r)
    PROVE  RunsInv' /\ CardsOK' /\ CardsInv'
<1>1. UNCHANGED vars /\ UNCHANGED claim
  BY DEF CardExpires, TokenExpires
<1>2. \A q \in Runs : Frame(q) /\ Idle(q)
  BY <1>1, SameFrame DEF vars
<1>3. Process /\ \A k \in Claims : ClaimStep(k)
  BY <1>1, CallsGoOn DEF Process, vars
<1>4. ASSUME CardExpires(r)
      PROVE  CardsOK' /\ \A p \in Runs : CardStep(p) /\ TokenStep(p)
  <2> DEFINE new == [card[r] EXCEPT !.due = TRUE]
  <2>1. card[r] \in CardRecord
    BY DEF CardsOK
  <2>2. new \in CardRecord /\ new.child = card[r].child /\ new.saved = card[r].saved
    BY <2>1 DEF CardRecord
  <2>3. card' = [card EXCEPT ![r] = new] /\ UNCHANGED token /\ card[r].saved
    BY <1>4, Zenon DEF CardExpires
  <2> HIDE DEF new
  <2>4. card' \in [Runs -> CardRecord] /\ card'[r] = new /\ \A p \in Runs \ {r} : card'[p] = card[p]
    BY <2>2, <2>3 DEF CardsOK
  <2>5. CardsOK'
    BY <1>1, <2>3, <2>4 DEF CardsOK
  <2>6. \A p \in Runs : CardStep(p)
    BY <2>2, <2>3, <2>4, Zenon DEF CardStep
  <2> QED
    BY <2>3, <2>5, <2>6 DEF TokenStep
<1>5. ASSUME TokenExpires(r)
      PROVE  CardsOK' /\ \A p \in Runs : CardStep(p) /\ TokenStep(p)
  <2>1. /\ token[r] = "valid" /\ token'[r] = "expired"
        /\ \A p \in Runs \ {r} : token'[p] = token[p]
        /\ UNCHANGED card
    BY <1>5 DEF TokenExpires, CardsOK
  <2>2. CardsOK'
    BY <1>1, <1>5 DEF CardsOK, TokenExpires
  <2> QED
    BY <2>1, <2>2 DEF CardStep, TokenStep
<1> QED
  BY <1>1, <1>2, <1>3, <1>4, <1>5, SameRuns, StepKeepsCards

LEMMA CrashStep ==
    ASSUME RunsInv, CardsOK, CardsInv, CrashAll
    PROVE  RunsInv' /\ CardsOK' /\ CardsInv'
<1>1. Crash /\ Next /\ ~up' /\ UNCHANGED <<card, token>>
  BY DEF CrashAll, Next, Crash
<1>2. \A q \in Runs : Frame(q) /\ Idle(q)
  BY <1>1, OtherFrame DEF RunsInv
<1>3. \A r \in Runs : CardStep(r) /\ TokenStep(r)
  BY <1>1 DEF CardStep, TokenStep
<1>4. ASSUME NEW k \in Claims
      PROVE  ClaimStep(k) /\ claim'[k] \in ClaimRecord
  <2>1. claim[k] \in ClaimRecord
    BY DEF CardsOK
  <2>2. CASE claim[k].at \in {"idle", "done"}
    <3>1. claim'[k] = claim[k]
      BY <2>2 DEF CrashAll
    <3> QED
      BY <2>1, <2>2, <3>1 DEF ClaimStep
  <2>3. CASE claim[k].at \notin {"idle", "done"}
    <3>1. claim'[k] = [at |-> "done", run |-> claim[k].run, result |-> "lost"]
      BY <2>3 DEF CrashAll
    <3>2. claim'[k] \in ClaimRecord
      BY <2>1, <3>1 DEF ClaimRecord, ClaimResult
    <3> QED
      BY <1>1, <2>3, <3>1, <3>2 DEF ClaimStep
  <2> QED
    BY <2>2, <2>3
<1>5. claim' \in [Claims -> ClaimRecord]
  <2>1. claim' = [k \in Claims |-> claim'[k]]
    BY DEF CrashAll
  <2> QED
    BY <1>4, <2>1
<1>6. CardsOK'
  BY <1>1, <1>5 DEF CardsOK
<1>7. Process
  BY <1>1 DEF Process
<1> QED
  BY <1>1, <1>2, <1>3, <1>4, <1>6, <1>7, NextRuns, StepKeepsCards

-----------------------------------------------------------------------------
(***************************************************************************)
(* The calls of the resume endpoint.                                       *)
(***************************************************************************)
OthersWait(k) == \A l \in Claims \ {k} : claim'[l] = claim[l]

ClaimIs(k, a, r, result) ==
    /\ claim' \in [Claims -> ClaimRecord]
    /\ claim'[k].at = a /\ claim'[k].run = r /\ claim'[k].result = result
    /\ OthersWait(k)

LEMMA ClaimSet ==
    ASSUME CardsOK, NEW k \in Claims, NEW a \in {"idle", "checked", "consumed", "claimed", "done"},
           NEW r \in Runs \cup {NoRun}, NEW result \in ClaimResult,
           claim' = [claim EXCEPT ![k] = [at |-> a, run |-> r, result |-> result]]
    PROVE  ClaimIs(k, a, r, result)
<1> DEFINE new == [at |-> a, run |-> r, result |-> result]
<1>1. new \in ClaimRecord /\ new.at = a /\ new.run = r /\ new.result = result
  BY DEF ClaimRecord
<1> HIDE DEF new
<1>2. claim' = [claim EXCEPT ![k] = new]
  BY Zenon DEF new
<1> QED
  BY <1>1, <1>2 DEF CardsOK, ClaimIs, OthersWait

LEMMA ClaimMoves ==
    ASSUME CardsOK, NEW k \in Claims, NEW a \in {"idle", "checked", "consumed", "claimed", "done"},
           claim' = [claim EXCEPT ![k].at = a]
    PROVE  ClaimIs(k, a, claim[k].run, claim[k].result)
<1> DEFINE new == [claim[k] EXCEPT !.at = a]
<1>1. claim[k] \in ClaimRecord
  BY DEF CardsOK
<1>2. new \in ClaimRecord /\ new.at = a /\ new.run = claim[k].run /\ new.result = claim[k].result
  BY <1>1 DEF ClaimRecord
<1>3. claim' = [claim EXCEPT ![k] = new]
  BY Zenon
<1> HIDE DEF new
<1> QED
  BY <1>2, <1>3 DEF CardsOK, ClaimIs, OthersWait

LEMMA ClaimValues ==
    {"none", "resumed", "replay", "invalid", "expired", "error", "gone", "lost"} \subseteq ClaimResult
BY DEF ClaimResult

\* A call that does not move a run keeps the cards' invariant when it keeps
\* its own and takes no token that is another call's.
LEMMA CallKeepsCards ==
    ASSUME RunsInv, CardsOK, CardsInv, NEW k \in Claims, UNCHANGED vars, UNCHANGED card, OthersWait(k),
           \A r \in Runs : token'[r] = token[r] \/ (token[r] = "valid" /\ token'[r] = "consumed"),
           claim[k].result # "resumed",
           claim[k].at = "claimed" => claim'[k].run = claim[k].run /\ claim'[k].result = "gone",
           claim[k].result # "gone",
           ClaimInv(k)',
           Owns(k)' => \A l \in Claims \ {k} : Owns(l) => claim[l].run # claim'[k].run
    PROVE  CardsInv'
<1>0. /\ RowsOK /\ TaskInv
      /\ \A r \in Runs : CardInv(r) /\ TokenInv(r) /\ ChildInv(r)
      /\ \A l \in Claims : ClaimInv(l)
      /\ OneOwner
  BY TypeParts DEF RunsInv, CardsInv
<1>1. Process /\ (up' <=> up) /\ \A q \in Runs : Frame(q) /\ Idle(q)
  BY SameFrame DEF vars, Process
<1>2. UNCHANGED <<pc, about>>
  BY DEF vars
<1>3. ASSUME NEW r \in Runs
      PROVE  CardInv(r)'
  BY <1>0, <1>1, CardKept
<1>4. ASSUME NEW r \in Runs
      PROVE  TokenInv(r)'
  <2>1. CASE token[r] = "none"
    BY <2>1 DEF TokenInv
  <2>2. CASE token[r] # "none"
    <3>1. token'[r] \in {"valid", "expired"} => pc'[r] = "none"
      BY <1>0, <1>2 DEF TokenInv
    <3> QED
      BY <1>0, <1>1, <2>2, <3>1, TokenKept
  <2> QED
    BY <2>1, <2>2
<1>5. ASSUME NEW r \in Runs
      PROVE  ChildInv(r)'
  <2>1. \A l \in Claims : claim[l].result = "resumed" => claim'[l] = claim[l]
    BY DEF OthersWait
  <2>2. \A l \in Claims : claim[l].run = r /\ (claim[l].at = "claimed" \/ claim[l].result = "gone")
                => claim'[l].run = r /\ (claim'[l].at = "claimed" \/ claim'[l].result = "gone")
    BY DEF OthersWait
  <2>3. token[r] = "consumed" => token'[r] = "consumed"
    OBVIOUS
  <2> QED
    BY <1>0, <1>1, <2>1, <2>2, <2>3, ChildKept
<1>6. ASSUME NEW l \in Claims
      PROVE  ClaimInv(l)'
  <2>1. CASE l = k
    BY <2>1
  <2>2. CASE l # k
    <3>1. claim'[l] = claim[l]
      BY <2>2 DEF OthersWait
    <3>2. claim[l].at \in {"checked", "consumed", "claimed"} => up'
      BY <1>0, <1>1 DEF ClaimInv
    <3>3. claim[l].at \in {"consumed", "claimed"} => Idle(claim[l].run)
      BY <1>0, <1>1 DEF ClaimInv, Owns
    <3>4. \A r \in Runs : /\ token[r] # "none" => token'[r] # "none"
                          /\ token[r] = "consumed" => token'[r] = "consumed"
      OBVIOUS
    <3> QED
      BY <1>0, <1>1, <3>1, <3>2, <3>3, <3>4, ClaimKept
  <2> QED
    BY <2>1, <2>2
<1>7. OneOwner'
  <2>1. \A l \in Claims \ {k} : (Owns(l)' <=> Owns(l)) /\ claim'[l].run = claim[l].run
    BY DEF Owns, OthersWait
  <2> QED
    BY <1>0, <2>1 DEF OneOwner
<1> QED
  BY <1>3, <1>4, <1>5, <1>6, <1>7 DEF CardsInv

LEMMA ReadStep ==
    ASSUME RunsInv, CardsOK, CardsInv, NEW k \in Claims,
           \/ \E r \in Runs : ClaimRead(k, r)
           \/ ClaimAtomic(k) \/ ConsumeToken(k) \/ ClientGone(k)
    PROVE  RunsInv' /\ CardsOK' /\ CardsInv'
<1>0. UNCHANGED vars /\ UNCHANGED card
  BY DEF ClaimRead, ClaimAtomic, ConsumeToken, ClientGone
<1>1. UNCHANGED <<up, pc, status, about>>
  BY <1>0 DEF vars
<1>2. ClaimInv(k) /\ claim[k].at # "done" /\ claim[k].result = "none"
  <2>1. claim[k].at # "done" /\ ClaimInv(k)
    BY DEF ClaimRead, ClaimAtomic, ConsumeToken, ClientGone, CardsInv
  <2> QED
    BY <2>1 DEF ClaimInv
<1>3. claim[k].run \in Runs \cup {NoRun}
  BY DEF CardsOK, ClaimRecord
<1> USE ClaimValues
<1>4. ASSUME NEW r \in Runs, ClaimRead(k, r)
      PROVE  CardsOK' /\ CardsInv'
  <2>1. UNCHANGED token /\ up /\ claim[k].at = "idle" /\ token[r] # "none"
    BY <1>4 DEF ClaimRead
  <2>2. \/ \E result \in {"replay", "invalid"} : ClaimIs(k, "done", r, result)
        \/ ClaimIs(k, "checked", r, "none") /\ status[about[r].parent] = "NEEDS_CLARIFICATION"
    BY <1>4, ClaimSet DEF ClaimRead, Answered
  <2>3. CardsOK' /\ OthersWait(k) /\ ~Owns(k)'
    BY <1>0, <2>1, <2>2 DEF CardsOK, ClaimIs, Owns
  <2>4. ClaimInv(k)'
    BY <1>1, <2>1, <2>2 DEF ClaimInv, ClaimIs, Owns
  <2> QED
    BY <1>0, <1>2, <2>1, <2>3, <2>4, CallKeepsCards
<1>5. ASSUME ClaimAtomic(k)
      PROVE  CardsOK' /\ CardsInv'
  <2>1. UNCHANGED token /\ claim[k].at = "checked"
    BY <1>5 DEF ClaimAtomic
  <2>2. ClaimIs(k, "done", claim[k].run, "error")
    BY <1>3, <1>5, ClaimSet DEF ClaimAtomic, Answered
  <2>3. CardsOK' /\ OthersWait(k) /\ ~Owns(k)'
    BY <1>0, <2>1, <2>2 DEF CardsOK, ClaimIs, Owns
  <2>4. ClaimInv(k)'
    BY <2>2 DEF ClaimInv, ClaimIs, Owns
  <2> QED
    BY <1>0, <1>2, <2>1, <2>3, <2>4, CallKeepsCards
<1>6. ASSUME ClientGone(k)
      PROVE  CardsOK' /\ CardsInv'
  <2>1. UNCHANGED token /\ claim[k].at = "claimed"
    BY <1>6 DEF ClientGone
  <2>2. ClaimIs(k, "done", claim[k].run, "gone")
    BY <1>3, <1>6, ClaimSet DEF ClientGone, Answered
  <2>3. CardsOK' /\ OthersWait(k) /\ ~Owns(k)'
    BY <1>0, <2>1, <2>2 DEF CardsOK, ClaimIs, Owns
  <2>4. ClaimInv(k)'
    BY <2>2 DEF ClaimInv, ClaimIs, Owns
  <2> QED
    BY <1>0, <1>2, <2>1, <2>2, <2>3, <2>4, CallKeepsCards DEF ClaimIs
<1>7. ASSUME ConsumeToken(k)
      PROVE  CardsOK' /\ CardsInv'
  <2> DEFINE r == claim[k].run
  <2>1. /\ claim[k].at = "checked" /\ r \in Runs /\ token[r] # "none" /\ up
        /\ status[about[r].parent] = "NEEDS_CLARIFICATION" /\ pc[r] = pc[r]
    BY <1>2, <1>7 DEF ConsumeToken, ClaimInv
  <2>2. token[r] \in {"valid", "expired", "consumed"}
    BY <2>1 DEF CardsOK
  <2>3. CASE token[r] # "valid"
    <3>1. UNCHANGED token /\ \E result \in {"replay", "expired"} : Answered(k, r, result)
      BY <1>7, <2>2, <2>3, Zenon DEF ConsumeToken
    <3>2. \E result \in {"replay", "expired"} : ClaimIs(k, "done", r, result)
      BY <1>3, <3>1, ClaimSet DEF Answered
    <3>3. CardsOK' /\ OthersWait(k) /\ ~Owns(k)'
      BY <1>0, <3>1, <3>2 DEF CardsOK, ClaimIs, Owns
    <3>4. ClaimInv(k)'
      BY <3>2 DEF ClaimInv, ClaimIs, Owns
    <3> QED
      BY <1>0, <1>2, <2>1, <3>1, <3>3, <3>4, CallKeepsCards
  <2>4. CASE token[r] = "valid"
    <3>1. token' = [token EXCEPT ![r] = "consumed"] /\ claim' = [claim EXCEPT ![k].at = "consumed"]
      BY <1>7, <2>4, Zenon DEF ConsumeToken
    <3>2. ClaimIs(k, "consumed", r, "none")
      BY <1>2, <3>1, ClaimMoves
    <3>3. CardsOK' /\ OthersWait(k)
      BY <1>0, <2>1, <3>1, <3>2 DEF CardsOK, ClaimIs
    <3>4. token'[r] = "consumed" /\ \A q \in Runs \ {r} : token'[q] = token[q]
      BY <2>1, <3>1 DEF CardsOK
    <3>5. pc[r] = "none"
      BY <2>1, <2>4 DEF CardsInv, TokenInv
    <3>6. ClaimInv(k)'
      BY <1>1, <2>1, <3>2, <3>4, <3>5 DEF ClaimInv, ClaimIs, Owns
    <3>7. \A l \in Claims \ {k} : Owns(l) => claim[l].run # claim'[k].run
      BY <2>4, <3>2 DEF CardsInv, ClaimInv, ClaimIs
    <3>8. \A q \in Runs : token'[q] = token[q] \/ (token[q] = "valid" /\ token'[q] = "consumed")
      BY <2>4, <3>4
    <3> QED
      BY <1>0, <1>2, <2>1, <3>3, <3>6, <3>7, <3>8, CallKeepsCards
  <2> QED
    BY <2>3, <2>4
<1> QED
  BY <1>0, <1>4, <1>5, <1>6, <1>7, SameRuns

-----------------------------------------------------------------------------
(***************************************************************************)
(* The steps of a call and of an answer that change runs.                  *)
(***************************************************************************)
\* No cancel answer is disturbed by a step that keeps closed runs.
LEMMA CancelStays ==
    ASSUME CancelInv, UNCHANGED cancel, \A r \in Runs : Frame(r)
    PROVE  CancelInv'
BY DEF CancelInv, Frame

LEMMA StagesOfChild ==
    Stages("resumed") \in Seq(RunStatus) /\ Stages("resumed") # <<>>
<1>1. Stages("resumed") = <<"LINKING", "PLANNING", "GENERATING">>
  BY DEF Stages
<1>2. <<"LINKING", "PLANNING", "GENERATING">> \in Seq(RunStatus)
  BY DEF RunStatus
<1>3. <<"LINKING", "PLANNING", "GENERATING">> # <<>>
  OBVIOUS
<1> QED
  BY <1>1, <1>2, <1>3, Zenon

\* A call that holds a child moves on; it stays the only one.
LEMMA HolderKeepsCards ==
    ASSUME RunsInv, CardsOK, CardsInv, NEW k \in Claims, NEW h \in Runs, OthersWait(k),
           UNCHANGED <<up, card, token, about>>, Process,
           claim[k].at \in {"consumed", "claimed"},
           claim[k].run = h, claim'[k].run = h,
           \A q \in Runs : Frame(q),
           \A q \in Runs \ {h} : Idle(q),
           ClaimInv(k)', ChildInv(h)'
    PROVE  CardsInv'
<1>0. /\ RowsOK /\ TaskInv
      /\ \A r \in Runs : CardInv(r) /\ TokenInv(r) /\ ChildInv(r)
      /\ \A l \in Claims : ClaimInv(l)
      /\ OneOwner
  BY TypeParts DEF RunsInv, CardsInv
<1>1. Owns(k) /\ token[h] = "consumed"
  BY <1>0 DEF ClaimInv, Owns
<1>2. ASSUME NEW r \in Runs
      PROVE  CardInv(r)'
  BY <1>0, CardKept
<1>3. ASSUME NEW r \in Runs
      PROVE  TokenInv(r)'
  <2>1. CASE token[r] = "none"
    BY <2>1 DEF TokenInv
  <2>2. CASE token[r] # "none"
    <3>1. token'[r] \in {"valid", "expired"} => pc'[r] = "none"
      BY <1>0, <1>1 DEF TokenInv, Idle
    <3> QED
      BY <1>0, <2>2, <3>1, TokenKept
  <2> QED
    BY <2>1, <2>2
<1>4. ASSUME NEW r \in Runs
      PROVE  ChildInv(r)'
  <2>1. CASE r = h
    BY <2>1
  <2>2. CASE r # h
    <3>1. \A l \in Claims : claim[l].result = "resumed" => claim'[l] = claim[l]
      BY <1>0 DEF OthersWait, ClaimInv
    <3>2. \A l \in Claims : claim[l].run = r /\ (claim[l].at = "claimed" \/ claim[l].result = "gone")
                => claim'[l].run = r /\ (claim'[l].at = "claimed" \/ claim'[l].result = "gone")
      BY <2>2 DEF OthersWait
    <3> QED
      BY <1>0, <2>2, <3>1, <3>2, ChildKept
  <2> QED
    BY <2>1, <2>2
<1>5. \A l \in Claims \ {k} : (Owns(l)' <=> Owns(l)) /\ claim'[l].run = claim[l].run
  BY DEF Owns, OthersWait
<1>6. ASSUME NEW l \in Claims
      PROVE  ClaimInv(l)'
  <2>1. CASE l = k
    BY <2>1
  <2>2. CASE l # k
    <3>1. claim'[l] = claim[l]
      BY <2>2 DEF OthersWait
    <3>2. claim[l].at \in {"checked", "consumed", "claimed"} => up'
      BY <1>0 DEF ClaimInv
    <3>3. claim[l].at \in {"consumed", "claimed"} => Idle(claim[l].run)
      BY <1>0, <1>1, <2>2 DEF ClaimInv, Owns, OneOwner
    <3> QED
      BY <1>0, <3>1, <3>2, <3>3, ClaimKept
  <2> QED
    BY <2>1, <2>2
<1>7. OneOwner'
  BY <1>0, <1>1, <1>5 DEF OneOwner
<1> QED
  BY <1>2, <1>3, <1>4, <1>6, <1>7 DEF CardsInv

LEMMA StartStep ==
    ASSUME RunsInv, CardsOK, CardsInv, NEW k \in Claims, StartChild(k)
    PROVE  RunsInv' /\ CardsOK' /\ CardsInv'
<1> PICK r \in Runs : r = claim[k].run
  BY DEF StartChild, CardsInv, ClaimInv, Owns
<1>0. /\ RowsOK /\ TasksOK /\ TypeOK /\ TaskInv /\ CancelInv /\ \A q \in Runs : Sound(q)
      /\ ran \in [Runs -> Nat] /\ lost \subseteq Runs
  BY TypeParts DEF RunsInv
<1>1. UNCHANGED <<store, up, pc, todo, why, cancel, ran, lost, card, token>>
  BY DEF StartChild, tvars
<1>2. claim[k].at = "consumed" /\ claim[k].result = "none" /\ ClaimInv(k)
  BY DEF StartChild, CardsInv, ClaimInv
<1>3. /\ token[r] = "consumed" /\ pc[r] = "none" /\ up
      /\ status[about[r].parent] = "NEEDS_CLARIFICATION"
  BY <1>2 DEF ClaimInv, Owns
<1>4. Process
  BY <1>1 DEF Process
<1> USE ClaimValues, FailureValues
<1>5. ASSUME MayBecome(r, "CONTEXT_BUILDING")
      PROVE  RunsInv' /\ CardsOK' /\ CardsInv'
  <2>1. SetStatus(r, "CONTEXT_BUILDING", "none") /\ claim' = [claim EXCEPT ![k].at = "claimed"]
    BY <1>5, Zenon DEF StartChild
  <2>2. RowsOK' /\ \A q \in Runs : RowKept(q) \/ RowMoved(q)
    BY <1>0, <1>3, <1>5, <2>1, SetStatusType, SetStatusMoves
  <2>3. UNCHANGED <<tools, about>>
    BY <2>1 DEF SetStatus
  <2>4. TasksOK'
    BY <1>0, <1>1 DEF TasksOK
  <2>5. TypeOK'
    BY <1>0, <1>1, <2>2, <2>4, StepType
  <2>6. ASSUME NEW q \in Runs
        PROVE  Sound(q)'
    BY <1>0, <1>1, <2>2, <2>3, RowsOnlySound
  <2>7. /\ status'[r] = "CONTEXT_BUILDING"
        /\ \A q \in Runs \ {r} : status'[q] = status[q]
    BY <1>0, <1>3, <2>1 DEF SetStatus, RowsOK
  <2>8. ASSUME NEW q \in Runs \ {r}
        PROVE  Frame(q) /\ Idle(q)
    BY <1>1, <2>3, <2>7, SameFrame
  <2>9. Frame(r)
    BY <1>1, <1>3, <2>2, RowFrame
  <2>10. RunsInv'
    BY <1>0, <1>1, <2>5, <2>6, <2>8, <2>9, CancelStays DEF RunsInv, Sound, Task, TaskInv
  <2>11. ClaimIs(k, "claimed", r, "none")
    BY <1>2, <2>1, ClaimMoves
  <2>12. CardsOK' /\ OthersWait(k)
    BY <1>1, <2>11 DEF CardsOK, ClaimIs
  <2>13. about[r].parent \in Runs \ {r}
    <3>1. status[r] # "NEEDS_CLARIFICATION"
      BY <1>5 DEF MayBecome, ALLOWED_TRANSITIONS
    <3> QED
      BY <1>3, <3>1 DEF CardsInv, TokenInv
  <2>14. ClaimInv(k)'
    BY <1>1, <1>3, <2>3, <2>7, <2>11, <2>13 DEF ClaimInv, ClaimIs, Owns
  <2>15. ChildInv(r)'
    BY <1>1, <1>3, <2>11 DEF ChildInv, ClaimIs
  <2>16. CardsInv'
    BY <1>1, <1>2, <1>4, <2>3, <2>8, <2>9, <2>11, <2>12, <2>14, <2>15, HolderKeepsCards DEF ClaimIs
  <2> QED
    BY <2>10, <2>12, <2>16
<1>6. ASSUME ~MayBecome(r, "CONTEXT_BUILDING")
      PROVE  RunsInv' /\ CardsOK' /\ CardsInv'
  <2>1. Answered(k, r, "error") /\ UNCHANGED rvars
    BY <1>6, Zenon DEF StartChild
  <2>2. UNCHANGED vars /\ UNCHANGED <<status, about>>
    BY <1>1, <2>1 DEF vars, rvars
  <2>3. ClaimIs(k, "done", r, "error")
    BY <1>3, <2>1, ClaimSet DEF Answered
  <2>4. CardsOK' /\ OthersWait(k) /\ ~Owns(k)'
    BY <1>1, <2>3 DEF CardsOK, ClaimIs, Owns
  <2>5. ClaimInv(k)'
    BY <2>3 DEF ClaimInv, ClaimIs, Owns
  <2> QED
    BY <1>1, <1>2, <2>2, <2>4, <2>5, SameRuns, CallKeepsCards
<1> QED
  BY <1>5, <1>6

LEMMA ResumeStep ==
    ASSUME RunsInv, CardsOK, CardsInv, NEW k \in Claims, Resume(k)
    PROVE  RunsInv' /\ CardsOK' /\ CardsInv'
<1> PICK r \in Runs : r = claim[k].run
  BY DEF Resume, CardsInv, ClaimInv, Owns
<1>0. /\ RowsOK /\ TasksOK /\ TypeOK /\ TaskInv /\ CancelInv /\ \A q \in Runs : Sound(q)
      /\ ran \in [Runs -> Nat] /\ lost \subseteq Runs
  BY TypeParts DEF RunsInv
<1>1. /\ UNCHANGED <<store, up, why, cancel, ran, lost, card, token>> /\ UNCHANGED rvars
      /\ UNCHANGED <<status, about, tools>>
  BY DEF Resume, rvars
<1>2. claim[k].at = "claimed" /\ claim[k].result = "none" /\ ClaimInv(k)
  BY DEF Resume, CardsInv, ClaimInv
<1>3. /\ token[r] = "consumed" /\ pc[r] = "none" /\ up /\ status[r] # "RECEIVED"
      /\ status[about[r].parent] = "NEEDS_CLARIFICATION"
  BY <1>2 DEF ClaimInv, Owns
<1>4. Exists(r) /\ about[r].parent \in Runs
  BY <1>3 DEF CardsInv, TokenInv
<1>5. /\ pc' = [pc EXCEPT ![r] = "stage"] /\ todo' = [todo EXCEPT ![r] = Stages("resumed")]
      /\ Answered(k, r, "resumed")
  BY Zenon DEF Resume
<1>6. TasksOK' /\ pc'[r] = "stage" /\ todo'[r] # <<>>
  BY <1>0, <1>1, <1>3, <1>5, StagesOfChild, PcValues DEF TasksOK
<1>7. TypeOK'
  BY <1>0, <1>1, <1>6, SameRows, StepType
<1>8. Alone(r)
  BY <1>0, <1>1, <1>5 DEF Alone, TasksOK
<1>9. Sound(r)'
  <2>1. Task(r) /\ Budget(r)
    BY <1>0, <1>3 DEF Sound
  <2>2. "stage" \in Live
    BY DEF Live, Inside
  <2>3. Task(r)'
    BY <1>1, <1>3, <1>4, <1>6, <2>1 DEF Task, Exists
  <2>4. Budget(r)'
    BY <1>1, <1>6, <2>1 DEF Budget
  <2> QED
    BY <1>6, <2>2, <2>3, <2>4 DEF Sound, Owned
<1>10. \A q \in Runs : Sound(q)'
  BY <1>0, <1>3, <1>8, <1>9, AloneIsSound
<1>11. \A q \in Runs \ {r} : Frame(q) /\ Idle(q)
  BY <1>8, SameFrame DEF Alone
<1>12. Frame(r)
  BY <1>1, <1>3, <1>4, <1>6 DEF Frame, Exists
<1>13. RunsInv'
  BY <1>0, <1>1, <1>7, <1>10, <1>11, <1>12, CancelStays DEF RunsInv, Sound, Task, TaskInv
<1>14. ClaimIs(k, "done", r, "resumed")
  BY <1>3, <1>5, ClaimSet, ClaimValues DEF Answered
<1>15. CardsOK' /\ OthersWait(k)
  BY <1>1, <1>14 DEF CardsOK, ClaimIs
<1>16. ClaimInv(k)'
  BY <1>1, <1>3, <1>6, <1>14 DEF ClaimInv, ClaimIs, Owns
<1>17. ChildInv(r)'
  BY <1>1, <1>3, <1>6, <1>14 DEF ChildInv, ClaimIs
<1>18. Process
  BY <1>1 DEF Process
<1>19. CardsInv'
  BY <1>1, <1>2, <1>11, <1>12, <1>14, <1>15, <1>16, <1>17, <1>18, HolderKeepsCards DEF ClaimIs
<1> QED
  BY <1>13, <1>15, <1>19

LEMMA AnswerStep ==
    ASSUME RunsInv, CardsOK, CardsInv, NEW p \in Runs, NEW r \in Runs, Answer(p, r)
    PROVE  RunsInv' /\ CardsOK' /\ CardsInv'
<1>0. /\ RowsOK /\ TasksOK /\ TypeOK /\ TaskInv /\ CancelInv /\ \A q \in Runs : Sound(q)
      /\ ran \in [Runs -> Nat] /\ lost \subseteq Runs
      /\ \A q \in Runs : CardInv(q) /\ TokenInv(q) /\ ChildInv(q)
      /\ \A k \in Claims : ClaimInv(k)
      /\ OneOwner
  BY TypeParts DEF RunsInv, CardsInv
<1>1. /\ UNCHANGED <<store, up, cancel, ran, lost, claim, tools>> /\ UNCHANGED tvars
      /\ UNCHANGED <<pc, todo, why>>
      /\ up /\ ~Exists(r) /\ pc[r] = "none"
      /\ about[p].kind = "READ_QUERY"
      /\ token' = [token EXCEPT ![r] = "valid"]
  BY DEF Answer, InsertRun, tvars
<1>2. card[p].saved /\ card[p].child = NoRun
  BY Zenon DEF Answer
<1>3. Exists(p) /\ p # r
  BY <1>0, <1>1, <1>2 DEF CardInv, TaskInv
<1>4. about[p].conversation \in Conversations
  <2>1. about[p] \in About
    BY <1>0, <1>3 DEF RowsOK, TaskInv
  <2> QED
    BY <2>1 DEF About
<1>5. RowsOK'
  BY <1>0, <1>4, InsertRunType DEF Answer, OperationKind, Modes
<1> DEFINE row == [kind |-> "READ_QUERY", conversation |-> about[p].conversation,
                   parent |-> p, mode |-> "resumed"]
<1>6. row.parent = p /\ row # Nothing
  BY DEF Nothing
<1>7. about' = [about EXCEPT ![r] = row] /\ status' = [status EXCEPT ![r] = "RECEIVED"]
  BY DEF Answer, InsertRun
<1> HIDE DEF row
<1>8. /\ status'[r] = "RECEIVED" /\ about'[r] = row
      /\ \A q \in Runs \ {r} : status'[q] = status[q] /\ about'[q] = about[q]
  BY <1>0, <1>7 DEF RowsOK
<1>9. /\ token'[r] = "valid"
      /\ \A q \in Runs \ {r} : token'[q] = token[q]
      /\ token' \in [Runs -> {"none", "valid", "expired", "consumed"}]
  BY <1>1 DEF CardsOK
<1> DEFINE new == [card[p] EXCEPT !.child = r]
<1>10. card[p] \in CardRecord
  BY DEF CardsOK
<1>11. new \in CardRecord /\ new.child = r /\ new.saved = card[p].saved
  BY <1>10 DEF CardRecord
<1>12. card' = [card EXCEPT ![p] = new]
  BY Zenon DEF Answer
<1> HIDE DEF new
<1>13. card' \in [Runs -> CardRecord] /\ card'[p] = new /\ \A q \in Runs \ {p} : card'[q] = card[q]
  BY <1>11, <1>12 DEF CardsOK
<1>14. CardsOK'
  BY <1>1, <1>9, <1>13 DEF CardsOK
<1>15. \A q \in Runs \ {r} : Frame(q) /\ Idle(q)
  BY <1>1, <1>8, SameFrame
<1>16. Frame(r) /\ Idle(r)
  BY <1>1, <1>8 DEF Frame, Idle, Exists, TERMINAL_STATUSES
<1>17. RunsInv'
  <2>1. TasksOK'
    BY <1>0, <1>1 DEF TasksOK
  <2>2. TypeOK'
    BY <1>0, <1>1, <1>5, <2>1, StepType
  <2>3. ASSUME NEW q \in Runs \ {r}
        PROVE  Sound(q)'
    <3>1. UNCHANGED <<up, pc, todo, tools, ran, lost>> /\ status'[q] = status[q] /\ about'[q] = about[q]
      BY <1>1, <1>8
    <3> QED
      BY <1>0, <3>1 DEF Sound, Task, Budget, Owned, Exists, Active
  <2>4. Sound(r)'
    <3>1. Exists(r)' /\ about'[r] # Nothing /\ about'[r].parent # NoRun
      BY <1>6, <1>8, RunAssumption DEF Exists
    <3>2. Task(r)' /\ Owned(r)'
      BY <1>1, <3>1 DEF Task, Owned, Live, Inside
    <3>3. Budget(r)'
      BY <1>0, <1>1 DEF Sound, Budget
    <3> QED
      BY <3>2, <3>3 DEF Sound
  <2>5. CancelInv'
    BY <1>0, <1>1, <1>15, <1>16, CancelStays
  <2> QED
    BY <2>2, <2>3, <2>4, <2>5 DEF RunsInv, Sound, Task, TaskInv
<1>18. token[r] = "none" /\ \A q \in Runs : token[q] # "none" => token'[q] # "none"
  BY <1>0, <1>1, <1>9 DEF TokenInv, CardsOK
<1>19. ASSUME NEW q \in Runs \ {p}
       PROVE  CardInv(q)'
  BY <1>0, <1>13, <1>15, <1>16, <1>18, CardKept
<1>20. CardInv(p)'
  <2>1. card'[p].saved /\ card'[p].child = r
    BY <1>2, <1>11, <1>13, Zenon
  <2>2. pc'[p] # "none" /\ Asked(p)'
    BY <1>0, <1>2, <1>3, <1>15 DEF CardInv, Frame
  <2> QED
    BY <1>6, <1>8, <1>9, <2>1, <2>2 DEF CardInv
<1>21. ASSUME NEW q \in Runs \ {r}
       PROVE  TokenInv(q)'
  <2>1. CASE token[q] = "none"
    BY <1>9, <2>1 DEF TokenInv
  <2>2. CASE token[q] # "none"
    <3>1. card[about[q].parent].child = q /\ about[q].parent \in Runs
      BY <1>0, <2>2 DEF TokenInv
    <3>2. about[q].parent # p
      BY <1>2, <3>1, RunAssumption
    <3>3. card'[about[q].parent].child = card[about[q].parent].child
      BY <1>13, <3>1, <3>2
    <3>4. token'[q] \in {"valid", "expired"} => pc'[q] = "none"
      BY <1>0, <1>1, <1>9 DEF TokenInv
    <3> QED
      BY <1>0, <1>15, <1>16, <2>2, <3>3, <3>4, TokenKept
  <2> QED
    BY <2>1, <2>2
<1>22. TokenInv(r)'
  <2>1. Exists(r)' /\ about'[r].parent = p /\ about'[p].kind = "READ_QUERY"
    BY <1>1, <1>3, <1>6, <1>8 DEF Exists
  <2>2. card'[p].child = r /\ pc'[r] = "none"
    BY <1>1, <1>11, <1>13
  <2> QED
    BY <2>1, <2>2 DEF TokenInv
<1>23. Process
  BY <1>1 DEF Process
<1>24. ASSUME NEW q \in Runs
       PROVE  ChildInv(q)'
  <2>1. token[q] = "consumed" => token'[q] = "consumed"
    BY <1>9, <1>18
  <2> QED
    BY <1>0, <1>1, <1>15, <1>16, <1>23, <2>1, ChildKept
<1>25. ASSUME NEW k \in Claims
       PROVE  ClaimInv(k)'
  <2>1. claim[k].at \in {"consumed", "claimed"} => Idle(claim[k].run)
    BY <1>0, <1>15, <1>16 DEF ClaimInv, Owns
  <2>2. \A q \in Runs : token[q] = "consumed" => token'[q] = "consumed"
    BY <1>9, <1>18
  <2> QED
    BY <1>0, <1>1, <1>15, <1>16, <1>18, <2>1, <2>2, ClaimKept
<1>26. OneOwner'
  BY <1>0, <1>1 DEF OneOwner, Owns
<1> QED
  BY <1>14, <1>17, <1>19, <1>20, <1>21, <1>22, <1>24, <1>25, <1>26 DEF CardsInv

-----------------------------------------------------------------------------
(***************************************************************************)
(* A run waits for its user only after its card is saved.                  *)
(***************************************************************************)
Plain(l) == \A i \in DOMAIN l : l[i] # "NEEDS_CLARIFICATION"

\* A step of a task other than the question itself.
WaitStep(r) ==
    /\ pc'[r] = "ask" => pc[r] = "ask"
    /\ status'[r] = "NEEDS_CLARIFICATION" => status[r] = "NEEDS_CLARIFICATION" \/ pc[r] = "ask"
    /\ Plain(todo'[r])

LEMMA PlainTail ==
    ASSUME NEW l \in Seq(RunStatus), l # <<>>, Plain(l)
    PROVE  Head(l) # "NEEDS_CLARIFICATION" /\ Plain(Tail(l))
<1> DEFINE t == Tail(l)
<1>1. Len(l) \in Nat /\ Len(l) >= 1 /\ DOMAIN l = 1 .. Len(l) /\ Head(l) = l[1]
  BY EmptySeq
<1>2. t \in Seq(RunStatus) /\ Len(t) = Len(l) - 1 /\ \A i \in 1 .. Len(t) : t[i] = l[i + 1]
  BY HeadTailProperties
<1> HIDE DEF t
<1>3. DOMAIN t = 1 .. Len(t)
  BY <1>2
<1>4. \A i \in 1 .. Len(t) : i + 1 \in DOMAIN l
  BY <1>1, <1>2
<1>5. Plain(t)
  BY <1>2, <1>3, <1>4 DEF Plain
<1>6. Head(l) # "NEEDS_CLARIFICATION"
  BY <1>1 DEF Plain
<1> QED
  BY <1>5, <1>6 DEF t

LEMMA PlainStages ==
    ASSUME NEW m
    PROVE  Plain(Stages(m))
<1>1. CASE Stages(m) = <<"CONTEXT_BUILDING", "LINKING", "PLANNING", "GENERATING">>
  BY <1>1 DEF Plain
<1>2. CASE Stages(m) = <<"CONTEXT_READY", "MODEL_RUNNING">>
  BY <1>2 DEF Plain
<1>3. CASE Stages(m) = <<"LINKING", "PLANNING", "GENERATING">>
  BY <1>3 DEF Plain
<1> QED
  BY <1>1, <1>2, <1>3, Zenon DEF Stages

LEMMA PlainClosing ==
    ASSUME NEW r \in Runs
    PROVE  Plain(Closing(r))
<1>1. CASE Closing(r) = <<"VALIDATING", "EXECUTING", "VERIFYING", "COMPLETED">>
  BY <1>1 DEF Plain
<1>2. CASE Closing(r) = <<"COMPLETED">>
  BY <1>2 DEF Plain
<1>3. CASE Closing(r) = <<"VERIFYING", "COMPLETED">>
  BY <1>3 DEF Plain
<1> QED
  BY <1>1, <1>2, <1>3, Zenon DEF Closing

LEMMA TaskMoves ==
    ASSUME TasksOK, NEW r \in Runs, Plain(todo[r]),
           \/ \E l \in Pc \ {"ask"} : Goto(r, l)
           \/ \E s \in {"FAILED", "CANCELLED"}, f \in FailureType : Abort(r, s, f)
           \/ EndTask(r)
    PROVE  pc'[r] # "ask" /\ Plain(todo'[r])
<1>1. CASE \E l \in Pc \ {"ask"} : Goto(r, l)
  BY <1>1 DEF TasksOK, Goto
<1>2. ASSUME NEW s \in {"FAILED", "CANCELLED"}, NEW f \in FailureType, Abort(r, s, f)
      PROVE  pc'[r] # "ask" /\ Plain(todo'[r])
  <2>1. pc'[r] = "cleanup" /\ todo'[r] = <<s>>
    BY <1>2 DEF TasksOK, Abort
  <2>2. Plain(<<s>>)
    BY DEF Plain
  <2> QED
    BY <2>1, <2>2
<1>3. CASE EndTask(r)
  <2>1. pc'[r] = "ended" /\ todo'[r] = <<>>
    BY <1>3 DEF TasksOK, EndTask
  <2>2. Plain(<<>>)
    BY DEF Plain
  <2> QED
    BY <2>1, <2>2
<1> QED
  BY <1>1, <1>2, <1>3

LEMMA TaskWaits ==
    ASSUME TypeOK, TaskInv, NEW r \in Runs, Plain(todo[r]), Harness(r) \/ Surroundings(r)
    PROVE  WaitStep(r)
<1>0. RowsOK /\ TasksOK
  BY TypeParts
<1> USE PcValues, FailureValues
<1>1. CASE Advance(r)
  <2>1. todo[r] \in Seq(RunStatus) /\ todo[r] # <<>>
    BY <1>0, <1>1 DEF TasksOK, TaskInv, Advance
  <2>2. status'[r] = Head(todo[r]) /\ todo'[r] = Tail(todo[r])
    BY <1>0, <1>1 DEF Advance, SetStatus, RowsOK, TasksOK
  <2>3. pc'[r] \in {"stage", "close", "operate", "ended"}
    BY <1>0, <1>1 DEF Advance, TasksOK
  <2> QED
    BY <2>1, <2>2, <2>3, PlainTail DEF WaitStep
<1>2. CASE AdvanceRejected(r) \/ Timeout(r) \/ Disconnect(r) \/ Fault(r)
  BY <1>0, <1>2, TaskMoves DEF AdvanceRejected, Timeout, Disconnect, Fault, rvars, WaitStep
<1>3. CASE Hook(r)
  <2>1. CASE BeforeTool(r) \/ CountToolCall(r) \/ CountRetry(r) \/ AfterTool(r)
    <3>1. UNCHANGED status
      BY <2>1 DEF BeforeTool, CountToolCall, CountRetry, AfterTool, rvars
    <3>2. pc'[r] # "ask" /\ Plain(todo'[r])
      BY <1>0, <2>1, TaskMoves DEF BeforeTool, CountToolCall, CountRetry, AfterTool
    <3> QED
      BY <3>1, <3>2 DEF WaitStep
  <2>2. CASE RecheckRun(r)
    <3>1. UNCHANGED status /\ (Goto(r, "mark") \/ Goto(r, "tool"))
      BY <2>2 DEF RecheckRun, EnterTool, rvars
    <3> QED
      BY <1>0, <3>1, TaskMoves DEF WaitStep
  <2>3. CASE MarkToolRunning(r)
    <3>1. /\ Goto(r, "tool") \/ Abort(r, "FAILED", "error")
          /\ status'[r] \in {"TOOL_RUNNING", status[r]}
      BY <1>0, <2>3 DEF MarkToolRunning, EnterTool, SetStatus, RowsOK, rvars
    <3> QED
      BY <1>0, <3>1, TaskMoves DEF WaitStep
  <2>4. CASE UnmarkToolRunning(r)
    <3>1. /\ Goto(r, "operate") \/ Abort(r, "FAILED", "error")
          /\ status'[r] \in {"MODEL_RUNNING", "GENERATING", status[r]}
      BY <1>0, <2>4 DEF UnmarkToolRunning, SetStatus, RowsOK, rvars
    <3> QED
      BY <1>0, <3>1, TaskMoves DEF WaitStep
  <2> QED
    BY <1>3, <2>1, <2>2, <2>3, <2>4 DEF Hook
<1>4. CASE Pause(r)
  <2>1. pc[r] = "ask" /\ Goto(r, "return")
    BY <1>4 DEF Pause
  <2> QED
    BY <1>0, <2>1, TaskMoves DEF WaitStep
<1>5. CASE Verify(r)
  <2>1. UNCHANGED status
    BY <1>5 DEF Verify, rvars
  <2>2. CASE EndTask(r)
    BY <1>0, <2>1, <2>2, TaskMoves DEF WaitStep
  <2>3. CASE ~EndTask(r)
    <3>1. pc'[r] = "close" /\ todo'[r] = Closing(r)
      BY <1>0, <1>5, <2>3 DEF Verify, TasksOK
    <3> QED
      BY <2>1, <3>1, PlainClosing DEF WaitStep
  <2> QED
    BY <2>2, <2>3
<1>6. CASE Cleanup(r) \/ CleanupFails(r)
  <2>1. UNCHANGED status /\ (Goto(r, "finish") \/ EndTask(r))
    BY <1>6 DEF Cleanup, CleanupFails, rvars
  <2> QED
    BY <1>0, <2>1, TaskMoves DEF WaitStep
<1>7. CASE Finish(r)
  <2>1. EndTask(r) /\ status'[r] \in {Head(todo[r]), status[r]}
    BY <1>0, <1>7 DEF Finish, SetStatus, RowsOK, rvars
  <2>2. Head(todo[r]) \in {"FAILED", "CANCELLED"}
    BY <1>7 DEF Finish, TaskInv
  <2> QED
    BY <1>0, <2>1, <2>2, TaskMoves DEF WaitStep
<1>8. CASE Create(r)
  <2>1. PICK m \in {"enforce", "shadow"} : todo' = [todo EXCEPT ![r] = Stages(m)]
    BY <1>8 DEF Create
  <2>2. pc'[r] = "stage" /\ status'[r] = "RECEIVED" /\ todo'[r] = Stages(m)
    BY <1>0, <1>8, <2>1 DEF Create, InsertRun, RowsOK, TasksOK
  <2> QED
    BY <2>2, PlainStages DEF WaitStep
<1>9. CASE Checkpoint(r)
  BY <1>9 DEF Checkpoint, tvars, WaitStep
<1>10. CASE ToolReturns(r) \/ OperationEnds(r)
  <2>1. UNCHANGED status /\ \E l \in {"return", "retry", "verify"} : Goto(r, l)
    BY <1>10 DEF ToolReturns, OperationEnds, rvars
  <2> QED
    BY <1>0, <2>1, TaskMoves DEF WaitStep
<1> QED
  BY <1>1, <1>2, <1>3, <1>4, <1>5, <1>6, <1>7, <1>8, <1>9, <1>10 DEF Harness, Surroundings

\* What an action does to the cards and the tokens.
LEMMA CardsGrow ==
    ASSUME CardsOK, ClarNext, NEW p \in Runs
    PROVE  card[p].saved => card'[p].saved
<1>1. ASSUME NEW r \in Runs, SaveCard(r)
      PROVE  card[p].saved => card'[p].saved
  BY <1>1 DEF SaveCard, CardsOK, CardRecord
<1>2. ASSUME NEW r \in Runs, CardExpires(r)
      PROVE  card[p].saved => card'[p].saved
  BY <1>2 DEF CardExpires, CardsOK, CardRecord
<1>3. ASSUME NEW q \in Runs, NEW r \in Runs, Answer(q, r)
      PROVE  card[p].saved => card'[p].saved
  <2>1. card' = [card EXCEPT ![q].child = r]
    BY <1>3 DEF Answer
  <2> QED
    BY <2>1 DEF CardsOK, CardRecord
<1>4. ASSUME UNCHANGED card
      PROVE  card[p].saved => card'[p].saved
  BY <1>4
<1> QED
  BY <1>1, <1>2, <1>3, <1>4
     DEF ClarNext, Claiming, TokenExpires, ClaimRead, ClaimAtomic, ConsumeToken, StartChild,
         Resume, ClientGone, CrashAll, cvars

\* What the steps of the calls, of the process and of recovery do to the runs.
NoneWaits(q) == status'[q] = "NEEDS_CLARIFICATION" => status[q] = "NEEDS_CLARIFICATION"

LEMMA OtherWaits ==
    ASSUME RunsInv, \A q \in Runs : Plain(todo[q]),
           (\E p, r \in Runs : RecoverAs(p, r)) \/ CancelCall \/ Crash \/ Restart
    PROVE  \A q \in Runs : WaitStep(q) /\ NoneWaits(q)
<1>0. RowsOK /\ TasksOK /\ CancelInv
  BY TypeParts DEF RunsInv
<1> SUFFICES ASSUME NEW q \in Runs
             PROVE  WaitStep(q) /\ NoneWaits(q)
  OBVIOUS
<1>1. ASSUME NEW p \in Runs, NEW r \in Runs, RecoverAs(p, r)
      PROVE  WaitStep(q) /\ NoneWaits(q)
  BY <1>0, <1>1 DEF RecoverAs, InsertRun, RowsOK, tvars, WaitStep, NoneWaits
<1>2. CASE CancelCall
  <2>1. UNCHANGED tvars
    BY <1>2 DEF CancelCall, CancelRead, CancelWrite
  <2>2. status'[q] \in {status[q], "CANCELLED"}
    BY <1>0, <1>2 DEF CancelCall, CancelRead, CancelWrite, CancelInv, SetStatus, RowsOK, rvars
  <2> QED
    BY <2>1, <2>2 DEF tvars, WaitStep, NoneWaits
<1>3. CASE Crash
  <2>1. UNCHANGED status /\ todo'[q] = <<>> /\ pc'[q] \in {pc[q], "ended"}
    BY <1>3 DEF Crash, rvars
  <2>2. Plain(<<>>)
    BY DEF Plain
  <2> QED
    BY <2>1, <2>2 DEF WaitStep, NoneWaits
<1>4. CASE Restart
  BY <1>4 DEF Restart, tvars, WaitStep, NoneWaits
<1> QED
  BY <1>1, <1>2, <1>3, <1>4

LEMMA RunsWait ==
    ASSUME RunsInv, WaitInv,
           \/ \E r \in Runs : Harness(r) \/ Surroundings(r)
           \/ \E p, r \in Runs : RecoverAs(p, r)
           \/ CancelCall \/ Crash \/ Restart
    PROVE  \A q \in Runs : WaitStep(q)
<1>1. \A q \in Runs : Plain(todo[q])
  BY DEF WaitInv, Plain
<1>2. ASSUME NEW r \in Runs, Harness(r) \/ Surroundings(r), NEW q \in Runs
      PROVE  WaitStep(q)
  <2>1. CASE q = r
    BY <1>1, <1>2, <2>1, TaskWaits DEF RunsInv
  <2>2. CASE q # r
    <3>1. Alone(r)
      BY <1>2, TaskStepAlone DEF RunsInv
    <3> QED
      BY <1>1, <2>2, <3>1 DEF Alone, WaitStep
  <2> QED
    BY <2>1, <2>2
<1> QED
  BY <1>1, <1>2, OtherWaits

LEMMA NextWaits ==
    ASSUME RunsInv, CardsOK, CardsInv, WaitInv, ClarNext
    PROVE  WaitInv'
<1>0. RowsOK /\ TasksOK
  BY TypeParts DEF RunsInv
<1>a. \A q \in Runs : /\ pc[q] = "ask" \/ status[q] = "NEEDS_CLARIFICATION" => card[q].saved
                      /\ Plain(todo[q])
  BY DEF WaitInv, Plain
<1>1. ASSUME \A q \in Runs : WaitStep(q)
      PROVE  WaitInv'
  BY <1>a, <1>1, CardsGrow DEF WaitStep, WaitInv, Plain
<1>2. ASSUME UNCHANGED vars
      PROVE  WaitInv'
  <2>1. \A q \in Runs : WaitStep(q)
    BY <1>a, <1>2 DEF vars, tvars, rvars, WaitStep
  <2> QED
    BY <1>1, <2>1
<1>3. ASSUME NEW r \in Runs, SaveCard(r)
      PROVE  WaitInv'
  <2>1. AskUser(r) /\ card'[r].saved
    BY <1>3 DEF SaveCard, CardsOK
  <2>2. UNCHANGED <<status, todo>> /\ \A q \in Runs \ {r} : pc'[q] = pc[q]
    BY <1>0, <2>1 DEF AskUser, Goto, TasksOK, rvars
  <2> QED
    BY <1>a, <2>1, <2>2, CardsGrow DEF WaitInv, Plain
<1>4. ASSUME NEW p \in Runs, NEW r \in Runs, Answer(p, r)
      PROVE  WaitInv'
  <2>1. /\ UNCHANGED <<pc, todo>> /\ status'[r] = "RECEIVED"
        /\ \A q \in Runs \ {r} : status'[q] = status[q]
    BY <1>0, <1>4 DEF Answer, InsertRun, RowsOK, tvars
  <2>2. \A q \in Runs : WaitStep(q)
    BY <1>a, <2>1 DEF WaitStep
  <2> QED
    BY <1>1, <2>2
<1>5. ASSUME NEW k \in Claims, StartChild(k)
      PROVE  WaitInv'
  <2>1. UNCHANGED <<pc, todo>> /\ \A q \in Runs : status'[q] \in {status[q], "CONTEXT_BUILDING"}
    BY <1>0, <1>5 DEF StartChild, SetStatus, RowsOK, tvars, rvars
  <2>2. \A q \in Runs : WaitStep(q)
    BY <1>a, <2>1 DEF WaitStep
  <2> QED
    BY <1>1, <2>2
<1>6. ASSUME NEW k \in Claims, Resume(k)
      PROVE  WaitInv'
  <2> PICK r \in Runs : r = claim[k].run
    BY <1>6 DEF Resume, CardsInv, ClaimInv, Owns
  <2>1. /\ UNCHANGED status /\ pc'[r] = "stage" /\ todo'[r] = Stages("resumed")
        /\ \A q \in Runs \ {r} : pc'[q] = pc[q] /\ todo'[q] = todo[q]
    BY <1>0, <1>6 DEF Resume, TasksOK, rvars
  <2>2. \A q \in Runs : WaitStep(q)
    BY <1>a, <2>1, PlainStages DEF WaitStep
  <2> QED
    BY <1>1, <2>2
<1>7. ASSUME \/ \E r \in Runs : Harness(r) \/ Surroundings(r)
             \/ \E p, r \in Runs : RecoverAs(p, r)
             \/ CancelCall \/ CrashAll \/ Restart
      PROVE  WaitInv'
  BY <1>1, <1>7, RunsWait DEF CrashAll
<1>8. ASSUME \/ \E r \in Runs : CardExpires(r) \/ TokenExpires(r)
             \/ \E k \in Claims : (\E r \in Runs : ClaimRead(k, r)) \/ ClaimAtomic(k)
                                  \/ ConsumeToken(k) \/ ClientGone(k)
      PROVE  UNCHANGED vars
  BY <1>8 DEF CardExpires, TokenExpires, ClaimRead, ClaimAtomic, ConsumeToken, ClientGone
<1> QED
  BY <1>2, <1>3, <1>4, <1>5, <1>6, <1>7, <1>8 DEF ClarNext, Claiming

-----------------------------------------------------------------------------
(***************************************************************************)
(* The theorems.                                                           *)
(***************************************************************************)
LEMMA InitClar ==
    ASSUME ClarInit
    PROVE  ClarInv
<1>1. RunInv
  BY InitInv DEF ClarInit
<1>2. RunsInv
  BY <1>1, SoundParts DEF RunsInv, RunInv
<1>3. \A r \in Runs : ~Exists(r) /\ ~Active(r) /\ pc[r] = "none"
  BY DEF ClarInit, Init, Exists, Active
<1>4. ASSUME NEW r \in Runs
      PROVE  ~card[r].saved /\ ~card[r].due /\ card[r].child = NoRun /\ card[r] \in CardRecord /\ token[r] = "none"
  <2>1. card[r] = NoCard /\ token[r] = "none"
    BY DEF ClarInit
  <2> QED
    BY <2>1 DEF NoCard, CardRecord
<1>5. ASSUME NEW k \in Claims
      PROVE  /\ claim[k].at = "idle" /\ claim[k].result = "none"
             /\ claim[k] \in ClaimRecord
  <2>1. claim[k] = [at |-> "idle", run |-> NoRun, result |-> "none"]
    BY DEF ClarInit
  <2> QED
    BY <2>1 DEF ClaimRecord, ClaimResult
<1>6. CardsOK
  <2>1. /\ card = [r \in Runs |-> card[r]] /\ token = [r \in Runs |-> "none"]
        /\ claim = [k \in Claims |-> claim[k]]
    BY DEF ClarInit
  <2> QED
    BY <1>4, <1>5, <2>1 DEF CardsOK
<1>7. ASSUME NEW r \in Runs
      PROVE  CardInv(r) /\ TokenInv(r) /\ ChildInv(r)
  BY <1>3, <1>4 DEF CardInv, TokenInv, ChildInv
<1>8. /\ \A k \in Claims : ClaimInv(k)
      /\ OneOwner
  BY <1>5 DEF ClaimInv, OneOwner, Owns
<1>9. WaitInv
  BY <1>3 DEF WaitInv, ClarInit, Init
<1> QED
  BY <1>2, <1>6, <1>7, <1>8, <1>9, ClarParts DEF CardsInv

LEMMA NextClar ==
    ASSUME ClarInv, ClarNext
    PROVE  ClarInv'
<1>1. RunsInv /\ CardsOK /\ CardsInv /\ WaitInv
  BY ClarParts
<1>2. RunsInv' /\ CardsOK' /\ CardsInv'
  BY <1>1, RunsStep, SaveCardStep, ExpiryStep, AnswerStep, ReadStep, StartStep, ResumeStep, CrashStep
     DEF ClarNext, Claiming
<1>3. WaitInv'
  BY <1>1, NextWaits
<1>4. (RunsInv /\ CardsOK /\ CardsInv /\ WaitInv)' => ClarInv'
  BY ClarParts, PTL
<1> QED
  BY <1>2, <1>3, <1>4

LEMMA StutterClar ==
    ASSUME ClarInv, UNCHANGED <<vars, cvars>>
    PROVE  ClarInv'
<1>1. RunsInv /\ CardsOK /\ CardsInv /\ WaitInv
  BY ClarParts
<1>2. UNCHANGED vars /\ UNCHANGED <<card, token, claim>> /\ UNCHANGED <<up, status, about, pc, todo>>
  BY DEF cvars, vars
<1>3. RunsInv'
  BY <1>1, <1>2, SameRuns
<1>4. CardsOK'
  BY <1>1, <1>2 DEF CardsOK
<1>5. CardsInv'
  BY <1>1, <1>2 DEF CardsInv, CardInv, TokenInv, ChildInv, ClaimInv, OneOwner, Owns, Asked,
     Exists, Active
<1>6. WaitInv'
  BY <1>1, <1>2 DEF WaitInv
<1>7. (RunsInv /\ CardsOK /\ CardsInv /\ WaitInv)' => ClarInv'
  BY ClarParts, PTL
<1> QED
  BY <1>3, <1>4, <1>5, <1>6, <1>7

\* The inductive invariant of cards, tokens, children and calls, next to that
\* of the runs they are laid over: whatever answers, claims, cancels, timeouts,
\* expiries and crashes do, a token is spent for one call and a child with a
\* stream was resumed by one.
THEOREM ClarInvariance == ClarSpec => []ClarInv
<1>1. ClarInv /\ [ClarNext]_<<vars, cvars>> => ClarInv'
  BY NextClar, StutterClar
<1> QED
  BY <1>1, InitClar, PTL DEF ClarSpec

\* A card has one child at most, the one it names, however many answers,
\* restarts and cancels race for it.
THEOREM OneChildHolds == ClarSpec => []OneChildPerCard
<1>1. ClarInv => OneChildPerCard
  <2> SUFFICES ASSUME CardsOK, CardsInv, NEW p \in Runs
               PROVE  Children(p) = {card[p].child} \ {NoRun}
    BY ClarParts DEF OneChildPerCard
  <2>1. ASSUME NEW r \in Runs, token[r] # "none", about[r].parent = p
        PROVE  r = card[p].child /\ r # NoRun
    BY <2>1, RunAssumption DEF CardsInv, TokenInv
  <2>2. ASSUME card[p].child # NoRun
        PROVE  /\ card[p].child \in Runs
               /\ token[card[p].child] # "none" /\ about[card[p].child].parent = p
    BY <2>2 DEF CardsOK, CardRecord, CardsInv, CardInv
  <2> QED
    BY <2>1, <2>2 DEF Children
<1> QED
  BY <1>1, ClarInvariance, PTL

\* A resumed child's stream runs once, on a token spent for it, for a read
\* whose parent waits for the answer.
THEOREM ResumedOnceHolds == ClarSpec => []ResumedOnce
<1>1. ClarInv => ResumedOnce
  <2> SUFFICES ASSUME CardsInv, RunsInv, NEW r \in Runs,
                      Exists(r), about[r].parent # NoRun, pc[r] # "none"
               PROVE  /\ token[r] = "consumed"
                      /\ status[about[r].parent] = "NEEDS_CLARIFICATION"
                      /\ about[about[r].parent].kind = "READ_QUERY"
                      /\ Cardinality({k \in Claims : /\ claim[k].run = r
                                                     /\ claim[k].result = "resumed"}) = 1
    BY ClarParts DEF ResumedOnce
  <2>1. /\ token[r] = "consumed" /\ status[about[r].parent] = "NEEDS_CLARIFICATION"
        /\ \E k \in Claims : claim[k].run = r /\ claim[k].result = "resumed"
    BY DEF CardsInv, ChildInv
  <2>2. about[about[r].parent].kind = "READ_QUERY"
    BY <2>1 DEF CardsInv, TokenInv
  <2>3. PICK k \in Claims : claim[k].run = r /\ claim[k].result = "resumed"
    BY <2>1
  <2>4. \A l \in Claims : claim[l].run = r /\ claim[l].result = "resumed" => l = k
    BY <2>3 DEF CardsInv, OneOwner, Owns
  <2>5. {l \in Claims : claim[l].run = r /\ claim[l].result = "resumed"} = {k}
    BY <2>3, <2>4
  <2>6. Cardinality({k}) = 1
    BY FS_Singleton
  <2> QED
    BY <2>1, <2>2, <2>5, <2>6
<1> QED
  BY <1>1, ClarInvariance, PTL

\* A child that was claimed has a stream, a call that is about to start it, or
\* lost its client on the way; one that was not claimed has no stream.
THEOREM ClaimedChildrenOwned == ClarSpec => []ClaimedChildrenAreOwned
<1>1. ClarInv => ClaimedChildrenAreOwned
  <2> SUFFICES ASSUME CardsInv, ActiveRunsAreOwned, NEW r \in Runs,
                      Active(r), about[r].parent # NoRun, up
               PROVE  IF status[r] = "RECEIVED" THEN pc[r] = "none"
                      ELSE \/ pc[r] \in Live \/ r \in lost
                           \/ \E k \in Claims : /\ claim[k].run = r
                                                /\ claim[k].at = "claimed" \/ claim[k].result = "gone"
    BY DEF ClaimedChildrenAreOwned, ClarInv
  <2>1. Exists(r)
    BY DEF Active
  <2>2. status[r] = "RECEIVED" => pc[r] = "none"
    BY <2>1 DEF CardsInv, ChildInv
  <2>3. pc[r] \in Live \/ r \in lost \/ pc[r] = "none"
    BY DEF ActiveRunsAreOwned
  <2>4. status[r] # "RECEIVED" /\ pc[r] = "none" =>
           \E k \in Claims : /\ claim[k].run = r
                             /\ claim[k].at = "claimed" \/ claim[k].result = "gone"
    BY <2>1 DEF CardsInv, ChildInv
  <2> QED
    BY <2>2, <2>3, <2>4
<1> QED
  BY <1>1, ClarInvariance, PTL

-----------------------------------------------------------------------------
(***************************************************************************)
(* What a step may never do.                                               *)
(***************************************************************************)
FollowsTable ==
    \A r \in Runs : Exists(r) =>
      /\ status'[r] \in ALLOWED_TRANSITIONS(status[r]) \cup {status[r]}
      /\ status[r] \in TERMINAL_STATUSES => failure'[r] = failure[r]

LEMMA MovesFollow ==
    ASSUME \A r \in Runs : Exists(r) => RowKept(r) \/ RowMoved(r)
    PROVE  FollowsTable
<1>1. \A r \in Runs : RowMoved(r) => status[r] \notin TERMINAL_STATUSES
  BY TableType DEF RowMoved
<1> QED
  BY <1>1 DEF FollowsTable, RowKept, RowMoved

LEMMA CardsFollow ==
    ASSUME ClarInv, ClarNext
    PROVE  FollowsTable \/ UNCHANGED vars
<1>0. RunsInv /\ CardsOK /\ CardsInv /\ RowsOK
  BY ClarParts, TypeParts DEF RunsInv
<1>1. ASSUME Next
      PROVE  FollowsTable
  <2>1. RowStep
    BY <1>0, <1>1, NextRows DEF RunsInv
  <2> QED
    BY <2>1, TableStep DEF FollowsTable
<1>2. ASSUME NEW p \in Runs, NEW r \in Runs, Answer(p, r)
      PROVE  FollowsTable
  <2>1. ~Exists(r) /\ \A q \in Runs \ {r} : RowKept(q)
    BY <1>0, <1>2 DEF Answer, InsertRun, RowsOK, RowKept
  <2> QED
    BY <2>1, MovesFollow
<1>3. ASSUME NEW k \in Claims, StartChild(k)
      PROVE  FollowsTable
  <2>1. claim[k].run \in Runs
    BY <1>0, <1>3 DEF StartChild, CardsInv, ClaimInv, Owns
  <2>2. CASE MayBecome(claim[k].run, "CONTEXT_BUILDING")
    <3>1. SetStatus(claim[k].run, "CONTEXT_BUILDING", "none")
      BY <1>3, <2>2, Zenon DEF StartChild
    <3> QED
      BY <1>0, <2>1, <2>2, <3>1, SetStatusMoves, MovesFollow
  <2>3. CASE ~MayBecome(claim[k].run, "CONTEXT_BUILDING")
    <3>1. UNCHANGED rvars
      BY <1>3, <2>3, Zenon DEF StartChild
    <3> QED
      BY <3>1, MovesFollow DEF rvars, RowKept
  <2> QED
    BY <2>2, <2>3
<1>4. ASSUME NEW k \in Claims, Resume(k)
      PROVE  FollowsTable
  BY <1>4, MovesFollow DEF Resume, rvars, RowKept
<1>5. ASSUME \/ \E r \in Runs : CardExpires(r) \/ TokenExpires(r)
             \/ \E k \in Claims : (\E r \in Runs : ClaimRead(k, r)) \/ ClaimAtomic(k)
                                  \/ ConsumeToken(k) \/ ClientGone(k)
      PROVE  UNCHANGED vars
  BY <1>5 DEF CardExpires, TokenExpires, ClaimRead, ClaimAtomic, ConsumeToken, ClientGone
<1> QED
  BY <1>1, <1>2, <1>3, <1>4, <1>5 DEF ClarNext, Claiming, Next, SaveCard, CrashAll

\* Cards, claims and resumed children change the status of no run in a way that
\* ALLOWED_TRANSITIONS lacks, and no outcome of a closed one.
THEOREM ResumesFollowTable == ClarSpec => RunsFollowTheTable
<1>1. ClarInv /\ [ClarNext]_<<vars, cvars>> => [FollowsTable]_vars
  BY CardsFollow
<1> QED
  BY <1>1, ClarInvariance, PTL DEF ClarSpec, RunsFollowTheTable, FollowsTable

ExpiryKept ==
    /\ \A p \in Runs : card[p].due => card'[p] = card[p]
    /\ \A r \in Runs : token[r] = "expired" => token'[r] = "expired" /\ pc'[r] = pc[r]

LEMMA ExpiredStays ==
    ASSUME ClarInv, ClarNext
    PROVE  ExpiryKept
<1>0. /\ RunsInv /\ CardsOK /\ CardsInv /\ TaskInv
      /\ \A r \in Runs : CardInv(r) /\ TokenInv(r)
  BY ClarParts DEF RunsInv, CardsInv
<1>1. ASSUME NEW r \in Runs, token[r] = "expired"
      PROVE  pc[r] = "none" /\ Exists(r)
  BY <1>0, <1>1 DEF TokenInv
<1>2. ASSUME \A q \in Runs : Idle(q), UNCHANGED <<card, token>>
      PROVE  ExpiryKept
  BY <1>1, <1>2 DEF ExpiryKept, Idle
<1>3. ASSUME NEW r \in Runs, SaveCard(r)
      PROVE  ExpiryKept
  <2>1. AskUser(r) /\ UNCHANGED token /\ \A q \in Runs \ {r} : card'[q] = card[q]
    BY <1>0, <1>3 DEF SaveCard, CardsOK
  <2>2. pc[r] # "none" /\ ~Asked(r) /\ \A q \in Runs : Idle(q)
    BY <1>0, <2>1, AskFrame DEF RunsInv
  <2>3. ~card[r].due
    BY <1>0, <2>2, Zenon DEF CardInv
  <2> QED
    BY <1>1, <2>1, <2>2, <2>3 DEF ExpiryKept, Idle
<1>4. ASSUME NEW r \in Runs, CardExpires(r)
      PROVE  ExpiryKept
  <2>1. ~card[r].due /\ UNCHANGED token /\ UNCHANGED pc /\ \A q \in Runs \ {r} : card'[q] = card[q]
    BY <1>0, <1>4 DEF CardExpires, CardsOK, vars
  <2> QED
    BY <2>1 DEF ExpiryKept
<1>5. ASSUME NEW r \in Runs, TokenExpires(r)
      PROVE  ExpiryKept
  BY <1>0, <1>5 DEF TokenExpires, CardsOK, vars, ExpiryKept
<1>6. ASSUME NEW p \in Runs, NEW r \in Runs, Answer(p, r)
      PROVE  ExpiryKept
  <2>1. ~card[p].due /\ \A q \in Runs \ {p} : card'[q] = card[q]
    BY <1>0, <1>6 DEF Answer, CardsOK
  <2>2. UNCHANGED pc /\ ~Exists(r) /\ \A q \in Runs \ {r} : token'[q] = token[q]
    BY <1>0, <1>6 DEF Answer, InsertRun, tvars, CardsOK
  <2> QED
    BY <1>1, <2>1, <2>2 DEF ExpiryKept
<1>7. ASSUME NEW k \in Claims, ConsumeToken(k)
      PROVE  ExpiryKept
  <2> PICK r \in Runs : r = claim[k].run
    BY <1>0, <1>7 DEF ConsumeToken, CardsInv, ClaimInv
  <2>1. UNCHANGED <<card, pc>>
    BY <1>7 DEF ConsumeToken, vars
  <2>2. CASE token[r] = "expired"
    <3>1. UNCHANGED token
      BY <1>7, <2>2, Zenon DEF ConsumeToken
    <3> QED
      BY <2>1, <3>1 DEF ExpiryKept
  <2>3. CASE token[r] # "expired"
    <3>1. \A q \in Runs \ {r} : token'[q] = token[q]
      BY <1>0, <1>7 DEF ConsumeToken, CardsOK, CardsInv, ClaimInv
    <3> QED
      BY <2>1, <2>3, <3>1 DEF ExpiryKept
  <2> QED
    BY <2>2, <2>3
<1>8. ASSUME NEW k \in Claims, Resume(k)
      PROVE  ExpiryKept
  <2> PICK r \in Runs : r = claim[k].run
    BY <1>0, <1>8 DEF Resume, CardsInv, ClaimInv, Owns
  <2>1. token[r] = "consumed"
    BY <1>0, <1>8 DEF Resume, CardsInv, ClaimInv, Owns
  <2>2. UNCHANGED <<card, token>> /\ \A q \in Runs \ {r} : pc'[q] = pc[q]
    BY <1>0, <1>8, TypeParts DEF Resume, RunsInv, TasksOK
  <2> QED
    BY <2>1, <2>2 DEF ExpiryKept
<1>9. ASSUME NEW k \in Claims,
             (\E r \in Runs : ClaimRead(k, r)) \/ ClaimAtomic(k) \/ ClientGone(k) \/ StartChild(k)
      PROVE  ExpiryKept
  BY <1>9 DEF ClaimRead, ClaimAtomic, ClientGone, StartChild, vars, tvars, ExpiryKept
<1>10. ASSUME CrashAll
       PROVE  ExpiryKept
  <2>1. UNCHANGED <<card, token>> /\ \A q \in Runs : Idle(q)
    BY <1>0, <1>10, OtherFrame DEF CrashAll, RunsInv
  <2> QED
    BY <1>2, <2>1
<1>11. ASSUME UNCHANGED cvars,
              \/ \E r \in Runs : Harness(r) \/ Surroundings(r)
              \/ \E p, r \in Runs : RecoverAs(p, r)
              \/ CancelCall \/ Restart
       PROVE  ExpiryKept
  <2>1. UNCHANGED <<card, token>> /\ \A q \in Runs : Idle(q)
    BY <1>0, <1>11, TaskFrame, OtherFrame DEF RunsInv, cvars
  <2> QED
    BY <1>2, <2>1
<1> QED
  BY <1>3, <1>4, <1>5, <1>6, <1>7, <1>8, <1>9, <1>10, <1>11 DEF ClarNext, Claiming

\* An expired card gets no child and an expired token starts no stream, although
\* a call may have read them before they expired.
THEOREM ExpiryHolds == ClarSpec => ExpiredIsNotApplied
<1>1. ClarInv /\ [ClarNext]_<<vars, cvars>> => [ExpiryKept]_<<vars, cvars>>
  BY ExpiredStays
<1> QED
  BY <1>1, ClarInvariance, PTL DEF ClarSpec, ExpiredIsNotApplied, ExpiryKept

-----------------------------------------------------------------------------
(***************************************************************************)
(* Clarification implements Questions: the initial states map to initial   *)
(* states, and every step maps to a step of the desk or to no step.        *)
(***************************************************************************)
qs == [p \in Runs |-> QuestionOf(card[p])]
ts == [r \in Runs |-> TicketOf(token[r], pc[r])]
as == [p \in Runs |-> AskerOf(status[p])]

\* A step that keeps the cards, or the tickets, or the runs that ask.
SameQuestions == \A p \in Runs : QuestionOf(card[p])' = QuestionOf(card[p])
SameTickets == \A r \in Runs : TicketOf(token[r], pc[r])' = TicketOf(token[r], pc[r])
SameAskers == \A p \in Runs : AskerOf(status[p])' = AskerOf(status[p])

LEMMA SameDesk ==
    /\ SameQuestions => qs' = qs
    /\ SameTickets => ts' = ts
    /\ SameAskers => as' = as
BY DEF SameQuestions, SameTickets, SameAskers, qs, ts, as

\* The desk's functions are over the runs.
LEMMA SameDomains ==
    /\ \A r \in Runs : \A x : qs'[r] = x /\ (\A q \in Runs \ {r} : qs'[q] = qs[q]) => qs' = [qs EXCEPT ![r] = x]
    /\ \A r \in Runs : \A x : ts'[r] = x /\ (\A q \in Runs \ {r} : ts'[q] = ts[q]) => ts' = [ts EXCEPT ![r] = x]
    /\ \A r \in Runs : \A x : as'[r] = x /\ (\A q \in Runs \ {r} : as'[q] = as[q]) => as' = [as EXCEPT ![r] = x]
<1>1. /\ qs = [q \in Runs |-> qs[q]] /\ qs' = [q \in Runs |-> qs'[q]]
      /\ ts = [q \in Runs |-> ts[q]] /\ ts' = [q \in Runs |-> ts'[q]]
      /\ as = [q \in Runs |-> as[q]] /\ as' = [q \in Runs |-> as'[q]]
  BY DEF qs, ts, as
<1> QED
  BY <1>1

LEMMA AskerValues ==
    ASSUME NEW s
    PROVE  AskerOf(s) \in {"busy", "waiting", "gone"}
BY DEF AskerOf

LEMMA QuestionFields ==
    ASSUME NEW c
    PROVE  /\ QuestionOf(c).child = c.child
           /\ QuestionOf(c).state = IF c.child # NoRun THEN "answered"
                                    ELSE IF c.due THEN "lapsed"
                                    ELSE IF c.saved THEN "open" ELSE "none"
BY DEF QuestionOf

LEMMA InitDesk ==
    ASSUME ClarInit
    PROVE  Desk!Init
<1>1. ASSUME NEW r \in Runs
      PROVE  card[r] = NoCard /\ token[r] = "none" /\ status[r] = "NONE"
  BY <1>1 DEF ClarInit, Init
<1>2. QuestionOf(NoCard) = [state |-> "none", child |-> NoRun]
  BY DEF QuestionOf, NoCard
<1>3. AskerOf("NONE") = "busy"
  BY DEF AskerOf, TERMINAL_STATUSES
<1>4. \A at : TicketOf("none", at) = "none"
  BY DEF TicketOf
<1> QED
  BY <1>1, <1>2, <1>3, <1>4 DEF Desk!Init

\* Runs are closed by their tasks, by cancels and by the startup.
LEMMA RunsLeave ==
    ASSUME SameQuestions, SameTickets,
           \A p \in Runs : \/ AskerOf(status[p])' = AskerOf(status[p])
                           \/ AskerOf(status[p]) = "busy" /\ AskerOf(status[p])' = "gone"
    PROVE  Desk!Leave
<1>1. qs' = qs /\ ts' = ts
  BY SameDesk
<1>2. /\ as' \in [Runs -> {"busy", "waiting", "gone"}]
      /\ \A p \in Runs : as'[p] = as[p] \/ (as[p] = "busy" /\ as'[p] = "gone")
  BY AskerValues DEF as
<1> QED
  BY <1>1, <1>2 DEF Desk!Leave, qs, ts, as

\* Steps that touch no card and no token: a child's stream begins by its claim
\* only, and a run that comes to wait has a card.
LEMMA RunsRefine ==
    ASSUME RunsInv, CardsOK, CardsInv, WaitInv, UNCHANGED <<card, token>>,
           \/ \E r \in Runs : Harness(r) \/ Surroundings(r)
           \/ \E p, r \in Runs : RecoverAs(p, r)
           \/ CancelCall \/ Crash \/ Restart
    PROVE  Desk!Next
<1>0. RowsOK /\ TypeOK /\ TaskInv /\ CancelInv
  BY TypeParts DEF RunsInv
<1>1. \A q \in Runs : Frame(q) /\ Idle(q)
  BY <1>0, TaskFrame, OtherFrame
<1>2. \A q \in Runs : WaitStep(q)
  BY RunsWait
<1>3. SameQuestions
  BY DEF SameQuestions
<1>4. SameTickets
  <2> SUFFICES ASSUME NEW r \in Runs
               PROVE  TicketOf(token'[r], pc'[r]) = TicketOf(token[r], pc[r])
    BY DEF SameTickets
  <2>1. CASE token[r] # "consumed"
    BY <2>1 DEF TicketOf
  <2>2. CASE token[r] = "consumed"
    <3>1. Exists(r)
      BY <2>2 DEF CardsInv, TokenInv
    <3>2. pc'[r] = "none" <=> pc[r] = "none"
      BY <1>1, <3>1 DEF Frame, Idle
    <3> QED
      BY <2>2, <3>2 DEF TicketOf
  <2> QED
    BY <2>1, <2>2
<1>5. ASSUME NEW q \in Runs, status'[q] = "NEEDS_CLARIFICATION" => status[q] = "NEEDS_CLARIFICATION"
      PROVE  \/ AskerOf(status'[q]) = AskerOf(status[q])
             \/ AskerOf(status[q]) = "busy" /\ AskerOf(status'[q]) = "gone"
  <2>1. CASE status[q] \in TERMINAL_STATUSES
    BY <1>1, <2>1 DEF Frame
  <2>2. CASE status[q] \notin TERMINAL_STATUSES
    <3>1. status[q] # "NEEDS_CLARIFICATION"
      BY <2>2 DEF TERMINAL_STATUSES
    <3> QED
      BY <1>5, <2>2, <3>1 DEF AskerOf
  <2> QED
    BY <2>1, <2>2
<1>6. CASE \A q \in Runs : status'[q] = "NEEDS_CLARIFICATION" => status[q] = "NEEDS_CLARIFICATION"
  <2>1. Desk!Leave
    BY <1>3, <1>4, <1>5, <1>6, RunsLeave
  <2> QED
    BY <2>1 DEF Desk!Next
<1>7. ASSUME NEW r \in Runs, status'[r] = "NEEDS_CLARIFICATION", status[r] # "NEEDS_CLARIFICATION"
      PROVE  Desk!Next
  <2>1. PICK s \in Runs : Harness(s) \/ Surroundings(s)
    BY <1>7, OtherWaits DEF WaitInv, Plain, NoneWaits
  <2>2. s = r /\ \A q \in Runs \ {r} : status'[q] = status[q]
    BY <1>0, <1>7, <2>1, TaskStepAlone DEF Alone
  <2>3. pc[r] = "ask" /\ card[r].saved
    BY <1>2, <1>7 DEF WaitStep, WaitInv
  <2>4. AskerOf(status[r]) = "busy" /\ AskerOf(status'[r]) = "waiting"
    BY <1>1, <1>7 DEF Frame, AskerOf
  <2>5. QuestionOf(card[r]).state # "none"
    BY <2>3, QuestionFields
  <2>6. as' = [as EXCEPT ![r] = "waiting"]
    <3>1. as'[r] = "waiting" /\ \A q \in Runs \ {r} : as'[q] = as[q]
      BY <2>2, <2>4 DEF as
    <3> QED
      BY <3>1, SameDomains
  <2>7. as[r] = "busy" /\ qs[r].state # "none" /\ qs' = qs /\ ts' = ts
    BY <1>3, <1>4, <2>4, <2>5, SameDesk DEF as, qs
  <2>8. Desk!Wait(r)
    BY <2>6, <2>7 DEF Desk!Wait, qs, ts, as
  <2> QED
    BY <2>8 DEF Desk!Next
<1> QED
  BY <1>6, <1>7

\* A card is saved by a run that goes on and has asked nothing yet.
LEMMA SaveRefines ==
    ASSUME RunsInv, CardsOK, CardsInv, NEW r \in Runs, SaveCard(r)
    PROVE  Desk!Next
<1>0. RowsOK /\ TasksOK /\ TypeOK /\ TaskInv
  BY TypeParts DEF RunsInv
<1>1. AskUser(r) /\ UNCHANGED token /\ UNCHANGED status
  BY DEF SaveCard, AskUser, rvars
<1>2. pc[r] # "none" /\ ~Asked(r) /\ \A q \in Runs : Frame(q)
  BY <1>0, <1>1, AskFrame
<1>3. ~card[r].saved /\ ~card[r].due /\ card[r].child = NoRun
  BY <1>2, Zenon DEF CardsInv, CardInv
<1>4. AskerOf(status[r]) = "busy"
  BY <1>1 DEF AskUser, AskerOf, TERMINAL_STATUSES
<1>5. pc' = [pc EXCEPT ![r] = "ask"]
  BY <1>1 DEF AskUser, Goto
<1>6. SameTickets
  BY <1>0, <1>1, <1>2, <1>5 DEF SameTickets, TicketOf, TasksOK
<1>7. card' = [card EXCEPT ![r] = [child |-> NoRun, saved |-> TRUE, due |-> FALSE]]
  BY <1>3, Zenon DEF SaveCard
<1>8. QuestionOf([child |-> NoRun, saved |-> TRUE, due |-> FALSE]) = [state |-> "open", child |-> NoRun]
  BY DEF QuestionOf
<1>9. QuestionOf(card[r]) = [state |-> "none", child |-> NoRun]
  BY <1>3 DEF QuestionOf
<1>10. qs' = [qs EXCEPT ![r].state = "open"]
  <2>1. qs'[r] = [state |-> "open", child |-> NoRun] /\ \A q \in Runs \ {r} : qs'[q] = qs[q]
    BY <1>7, <1>8 DEF CardsOK, qs
  <2>2. qs[r] = [state |-> "none", child |-> NoRun]
    BY <1>9 DEF qs
  <2>3. [qs[r] EXCEPT !.state = "open"] = [state |-> "open", child |-> NoRun]
    BY <2>2
  <2> QED
    BY <2>1, <2>3, SameDomains
<1>11. as[r] = "busy" /\ qs[r].state = "none" /\ ts' = ts /\ as' = as
  BY <1>1, <1>4, <1>6, <1>9, SameDesk DEF as, qs, SameAskers
<1>12. Desk!Ask(r)
  BY <1>10, <1>11 DEF Desk!Ask, Desk!Moves, qs, ts, as
<1> QED
  BY <1>12 DEF Desk!Next

\* A card that was answered is answered, whenever its time is over.
LEMMA CardRefines ==
    ASSUME CardsOK, NEW p \in Runs, CardExpires(p)
    PROVE  Desk!Lapse(p) \/ UNCHANGED Desk!vars
<1>1. UNCHANGED token /\ UNCHANGED <<pc, status>> /\ card[p].saved /\ ~card[p].due
  BY DEF CardExpires, vars, rvars, tvars
<1>2. SameTickets /\ SameAskers
  BY <1>1 DEF SameTickets, SameAskers
<1> DEFINE new == [card[p] EXCEPT !.due = TRUE]
<1>3. card[p] \in CardRecord
  BY DEF CardsOK
<1>4. new.child = card[p].child /\ new.saved /\ new.due
  BY <1>1, <1>3 DEF CardRecord
<1>5. card' = [card EXCEPT ![p] = new]
  BY Zenon DEF CardExpires
<1> HIDE DEF new
<1>6. card'[p] = new /\ \A q \in Runs \ {p} : card'[q] = card[q]
  BY <1>5 DEF CardsOK
<1>7. ts' = ts /\ as' = as /\ \A q \in Runs \ {p} : qs'[q] = qs[q]
  BY <1>2, <1>6, SameDesk DEF qs
<1>8. CASE card[p].child # NoRun
  <2>1. QuestionOf(new) = QuestionOf(card[p])
    BY <1>4, <1>8 DEF QuestionOf
  <2>2. SameQuestions
    BY <1>6, <2>1 DEF SameQuestions
  <2> QED
    BY <1>7, <2>2, SameDesk DEF Desk!vars, qs, ts, as
<1>9. CASE card[p].child = NoRun
  <2>1. /\ QuestionOf(card[p]) = [state |-> "open", child |-> NoRun]
        /\ QuestionOf(new) = [state |-> "lapsed", child |-> NoRun]
    BY <1>1, <1>4, <1>9 DEF QuestionOf
  <2>2. /\ qs[p] = [state |-> "open", child |-> NoRun]
        /\ qs'[p] = [state |-> "lapsed", child |-> NoRun]
    BY <1>6, <2>1 DEF qs
  <2>3. [qs[p] EXCEPT !.state = "lapsed"] = qs'[p]
    BY <2>2
  <2>4. qs' = [qs EXCEPT ![p].state = "lapsed"]
    BY <1>7, <2>3, SameDomains
  <2> QED
    BY <1>7, <2>2, <2>4 DEF Desk!Lapse, Desk!Moves, qs, ts, as
<1> QED
  BY <1>8, <1>9

LEMMA AnswerRefines ==
    ASSUME RunsInv, CardsOK, CardsInv, NEW p \in Runs, NEW r \in Runs, Answer(p, r)
    PROVE  Desk!Answer(p, r)
<1>0. RowsOK
  BY TypeParts DEF RunsInv
<1>1. /\ card[p].saved /\ ~card[p].due /\ card[p].child = NoRun
      /\ ~Exists(r) /\ UNCHANGED pc
  BY Zenon DEF Answer, InsertRun, tvars
<1>2. /\ card' = [card EXCEPT ![p].child = r] /\ token' = [token EXCEPT ![r] = "valid"]
      /\ status' = [status EXCEPT ![r] = "RECEIVED"]
  BY DEF Answer, InsertRun
<1>3. token[r] = "none"
  BY <1>1 DEF CardsInv, TokenInv
<1> DEFINE new == [card[p] EXCEPT !.child = r]
<1>4. card[p] \in CardRecord
  BY DEF CardsOK
<1>5. new.child = r
  BY <1>4 DEF CardRecord
<1>6. card' = [card EXCEPT ![p] = new]
  BY <1>2, Zenon
<1> HIDE DEF new
<1>7. card'[p] = new /\ \A q \in Runs \ {p} : card'[q] = card[q]
  BY <1>6 DEF CardsOK
<1>8. QuestionOf(new) = [state |-> "answered", child |-> r] /\ QuestionOf(card[p]).state = "open"
  BY <1>1, <1>5, RunAssumption DEF QuestionOf
<1>9. qs' = [qs EXCEPT ![p] = [state |-> "answered", child |-> r]]
  <2>1. qs'[p] = [state |-> "answered", child |-> r] /\ \A q \in Runs \ {p} : qs'[q] = qs[q]
    BY <1>7, <1>8 DEF qs
  <2> QED
    BY <2>1, SameDomains
<1>10. ts' = [ts EXCEPT ![r] = "valid"]
  <2>1. ts'[r] = "valid" /\ \A q \in Runs \ {r} : ts'[q] = ts[q]
    BY <1>1, <1>2 DEF ts, TicketOf, CardsOK
  <2> QED
    BY <2>1, SameDomains
<1>11. as' = as
  <2>1. status[r] = "NONE"
    BY <1>1 DEF Exists
  <2>2. SameAskers
    BY <1>0, <1>2, <2>1 DEF SameAskers, AskerOf, RowsOK, TERMINAL_STATUSES
  <2> QED
    BY <2>2, SameDesk
<1>12. qs[p].state = "open" /\ ts[r] = "none"
  BY <1>3, <1>8 DEF qs, ts, TicketOf
<1> QED
  BY <1>9, <1>10, <1>11, <1>12 DEF Desk!Answer, qs, ts, as

\* One ticket turns.
LEMMA TicketTurns ==
    ASSUME NEW r \in Runs, SameQuestions, SameAskers, NEW from, NEW to,
           TicketOf(token[r], pc[r]) = from, TicketOf(token[r], pc[r])' = to,
           \A q \in Runs \ {r} : TicketOf(token[q], pc[q])' = TicketOf(token[q], pc[q])
    PROVE  Desk!Turns(r, from, to)
<1>1. ts[r] = from /\ ts'[r] = to /\ \A q \in Runs \ {r} : ts'[q] = ts[q]
  BY DEF ts
<1>2. ts' = [ts EXCEPT ![r] = to]
  BY <1>1, SameDomains
<1>3. qs' = qs /\ as' = as
  BY SameDesk
<1> QED
  BY <1>1, <1>2, <1>3 DEF Desk!Turns, qs, ts, as

LEMMA TokenRefines ==
    ASSUME CardsOK, NEW r \in Runs, TokenExpires(r)
    PROVE  Desk!TicketLapses(r)
<1>1. /\ token[r] = "valid" /\ token'[r] = "expired"
      /\ \A q \in Runs \ {r} : token'[q] = token[q]
      /\ UNCHANGED <<card, pc, status>>
  BY DEF TokenExpires, CardsOK, vars, rvars, tvars
<1>2. SameQuestions /\ SameAskers
  BY <1>1 DEF SameQuestions, SameAskers
<1>3. TicketOf(token[r], pc[r]) = "valid" /\ TicketOf(token'[r], pc'[r]) = "lapsed"
  BY <1>1 DEF TicketOf
<1>4. \A q \in Runs \ {r} : TicketOf(token'[q], pc'[q]) = TicketOf(token[q], pc[q])
  BY <1>1
<1> QED
  BY <1>2, <1>3, <1>4, TicketTurns DEF Desk!TicketLapses

\* A token is spent by the second step of a claim, for a parent that the first
\* step found waiting.
LEMMA SpendRefines ==
    ASSUME RunsInv, CardsOK, CardsInv, NEW k \in Claims, ConsumeToken(k)
    PROVE  UNCHANGED Desk!vars \/ \E r \in Runs : Desk!Spend(r)
<1> PICK r \in Runs : r = claim[k].run
  BY DEF ConsumeToken, CardsInv, ClaimInv
<1>1. UNCHANGED <<card, pc, status>>
  BY DEF ConsumeToken, vars, rvars, tvars
<1>2. SameQuestions /\ SameAskers
  BY <1>1 DEF SameQuestions, SameAskers
<1>3. CASE UNCHANGED token
  <2>1. SameTickets
    BY <1>1, <1>3 DEF SameTickets
  <2> QED
    BY <1>2, <2>1, SameDesk DEF Desk!vars, qs, ts, as
<1>4. CASE ~UNCHANGED token
  <2>1. token[r] = "valid" /\ token' = [token EXCEPT ![r] = "consumed"]
    <3>1. token[r] \in {"none", "valid", "expired", "consumed"} /\ token[r] # "none"
      BY DEF CardsOK, CardsInv, ClaimInv, ConsumeToken
    <3> QED
      BY <1>4, <3>1, Zenon DEF ConsumeToken
  <2>2. token'[r] = "consumed" /\ \A q \in Runs \ {r} : token'[q] = token[q]
    BY <2>1 DEF CardsOK
  <2>3. pc[r] = "none" /\ about[r].parent \in Runs /\ card[about[r].parent].child = r
    BY <2>1 DEF CardsInv, TokenInv
  <2>4. status[about[r].parent] = "NEEDS_CLARIFICATION"
    BY DEF CardsInv, ClaimInv, ConsumeToken
  <2>5. TicketOf(token[r], pc[r]) = "valid" /\ TicketOf(token'[r], pc'[r]) = "spent"
    BY <1>1, <2>1, <2>2, <2>3 DEF TicketOf
  <2>6. \A q \in Runs \ {r} : TicketOf(token'[q], pc'[q]) = TicketOf(token[q], pc[q])
    BY <1>1, <2>2
  <2>7. Desk!Turns(r, "valid", "spent")
    BY <1>2, <2>5, <2>6, TicketTurns
  <2>8. qs[about[r].parent].child = r /\ as[about[r].parent] = "waiting"
    BY <2>3, <2>4, QuestionFields DEF qs, as, AskerOf
  <2>9. Desk!Spend(r)
    BY <2>3, <2>7, <2>8 DEF Desk!Spend, qs, as
  <2> QED
    BY <2>9
<1> QED
  BY <1>3, <1>4

\* The claim moves the child on: nobody sees it at the desk.
LEMMA StartRefines ==
    ASSUME RunsInv, CardsOK, CardsInv, NEW k \in Claims, StartChild(k)
    PROVE  UNCHANGED Desk!vars
<1> PICK r \in Runs : r = claim[k].run
  BY DEF StartChild, CardsInv, ClaimInv, Owns
<1>0. RowsOK
  BY TypeParts DEF RunsInv
<1>1. UNCHANGED <<card, token, pc>>
  BY DEF StartChild, tvars
<1>2. SameAskers
  <2>1. CASE MayBecome(r, "CONTEXT_BUILDING")
    <3>1. SetStatus(r, "CONTEXT_BUILDING", "none")
      BY <2>1, Zenon DEF StartChild
    <3>2. status'[r] = "CONTEXT_BUILDING" /\ \A q \in Runs \ {r} : status'[q] = status[q]
      BY <1>0, <3>1 DEF SetStatus, RowsOK
    <3>3. status[r] \notin TERMINAL_STATUSES
      BY <2>1, TableType DEF MayBecome
    <3> QED
      BY <3>2, <3>3 DEF SameAskers, AskerOf, TERMINAL_STATUSES
  <2>2. CASE ~MayBecome(r, "CONTEXT_BUILDING")
    <3>1. UNCHANGED rvars
      BY <2>2, Zenon DEF StartChild
    <3> QED
      BY <3>1 DEF SameAskers, rvars
  <2> QED
    BY <2>1, <2>2
<1>3. SameQuestions /\ SameTickets
  BY <1>1 DEF SameQuestions, SameTickets
<1> QED
  BY <1>2, <1>3, SameDesk DEF Desk!vars, qs, ts, as

LEMMA ResumeRefines ==
    ASSUME RunsInv, CardsOK, CardsInv, NEW k \in Claims, Resume(k)
    PROVE  \E r \in Runs : Desk!Begin(r)
<1> PICK r \in Runs : r = claim[k].run
  BY DEF Resume, CardsInv, ClaimInv, Owns
<1>0. TasksOK
  BY TypeParts DEF RunsInv
<1>1. /\ UNCHANGED <<card, token, status>>
      /\ pc'[r] = "stage" /\ \A q \in Runs \ {r} : pc'[q] = pc[q]
  BY <1>0 DEF Resume, TasksOK, rvars
<1>2. token[r] = "consumed" /\ pc[r] = "none"
  BY DEF Resume, CardsInv, ClaimInv, Owns
<1>3. SameQuestions /\ SameAskers
  BY <1>1 DEF SameQuestions, SameAskers
<1>4. TicketOf(token[r], pc[r]) = "spent" /\ TicketOf(token'[r], pc'[r]) = "begun"
  BY <1>1, <1>2 DEF TicketOf
<1>5. \A q \in Runs \ {r} : TicketOf(token'[q], pc'[q]) = TicketOf(token[q], pc[q])
  BY <1>1
<1>6. Desk!Begin(r)
  BY <1>3, <1>4, <1>5, TicketTurns DEF Desk!Begin
<1> QED
  BY <1>6

\* The card saved before its run pauses, the claim in two steps, double calls,
\* cancels, expiries, crashes and restarts together look like one question that
\* is answered once and one ticket that is spent once, for a run that waits.
THEOREM ClarificationRefines == ClarSpec => ImplementsQuestions
<1>1. ClarInit => Desk!Init
  BY InitDesk
<1>2. ASSUME ClarInv, [ClarNext]_<<vars, cvars>>
      PROVE  [Desk!Next]_(Desk!vars)
  <2>0. RunsInv /\ CardsOK /\ CardsInv /\ WaitInv
    BY <1>2, ClarParts
  <2>1. ASSUME UNCHANGED <<card, token, pc, status>>
        PROVE  UNCHANGED Desk!vars
    BY <2>1 DEF Desk!vars
  <2>2. CASE UNCHANGED <<vars, cvars>>
    BY <2>1, <2>2 DEF vars, cvars, rvars, tvars
  <2>3. ASSUME NEW r \in Runs, SaveCard(r) \/ CardExpires(r) \/ TokenExpires(r)
        PROVE  Desk!Next \/ UNCHANGED Desk!vars
    BY <2>0, <2>3, SaveRefines, CardRefines, TokenRefines DEF Desk!Next
  <2>4. ASSUME NEW p \in Runs, NEW r \in Runs, Answer(p, r)
        PROVE  Desk!Next
    BY <2>0, <2>4, AnswerRefines DEF Desk!Next
  <2>5. ASSUME NEW k \in Claims, ConsumeToken(k) \/ StartChild(k) \/ Resume(k)
        PROVE  Desk!Next \/ UNCHANGED Desk!vars
    BY <2>0, <2>5, SpendRefines, StartRefines, ResumeRefines DEF Desk!Next
  <2>6. ASSUME NEW k \in Claims,
               (\E r \in Runs : ClaimRead(k, r)) \/ ClaimAtomic(k) \/ ClientGone(k)
        PROVE  UNCHANGED Desk!vars
    BY <2>1, <2>6 DEF ClaimRead, ClaimAtomic, ClientGone, vars, rvars, tvars
  <2>7. CASE CrashAll
    BY <2>0, <2>7, RunsRefine DEF CrashAll
  <2>8. ASSUME UNCHANGED cvars,
               \/ \E r \in Runs : Harness(r) \/ Surroundings(r)
               \/ \E p, r \in Runs : RecoverAs(p, r)
               \/ CancelCall \/ Restart
        PROVE  Desk!Next
    BY <2>0, <2>8, RunsRefine DEF cvars
  <2> QED
    BY <1>2, <2>2, <2>3, <2>4, <2>5, <2>6, <2>7, <2>8 DEF ClarNext, Claiming
<1> QED
  BY <1>1, <1>2, ClarInvariance, PTL DEF ClarSpec, ImplementsQuestions, Desk!Spec
=============================================================================
