------------------------ MODULE RunLifecycle_proof ------------------------
(***************************************************************************)
(* Proofs about the runs of agent-service, for every set of runs,          *)
(* conversations and cancel calls, every budget and both stores.           *)
(***************************************************************************)
EXTENDS RunLifecycle, SequenceTheorems, TLAPS

-----------------------------------------------------------------------------
(***************************************************************************)
(* The transition table and the lists of statuses to come.                 *)
(***************************************************************************)
LEMMA TableType ==
    ASSUME NEW s, NEW t \in ALLOWED_TRANSITIONS(s)
    PROVE  /\ t \in RunStatus /\ t \notin {"NONE", "RECEIVED"}
           /\ s \in RunStatus /\ s \notin TERMINAL_STATUSES
BY DEF ALLOWED_TRANSITIONS, RunStatus, TERMINAL_STATUSES

\* Every active status may fail and may be cancelled.
LEMMA MayAlwaysClose ==
    ASSUME NEW s \in RunStatus, s \notin TERMINAL_STATUSES
    PROVE  {"FAILED", "CANCELLED"} \subseteq ALLOWED_TRANSITIONS(s)
BY DEF ALLOWED_TRANSITIONS, RunStatus, TERMINAL_STATUSES

LEMMA StagesStart ==
    ASSUME NEW m \in {"enforce", "shadow"}
    PROVE  Stages(m) \in Seq(RunStatus) /\ Stages(m) # <<>>
<1>1. CASE m = "enforce"
  <2>1. Stages(m) = <<"CONTEXT_BUILDING", "LINKING", "PLANNING", "GENERATING">>
    BY <1>1 DEF Stages
  <2> QED
    BY <2>1 DEF RunStatus
<1>2. CASE m = "shadow"
  <2>1. Stages(m) = <<"CONTEXT_READY", "MODEL_RUNNING">>
    BY <1>2 DEF Stages
  <2> QED
    BY <2>1 DEF RunStatus
<1> QED
  BY <1>1, <1>2

LEMMA ClosingStarts ==
    ASSUME NEW r \in Runs
    PROVE  /\ Closing(r) \in Seq(RunStatus) /\ Closing(r) # <<>>
           /\ Closing(r)[Len(Closing(r))] = "COMPLETED"
<1>1. CASE Closing(r) = <<"VALIDATING", "EXECUTING", "VERIFYING", "COMPLETED">>
  BY <1>1 DEF RunStatus, TERMINAL_STATUSES
<1>2. CASE Closing(r) = <<"COMPLETED">>
  BY <1>2 DEF RunStatus, TERMINAL_STATUSES
<1>3. CASE Closing(r) = <<"VERIFYING", "COMPLETED">>
  BY <1>3 DEF RunStatus, TERMINAL_STATUSES
<1> QED
  BY <1>1, <1>2, <1>3, Zenon DEF Closing

LEMMA ListShrinks ==
    ASSUME NEW l \in Seq(RunStatus), l # <<>>
    PROVE  /\ Head(l) \in RunStatus
           /\ Tail(l) \in Seq(RunStatus)
           /\ Tail(l) = <<>> => Head(l) = l[Len(l)]
           /\ Tail(l) # <<>> => Tail(l)[Len(Tail(l))] = l[Len(l)]
<1> DEFINE t == Tail(l)
<1>1. Len(l) \in Nat /\ Len(l) >= 1 /\ Head(l) = l[1]
  BY EmptySeq
<1>2. /\ t \in Seq(RunStatus) /\ Head(l) \in RunStatus
      /\ Len(t) = Len(l) - 1
      /\ \A i \in 1 .. Len(t) : t[i] = l[i + 1]
  BY HeadTailProperties
<1> HIDE DEF t
<1>3. ASSUME t = <<>>
      PROVE  Head(l) = l[Len(l)]
  <2>1. Len(t) = 0
    BY <1>3, EmptySeq
  <2>2. Len(l) = 1
    BY <1>1, <1>2, <2>1
  <2> QED
    BY <1>1, <2>2, Zenon
<1>4. ASSUME t # <<>>
      PROVE  t[Len(t)] = l[Len(l)]
  <2>1. Len(t) \in Nat /\ Len(t) # 0
    BY <1>2, <1>4, EmptySeq
  <2> QED
    BY <1>1, <1>2, <2>1
<1> QED
  BY <1>2, <1>3, <1>4 DEF t

-----------------------------------------------------------------------------
(***************************************************************************)
(* Type correctness.                                                       *)
(***************************************************************************)
RowsOK ==
    /\ status \in [Runs -> RunStatus \cup {"NONE"}]
    /\ failure \in [Runs -> FailureType]
    /\ about \in [Runs -> About \cup {Nothing}]
    /\ tools \in [Runs -> Nat] /\ retries \in [Runs -> Nat]
    /\ checkpoint \in [Runs -> {"none", "safe", "unsafe"}]

TasksOK ==
    /\ pc \in [Runs -> Pc]
    /\ todo \in [Runs -> Seq(RunStatus)]
    /\ why \in [Runs -> FailureType]

CallsOK ==
    cancel \in [Cancels -> [at : {"idle", "read", "done"}, run : Runs \cup {NoRun},
                            result : RunStatus \cup {"none", "error", "lost"}]]

LEMMA TypeParts ==
    TypeOK <=> /\ store \in Stores /\ up \in BOOLEAN
               /\ RowsOK /\ TasksOK /\ CallsOK
               /\ ran \in [Runs -> Nat] /\ lost \subseteq Runs
BY DEF TypeOK, RowsOK, TasksOK, CallsOK

LEMMA SameRows ==
    ASSUME RowsOK, UNCHANGED rvars
    PROVE  RowsOK'
BY DEF RowsOK, rvars

LEMMA SetStatusType ==
    ASSUME RowsOK, NEW r \in Runs, NEW s, NEW f \in FailureType,
           MayBecome(r, s), SetStatus(r, s, f)
    PROVE  RowsOK'
<1>1. s \in RunStatus
  BY TableType DEF MayBecome
<1> QED
  BY <1>1 DEF RowsOK, SetStatus

LEMMA InsertRunType ==
    ASSUME RowsOK, NEW r \in Runs, NEW k \in OperationKind, NEW c \in Conversations,
           NEW p \in Runs \cup {NoRun}, NEW m \in Modes, InsertRun(r, k, c, p, m)
    PROVE  RowsOK'
<1>1. [kind |-> k, conversation |-> c, parent |-> p, mode |-> m] \in About
  BY DEF About
<1>2. "RECEIVED" \in RunStatus
  BY DEF RunStatus
<1> QED
  BY <1>1, <1>2 DEF RowsOK, InsertRun

LEMMA GotoType ==
    ASSUME TasksOK, NEW r \in Runs, NEW l \in Pc, Goto(r, l)
    PROVE  TasksOK'
BY DEF TasksOK, Goto

LEMMA EndTaskType ==
    ASSUME TasksOK, NEW r \in Runs, EndTask(r)
    PROVE  TasksOK'
<1>1. <<>> \in Seq(RunStatus) /\ "ended" \in Pc /\ "none" \in FailureType
  BY EmptySeq DEF Pc, FailureType
<1> QED
  BY <1>1 DEF TasksOK, EndTask

LEMMA AbortType ==
    ASSUME TasksOK, NEW r \in Runs, NEW s \in {"FAILED", "CANCELLED"}, NEW f \in FailureType,
           Abort(r, s, f)
    PROVE  TasksOK'
<1>1. <<s>> \in Seq(RunStatus) /\ "cleanup" \in Pc
  BY DEF RunStatus, TERMINAL_STATUSES, Pc, Live
<1> QED
  BY <1>1 DEF TasksOK, Abort

LEMMA PcValues ==
    {"none", "ended", "stage", "operate", "count", "recheck", "mark", "tool", "ask", "retry",
     "return", "unmark", "verify", "close", "cleanup", "finish"} \subseteq Pc
BY DEF Pc, Live, Inside

LEMMA FailureValues ==
    {"none", "timeout", "error", "cancelled", "process_restarted"} \subseteq FailureType
BY DEF FailureType

LEMMA StepType ==
    ASSUME TypeOK, RowsOK', TasksOK', UNCHANGED <<store, up, cancel>>,
           ran' \in [Runs -> Nat], lost' \subseteq Runs
    PROVE  TypeOK'
BY DEF TypeOK, RowsOK, TasksOK

LEMMA StageType ==
    ASSUME TypeOK, TaskInv, NEW r \in Runs, Advance(r) \/ AdvanceRejected(r)
    PROVE  TypeOK'
<1>0. RowsOK /\ TasksOK /\ ran \in [Runs -> Nat] /\ lost \subseteq Runs
  BY TypeParts
<1>1. CASE Advance(r)
  <2>1. RowsOK'
    BY <1>0, <1>1, SetStatusType, FailureValues DEF Advance
  <2>2. todo[r] \in Seq(RunStatus) /\ todo[r] # <<>>
    BY <1>0, <1>1 DEF TasksOK, TaskInv, Advance
  <2>3. Tail(todo[r]) \in Seq(RunStatus)
    BY <2>2, ListShrinks
  <2>4. todo' \in [Runs -> Seq(RunStatus)]
    BY <1>0, <1>1, <2>3 DEF TasksOK, Advance
  <2>5. pc' \in [Runs -> Pc]
    BY <1>0, <1>1, PcValues DEF TasksOK, Advance
  <2>6. TasksOK'
    BY <1>0, <1>1, <2>4, <2>5 DEF TasksOK, Advance
  <2> QED
    BY <1>0, <1>1, <2>1, <2>6, StepType DEF Advance
<1>2. CASE AdvanceRejected(r)
  <2>1. TasksOK'
    BY <1>0, <1>2, AbortType, FailureValues DEF AdvanceRejected
  <2> QED
    BY <1>0, <1>2, <2>1, SameRows, StepType DEF AdvanceRejected
<1> QED
  BY <1>1, <1>2

LEMMA HookType ==
    ASSUME TypeOK, NEW r \in Runs, Hook(r)
    PROVE  TypeOK'
<1>0. RowsOK /\ TasksOK /\ ran \in [Runs -> Nat] /\ lost \subseteq Runs
  BY TypeParts
<1> USE PcValues, FailureValues
<1>1. CASE BeforeTool(r)
  <2>1. TasksOK'
    BY <1>0, <1>1, EndTaskType, AbortType, GotoType DEF BeforeTool
  <2> QED
    BY <1>0, <1>1, <2>1, SameRows, StepType DEF BeforeTool
<1>2. CASE CountToolCall(r)
  <2>1. TasksOK'
    BY <1>0, <1>2, AbortType, GotoType DEF CountToolCall
  <2>2. RowsOK'
    BY <1>0, <1>2 DEF RowsOK, CountToolCall
  <2> QED
    BY <1>0, <1>2, <2>1, <2>2, StepType DEF CountToolCall
<1>3. CASE RecheckRun(r)
  <2>1. TasksOK'
    BY <1>0, <1>3, GotoType DEF RecheckRun, EnterTool
  <2>2. ran' \in [Runs -> Nat]
    BY <1>0, <1>3 DEF RecheckRun, EnterTool
  <2> QED
    BY <1>0, <1>3, <2>1, <2>2, SameRows, StepType DEF RecheckRun
<1>4. CASE MarkToolRunning(r)
  <2>1. TasksOK'
    BY <1>0, <1>4, GotoType, AbortType DEF MarkToolRunning, EnterTool
  <2>2. ran' \in [Runs -> Nat]
    BY <1>0, <1>4 DEF MarkToolRunning, EnterTool
  <2>3. RowsOK'
    BY <1>0, <1>4, SetStatusType, SameRows DEF MarkToolRunning
  <2> QED
    BY <1>0, <1>4, <2>1, <2>2, <2>3, StepType DEF MarkToolRunning
<1>5. CASE CountRetry(r)
  <2>1. TasksOK'
    BY <1>0, <1>5, GotoType, AbortType DEF CountRetry
  <2>2. RowsOK'
    BY <1>0, <1>5 DEF RowsOK, CountRetry
  <2> QED
    BY <1>0, <1>5, <2>1, <2>2, StepType DEF CountRetry
<1>6. CASE AfterTool(r)
  <2>1. TasksOK'
    BY <1>0, <1>6, GotoType DEF AfterTool
  <2> QED
    BY <1>0, <1>6, <2>1, SameRows, StepType DEF AfterTool
<1>7. CASE UnmarkToolRunning(r)
  <2>1. TasksOK'
    BY <1>0, <1>7, GotoType, AbortType DEF UnmarkToolRunning
  <2>2. RowsOK'
    BY <1>0, <1>7, SetStatusType, SameRows DEF UnmarkToolRunning
  <2> QED
    BY <1>0, <1>7, <2>1, <2>2, StepType DEF UnmarkToolRunning
<1> QED
  BY <1>1, <1>2, <1>3, <1>4, <1>5, <1>6, <1>7 DEF Hook

LEMMA EndType ==
    ASSUME TypeOK, NEW r \in Runs, Pause(r) \/ Verify(r) \/ Cleanup(r) \/ Finish(r)
    PROVE  TypeOK'
<1>0. RowsOK /\ TasksOK /\ ran \in [Runs -> Nat] /\ lost \subseteq Runs
  BY TypeParts
<1> USE PcValues, FailureValues
<1>1. CASE Pause(r)
  <2>1. TasksOK'
    BY <1>0, <1>1, GotoType DEF Pause
  <2>2. RowsOK'
    BY <1>0, <1>1, SetStatusType, SameRows DEF Pause
  <2> QED
    BY <1>0, <1>1, <2>1, <2>2, StepType DEF Pause
<1>2. CASE Verify(r)
  <2>1. CASE EndTask(r)
    <3>1. TasksOK'
      BY <1>0, <2>1, EndTaskType
    <3> QED
      BY <1>0, <1>2, <3>1, SameRows, StepType DEF Verify
  <2>2. CASE ~EndTask(r)
    <3>1. TasksOK'
      BY <1>0, <1>2, <2>2, ClosingStarts DEF Verify, TasksOK
    <3> QED
      BY <1>0, <1>2, <3>1, SameRows, StepType DEF Verify
  <2> QED
    BY <2>1, <2>2
<1>3. CASE Cleanup(r)
  <2>1. TasksOK'
    BY <1>0, <1>3, GotoType, EndTaskType DEF Cleanup
  <2> QED
    BY <1>0, <1>3, <2>1, SameRows, StepType DEF Cleanup
<1>4. CASE Finish(r)
  <2>1. TasksOK'
    BY <1>0, <1>4, EndTaskType DEF Finish
  <2>2. RowsOK'
    BY <1>0, <1>4, SetStatusType, SameRows DEF Finish, TasksOK
  <2> QED
    BY <1>0, <1>4, <2>1, <2>2, StepType DEF Finish
<1> QED
  BY <1>1, <1>2, <1>3, <1>4

LEMMA SurroundingsType ==
    ASSUME TypeOK, NEW r \in Runs, Surroundings(r) \/ AskUser(r)
    PROVE  TypeOK'
<1>0. RowsOK /\ TasksOK /\ ran \in [Runs -> Nat] /\ lost \subseteq Runs
  BY TypeParts
<1> USE PcValues, FailureValues
<1>1. CASE Create(r)
  <2> PICK k \in Kinds, c \in Conversations, m \in {"enforce", "shadow"} :
          InsertRun(r, k, c, NoRun, m) /\ todo' = [todo EXCEPT ![r] = Stages(m)]
    BY <1>1 DEF Create
  <2>1. RowsOK'
    BY <1>0, InsertRunType, RunAssumption DEF Modes
  <2>2. TasksOK'
    BY <1>0, <1>1, StagesStart DEF TasksOK, Create
  <2> QED
    BY <1>0, <1>1, <2>1, <2>2, StepType DEF Create
<1>2. CASE Checkpoint(r)
  <2>1. RowsOK'
    BY <1>0, <1>2 DEF RowsOK, Checkpoint
  <2>2. TasksOK'
    BY <1>0, <1>2 DEF TasksOK, Checkpoint, tvars
  <2> QED
    BY <1>0, <1>2, <2>1, <2>2, StepType DEF Checkpoint
<1>3. CASE ToolReturns(r)
  <2>1. TasksOK'
    BY <1>0, <1>3, GotoType DEF ToolReturns
  <2> QED
    BY <1>0, <1>3, <2>1, SameRows, StepType DEF ToolReturns
<1>4. CASE OperationEnds(r) \/ AskUser(r)
  <2>1. TasksOK'
    BY <1>0, <1>4, GotoType DEF OperationEnds, AskUser
  <2> QED
    BY <1>0, <1>4, <2>1, SameRows, StepType DEF OperationEnds, AskUser
<1>5. CASE Timeout(r) \/ Disconnect(r) \/ Fault(r)
  <2>1. TasksOK'
    BY <1>0, <1>5, AbortType DEF Timeout, Disconnect, Fault
  <2> QED
    BY <1>0, <1>5, <2>1, SameRows, StepType DEF Timeout, Disconnect, Fault
<1>6. CASE CleanupFails(r)
  <2>1. TasksOK'
    BY <1>0, <1>6, EndTaskType DEF CleanupFails
  <2> QED
    BY <1>0, <1>6, <2>1, SameRows, StepType DEF CleanupFails
<1> QED
  BY <1>1, <1>2, <1>3, <1>4, <1>5, <1>6 DEF Surroundings

LEMMA OtherType ==
    ASSUME TypeOK, TaskInv, CancelInv,
           \/ \E p, r \in Runs : RecoverAs(p, r)
           \/ CancelCall \/ Crash \/ Restart
    PROVE  TypeOK'
<1>0. RowsOK /\ TasksOK /\ CallsOK /\ ran \in [Runs -> Nat] /\ lost \subseteq Runs
  BY TypeParts
<1> USE PcValues, FailureValues
<1>1. ASSUME NEW p \in Runs, NEW r \in Runs, RecoverAs(p, r)
      PROVE  TypeOK'
  <2>1. about[p] \in About
    BY <1>0, <1>1 DEF RecoverAs, TaskInv, RowsOK
  <2>2. about[p].mode \in Modes /\ about[p].conversation \in Conversations
    BY <2>1 DEF About
  <2>3. RowsOK'
    BY <1>0, <1>1, <2>2, InsertRunType DEF RecoverAs, OperationKind
  <2>4. TasksOK'
    BY <1>0, <1>1 DEF TasksOK, RecoverAs, tvars
  <2> QED
    BY <1>0, <1>1, <2>3, <2>4, StepType DEF RecoverAs
<1>2. ASSUME NEW c \in Cancels, NEW r \in Runs, CancelRead(c, r)
      PROVE  TypeOK'
  <2>1. status[r] \in RunStatus
    BY <1>0, <1>2 DEF RowsOK, CancelRead, Exists
  <2>2. CallsOK'
    BY <1>0, <1>2, <2>1 DEF CallsOK, CancelRead
  <2> QED
    BY <1>2, <2>2 DEF TypeOK, CallsOK, CancelRead, rvars, tvars
<1>3. ASSUME NEW c \in Cancels, CancelWrite(c)
      PROVE  TypeOK'
  <2>1. cancel[c].run \in Runs
    BY <1>3 DEF CancelInv, CancelWrite
  <2>2. RowsOK'
    BY <1>0, <1>3, <2>1, SetStatusType, SameRows DEF CancelWrite
  <2>3. CallsOK'
    BY <1>0, <1>3, <2>1 DEF CallsOK, CancelWrite, RunStatus, TERMINAL_STATUSES
  <2> QED
    BY <1>3, <2>2, <2>3 DEF TypeOK, RowsOK, CallsOK, CancelWrite, tvars
<1>4. CASE Crash
  <2>1. pc' \in [Runs -> Pc]
    BY <1>0, <1>4 DEF TasksOK, Crash
  <2>2. <<>> \in Seq(RunStatus)
    BY EmptySeq
  <2>3. TasksOK'
    BY <1>4, <2>1, <2>2 DEF TasksOK, Crash
  <2>4. CallsOK'
    BY <1>0, <1>4 DEF CallsOK, Crash
  <2>5. RowsOK'
    BY <1>0, <1>4, SameRows DEF Crash
  <2> QED
    BY <1>0, <1>4, <2>3, <2>4, <2>5 DEF TypeOK, RowsOK, TasksOK, CallsOK, Crash
<1>5. CASE Restart
  <2>1. status' \in [Runs -> RunStatus \cup {"NONE"}]
    BY <1>0, <1>5 DEF RowsOK, Restart, RunStatus, TERMINAL_STATUSES
  <2>2. failure' \in [Runs -> FailureType]
    BY <1>0, <1>5 DEF RowsOK, Restart
  <2>3. RowsOK'
    BY <1>0, <1>5, <2>1, <2>2 DEF RowsOK, Restart
  <2> QED
    BY <1>0, <1>5, <2>3 DEF TypeOK, RowsOK, TasksOK, Restart, tvars
<1> QED
  BY <1>1, <1>2, <1>3, <1>4, <1>5 DEF CancelCall

LEMMA NextType ==
    ASSUME TypeOK, TaskInv, CancelInv, Next
    PROVE  TypeOK'
<1>1. ASSUME NEW r \in Runs, Harness(r) \/ Surroundings(r) \/ AskUser(r)
      PROVE  TypeOK'
  BY <1>1, StageType, HookType, EndType, SurroundingsType DEF Harness
<1> QED
  BY <1>1, OtherType DEF Next

-----------------------------------------------------------------------------
(***************************************************************************)
(* What a step may do to a row of agent_runs.                              *)
(***************************************************************************)
RowKept(r) ==
    status'[r] = status[r] /\ failure'[r] = failure[r] /\ about'[r] = about[r]

RowMoved(r) ==
    /\ status'[r] \in ALLOWED_TRANSITIONS(status[r])
    /\ about'[r] = about[r]

RestartedRead(p) ==
    /\ p \in Runs /\ about[p].kind = "READ_QUERY"
    /\ status[p] = "FAILED" /\ failure[p] = "process_restarted"

RowMade(r) ==
    /\ ~Exists(r) /\ status'[r] = "RECEIVED"
    /\ ConversationIsFree(about'[r].conversation)
    /\ about'[r] \in About
    /\ about'[r].parent # NoRun =>
          about'[r].kind = "READ_QUERY" /\ RestartedRead(about'[r].parent)

\* The other rows stay when one is inserted.
RowStep ==
    \/ \A r \in Runs : RowKept(r) \/ RowMoved(r)
    \/ \E r \in Runs : RowMade(r) /\ \A s \in Runs \ {r} : RowKept(s)

LEMMA SetStatusMoves ==
    ASSUME RowsOK, NEW r \in Runs, NEW s, NEW f, MayBecome(r, s), SetStatus(r, s, f)
    PROVE  \A q \in Runs : RowKept(q) \/ RowMoved(q)
BY DEF RowsOK, SetStatus, MayBecome, RowKept, RowMoved

LEMMA SameRowsKept ==
    ASSUME UNCHANGED <<status, failure, about>>
    PROVE  \A q \in Runs : RowKept(q) \/ RowMoved(q)
BY DEF RowKept

LEMMA InsertRunMakes ==
    ASSUME RowsOK, NEW r \in Runs, NEW k \in OperationKind, NEW c \in Conversations,
           NEW p \in Runs \cup {NoRun}, NEW m \in Modes, InsertRun(r, k, c, p, m),
           p # NoRun => k = "READ_QUERY" /\ RestartedRead(p)
    PROVE  /\ RowMade(r)
           /\ \A s \in Runs \ {r} : RowKept(s)
<1>1. [kind |-> k, conversation |-> c, parent |-> p, mode |-> m] \in About
  BY DEF About
<1>2. about'[r] = [kind |-> k, conversation |-> c, parent |-> p, mode |-> m]
  BY DEF RowsOK, InsertRun
<1>3. RowMade(r)
  BY <1>1, <1>2 DEF RowsOK, InsertRun, RowMade
<1> QED
  BY <1>3 DEF RowsOK, InsertRun, RowKept

LEMMA NextRows ==
    ASSUME TypeOK, TaskInv, CancelInv, Next
    PROVE  RowStep
<1>0. RowsOK
  BY TypeParts
<1>1. ASSUME NEW r \in Runs, Advance(r) \/ AdvanceRejected(r)
      PROVE  RowStep
  BY <1>0, <1>1, SetStatusMoves, SameRowsKept DEF Advance, AdvanceRejected, rvars, RowStep
<1>2. ASSUME NEW r \in Runs, Hook(r)
      PROVE  RowStep
  <2>1. CASE BeforeTool(r) \/ CountToolCall(r) \/ RecheckRun(r) \/ CountRetry(r) \/ AfterTool(r)
    BY <2>1, SameRowsKept
       DEF BeforeTool, CountToolCall, RecheckRun, CountRetry, AfterTool, rvars, RowStep
  <2>2. CASE MarkToolRunning(r) \/ UnmarkToolRunning(r)
    BY <1>0, <2>2, SetStatusMoves, SameRowsKept
       DEF MarkToolRunning, UnmarkToolRunning, rvars, RowStep
  <2> QED
    BY <1>2, <2>1, <2>2 DEF Hook
<1>3. ASSUME NEW r \in Runs, Pause(r) \/ Verify(r) \/ Cleanup(r) \/ Finish(r)
      PROVE  RowStep
  <2>1. CASE Verify(r) \/ Cleanup(r)
    BY <2>1, SameRowsKept DEF Verify, Cleanup, rvars, RowStep
  <2>2. CASE Pause(r) \/ Finish(r)
    BY <1>0, <2>2, SetStatusMoves, SameRowsKept DEF Pause, Finish, rvars, RowStep
  <2> QED
    BY <1>3, <2>1, <2>2
<1>4. ASSUME NEW r \in Runs, Surroundings(r) \/ AskUser(r)
      PROVE  RowStep
  <2>1. CASE Create(r)
    <3> PICK k \in Kinds, c \in Conversations, m \in {"enforce", "shadow"} :
            InsertRun(r, k, c, NoRun, m)
      BY <2>1 DEF Create
    <3> QED
      BY <1>0, InsertRunMakes, RunAssumption DEF Modes, RowStep
  <2>2. CASE ~Create(r)
    BY <1>4, <2>2, SameRowsKept
       DEF Surroundings, AskUser, Checkpoint, ToolReturns, OperationEnds, Timeout, Disconnect,
           Fault, CleanupFails, rvars, RowStep
  <2> QED
    BY <2>1, <2>2
<1>5. ASSUME NEW p \in Runs, NEW r \in Runs, RecoverAs(p, r)
      PROVE  RowStep
  <2>1. about[p] \in About
    BY <1>0, <1>5 DEF RecoverAs, TaskInv, RowsOK
  <2>2. about[p].mode \in Modes /\ about[p].conversation \in Conversations
    BY <2>1 DEF About
  <2> QED
    BY <1>0, <1>5, <2>2, InsertRunMakes DEF RecoverAs, OperationKind, RestartedRead, RowStep
<1>6. CASE CancelCall
  BY <1>0, <1>6, SetStatusMoves, SameRowsKept
     DEF CancelCall, CancelRead, CancelWrite, CancelInv, rvars, RowStep
<1>7. CASE Crash
  BY <1>7, SameRowsKept DEF Crash, rvars, RowStep
<1>8. CASE Restart
  <2>1. \A q \in Runs : RowKept(q) \/ RowMoved(q)
    <3> TAKE q \in Runs
    <3>1. CASE Active(q)
      <4>1. "FAILED" \in ALLOWED_TRANSITIONS(status[q])
        BY <1>0, <3>1, MayAlwaysClose DEF Active, Exists, RowsOK
      <4> QED
        BY <1>0, <1>8, <3>1, <4>1 DEF Restart, RowsOK, RowMoved
    <3>2. CASE ~Active(q)
      BY <1>0, <1>8, <3>2 DEF Restart, RowsOK, RowKept
    <3> QED
      BY <3>1, <3>2
  <2> QED
    BY <2>1 DEF RowStep
<1> QED
  BY <1>1, <1>2, <1>3, <1>4, <1>5, <1>6, <1>7, <1>8 DEF Next, Harness

\* No step changes the store.
LEMMA StoreKept ==
    ASSUME Next
    PROVE  UNCHANGED store
<1>1. ASSUME NEW r \in Runs, Harness(r)
      PROVE  UNCHANGED store
  BY <1>1 DEF Harness, Advance, AdvanceRejected, Hook, BeforeTool, CountToolCall, RecheckRun,
     MarkToolRunning, CountRetry, AfterTool, UnmarkToolRunning, Pause, Verify, Cleanup, Finish
<1>2. ASSUME NEW r \in Runs, Surroundings(r) \/ AskUser(r)
      PROVE  UNCHANGED store
  BY <1>2 DEF Surroundings, AskUser, Create, Checkpoint, ToolReturns, OperationEnds, Timeout,
     Disconnect, Fault, CleanupFails
<1>3. ASSUME CancelCall \/ Crash \/ Restart \/ \E p, r \in Runs : RecoverAs(p, r)
      PROVE  UNCHANGED store
  BY <1>3 DEF CancelCall, CancelRead, CancelWrite, Crash, Restart, RecoverAs
<1> QED
  BY <1>1, <1>2, <1>3 DEF Next

-----------------------------------------------------------------------------
(***************************************************************************)
(* What follows from RowStep alone.                                        *)
(***************************************************************************)
\* A closed run keeps its row.
LEMMA ClosedRowKept ==
    ASSUME RowStep, NEW r \in Runs, status[r] \in TERMINAL_STATUSES
    PROVE  RowKept(r)
<1>1. ~RowMoved(r)
  BY TableType DEF RowMoved
<1>2. ~RowMade(r)
  BY DEF RowMade, Exists, TERMINAL_STATUSES
<1> QED
  BY <1>1, <1>2 DEF RowStep

LEMMA TableStep ==
    ASSUME RowStep, NEW r \in Runs, Exists(r)
    PROVE  /\ status'[r] \in ALLOWED_TRANSITIONS(status[r]) \cup {status[r]}
           /\ status[r] \in TERMINAL_STATUSES => failure'[r] = failure[r]
<1>1. ~RowMade(r)
  BY DEF RowMade
<1> QED
  BY <1>1, ClosedRowKept DEF RowStep, RowKept, RowMoved

\* An active run was active before, or was made in a free conversation.
LEMMA NextOneActive ==
    ASSUME TypeOK, TaskInv, CancelInv, OneActivePerConversation, Next
    PROVE  OneActivePerConversation'
<1>1. RowStep /\ UNCHANGED store
  BY NextRows, StoreKept
<1>2. CASE ~Durable
  BY <1>1, <1>2 DEF Durable, OneActivePerConversation
<1>3. CASE Durable
  <2>1. \A r \in Runs : RowKept(r) \/ RowMoved(r) =>
           about'[r] = about[r] /\ (Active(r)' => Active(r))
    BY TableType DEF RowKept, RowMoved, Active, Exists, RunStatus, TERMINAL_STATUSES
  <2>2. CASE \A r \in Runs : RowKept(r) \/ RowMoved(r)
    BY <1>3, <2>1, <2>2 DEF OneActivePerConversation
  <2>3. ASSUME NEW r \in Runs, RowMade(r), \A s \in Runs \ {r} : RowKept(s)
        PROVE  OneActivePerConversation'
    <3>1. \A s \in Runs \ {r} : Active(s)' => about'[s].conversation # about'[r].conversation
      BY <1>3, <2>1, <2>3 DEF RowMade, ConversationIsFree
    <3> QED
      BY <1>3, <2>1, <2>3, <3>1 DEF OneActivePerConversation
  <2> QED
    BY <1>1, <2>2, <2>3 DEF RowStep
<1> QED
  BY <1>2, <1>3

-----------------------------------------------------------------------------
(***************************************************************************)
(* Recovery: checkpoints and children.                                     *)
(***************************************************************************)
CheckpointStep(r) ==
    \/ checkpoint'[r] = checkpoint[r]
    \/ Exists(r) /\ (checkpoint'[r] = "safe" => about[r].kind = "READ_QUERY")

LEMMA NextCheckpoint ==
    ASSUME TypeOK, TaskInv, CancelInv, Next
    PROVE  \A r \in Runs : CheckpointStep(r)
<1>1. ASSUME NEW r \in Runs, Checkpoint(r)
      PROVE  \A s \in Runs : CheckpointStep(s)
  <2>1. Exists(r)
    BY <1>1 DEF Checkpoint, TaskInv
  <2>2. checkpoint' = [checkpoint EXCEPT ![r] =
                         IF about[r].kind = "READ_QUERY" THEN "safe" ELSE "unsafe"]
    BY <1>1 DEF Checkpoint
  <2> QED
    BY <2>1, <2>2 DEF TypeOK, CheckpointStep
<1>2. CASE UNCHANGED checkpoint
  BY <1>2 DEF CheckpointStep
<1>3. ASSUME NEW r \in Runs, Harness(r)
      PROVE  UNCHANGED checkpoint
  BY <1>3 DEF Harness, Advance, AdvanceRejected, Hook, BeforeTool, CountToolCall, RecheckRun,
     MarkToolRunning, CountRetry, AfterTool, UnmarkToolRunning, Pause, Verify, Cleanup, Finish,
     SetStatus, rvars
<1>4. ASSUME NEW r \in Runs, Surroundings(r) \/ AskUser(r), ~Checkpoint(r)
      PROVE  UNCHANGED checkpoint
  BY <1>4 DEF Surroundings, AskUser, Create, ToolReturns, OperationEnds, Timeout, Disconnect,
     Fault, CleanupFails, InsertRun, rvars
<1>5. ASSUME CancelCall \/ Crash \/ Restart \/ \E p, r \in Runs : RecoverAs(p, r)
      PROVE  UNCHANGED checkpoint
  BY <1>5 DEF CancelCall, CancelRead, CancelWrite, Crash, Restart, RecoverAs, InsertRun,
     SetStatus, rvars
<1> QED
  BY <1>1, <1>2, <1>3, <1>4, <1>5 DEF Next

LEMMA NextRecovery ==
    ASSUME TypeOK, TaskInv, CancelInv, ParentInv, RecoveryIsReadOnly, Next
    PROVE  ParentInv' /\ RecoveryIsReadOnly'
<1> SUFFICES ASSUME NEW r \in Runs
             PROVE  /\ ~Exists(r)' => checkpoint'[r] = "none"
                    /\ checkpoint'[r] = "safe" => about'[r].kind = "READ_QUERY"
                    /\ Exists(r)' /\ about'[r].parent # NoRun =>
                         /\ status'[about'[r].parent] \in TERMINAL_STATUSES
                         /\ about'[r].kind = "READ_QUERY"
                         /\ about'[about'[r].parent].kind = "READ_QUERY"
                         /\ failure'[about'[r].parent] = "process_restarted"
  BY DEF ParentInv, RecoveryIsReadOnly
<1>1. RowStep /\ CheckpointStep(r)
  BY NextRows, NextCheckpoint
<1>2. CASE RowKept(r) \/ RowMoved(r)
  <2>1. about'[r] = about[r] /\ (Exists(r) <=> Exists(r)')
    BY <1>2, TableType DEF RowKept, RowMoved, Exists, RunStatus, TERMINAL_STATUSES
  <2>2. ASSUME Exists(r), about[r].parent # NoRun
        PROVE  /\ RowKept(about[r].parent)
               /\ status[about[r].parent] \in TERMINAL_STATUSES
    <3>1. about[r] \in About
      BY <2>2 DEF TaskInv, TypeOK
    <3>2. about[r].parent \in Runs
      BY <2>2, <3>1 DEF About
    <3> QED
      BY <1>1, <2>2, <3>2, ClosedRowKept DEF ParentInv
  <2> QED
    BY <1>1, <2>1, <2>2 DEF ParentInv, RecoveryIsReadOnly, CheckpointStep, RowKept
<1>3. CASE RowMade(r)
  <2>1. checkpoint'[r] = "none" /\ Exists(r)'
    BY <1>1, <1>3 DEF RowMade, CheckpointStep, ParentInv, Exists
  <2>2. ASSUME about'[r].parent # NoRun
        PROVE  /\ about'[r].kind = "READ_QUERY" /\ RestartedRead(about'[r].parent)
               /\ RowKept(about'[r].parent)
    <3>1. about'[r].kind = "READ_QUERY" /\ RestartedRead(about'[r].parent)
      BY <1>3, <2>2 DEF RowMade
    <3>2. about'[r].parent \in Runs /\ status[about'[r].parent] \in TERMINAL_STATUSES
      BY <3>1 DEF RestartedRead, TERMINAL_STATUSES
    <3> QED
      BY <1>1, <3>1, <3>2, ClosedRowKept
  <2> QED
    BY <2>1, <2>2 DEF RestartedRead, RowKept, TERMINAL_STATUSES
<1> QED
  BY <1>1, <1>2, <1>3 DEF RowStep

-----------------------------------------------------------------------------
(***************************************************************************)
(* The task of one run: what it has to do, its budget, its ownership.      *)
(***************************************************************************)
Task(r) ==
    /\ Exists(r) <=> about[r] # Nothing
    /\ pc[r] # "none" => Exists(r)
    /\ pc[r] \in Live => up
    /\ pc[r] \in {"stage", "close", "cleanup", "finish"} => todo[r] # <<>>
    /\ pc[r] = "close" => todo[r][Len(todo[r])] = "COMPLETED"
    /\ pc[r] \in {"cleanup", "finish"} => Head(todo[r]) \in {"FAILED", "CANCELLED"}

Budget(r) ==
    /\ ran[r] <= tools[r] /\ ran[r] <= MaxToolCalls
    /\ pc[r] \in {"recheck", "mark"} => ran[r] < tools[r] /\ tools[r] <= MaxToolCalls

Owned(r) ==
    Active(r) => \/ pc[r] \in Live
                 \/ r \in lost
                 \/ ~up
                 \/ about[r].parent # NoRun /\ pc[r] = "none"

Sound(r) == Task(r) /\ Budget(r) /\ Owned(r)

LEMMA SoundParts ==
    (\A r \in Runs : Sound(r)) <=> TaskInv /\ BudgetInv /\ ActiveRunsAreOwned
BY DEF Sound, Task, Budget, Owned, TaskInv, BudgetInv, ActiveRunsAreOwned

\* A step of the task of r leaves every other task alone.
Alone(r) ==
    /\ up' = up
    /\ \A s \in Runs \ {r} :
         /\ status'[s] = status[s] /\ about'[s] = about[s]
         /\ pc'[s] = pc[s] /\ todo'[s] = todo[s]
         /\ tools'[s] = tools[s] /\ ran'[s] = ran[s]
         /\ s \in lost => s \in lost'

LEMMA AloneIsSound ==
    ASSUME NEW r \in Runs, Alone(r), \A s \in Runs : Sound(s), Sound(r)'
    PROVE  \A s \in Runs : Sound(s)'
<1> SUFFICES ASSUME NEW s \in Runs, s # r
             PROVE  Sound(s)'
  OBVIOUS
<1>1. /\ status'[s] = status[s] /\ about'[s] = about[s] /\ up' = up
      /\ pc'[s] = pc[s] /\ todo'[s] = todo[s]
      /\ tools'[s] = tools[s] /\ ran'[s] = ran[s]
      /\ s \in lost => s \in lost'
  BY DEF Alone
<1>2. Exists(s)' = Exists(s) /\ Active(s)' = Active(s)
  BY <1>1 DEF Exists, Active
<1>3. Task(s)'
  BY <1>1, <1>2 DEF Sound, Task
<1>4. Budget(s)'
  BY <1>1 DEF Sound, Budget
<1>5. Owned(s)'
  BY <1>1, <1>2 DEF Sound, Owned
<1> QED
  BY <1>3, <1>4, <1>5 DEF Sound

\* The row stays or moves on: the run exists as before.
LEMMA RowStaysMade ==
    ASSUME NEW r \in Runs, RowKept(r) \/ RowMoved(r)
    PROVE  /\ Exists(r)' <=> Exists(r)
           /\ about'[r] = about[r]
           /\ Active(r)' => Active(r)
BY TableType DEF RowKept, RowMoved, Exists, Active, RunStatus, TERMINAL_STATUSES

LEMMA GotoSound ==
    ASSUME TasksOK, NEW r \in Runs, Task(r), pc[r] \in Live,
           NEW l \in Inside \ {"stage", "close"}, Goto(r, l),
           RowKept(r) \/ RowMoved(r), up' = up
    PROVE  Task(r)' /\ Owned(r)' /\ pc'[r] = l
<1>1. pc'[r] = l /\ l \in Live /\ l \notin {"none", "stage", "close", "cleanup", "finish"}
  BY DEF TasksOK, Goto, Inside, Live
<1>2. Exists(r) /\ up
  BY DEF Task, Live, Inside
<1> QED
  BY <1>1, <1>2, RowStaysMade DEF Task, Owned

LEMMA AbortSound ==
    ASSUME TasksOK, NEW r \in Runs, Task(r), pc[r] \in Live,
           NEW s \in {"FAILED", "CANCELLED"}, NEW f, Abort(r, s, f),
           RowKept(r) \/ RowMoved(r), up' = up
    PROVE  Task(r)' /\ Owned(r)' /\ pc'[r] = "cleanup"
<1>1. pc'[r] = "cleanup" /\ todo'[r] = <<s>>
  BY DEF TasksOK, Abort
<1>2. todo'[r] # <<>> /\ Head(todo'[r]) = s
  BY <1>1
<1>3. Exists(r) /\ up
  BY DEF Task, Live, Inside
<1>4. "cleanup" \in Live
  BY DEF Live
<1> QED
  BY <1>1, <1>2, <1>3, <1>4, RowStaysMade DEF Task, Owned

LEMMA EndTaskSound ==
    ASSUME TasksOK, NEW r \in Runs, Task(r), pc[r] \in Live, EndTask(r),
           RowKept(r) \/ RowMoved(r), up' = up, ~Active(r)' \/ r \in lost'
    PROVE  Task(r)' /\ Owned(r)' /\ pc'[r] = "ended"
<1>1. pc'[r] = "ended" /\ "ended" \notin Live
  BY DEF TasksOK, EndTask, Live, Inside
<1>2. Exists(r)
  BY DEF Task, Live, Inside
<1> QED
  BY <1>1, <1>2, RowStaysMade DEF Task, Owned

LEMMA BudgetKept ==
    ASSUME NEW r \in Runs, Budget(r), tools'[r] = tools[r], ran'[r] = ran[r],
           pc'[r] \notin {"recheck", "mark"}
    PROVE  Budget(r)'
BY DEF Budget

LEMMA TaskStepAlone ==
    ASSUME TypeOK, NEW r \in Runs, Harness(r) \/ Surroundings(r) \/ AskUser(r)
    PROVE  Alone(r)
<1>0. RowsOK /\ TasksOK /\ ran \in [Runs -> Nat]
  BY TypeParts
<1> USE DEF Alone, SetStatus, Goto, EndTask, Abort, EnterTool, rvars, tvars
<1>1. CASE Advance(r) \/ AdvanceRejected(r)
  BY <1>0, <1>1 DEF RowsOK, TasksOK, Advance, AdvanceRejected
<1>2. CASE BeforeTool(r) \/ CountToolCall(r) \/ CountRetry(r) \/ AfterTool(r)
  BY <1>0, <1>2 DEF RowsOK, TasksOK, BeforeTool, CountToolCall, CountRetry, AfterTool
<1>3. CASE RecheckRun(r) \/ MarkToolRunning(r)
  BY <1>0, <1>3 DEF RowsOK, TasksOK, RecheckRun, MarkToolRunning
<1>4. CASE UnmarkToolRunning(r) \/ Pause(r)
  BY <1>0, <1>4 DEF RowsOK, TasksOK, UnmarkToolRunning, Pause
<1>5. CASE Verify(r) \/ Cleanup(r) \/ Finish(r)
  BY <1>0, <1>5 DEF RowsOK, TasksOK, Verify, Cleanup, Finish
<1>6. CASE Create(r)
  BY <1>0, <1>6 DEF RowsOK, TasksOK, Create, InsertRun
<1>7. CASE Checkpoint(r) \/ ToolReturns(r) \/ OperationEnds(r) \/ AskUser(r)
  BY <1>0, <1>7 DEF RowsOK, TasksOK, Checkpoint, ToolReturns, OperationEnds, AskUser
<1>8. CASE Timeout(r) \/ Disconnect(r) \/ Fault(r) \/ CleanupFails(r)
  BY <1>0, <1>8 DEF RowsOK, TasksOK, Timeout, Disconnect, Fault, CleanupFails
<1> QED
  BY <1>1, <1>2, <1>3, <1>4, <1>5, <1>6, <1>7, <1>8 DEF Harness, Hook, Surroundings

LEMMA StageSound ==
    ASSUME TypeOK, NEW r \in Runs, Sound(r), Advance(r) \/ AdvanceRejected(r)
    PROVE  Sound(r)'
<1>0. RowsOK /\ TasksOK /\ Task(r) /\ Budget(r) /\ Owned(r) /\ pc[r] \in Live
  BY TypeParts DEF Sound, Advance, AdvanceRejected, Live, Inside
<1>1. CASE Advance(r)
  <2>1. /\ RowKept(r) \/ RowMoved(r)
        /\ status'[r] = Head(todo[r])
        /\ UNCHANGED <<up, tools, ran>>
    BY <1>0, <1>1, SetStatusMoves DEF RowsOK, Advance, SetStatus
  <2>2. todo[r] \in Seq(RunStatus) /\ todo[r] # <<>>
    BY <1>0, <1>1 DEF TasksOK, Task, Advance
  <2>3. todo'[r] = Tail(todo[r])
    BY <1>0, <1>1 DEF TasksOK, Advance
  <2>4. pc[r] \in {"stage", "close"} /\ Exists(r) /\ up
    BY <1>0, <1>1 DEF Task, Advance
  <2>5. CASE Tail(todo[r]) # <<>>
    <3>1. pc'[r] = pc[r]
      BY <1>0, <1>1, <2>5 DEF TasksOK, Advance
    <3>2. Task(r)'
      BY <1>0, <2>1, <2>2, <2>3, <2>4, <2>5, <3>1, RowStaysMade, ListShrinks DEF Task
    <3>3. Owned(r)'
      BY <1>0, <3>1 DEF Owned
    <3> QED
      BY <1>0, <2>1, <2>4, <3>1, <3>2, <3>3, BudgetKept DEF Sound
  <2>6. CASE Tail(todo[r]) = <<>> /\ pc[r] = "stage"
    <3>1. pc'[r] = "operate" /\ "operate" \in Live
      BY <1>0, <1>1, <2>6 DEF TasksOK, Advance, Live, Inside
    <3>2. Task(r)' /\ Owned(r)'
      BY <1>0, <2>1, <2>4, <3>1, RowStaysMade DEF Task, Owned
    <3> QED
      BY <1>0, <2>1, <3>1, <3>2, BudgetKept DEF Sound
  <2>7. CASE Tail(todo[r]) = <<>> /\ pc[r] = "close"
    <3>1. pc'[r] = "ended" /\ "ended" \notin Live
      BY <1>0, <1>1, <2>7 DEF TasksOK, Advance, Live, Inside
    <3>2. status'[r] = "COMPLETED"
      BY <1>0, <2>1, <2>2, <2>7, ListShrinks DEF Task
    <3>3. ~Active(r)'
      BY <3>2 DEF Active, TERMINAL_STATUSES
    <3>4. Task(r)' /\ Owned(r)'
      BY <1>0, <2>1, <2>4, <3>1, <3>3, RowStaysMade DEF Task, Owned
    <3> QED
      BY <1>0, <2>1, <3>1, <3>4, BudgetKept DEF Sound
  <2> QED
    BY <2>4, <2>5, <2>6, <2>7
<1>2. CASE AdvanceRejected(r)
  <2>1. Task(r)' /\ Owned(r)' /\ pc'[r] = "cleanup"
    BY <1>0, <1>2, AbortSound, SameRowsKept DEF AdvanceRejected, rvars
  <2> QED
    BY <1>0, <1>2, <2>1, BudgetKept DEF AdvanceRejected, Sound, rvars
<1> QED
  BY <1>1, <1>2

LEMMA HookSound ==
    ASSUME TypeOK, NEW r \in Runs, Sound(r), Hook(r)
    PROVE  Sound(r)'
<1>0. RowsOK /\ TasksOK /\ Task(r) /\ Budget(r) /\ ran \in [Runs -> Nat] /\ MaxToolCalls \in Nat
  BY TypeParts, RunAssumption DEF Sound
<1>01. pc[r] \in Live
  BY DEF Hook, BeforeTool, CountToolCall, RecheckRun, MarkToolRunning, CountRetry, AfterTool,
     UnmarkToolRunning, Live, Inside
<1>02. {"operate", "count", "recheck", "mark", "tool", "return", "unmark"}
          \subseteq Inside \ {"stage", "close"}
  BY DEF Inside
<1> USE <1>0, <1>01, <1>02
<1>1. CASE BeforeTool(r)
  <2>1. /\ UNCHANGED <<up, tools, ran>> /\ RowKept(r)
    BY <1>1 DEF BeforeTool, rvars, RowKept
  <2>2. CASE EndTask(r) /\ status[r] = "NEEDS_CLARIFICATION"
    <3>1. ~Active(r)'
      BY <2>1, <2>2 DEF RowKept, Active, TERMINAL_STATUSES
    <3>2. Task(r)' /\ Owned(r)' /\ pc'[r] = "ended"
      BY <2>1, <2>2, <3>1, EndTaskSound
    <3> QED
      BY <2>1, <3>2, BudgetKept DEF Sound
  <2>3. CASE Abort(r, "FAILED", "error")
    BY <2>1, <2>3, AbortSound, BudgetKept DEF Sound
  <2>4. CASE Goto(r, "count")
    BY <2>1, <2>4, GotoSound, BudgetKept DEF Sound
  <2> QED
    BY <1>1, <2>2, <2>3, <2>4 DEF BeforeTool
<1>2. CASE CountToolCall(r)
  <2>1. /\ UNCHANGED <<up, ran>> /\ RowKept(r) /\ tools'[r] = tools[r] + 1
    BY <1>2 DEF CountToolCall, RowsOK, RowKept
  <2>2. ran[r] \in Nat /\ tools[r] \in Nat
    BY DEF RowsOK
  <2>3. CASE Abort(r, "FAILED", "error")
    <3>1. Task(r)' /\ Owned(r)' /\ pc'[r] = "cleanup"
      BY <2>1, <2>3, AbortSound
    <3> QED
      BY <2>1, <2>2, <3>1 DEF Sound, Budget
  <2>4. CASE Goto(r, "recheck") /\ ~(tools[r] + 1 > MaxToolCalls)
    <3>1. Task(r)' /\ Owned(r)' /\ pc'[r] = "recheck"
      BY <2>1, <2>4, GotoSound
    <3> QED
      BY <2>1, <2>2, <2>4, <3>1 DEF Sound, Budget
  <2> QED
    BY <1>2, <2>3, <2>4 DEF CountToolCall
<1>3. CASE RecheckRun(r)
  <2>1. /\ UNCHANGED <<up, tools>> /\ RowKept(r) /\ pc[r] = "recheck"
    BY <1>3 DEF RecheckRun, rvars, RowKept
  <2>2. CASE Goto(r, "mark") /\ ran' = ran
    <3>1. Task(r)' /\ Owned(r)' /\ pc'[r] = "mark"
      BY <2>1, <2>2, GotoSound
    <3> QED
      BY <2>1, <2>2, <3>1 DEF Sound, Budget
  <2>3. CASE EnterTool(r)
    <3>1. Task(r)' /\ Owned(r)' /\ pc'[r] = "tool" /\ ran'[r] = ran[r] + 1
      BY <2>1, <2>3, GotoSound DEF EnterTool
    <3>2. Budget(r)'
      BY <2>1, <3>1 DEF Budget, RowsOK
    <3> QED
      BY <3>1, <3>2 DEF Sound
  <2> QED
    BY <1>3, <2>2, <2>3 DEF RecheckRun
<1>4. CASE MarkToolRunning(r)
  <2>1. up' = up /\ tools'[r] = tools[r] /\ (RowKept(r) \/ RowMoved(r)) /\ pc[r] = "mark"
    BY <1>4, SetStatusMoves, SameRowsKept DEF MarkToolRunning, SetStatus, rvars
  <2>2. CASE EnterTool(r)
    <3>1. Task(r)' /\ Owned(r)' /\ pc'[r] = "tool" /\ ran'[r] = ran[r] + 1
      BY <2>1, <2>2, GotoSound DEF EnterTool
    <3>2. Budget(r)'
      BY <2>1, <3>1 DEF Budget, RowsOK
    <3> QED
      BY <3>1, <3>2 DEF Sound
  <2>3. CASE Abort(r, "FAILED", "error") /\ ran' = ran
    BY <2>1, <2>3, AbortSound, BudgetKept DEF Sound
  <2> QED
    BY <1>4, <2>2, <2>3 DEF MarkToolRunning
<1>5. CASE CountRetry(r)
  <2>1. UNCHANGED <<up, tools, ran>> /\ RowKept(r)
    BY <1>5 DEF CountRetry, RowKept
  <2> QED
    BY <1>5, <2>1, AbortSound, GotoSound, BudgetKept DEF CountRetry, Sound
<1>6. CASE AfterTool(r)
  <2>1. UNCHANGED <<up, tools, ran>> /\ RowKept(r)
    BY <1>6 DEF AfterTool, RowKept, rvars
  <2> QED
    BY <1>6, <2>1, GotoSound, BudgetKept DEF AfterTool, Sound
<1>7. CASE UnmarkToolRunning(r)
  <2>1. UNCHANGED <<up, tools, ran>> /\ (RowKept(r) \/ RowMoved(r))
    BY <1>7, SetStatusMoves, SameRowsKept DEF UnmarkToolRunning, SetStatus, rvars
  <2> QED
    BY <1>7, <2>1, AbortSound, GotoSound, BudgetKept DEF UnmarkToolRunning, Sound
<1> QED
  BY <1>1, <1>2, <1>3, <1>4, <1>5, <1>6, <1>7 DEF Hook

LEMMA EndSound ==
    ASSUME TypeOK, NEW r \in Runs, Sound(r), Pause(r) \/ Verify(r) \/ Cleanup(r) \/ Finish(r)
    PROVE  Sound(r)'
<1>0. RowsOK /\ TasksOK /\ Task(r) /\ Budget(r) /\ pc[r] \in Live
  BY TypeParts DEF Sound, Pause, Verify, Cleanup, Finish, Live, Inside
<1> USE <1>0
<1>1. CASE Pause(r)
  <2>1. UNCHANGED <<up, tools, ran>> /\ (RowKept(r) \/ RowMoved(r))
    BY <1>1, SetStatusMoves, SameRowsKept DEF Pause, SetStatus, rvars
  <2>2. Task(r)' /\ Owned(r)' /\ pc'[r] = "return"
    BY <1>1, <2>1, GotoSound DEF Pause, Inside
  <2> QED
    BY <2>1, <2>2, BudgetKept DEF Sound
<1>2. CASE Verify(r)
  <2>1. UNCHANGED <<up, tools, ran>> /\ RowKept(r)
    BY <1>2 DEF Verify, RowKept, rvars
  <2>2. CASE EndTask(r) /\ status[r] = "NEEDS_CLARIFICATION"
    <3>1. ~Active(r)'
      BY <2>1, <2>2 DEF RowKept, Active, TERMINAL_STATUSES
    <3>2. Task(r)' /\ Owned(r)' /\ pc'[r] = "ended"
      BY <2>1, <2>2, <3>1, EndTaskSound
    <3> QED
      BY <2>1, <3>2, BudgetKept DEF Sound
  <2>3. CASE /\ pc' = [pc EXCEPT ![r] = "close"]
             /\ todo' = [todo EXCEPT ![r] = Closing(r)]
    <3>1. pc'[r] = "close" /\ todo'[r] = Closing(r) /\ "close" \in Live
      BY <2>3 DEF TasksOK, Live, Inside
    <3>2. Exists(r) /\ up
      BY DEF Task, Live, Inside
    <3>3. todo'[r] # <<>> /\ todo'[r][Len(todo'[r])] = "COMPLETED"
      BY <3>1, ClosingStarts
    <3>4. Task(r)' /\ Owned(r)'
      BY <2>1, <3>1, <3>2, <3>3, RowStaysMade DEF Task, Owned
    <3> QED
      BY <2>1, <3>1, <3>4, BudgetKept DEF Sound
  <2> QED
    BY <1>2, <2>2, <2>3 DEF Verify
<1>3. CASE Cleanup(r)
  <2>1. UNCHANGED <<up, tools, ran>> /\ RowKept(r) /\ pc[r] = "cleanup"
    BY <1>3 DEF Cleanup, RowKept, rvars
  <2>2. CASE EndTask(r) /\ ~Active(r)
    <3>1. Task(r)' /\ Owned(r)' /\ pc'[r] = "ended"
      BY <2>1, <2>2, EndTaskSound, RowStaysMade
    <3> QED
      BY <2>1, <3>1, BudgetKept DEF Sound
  <2>3. CASE Goto(r, "finish")
    <3>1. pc'[r] = "finish" /\ todo'[r] = todo[r] /\ "finish" \in Live
      BY <2>3 DEF TasksOK, Goto, Live
    <3>2. Exists(r) /\ up
      BY DEF Task, Live, Inside
    <3>3. Task(r)' /\ Owned(r)'
      BY <2>1, <3>1, <3>2, RowStaysMade DEF Task, Owned
    <3> QED
      BY <2>1, <3>1, <3>3, BudgetKept DEF Sound
  <2> QED
    BY <1>3, <2>2, <2>3 DEF Cleanup
<1>4. CASE Finish(r)
  <2>1. UNCHANGED <<up, tools, ran>> /\ (RowKept(r) \/ RowMoved(r)) /\ EndTask(r)
    BY <1>4, SetStatusMoves, SameRowsKept DEF Finish, SetStatus, rvars
  <2>2. Head(todo[r]) \in {"FAILED", "CANCELLED"}
    BY <1>4 DEF Task, Finish
  <2>3. ~Active(r)'
    <3>1. CASE MayBecome(r, Head(todo[r]))
      <4>1. status'[r] = Head(todo[r])
        BY <1>4, <3>1 DEF Finish, SetStatus, RowsOK
      <4> QED
        BY <2>2, <4>1 DEF Active, TERMINAL_STATUSES
    <3>2. CASE ~MayBecome(r, Head(todo[r]))
      <4>1. ~Active(r)
        BY <2>2, <3>2, MayAlwaysClose DEF Active, Exists, RowsOK, MayBecome
      <4> QED
        BY <2>1, <4>1, RowStaysMade
    <3> QED
      BY <3>1, <3>2
  <2>4. Task(r)' /\ Owned(r)' /\ pc'[r] = "ended"
    BY <2>1, <2>3, EndTaskSound
  <2> QED
    BY <2>1, <2>4, BudgetKept DEF Sound
<1> QED
  BY <1>1, <1>2, <1>3, <1>4

LEMMA SurroundingsSound ==
    ASSUME TypeOK, NEW r \in Runs, Sound(r), Surroundings(r) \/ AskUser(r)
    PROVE  Sound(r)'
<1>0. RowsOK /\ TasksOK /\ Task(r) /\ Budget(r) /\ Owned(r)
  BY TypeParts DEF Sound
<1> USE <1>0
<1>1. CASE Create(r)
  <2> PICK k \in Kinds, c \in Conversations, m \in {"enforce", "shadow"} :
          InsertRun(r, k, c, NoRun, m) /\ todo' = [todo EXCEPT ![r] = Stages(m)]
    BY <1>1 DEF Create
  <2>1. RowMade(r)
    BY InsertRunMakes, RunAssumption DEF Modes
  <2>2. about'[r] # Nothing /\ Exists(r)'
    BY <2>1 DEF RowMade, About, Nothing, Exists
  <2>3. pc'[r] = "stage" /\ todo'[r] = Stages(m) /\ "stage" \in Live
    BY <1>1 DEF TasksOK, Create, Live, Inside
  <2>4. UNCHANGED <<up, tools, ran>> /\ up
    BY <1>1 DEF Create, InsertRun
  <2>5. Stages(m) # <<>>
    BY StagesStart
  <2>6. Task(r)' /\ Owned(r)'
    BY <2>2, <2>3, <2>4, <2>5 DEF Task, Owned
  <2> QED
    BY <2>3, <2>4, <2>6, BudgetKept DEF Sound
<1>2. CASE Checkpoint(r)
  <2>1. UNCHANGED <<up, status, about, tools, ran, pc, todo, lost>>
    BY <1>2 DEF Checkpoint, tvars
  <2> QED
    BY <2>1 DEF Sound, Task, Budget, Owned, Exists, Active
<1>3. CASE ToolReturns(r) \/ OperationEnds(r) \/ AskUser(r)
  <2>1. UNCHANGED <<up, tools, ran>> /\ RowKept(r)
    BY <1>3 DEF ToolReturns, OperationEnds, AskUser, RowKept, rvars
  <2>2. pc[r] \in Live /\ {"return", "retry", "verify", "ask"} \subseteq Inside \ {"stage", "close"}
    BY <1>3 DEF ToolReturns, OperationEnds, AskUser, Live, Inside
  <2> QED
    BY <1>3, <2>1, <2>2, GotoSound, BudgetKept DEF ToolReturns, OperationEnds, AskUser, Sound
<1>4. CASE Timeout(r) \/ Disconnect(r) \/ Fault(r)
  <2>1. UNCHANGED <<up, tools, ran>> /\ RowKept(r) /\ pc[r] \in Live
    BY <1>4 DEF Timeout, Disconnect, Fault, RowKept, rvars, Live
  <2> QED
    BY <1>4, <2>1, AbortSound, BudgetKept DEF Timeout, Disconnect, Fault, Sound
<1>5. CASE CleanupFails(r)
  <2>1. UNCHANGED <<up, tools, ran>> /\ RowKept(r) /\ pc[r] \in Live /\ r \in lost'
    BY <1>5 DEF CleanupFails, RowKept, rvars, Live
  <2> QED
    BY <1>5, <2>1, EndTaskSound, BudgetKept DEF CleanupFails, Sound
<1> QED
  BY <1>1, <1>2, <1>3, <1>4, <1>5 DEF Surroundings

\* Steps that leave the tasks alone and change rows.
LEMMA RowsOnlySound ==
    ASSUME NEW r \in Runs, Sound(r), RowKept(r) \/ RowMoved(r),
           UNCHANGED <<up, pc, todo, tools, ran, lost>>
    PROVE  Sound(r)'
<1>1. Task(r)'
  BY RowStaysMade DEF Sound, Task
<1>2. Budget(r)'
  BY DEF Sound, Budget
<1>3. Owned(r)'
  BY RowStaysMade DEF Sound, Owned
<1> QED
  BY <1>1, <1>2, <1>3 DEF Sound

LEMMA OtherSound ==
    ASSUME TypeOK, TaskInv, CancelInv, \A r \in Runs : Sound(r),
           \/ \E p, r \in Runs : RecoverAs(p, r)
           \/ CancelCall \/ Crash \/ Restart
    PROVE  \A r \in Runs : Sound(r)'
<1>0. RowsOK /\ TasksOK
  BY TypeParts
<1>1. ASSUME NEW p \in Runs, NEW r \in Runs, RecoverAs(p, r)
      PROVE  \A q \in Runs : Sound(q)'
  <2>1. about[p] \in About
    BY <1>0, <1>1 DEF RecoverAs, TaskInv, RowsOK
  <2>2. about[p].mode \in Modes /\ about[p].conversation \in Conversations
    BY <2>1 DEF About
  <2>3. InsertRun(r, "READ_QUERY", about[p].conversation, p, about[p].mode) /\ RestartedRead(p)
    BY <1>1 DEF RecoverAs, RestartedRead
  <2>4. RowMade(r) /\ \A s \in Runs \ {r} : RowKept(s)
    BY <1>0, <2>2, <2>3, InsertRunMakes DEF OperationKind
  <2>5. UNCHANGED <<up, pc, todo, tools, ran, lost>> /\ pc[r] = "none"
    BY <1>1 DEF RecoverAs, InsertRun, tvars
  <2>6. about'[r].parent # NoRun
    BY <1>0, <2>3, RunAssumption DEF InsertRun, RowsOK
  <2>7. Exists(r)' /\ about'[r] # Nothing
    BY <2>4 DEF RowMade, About, Nothing, Exists
  <2>8. Task(r)' /\ Owned(r)'
    BY <2>5, <2>6, <2>7 DEF Task, Owned, Live, Inside
  <2>9. Budget(r)'
    BY <2>5 DEF Sound, Budget
  <2> QED
    BY <2>4, <2>5, <2>8, <2>9, RowsOnlySound DEF Sound
<1>2. CASE CancelCall
  <2>1. \A q \in Runs : RowKept(q) \/ RowMoved(q)
    BY <1>0, <1>2, SetStatusMoves, SameRowsKept
       DEF CancelCall, CancelRead, CancelWrite, CancelInv, rvars
  <2>2. UNCHANGED <<up, pc, todo, tools, ran, lost>>
    BY <1>2 DEF CancelCall, CancelRead, CancelWrite, SetStatus, rvars, tvars
  <2> QED
    BY <2>1, <2>2, RowsOnlySound
<1>3. CASE Crash
  <2> SUFFICES ASSUME NEW r \in Runs
               PROVE  Sound(r)'
    OBVIOUS
  <2>1. Task(r) /\ Budget(r)
    BY DEF Sound
  <2>2. /\ up' = FALSE /\ UNCHANGED <<status, about, tools, ran>>
        /\ pc'[r] = IF pc[r] \in Live THEN "ended" ELSE pc[r]
    BY <1>3 DEF Crash, rvars
  <2>3. pc'[r] \notin Live
    BY <2>2 DEF Live, Inside
  <2>4. {"stage", "close", "cleanup", "finish", "recheck", "mark"} \subseteq Live /\ "none" \notin Live
    BY DEF Live, Inside
  <2>5. Task(r)'
    BY <2>1, <2>2, <2>3, <2>4 DEF Task, Exists
  <2>6. Budget(r)'
    BY <2>1, <2>2, <2>3, <2>4 DEF Budget
  <2> QED
    BY <2>2, <2>5, <2>6 DEF Sound, Owned
<1>4. CASE Restart
  <2> SUFFICES ASSUME NEW r \in Runs
               PROVE  Sound(r)'
    OBVIOUS
  <2>1. Task(r) /\ Budget(r) /\ pc[r] \notin Live
    BY <1>4 DEF Sound, Task, Restart
  <2>2. UNCHANGED <<pc, todo, about, tools, ran>>
    BY <1>4 DEF Restart, tvars
  <2>3. status'[r] = IF Active(r) THEN "FAILED" ELSE status[r]
    BY <1>4 DEF Restart
  <2>4. ~Active(r)' /\ (Exists(r)' <=> Exists(r))
    BY <2>3 DEF Active, Exists, TERMINAL_STATUSES
  <2>5. {"stage", "close", "cleanup", "finish"} \subseteq Live
    BY DEF Live, Inside
  <2>6. Task(r)'
    BY <2>1, <2>2, <2>4, <2>5 DEF Task
  <2>7. Budget(r)'
    BY <2>1, <2>2 DEF Budget
  <2> QED
    BY <2>4, <2>6, <2>7 DEF Sound, Owned
<1> QED
  BY <1>1, <1>2, <1>3, <1>4

LEMMA NextSound ==
    ASSUME TypeOK, TaskInv, CancelInv, \A r \in Runs : Sound(r), Next
    PROVE  \A r \in Runs : Sound(r)'
<1>1. ASSUME NEW r \in Runs, Harness(r) \/ Surroundings(r) \/ AskUser(r)
      PROVE  \A s \in Runs : Sound(s)'
  <2>1. Alone(r)
    BY <1>1, TaskStepAlone
  <2>2. Sound(r)'
    BY <1>1, StageSound, HookSound, EndSound, SurroundingsSound DEF Harness
  <2> QED
    BY <2>1, <2>2, AloneIsSound
<1> QED
  BY <1>1, OtherSound DEF Next

-----------------------------------------------------------------------------
(***************************************************************************)
(* The cancel endpoint.                                                    *)
(***************************************************************************)
CallAnswer(c) ==
    /\ cancel[c].at = "read" => cancel[c].run \in Runs
    /\ cancel[c].result \in RunStatus =>
         /\ cancel[c].result \in TERMINAL_STATUSES
         /\ cancel[c].run \in Runs
         /\ status[cancel[c].run] = cancel[c].result

LEMMA AnswerParts ==
    CancelInv' <=> \A c \in Cancels : CallAnswer(c)'
BY DEF CancelInv, CallAnswer

LEMMA CallsKept ==
    ASSUME TypeOK, TaskInv, Next, ~CancelCall, ~Crash
    PROVE  UNCHANGED cancel
<1>1. ASSUME NEW r \in Runs, Harness(r)
      PROVE  UNCHANGED cancel
  BY <1>1 DEF Harness, Advance, AdvanceRejected, Hook, BeforeTool, CountToolCall, RecheckRun,
     MarkToolRunning, CountRetry, AfterTool, UnmarkToolRunning, Pause, Verify, Cleanup, Finish
<1>2. ASSUME NEW r \in Runs, Surroundings(r) \/ AskUser(r)
      PROVE  UNCHANGED cancel
  BY <1>2 DEF Surroundings, AskUser, Create, Checkpoint, ToolReturns, OperationEnds, Timeout,
     Disconnect, Fault, CleanupFails
<1>3. ASSUME Restart \/ \E p, r \in Runs : RecoverAs(p, r)
      PROVE  UNCHANGED cancel
  BY <1>3 DEF Restart, RecoverAs
<1> QED
  BY <1>1, <1>2, <1>3 DEF Next

LEMMA NextCancel ==
    ASSUME TypeOK, TaskInv, CancelInv, Next
    PROVE  CancelInv'
<1>0. RowsOK /\ CallsOK /\ RowStep
  BY TypeParts, NextRows
<1>1. ASSUME NEW c \in Cancels, cancel'[c].run = cancel[c].run,
             cancel'[c].at = "read" => cancel[c].at = "read",
             cancel'[c].result \in RunStatus => cancel'[c].result = cancel[c].result
      PROVE  CallAnswer(c)'
  BY <1>0, <1>1, ClosedRowKept DEF CancelInv, CallAnswer, RowKept
<1>2. ASSUME NEW c \in Cancels, NEW r \in Runs, CancelRead(c, r)
      PROVE  CancelInv'
  <2>1. status' = status /\ Exists(r)
    BY <1>2 DEF CancelRead, rvars
  <2>2. ASSUME Active(r)
        PROVE  CallAnswer(c)'
    <3>1. cancel'[c] = [at |-> "read", run |-> r, result |-> "none"]
      BY <1>0, <1>2, <2>2 DEF CancelRead, CallsOK
    <3> QED
      BY <3>1 DEF CallAnswer, RunStatus, TERMINAL_STATUSES
  <2>3. ASSUME ~Active(r)
        PROVE  CallAnswer(c)'
    <3>1. cancel'[c] = [at |-> "done", run |-> r, result |-> status[r]]
      BY <1>0, <1>2, <2>3 DEF CancelRead, CallsOK
    <3> QED
      BY <2>1, <2>3, <3>1 DEF CallAnswer, Active
  <2>4. CallAnswer(c)'
    BY <2>2, <2>3
  <2>5. \A d \in Cancels \ {c} : cancel'[d] = cancel[d]
    BY <1>0, <1>2 DEF CancelRead, CallsOK
  <2> QED
    BY <1>1, <2>4, <2>5, AnswerParts
<1>3. ASSUME NEW c \in Cancels, CancelWrite(c)
      PROVE  CancelInv'
  <2> DEFINE r == cancel[c].run
  <2>1. r \in Runs
    BY <1>3 DEF CancelInv, CancelWrite
  <2>2. ASSUME MayBecome(r, "CANCELLED")
        PROVE  CallAnswer(c)'
    <3>1. status'[r] = "CANCELLED"
      BY <1>0, <1>3, <2>1, <2>2 DEF CancelWrite, SetStatus, RowsOK
    <3>2. cancel'[c] = [at |-> "done", run |-> r, result |-> "CANCELLED"]
      BY <1>0, <1>3, <2>2 DEF CancelWrite, CallsOK
    <3> QED
      BY <2>1, <3>1, <3>2 DEF CallAnswer, TERMINAL_STATUSES
  <2>3. ASSUME ~MayBecome(r, "CANCELLED")
        PROVE  CallAnswer(c)'
    <3>1. cancel'[c] = [at |-> "done", run |-> r, result |-> "error"]
      BY <1>0, <1>3, <2>3 DEF CancelWrite, CallsOK
    <3> QED
      BY <3>1 DEF CallAnswer, RunStatus, TERMINAL_STATUSES
  <2>4. CallAnswer(c)'
    BY <2>2, <2>3
  <2>5. \A d \in Cancels \ {c} : cancel'[d] = cancel[d]
    BY <1>0, <1>3 DEF CancelWrite, CallsOK
  <2> QED
    BY <1>1, <2>4, <2>5, AnswerParts
<1>4. CASE Crash
  <2>1. \A c \in Cancels : cancel'[c] = IF cancel[c].at = "read"
           THEN [at |-> "done", run |-> cancel[c].run, result |-> "lost"] ELSE cancel[c]
    BY <1>4 DEF Crash
  <2>2. ASSUME NEW c \in Cancels
        PROVE  /\ cancel'[c].run = cancel[c].run
               /\ cancel'[c].at = "read" => cancel[c].at = "read"
               /\ cancel'[c].result \in RunStatus => cancel'[c].result = cancel[c].result
    <3>1. CASE cancel[c].at = "read"
      <4>1. cancel'[c] = [at |-> "done", run |-> cancel[c].run, result |-> "lost"]
        BY <2>1, <3>1
      <4> QED
        BY <4>1 DEF RunStatus, TERMINAL_STATUSES
    <3>2. CASE cancel[c].at # "read"
      BY <2>1, <3>2
    <3> QED
      BY <3>1, <3>2
  <2> QED
    BY <1>1, <2>2, AnswerParts
<1>5. CASE ~CancelCall /\ ~Crash
  BY <1>1, <1>5, CallsKept, AnswerParts
<1> QED
  BY <1>2, <1>3, <1>4, <1>5 DEF CancelCall

-----------------------------------------------------------------------------
(***************************************************************************)
(* The theorems.                                                           *)
(***************************************************************************)
LEMMA InitInv ==
    ASSUME Init
    PROVE  RunInv
<1> USE DEF Init
<1>1. TypeOK
  <2>1. <<>> \in Seq(RunStatus)
    BY EmptySeq
  <2>2. TasksOK
    BY <2>1, PcValues, FailureValues DEF TasksOK
  <2>3. RowsOK
    BY FailureValues DEF RowsOK
  <2>4. CallsOK
    BY DEF CallsOK
  <2> QED
    BY <2>2, <2>3, <2>4, TypeParts
<1>2. \A r \in Runs : ~Exists(r) /\ ~Active(r) /\ pc[r] = "none"
  BY DEF Exists, Active
<1>3. TaskInv
  BY <1>2 DEF TaskInv, Live, Inside
<1>4. BudgetInv
  BY RunAssumption DEF BudgetInv
<1>5. CancelInv /\ ParentInv
  BY <1>2 DEF CancelInv, ParentInv, RunStatus, TERMINAL_STATUSES
<1>6. ActiveRunsAreOwned /\ OneActivePerConversation /\ RecoveryIsReadOnly
  BY <1>2 DEF ActiveRunsAreOwned, OneActivePerConversation, RecoveryIsReadOnly
<1> QED
  BY <1>1, <1>3, <1>4, <1>5, <1>6 DEF RunInv

LEMMA NextInv ==
    ASSUME RunInv, Next
    PROVE  RunInv'
<1>1. TypeOK /\ TaskInv /\ CancelInv /\ ParentInv
      /\ OneActivePerConversation /\ RecoveryIsReadOnly
      /\ \A r \in Runs : Sound(r)
  BY SoundParts DEF RunInv
<1>2. \A r \in Runs : Sound(r)'
  BY <1>1, NextSound
<1>3. TaskInv' /\ BudgetInv' /\ ActiveRunsAreOwned'
  BY <1>2 DEF Sound, Task, Budget, Owned, TaskInv, BudgetInv, ActiveRunsAreOwned
<1> QED
  BY <1>1, <1>3, NextType, NextCancel, NextRecovery, NextOneActive DEF RunInv

LEMMA StutterInv ==
    ASSUME RunInv, UNCHANGED vars
    PROVE  RunInv'
BY DEF RunInv, vars, TypeOK, TaskInv, BudgetInv, CancelInv, ParentInv, ActiveRunsAreOwned,
   OneActivePerConversation, RecoveryIsReadOnly, Exists, Active, Durable

\* The inductive invariant of the runs: every task that works on a run finds it
\* as it left it or closed, whatever cancels, crashes and recoveries do.
THEOREM RunInvariance == Spec => []RunInv
<1>1. RunInv /\ [Next]_vars => RunInv'
  BY NextInv, StutterInv
<1> QED
  BY <1>1, InitInv, PTL DEF Spec

\* The tool budget of HarnessBudget is never exceeded by tool bodies entered,
\* for every budget, number of runs and interleaving.
THEOREM BudgetNeverExceeded == Spec => []BudgetHolds
<1>1. RunInv => BudgetHolds
  BY DEF RunInv, BudgetInv, BudgetHolds
<1> QED
  BY <1>1, RunInvariance, PTL

\* No active run is left without somebody who will close it, except as named.
THEOREM ActiveRunsOwned == Spec => []ActiveRunsAreOwned
<1>1. RunInv => ActiveRunsAreOwned
  BY DEF RunInv
<1> QED
  BY <1>1, RunInvariance, PTL

\* What the cancel endpoint answered stays true.
THEOREM CancelAnswersStay == Spec => []CancelAnswersHold
<1>1. RunInv => CancelAnswersHold
  BY DEF RunInv, CancelInv, CancelAnswersHold
<1> QED
  BY <1>1, RunInvariance, PTL

\* Recovery children are made of interrupted reads only.
THEOREM RecoveryOfReadsOnly == Spec => []RecoveryIsReadOnly
<1>1. RunInv => RecoveryIsReadOnly
  BY DEF RunInv
<1> QED
  BY <1>1, RunInvariance, PTL

\* With PostgreSQL a conversation never has two active runs.
THEOREM OneActiveRun == Spec => []OneActivePerConversation
<1>1. RunInv => OneActivePerConversation
  BY DEF RunInv
<1> QED
  BY <1>1, RunInvariance, PTL

\* Every change of status is in ALLOWED_TRANSITIONS, the startup closure and
\* the cancel endpoint included, and a closed run keeps its outcome.
THEOREM StatusFollowsTable == Spec => RunsFollowTheTable
<1> DEFINE Follows == \A r \in Runs : Exists(r) =>
             /\ status'[r] \in ALLOWED_TRANSITIONS(status[r]) \cup {status[r]}
             /\ status[r] \in TERMINAL_STATUSES => failure'[r] = failure[r]
<1>1. RunInv /\ [Next]_vars => [Follows]_vars
  <2> SUFFICES ASSUME RunInv, Next
               PROVE  Follows
    OBVIOUS
  <2>1. RowStep
    BY NextRows DEF RunInv
  <2> QED
    BY <2>1, TableStep
<1> QED
  BY <1>1, RunInvariance, PTL DEF Spec, RunsFollowTheTable
=============================================================================
