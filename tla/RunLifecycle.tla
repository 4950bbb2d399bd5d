---------------------------- MODULE RunLifecycle ----------------------------
(***************************************************************************)
(* The runs of agent-service: RequestHarness (harness/request.py), the     *)
(* tool hook (harness/lifecycle.py), the run store over agent_runs         *)
(* (state/run_store.py), the cancel endpoint and the closure of            *)
(* interrupted runs at startup.                                            *)
(*                                                                         *)
(* A request creates a run and then drives it through its stages in one    *)
(* asyncio task.  Every store call is a database transaction of its own,   *)
(* so a cancel, a timeout, a disconnect or a fault may come between any    *)
(* two of them.  The program counter of the task:                          *)
(*                                                                         *)
(*   stage -> operate -> count -> recheck -> mark -> tool -> return -> ... *)
(*            operate -> verify -> close -> ended                          *)
(*   anywhere in the request -> cleanup -> finish -> ended                 *)
(***************************************************************************)
EXTENDS Naturals, FiniteSets, Sequences

CONSTANTS
    Runs,             \* ids of runs
    Roots,            \* the ids that requests take, children take any (a bound)
    Conversations,    \* ids of conversations
    Cancels,          \* calls of the cancel endpoint
    Kinds,            \* the operation kinds users ask for (a workload)
    MaxToolCalls,     \* HarnessBudget.max_tool_calls
    MaxReadRetries,   \* HarnessBudget.max_read_retries
    Stores,           \* the stores the harness is built with
    NoRun             \* a run without a parent

StoreKind == {"postgres", "memory"}

OperationKind == {"READ_QUERY", "BUSINESS_WRITE", "APPROVAL"}

ASSUME RunAssumption ==
    /\ Kinds \subseteq OperationKind
    /\ MaxToolCalls \in Nat \ {0}
    /\ MaxReadRetries \in Nat
    /\ Stores \subseteq StoreKind
    /\ NoRun \notin Runs

VARIABLES
    store,      \* PostgresRunStore (main.py), InMemoryRunStore (development, tests)
    up,         \* the process serves requests
    status,     \* agent_runs.status
    failure,    \* agent_runs.failure_type
    about,      \* kind, conversation and parent of a run, and its harness mode
    tools,      \* agent_runs.tool_call_count
    retries,    \* agent_runs.retry_count
    checkpoint, \* the latest run_checkpoints row: safe_to_resume or not
    pc,         \* where the task of a run stands
    todo,       \* the statuses the task is about to set, in order
    why,        \* the failure_type the task is about to record
    cancel,     \* the calls of the cancel endpoint
    ran,        \* how many tool bodies were entered (history)
    lost        \* runs whose task gave up before closing them (history)

rvars == <<status, failure, about, tools, retries, checkpoint>>
tvars == <<pc, todo, why>>
vars == <<store, up, status, failure, about, tools, retries, checkpoint, pc, todo, why,
          cancel, ran, lost>>

-----------------------------------------------------------------------------
(* Domains.                                                                *)

TERMINAL_STATUSES == {"COMPLETED", "FAILED", "CANCELLED", "NEEDS_CLARIFICATION"}

ALLOWED_TRANSITIONS(s) ==
    CASE s = "RECEIVED"            -> {"CONTEXT_BUILDING", "CONTEXT_READY", "FAILED", "CANCELLED"}
      [] s = "CONTEXT_BUILDING"    -> {"LINKING", "FAILED", "CANCELLED"}
      [] s = "LINKING"             -> {"NEEDS_CLARIFICATION", "PLANNING", "FAILED", "CANCELLED"}
      [] s = "PLANNING"            -> {"GENERATING", "FAILED", "CANCELLED"}
      [] s = "GENERATING"          -> {"NEEDS_CLARIFICATION", "VALIDATING", "TOOL_RUNNING",
                                       "FAILED", "CANCELLED"}
      [] s = "VALIDATING"          -> {"EXECUTING", "GENERATING", "FAILED", "CANCELLED"}
      [] s = "EXECUTING"           -> {"VERIFYING", "FAILED", "CANCELLED"}
      [] s = "CONTEXT_READY"       -> {"MODEL_RUNNING", "FAILED", "CANCELLED"}
      [] s = "MODEL_RUNNING"       -> {"TOOL_RUNNING", "VERIFYING", "FAILED", "CANCELLED"}
      [] s = "TOOL_RUNNING"        -> {"NEEDS_CLARIFICATION", "MODEL_RUNNING", "GENERATING",
                                       "VERIFYING", "FAILED", "CANCELLED"}
      [] s = "VERIFYING"           -> {"GENERATING", "COMPLETED", "FAILED", "CANCELLED"}
      [] OTHER                     -> {}

RunStatus == TERMINAL_STATUSES \cup
    {"RECEIVED", "CONTEXT_BUILDING", "LINKING", "PLANNING", "GENERATING", "VALIDATING",
     "EXECUTING", "CONTEXT_READY", "MODEL_RUNNING", "TOOL_RUNNING", "VERIFYING"}

\* "enforce", or one of "off" and "shadow", which the harness treats alike;
\* a child that answers a clarification is served by execute_resumed_stream.
Modes == {"enforce", "shadow", "resumed"}

About == [kind : OperationKind, conversation : Conversations,
          parent : Runs \cup {NoRun}, mode : Modes]

Nothing == [kind |-> "NONE"]

FailureType == {"none", "timeout", "error", "cancelled", "process_restarted"}

\* Inside execute_stream, where a timeout, a disconnect or a fault may hit.
Inside == {"stage", "operate", "count", "recheck", "mark", "tool", "ask", "retry",
           "return", "unmark", "verify", "close"}

Live == Inside \cup {"cleanup", "finish"}

Pc == Live \cup {"none", "ended"}

TypeOK ==
    /\ store \in Stores
    /\ up \in BOOLEAN
    /\ status \in [Runs -> RunStatus \cup {"NONE"}]
    /\ failure \in [Runs -> FailureType]
    /\ about \in [Runs -> About \cup {Nothing}]
    /\ tools \in [Runs -> Nat] /\ retries \in [Runs -> Nat]
    /\ checkpoint \in [Runs -> {"none", "safe", "unsafe"}]
    /\ pc \in [Runs -> Pc]
    /\ todo \in [Runs -> Seq(RunStatus)]
    /\ why \in [Runs -> FailureType]
    /\ cancel \in [Cancels -> [at : {"idle", "read", "done"}, run : Runs \cup {NoRun},
                               result : RunStatus \cup {"none", "error", "lost"}]]
    /\ ran \in [Runs -> Nat]
    /\ lost \subseteq Runs

-----------------------------------------------------------------------------
(* The run store.                                                          *)

\* The runs outlive the process, and the database's indexes guard them.
Durable == store = "postgres"

Exists(r) == status[r] # "NONE"

Active(r) == Exists(r) /\ status[r] \notin TERMINAL_STATUSES

\* transition(): checked against ALLOWED_TRANSITIONS under the row lock.
MayBecome(r, s) == s \in ALLOWED_TRANSITIONS(status[r])

SetStatus(r, s, f) ==
    /\ status' = [status EXCEPT ![r] = s]
    /\ failure' = [failure EXCEPT ![r] = f]
    /\ UNCHANGED <<about, tools, retries, checkpoint>>

ConversationIsFree_Fault(c) == Durable =>
    \A r \in Runs : status[r] \in {"RECEIVED", "MODEL_RUNNING"} => about[r].conversation # c
\* uq_agent_runs_active_conversation; the in-memory store has no such index.
ConversationIsFree(c) ==
    Durable => \A r \in Runs : Active(r) => about[r].conversation # c

\* create(): a RECEIVED row.
InsertRun(r, k, c, p, m) ==
    /\ ~Exists(r)
    /\ ConversationIsFree(c)
    /\ status' = [status EXCEPT ![r] = "RECEIVED"]
    /\ about' = [about EXCEPT ![r] = [kind |-> k, conversation |-> c, parent |-> p, mode |-> m]]
    /\ UNCHANGED <<failure, tools, retries, checkpoint>>

Goto(r, l) == pc' = [pc EXCEPT ![r] = l] /\ UNCHANGED <<todo, why>>

EndTask(r) ==
    /\ pc' = [pc EXCEPT ![r] = "ended"]
    /\ todo' = [todo EXCEPT ![r] = <<>>]
    /\ why' = [why EXCEPT ![r] = "none"]

\* The exception handlers of execute_stream: _finish_failed, _finish_cancelled.
Abort(r, s, f) ==
    /\ pc' = [pc EXCEPT ![r] = "cleanup"]
    /\ todo' = [todo EXCEPT ![r] = <<s>>]
    /\ why' = [why EXCEPT ![r] = f]

-----------------------------------------------------------------------------
Init ==
    /\ store \in Stores
    /\ up = TRUE
    /\ status = [r \in Runs |-> "NONE"]
    /\ failure = [r \in Runs |-> "none"]
    /\ about = [r \in Runs |-> Nothing]
    /\ tools = [r \in Runs |-> 0] /\ retries = [r \in Runs |-> 0]
    /\ checkpoint = [r \in Runs |-> "none"]
    /\ pc = [r \in Runs |-> "none"]
    /\ todo = [r \in Runs |-> <<>>]
    /\ why = [r \in Runs |-> "none"]
    /\ cancel = [c \in Cancels |-> [at |-> "idle", run |-> NoRun, result |-> "none"]]
    /\ ran = [r \in Runs |-> 0]
    /\ lost = {}

-----------------------------------------------------------------------------
(* The task of a request: stages.                                          *)

Stages(m) ==
    IF m = "enforce"     THEN <<"CONTEXT_BUILDING", "LINKING", "PLANNING", "GENERATING">>
    ELSE IF m = "shadow" THEN <<"CONTEXT_READY", "MODEL_RUNNING">>
    ELSE                      <<"LINKING", "PLANNING", "GENERATING">>

\* A request is refused by the unique index when its conversation has an
\* active run: then it leaves no run behind.
Create(r) ==
    /\ up /\ pc[r] = "none" /\ r \in Roots
    /\ \E k \in Kinds, c \in Conversations, m \in {"enforce", "shadow"} :
         /\ InsertRun(r, k, c, NoRun, m)
         /\ todo' = [todo EXCEPT ![r] = Stages(m)]
    /\ pc' = [pc EXCEPT ![r] = "stage"]
    /\ UNCHANGED <<store, up, why, cancel, ran, lost>>

\* The next transition of a list of them, in execute_stream.
Advance(r) ==
    /\ pc[r] \in {"stage", "close"}
    /\ MayBecome(r, Head(todo[r]))
    /\ SetStatus(r, Head(todo[r]), "none")
    /\ todo' = [todo EXCEPT ![r] = Tail(@)]
    /\ pc' = [pc EXCEPT ![r] = IF Tail(todo[r]) # <<>> THEN @
                               ELSE IF @ = "stage" THEN "operate" ELSE "ended"]
    /\ UNCHANGED <<store, up, why, cancel, ran, lost>>

\* InvalidRunTransition, handled like any exception of the request.
AdvanceRejected(r) ==
    /\ pc[r] \in {"stage", "close"}
    /\ ~MayBecome(r, Head(todo[r]))
    /\ Abort(r, "FAILED", "error")
    /\ UNCHANGED <<store, up, rvars, cancel, ran, lost>>

-----------------------------------------------------------------------------
(* The task of a request: the tool loop and its hook.                      *)

\* V2SystemPromptEnhancer saves the context manifest as a checkpoint.
Checkpoint(r) ==
    /\ pc[r] = "operate" /\ tools[r] = 0
    /\ checkpoint' = [checkpoint EXCEPT ![r] =
                        IF about[r].kind = "READ_QUERY" THEN "safe" ELSE "unsafe"]
    /\ UNCHANGED <<store, up, status, failure, about, tools, retries, tvars, cancel, ran, lost>>

\* before_tool: the first look at the run.
BeforeTool(r) ==
    /\ pc[r] = "operate"
    /\ IF status[r] = "NEEDS_CLARIFICATION" THEN EndTask(r)
       ELSE IF status[r] \in TERMINAL_STATUSES THEN Abort(r, "FAILED", "error")
       ELSE Goto(r, "count")
    /\ UNCHANGED <<store, up, rvars, cancel, ran, lost>>

CountToolCall_Fault(r) ==
    /\ pc[r] = "count"
    /\ tools' = [tools EXCEPT ![r] = @ + 1]
    /\ IF tools[r] > MaxToolCalls THEN Abort(r, "FAILED", "error") ELSE Goto(r, "recheck")
    /\ UNCHANGED <<store, up, status, failure, about, retries, checkpoint, cancel, ran, lost>>
\* before_tool: the call is counted, and refused beyond the budget.
CountToolCall(r) ==
    /\ pc[r] = "count"
    /\ tools' = [tools EXCEPT ![r] = @ + 1]
    /\ IF tools[r] + 1 > MaxToolCalls THEN Abort(r, "FAILED", "error") ELSE Goto(r, "recheck")
    /\ UNCHANGED <<store, up, status, failure, about, retries, checkpoint, cancel, ran, lost>>

EnterTool(r) == Goto(r, "tool") /\ ran' = [ran EXCEPT ![r] = @ + 1]

\* before_tool: the second look; in any other status the hook just returns.
RecheckRun(r) ==
    /\ pc[r] = "recheck"
    /\ IF status[r] \in {"MODEL_RUNNING", "GENERATING"}
         THEN Goto(r, "mark") /\ ran' = ran
         ELSE EnterTool(r)
    /\ UNCHANGED <<store, up, rvars, cancel, lost>>

\* before_tool: the transition to TOOL_RUNNING.
MarkToolRunning(r) ==
    /\ pc[r] = "mark"
    /\ IF MayBecome(r, "TOOL_RUNNING")
         THEN SetStatus(r, "TOOL_RUNNING", "none") /\ EnterTool(r)
         ELSE Abort(r, "FAILED", "error") /\ UNCHANGED <<rvars, ran>>
    /\ UNCHANGED <<store, up, cancel, lost>>

\* ClarificationService.create, called by the search tool: the run's status
\* is checked and the card saved.
AskUser(r) ==
    /\ pc[r] = "tool"
    /\ status[r] \in {"LINKING", "GENERATING", "TOOL_RUNNING"}
    /\ Goto(r, "ask")
    /\ UNCHANGED <<store, up, rvars, cancel, ran, lost>>

\* ClarificationService.create: the transition; when it is rejected the tool
\* reports a failure that is not a read retry.
Pause(r) ==
    /\ pc[r] = "ask"
    /\ IF MayBecome(r, "NEEDS_CLARIFICATION") THEN SetStatus(r, "NEEDS_CLARIFICATION", "none")
                                              ELSE UNCHANGED rvars
    /\ Goto(r, "return")
    /\ UNCHANGED <<store, up, cancel, ran, lost>>

\* The tool returns; a failed read is to be counted as a retry.
ToolReturns(r) ==
    /\ pc[r] = "tool"
    /\ \E l \in {"return", "retry"} : Goto(r, l)
    /\ UNCHANGED <<store, up, rvars, cancel, ran, lost>>

\* after_tool: the retry is counted, and refused beyond the budget.
CountRetry(r) ==
    /\ pc[r] = "retry"
    /\ retries' = [retries EXCEPT ![r] = @ + 1]
    /\ IF retries[r] + 1 > MaxReadRetries THEN Abort(r, "FAILED", "error") ELSE Goto(r, "return")
    /\ UNCHANGED <<store, up, status, failure, about, tools, checkpoint, cancel, ran, lost>>

\* after_tool: a run found TOOL_RUNNING is to go back to its model stage.
AfterTool(r) ==
    /\ pc[r] = "return"
    /\ Goto(r, IF status[r] = "TOOL_RUNNING" THEN "unmark" ELSE "operate")
    /\ UNCHANGED <<store, up, rvars, cancel, ran, lost>>

\* after_tool: the transition back.
UnmarkToolRunning(r) ==
    /\ pc[r] = "unmark"
    /\ LET s == IF about[r].mode = "shadow" THEN "MODEL_RUNNING" ELSE "GENERATING" IN
         IF MayBecome(r, s) THEN SetStatus(r, s, "none") /\ Goto(r, "operate")
                            ELSE Abort(r, "FAILED", "error") /\ UNCHANGED rvars
    /\ UNCHANGED <<store, up, cancel, ran, lost>>

-----------------------------------------------------------------------------
(* The task of a request: its end.                                         *)

\* The agent's stream is exhausted.
OperationEnds(r) ==
    /\ pc[r] = "operate"
    /\ Goto(r, "verify")
    /\ UNCHANGED <<store, up, rvars, cancel, ran, lost>>

Closing(r) ==
    IF about[r].mode # "shadow" /\ status[r] = "GENERATING"
      THEN <<"VALIDATING", "EXECUTING", "VERIFYING", "COMPLETED">>
    ELSE IF about[r].mode = "enforce" \/ status[r] = "VERIFYING"
      THEN <<"COMPLETED">>
    ELSE <<"VERIFYING", "COMPLETED">>

\* execute_stream reads the run once more and decides how to close it.
Verify(r) ==
    /\ pc[r] = "verify"
    /\ IF status[r] = "NEEDS_CLARIFICATION"
         THEN EndTask(r)
         ELSE /\ pc' = [pc EXCEPT ![r] = "close"]
              /\ todo' = [todo EXCEPT ![r] = Closing(r)]
              /\ UNCHANGED why
    /\ UNCHANGED <<store, up, rvars, cancel, ran, lost>>

Timeout_Fault(r) ==
    /\ pc[r] \in Inside
    /\ EndTask(r)
    /\ UNCHANGED <<store, up, rvars, cancel, ran, lost>>
\* asyncio.timeout(budget.timeout_seconds)
Timeout(r) ==
    /\ pc[r] \in Inside
    /\ Abort(r, "FAILED", "timeout")
    /\ UNCHANGED <<store, up, rvars, cancel, ran, lost>>

Disconnect_Fault(r) ==
    /\ pc[r] \in Inside
    /\ EndTask(r)
    /\ UNCHANGED <<store, up, rvars, cancel, ran, lost>>
\* The client goes away: CancelledError or GeneratorExit.
Disconnect(r) ==
    /\ pc[r] \in Inside
    /\ Abort(r, "CANCELLED", "cancelled")
    /\ UNCHANGED <<store, up, rvars, cancel, ran, lost>>

\* The model, a hook, the trace or the database raises.
Fault(r) ==
    /\ pc[r] \in Inside
    /\ Abort(r, "FAILED", "error")
    /\ UNCHANGED <<store, up, rvars, cancel, ran, lost>>

Cleanup_Fault(r) ==
    /\ pc[r] = "cleanup"
    /\ IF Active(r) /\ status[r] # "TOOL_RUNNING" THEN Goto(r, "finish") ELSE EndTask(r)
    /\ UNCHANGED <<store, up, rvars, cancel, ran, lost>>
\* _finish_*: the run is read; a terminal one is left alone.
Cleanup(r) ==
    /\ pc[r] = "cleanup"
    /\ IF Active(r) THEN Goto(r, "finish") ELSE EndTask(r)
    /\ UNCHANGED <<store, up, rvars, cancel, ran, lost>>

Finish_Fault(r) ==
    /\ pc[r] = "finish"
    /\ SetStatus(r, Head(todo[r]), why[r])
    /\ EndTask(r)
    /\ UNCHANGED <<store, up, cancel, ran, lost>>
Finish_Swapped(r) ==
    /\ pc[r] = "finish"
    /\ IF MayBecome(r, Head(todo[r])) THEN SetStatus(r, why[r], Head(todo[r])) ELSE UNCHANGED rvars
    /\ EndTask(r)
    /\ UNCHANGED <<store, up, cancel, ran, lost>>

\* _finish_*: the transition; an InvalidRunTransition leaves the run as it is.
Finish(r) ==
    /\ pc[r] = "finish"
    /\ IF MayBecome(r, Head(todo[r])) THEN SetStatus(r, Head(todo[r]), why[r]) ELSE UNCHANGED rvars
    /\ EndTask(r)
    /\ UNCHANGED <<store, up, cancel, ran, lost>>

\* _finish_*: the database raises, or the task is cancelled once more.
CleanupFails(r) ==
    /\ pc[r] \in {"cleanup", "finish"}
    /\ EndTask(r)
    /\ lost' = lost \cup {r}
    /\ UNCHANGED <<store, up, rvars, cancel, ran>>

-----------------------------------------------------------------------------
(* The cancel endpoint.                                                    *)

\* cancel(): the run is read; a terminal one is returned as it is.
CancelRead(c, r) ==
    /\ up /\ cancel[c].at = "idle" /\ Exists(r)
    /\ cancel' = [cancel EXCEPT ![c] =
         IF Active(r) THEN [at |-> "read", run |-> r, result |-> "none"]
                      ELSE [at |-> "done", run |-> r, result |-> status[r]]]
    /\ UNCHANGED <<store, up, rvars, tvars, ran, lost>>

CancelWrite_Fault(c) ==
    /\ cancel[c].at = "read"
    /\ LET r == cancel[c].run IN
         /\ cancel' = [cancel EXCEPT ![c] = [at |-> "done", run |-> r, result |-> "CANCELLED"]]
         /\ IF MayBecome(r, "CANCELLED") THEN SetStatus(r, "CANCELLED", "cancelled")
                                         ELSE UNCHANGED rvars
    /\ UNCHANGED <<store, up, tvars, ran, lost>>
\* cancel(): the transition, or an InvalidRunTransition the caller gets as a 500.
CancelWrite(c) ==
    /\ cancel[c].at = "read"
    /\ LET r == cancel[c].run IN
         IF MayBecome(r, "CANCELLED")
           THEN /\ SetStatus(r, "CANCELLED", "cancelled")
                /\ cancel' = [cancel EXCEPT ![c] = [at |-> "done", run |-> r, result |-> "CANCELLED"]]
           ELSE /\ cancel' = [cancel EXCEPT ![c] = [at |-> "done", run |-> r, result |-> "error"]]
                /\ UNCHANGED rvars
    /\ UNCHANGED <<store, up, tvars, ran, lost>>

-----------------------------------------------------------------------------
(* The process and recovery.                                               *)

\* The process dies: its tasks and the calls it serves are gone.  With the
\* in-memory store nothing is left to go on with.
Crash ==
    /\ up /\ Durable
    /\ up' = FALSE
    /\ pc' = [r \in Runs |-> IF pc[r] \in Live THEN "ended" ELSE pc[r]]
    /\ cancel' = [c \in Cancels |->
         IF cancel[c].at = "read" THEN [at |-> "done", run |-> cancel[c].run, result |-> "lost"]
                                  ELSE cancel[c]]
    /\ todo' = [r \in Runs |-> <<>>]
    /\ why' = [r \in Runs |-> "none"]
    /\ UNCHANGED <<store, rvars, ran, lost>>

\* Startup: fail_incomplete_runs closes every run an earlier process left.
Restart ==
    /\ ~up
    /\ up' = TRUE
    /\ status' = [r \in Runs |-> IF Active(r) THEN "FAILED" ELSE status[r]]
    /\ failure' = [r \in Runs |-> IF Active(r) THEN "process_restarted" ELSE failure[r]]
    /\ lost' = {}
    /\ UNCHANGED <<store, about, tools, retries, checkpoint, tvars, cancel, ran>>

RecoverAs_Fault(p, r) ==
    /\ up /\ Exists(p) /\ pc[r] = "none"
    /\ about[p].kind = "READ_QUERY"
    /\ status[p] = "FAILED"
    /\ checkpoint[p] = "safe"
    /\ InsertRun(r, "READ_QUERY", about[p].conversation, p, about[p].mode)
    /\ UNCHANGED <<store, up, tvars, cancel, ran, lost>>
\* create_recovery_child: a new run for a read that a restart interrupted.
\* The parent is closed, so that its reads and the insert are one step.
RecoverAs(p, r) ==
    /\ up /\ Exists(p) /\ pc[r] = "none"
    /\ about[p].kind = "READ_QUERY"
    /\ status[p] = "FAILED" /\ failure[p] = "process_restarted"
    /\ checkpoint[p] = "safe"
    /\ InsertRun(r, "READ_QUERY", about[p].conversation, p, about[p].mode)
    /\ UNCHANGED <<store, up, tvars, cancel, ran, lost>>

-----------------------------------------------------------------------------
Hook(r) ==
    \/ BeforeTool(r) \/ CountToolCall(r) \/ RecheckRun(r) \/ MarkToolRunning(r)
    \/ CountRetry(r) \/ AfterTool(r) \/ UnmarkToolRunning(r)

\* What the harness does by itself once it is given the processor.
Harness(r) ==
    \/ Advance(r) \/ AdvanceRejected(r) \/ Hook(r) \/ Pause(r)
    \/ Verify(r) \/ Cleanup(r) \/ Finish(r)

\* What the model, the tools, the client and the environment do to a request.
Surroundings(r) ==
    \/ Create(r) \/ Checkpoint(r) \/ ToolReturns(r) \/ OperationEnds(r)
    \/ Timeout(r) \/ Disconnect(r) \/ Fault(r) \/ CleanupFails(r)

CancelCall == \E c \in Cancels : CancelWrite(c) \/ \E r \in Runs : CancelRead(c, r)

Next ==
    \/ \E r \in Runs : Harness(r) \/ Surroundings(r) \/ AskUser(r)
    \/ \E p, r \in Runs : RecoverAs(p, r)
    \/ CancelCall
    \/ Crash
    \/ Restart

Spec == Init /\ [][Next]_vars

\* The event loop fires asyncio.timeout and runs the handlers; nobody promises
\* that the model, a tool or the client makes progress, nor that the process
\* is started again.
Fairness == \A r \in Runs : WF_vars(Timeout(r)) /\ WF_vars(Cleanup(r) \/ Finish(r))

FairSpec == Spec /\ Fairness

-----------------------------------------------------------------------------
(* Safety.                                                                 *)

\* A run that is not closed is being worked on.  The others are those whose
\* task failed even in closing it, those a dead process left for the next
\* startup, and recovery children nobody has started.
ActiveRunsAreOwned ==
    \A r \in Runs : Active(r) =>
        \/ pc[r] \in Live
        \/ r \in lost
        \/ ~up
        \/ about[r].parent # NoRun /\ pc[r] = "none"

\* With PostgreSQL a conversation has at most one active run, whatever closes
\* and recovers runs.
OneActivePerConversation == Durable =>
    \A r, s \in Runs :
        Active(r) /\ Active(s) /\ about[r].conversation = about[s].conversation => r = s

\* The budget fails closed: no tool body is entered beyond it, although the
\* count and the entry are separate steps that other calls come between.
BudgetHolds == \A r \in Runs : ran[r] <= tools[r] /\ ran[r] <= MaxToolCalls

\* Only reads are prepared for recovery, and only runs a restart interrupted
\* are recovered: never one that failed, timed out or was cancelled.
RecoveryIsReadOnly ==
    \A r \in Runs :
        /\ checkpoint[r] = "safe" => about[r].kind = "READ_QUERY"
        /\ Exists(r) /\ about[r].parent # NoRun =>
             /\ about[r].kind = "READ_QUERY"
             /\ about[about[r].parent].kind = "READ_QUERY"
             /\ failure[about[r].parent] = "process_restarted"

\* What the cancel endpoint answered stays true: a run reported as cancelled
\* is never found completed or failed.
CancelAnswersHold ==
    \A c \in Cancels :
        cancel[c].result \in RunStatus => status[cancel[c].run] = cancel[c].result

\* Every change of status is in the table, those of the startup recovery and
\* of the cancel endpoint included, and a closed run keeps its outcome.
RunsFollowTheTable ==
    [][\A r \in Runs : Exists(r) =>
         /\ status'[r] \in ALLOWED_TRANSITIONS(status[r]) \cup {status[r]}
         /\ status[r] \in TERMINAL_STATUSES => failure'[r] = failure[r]]_vars

-----------------------------------------------------------------------------
(* The inductive invariant: what a task, a call or a child may rely on.    *)

\* A task works on a run that exists, in a process that is up, and knows what
\* is left to do: a closing one ends with COMPLETED, a failing one with an
\* outcome that every active run accepts.
TaskInv ==
    \A r \in Runs :
        /\ Exists(r) <=> about[r] # Nothing
        /\ pc[r] # "none" => Exists(r)
        /\ pc[r] \in Live => up
        /\ pc[r] \in {"stage", "close", "cleanup", "finish"} => todo[r] # <<>>
        /\ pc[r] = "close" => todo[r][Len(todo[r])] = "COMPLETED"
        /\ pc[r] \in {"cleanup", "finish"} => Head(todo[r]) \in {"FAILED", "CANCELLED"}

\* Between the count of a tool call and its entry the call is reserved.
BudgetInv ==
    \A r \in Runs :
        /\ ran[r] <= tools[r] /\ ran[r] <= MaxToolCalls
        /\ pc[r] \in {"recheck", "mark"} => ran[r] < tools[r] /\ tools[r] <= MaxToolCalls

\* The cancel endpoint answers with closed runs only.
CancelInv ==
    \A c \in Cancels :
        /\ cancel[c].at = "read" => cancel[c].run \in Runs
        /\ cancel[c].result \in RunStatus =>
             /\ cancel[c].result \in TERMINAL_STATUSES
             /\ cancel[c].run \in Runs
             /\ status[cancel[c].run] = cancel[c].result

\* A child was made of a run that stays closed.
ParentInv ==
    \A r \in Runs :
        /\ ~Exists(r) => checkpoint[r] = "none"
        /\ Exists(r) /\ about[r].parent # NoRun =>
             status[about[r].parent] \in TERMINAL_STATUSES

RunInv ==
    /\ TypeOK /\ TaskInv /\ BudgetInv /\ CancelInv /\ ParentInv
    /\ ActiveRunsAreOwned /\ OneActivePerConversation /\ RecoveryIsReadOnly

-----------------------------------------------------------------------------
(* Liveness.                                                               *)

\* A request's run is closed in the end, although the model or a tool hangs or
\* the client goes, unless closing it fails or the process dies first.
RunsClose ==
    \A r \in Runs : pc[r] \in Live ~> (Exists(r) /\ ~Active(r)) \/ r \in lost \/ ~up

-----------------------------------------------------------------------------
(* What is said of the code and what it does not do.                       *)

\* The hook, "run is already terminal": it lets no tool start in a run that
\* it finds closed.
NoToolInClosedRun ==
    [][\A r \in Runs : ran'[r] # ran[r] => status[r] \notin TERMINAL_STATUSES]_vars
=============================================================================
