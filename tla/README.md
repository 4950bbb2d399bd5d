# Verification of Enterprise Database Copilot

This directory holds TLA+ models of Enterprise Database Copilot, the TLC
configurations that check them, and theorems about them checked by TLAPS.
The program is two services over one PostgreSQL server:

* `business-service` (Java, Spring): the only writer of business data;
* `agent-service` (Python, FastAPI): the chat agent, its request harness, its
  memory, its grounding of questions in a catalog and its SQL guards.

In what follows BS stands for
`src/business-service/src/main/java/com/example/copilot` and AS for
`src/agent-service/app`.

## 1. Inventory

### 1.1 Approval of business writes (BS/service, BS/domain)

*State*: the rows of `pending_actions`, `orders`, `products`, `audit_events`.
*Operations*: `preview` stores a PENDING action bound to its user, a hash of
its payload, the version of the order and a time to live; `confirm` executes
it in one transaction; `cancel` discards it; `loadAndValidate` locks the row
and checks owner, status, expiry, token, hash.
*Interaction*: the chat workflow (AS/workflow.py) and the web API call it over
HTTP; `AuditService` writes the event of a failure in a transaction of its own,
and is meant to write the others after the commit.
*Hard*: concurrent confirms and cancels, two approvals of one order, expiry
inside a failing transaction, audit after the commit, a second connection
taken while one is held, client timeouts after the commit.
*Correct when*: an approval takes effect at most once, on the version it was
given for; decisions are final; what was decided is in the audit trail; every
request is answered.

### 1.2 Harness runs (AS/harness, AS/state/run_store.py)

*State*: `agent_runs` (status, phase history, budget counters, parent,
instruction hash), checkpoints.
*Operations*: create, transition along `ALLOWED_TRANSITIONS`, budget counters,
cancel, restart recovery (`fail_incomplete_runs`), recovery children.
*Interaction*: `RequestHarness.execute_stream` drives a run, the lifecycle hook
moves it at every tool call, the cancel API moves it from another request.
*Hard*: cancel against completion, tools of a cancelled run, budgets, restarts,
failures while a failure is being handled.
*Correct when*: a terminal run never moves, no tool runs past the budget, every
run that was started ends, a restart leaves no run open, only interrupted reads
are recovered.

### 1.3 Clarification and resume (AS/harness/clarification.py, AS/state/api.py)

*State*: clarification cards, resume tokens, child runs; the unique index that
allows one active run per conversation.
*Operations*: ask (card, then NEEDS_CLARIFICATION), answer (one child), claim
(single-use token), cancel, restart.
*Hard*: two answers at once, claim against cancel, a crash between the card and
the transition, a child that is never resumed and blocks its conversation.
*Correct when*: a card gets one child, a token starts one stream, nothing
expired is applied, a claimed child is worked on.

### 1.4 Memory (AS/state/memory_service.py, AS/state/repositories.py)

*State*: memory records (review status, validity, conflict key, expiry, scope),
events.  *Operations*: candidate, confirm, reject, delete, invalidate, search.
*Hard*: the per-user limit is a read and a write, confirmations of rival
memories race and use a reading from before their lock, rejections and
deletions take no lock.
*Correct when*: at most one memory of a conflict key is recalled, the one
confirmed last is, the limit holds.

### 1.5 Conversations and compaction (AS/state, AS/context_v2/conversation.py)

*State*: messages, compaction states with versions.  *Hard*: whole-conversation
saves overwrite each other; requests that are stopped, restarted or outlive
their run; version collisions.
*Correct when*: no save loses a stored message; the compaction a prompt shows is
the one stored under its version.

### 1.6 Context compiler (AS/context_v2, AS/state/context.py)

Pure selection of context items under a token budget, per phase; manifests with
sequence numbers.  *Hard*: mandatory items against the budget, expiry.
*Correct when*: in enforce mode what is shown keeps to the budget and has the
mandatory items, and nothing is left out that fits.

### 1.7 Rollout policy and monitor (AS/rollout)

*State*: versioned policies by scope, incident windows.  *Operations*: decide,
publish, roll back, claim and run the monitor.  *Hard*: precedence of scopes
against an emergency downgrade, two monitors, versions.
*Correct when*: versions are unique, and a safety incident ends enforcement for
the requests under the global policies whatever else happens.

### 1.8 Query planning and grounding (AS/grounding)

*State*: catalog snapshots, query plans with versions.  Schema linking, join
paths (breadth-first search), validation, persistence.
*Hard*: linker, validator and guard each have an idea of their own of what a
plan uses.
*Correct when*: every valid plan can be executed by SQL that the guard accepts.

### 1.9 SQL guards and tools (AS/security, AS/tools)

Classification of SQL, plan-bound guard, result guard; the tools `safe_read_sql`,
`validate_query_plan`, `preview_business_action`, knowledge search.  *Hard*:
what was validated against what is executed.
*Correct when*: in enforce mode no query runs that is not aligned with the plan
validated last, against the evidence found last; SQL that is accepted reads and
returns what its plan says.

### 1.10 Chat workflow and HTTP client (AS/workflow.py, AS/business_client.py)

Turns the buttons of an approval card into HTTP requests and shows a card.

### 1.11 Trace, evidence, retrieval, evaluation, UI, configuration

Trace sequence numbers per run, evidence reports, hybrid retrieval and ranking,
offline evaluation, web UI, settings, authentication.

### How the parts interact

| from | to | by |
|---|---|---|
| chat workflow, preview tool | approval | HTTP requests, 10 s client timeout |
| approval | audit | a second transaction inside a failing confirm; a callback after the commit of a decision |
| chat request | harness run | one asyncio task per request; every store call a transaction |
| agent's tools | harness run | the hooks `before_tool`, `after_tool` around each call |
| cancel endpoint | harness run | another task, same row, no lock held between its read and its write |
| search tool | clarification | saves a card, then pauses the run of its own request |
| clarify and resume endpoints | clarification, runs | answer (child run, token), claim (token, stream) |
| startup | runs | `fail_incomplete_runs` before the first request |
| runs | conversations | the admission of a run is all that keeps two saves of a conversation apart |
| memories, conversation | context compiler | the items of a prompt |
| search tool, plan tool, SQL tool | each other | the grounding state of the request: evidence and validated plan |
| runs | manifests, plans, trace | numbered rows per run, advisory locks |
| rollout | runs, context compiler, SQL tool | the mode a request runs in |

## 2. Modules

| module | models | checked by |
|---|---|---|
| `ActionApproval` | `ActionService`, `AuditService`, `PendingActionRepository` (1.1) | `approval`, `approval_audit` |
| `OrderLedger` | what 1.1 promises: orders that change only by approvals | as a property of `approval` |
| `ApprovalRefinement` | the refinement mapping from the first to the second | `approval` |
| `ApprovalChat` | composes `ActionApproval` with the chat workflow and its client (1.10) | `approval_chat` |
| `RunLifecycle` | the run store, the request's task, the tool hook, cancel, restart, recovery (1.2) | `run_lifecycle`, `run_liveness`, `run_tool_after_cancel` |
| `Clarification` | composes `RunLifecycle` with cards, tokens and claims (1.3) | `clarification`, `clarify_claim` |
| `Questions` | what 1.3 promises: a question is answered once or lapses, its ticket is spent once | as a property of `clarification` |
| `ClarificationRefinement` | the refinement mapping from `Clarification` to `Questions` | `clarification` |
| `MemoryLifecycle` | the memories of a user under concurrent calls (1.4) | `agent_state`, `memory_limit` |
| `Conversations` | one conversation: loads, saves, compaction, deletion (1.5) | `agent_state` |
| `ContextCompiler` | the selection of a prompt's items (1.6) | `agent_state` |
| `Rollout` | decisions, the monitor, rollbacks (1.7) | `governed_query` |
| `QueryPlanning` | linker and validator (1.8) | `governed_query` |
| `PlanGuard` | extends `QueryPlanning` by the SQL and the guard (1.9) | `governed_query`, `guard_is_strict` |
| `QueryTools` | the three tools of a run and what they hand each other (1.9) | `governed_query` |
| `MCAgentState`, `MCGovernedQuery` | put the parts of 1.4 to 1.6, and of 1.7 to 1.9, side by side | |
| `MC*` | the instances for TLC: sets of model values, symmetry | |
| `ActionApproval_proof`, `ApprovalRefinement_proof`, `ApprovalChat_proof` | the theorems of 1.1 and 1.10 | TLAPS |
| `RunLifecycle_proof`, `Clarification_proof` | the theorems of 1.2 and 1.3 | TLAPS |
| `MemoryLifecycle_proof` | the theorems of 1.4 | TLAPS |
| `AgentState_proof` | the theorems of 1.5 and 1.6, and of `MCAgentState` | TLAPS |
| `GovernedQuery_proof` | the theorems of 1.7, 1.8 and 1.9, and of `MCGovernedQuery` | TLAPS |

### 2.1 ActionApproval

State: one function per table (`actions`, `orders`, `product`, `audit`) holding
what is committed, `due` for the clock (which approvals have outlived
`expires_at`), `lock` for the row lock of `SELECT ... FOR UPDATE`, and `req`,
the program counter of each request slot with what its transaction has read.
An action is a stretch of code between two points where another transaction
may be seen or may see something:

| action | code |
|---|---|
| `Preview` | `previewX`: the rules, the row, its event |
| `Call` | a confirm or cancel request reaches the controller |
| `Begin`, `BeginTimeout` | the role check, a connection of the pool or none in time |
| `Load` (`LoadRefused`, `LoadExpired`, `LoadValid`) | `loadAndValidate` once the row lock is granted |
| `CommitCancel` | `cancel` up to its commit |
| `Execute`, `ExecuteFails` | `execute` up to the flush, or its exception |
| `RecordFailure`, `RecordTimeout`, `Rollback` | the catch block of `confirm`: ACTION_FAILED on a second connection |
| `CommitConfirm`, `CommitConflict` | flush and commit: the `@Version` comparison |
| `AuditAfterCommit` | the callback of `recordAfterCommit` |
| `Crash`, `TimeToLiveEnds`, `ProductChanges` | environment |

Writes of an open transaction are not in the state: they appear at its commit,
which is what READ COMMITTED lets others see.  Amounts, lines and texts of an
order, and the payload with its hash, are left out; the hash protects a row
that only this service writes.  Money and stock do not enter a guard except
the availability of the product, which is a Boolean.

`audit` has the events that reach the table.  `record` opens a transaction of
its own (REQUIRES_NEW) when it is called through its proxy, as the catch block of
`confirm` does.  The callback after a commit calls it on `this`
(`AuditService.java:40`): the save joins the transaction that has just committed
and is never flushed, so that `AuditAfterCommit` stores nothing, and the caller
gets a 200 all the same (see 6).  `Preview` records in the same way.

### 2.2 RunLifecycle

State: the row of `agent_runs` by column (`status`, `failure`, `about`, `tools`,
`retries`), the latest `checkpoint`; the task of each run as `pc`, `todo` (the
statuses it is about to set) and `why` (the failure it is about to record); the
calls of the cancel endpoint; `ran` and `lost` are history.  One action is one
store call with the Python code up to the next one: asyncio switches tasks only
at an `await`, and every store call is one transaction.

| actions | code |
|---|---|
| `Create`, `Advance`, `AdvanceRejected` | `execute_stream`: `create`, the stage transitions, the closing ones |
| `BeforeTool`, `CountToolCall`, `RecheckRun`, `MarkToolRunning` | `before_tool` between its four store calls |
| `ToolReturns`, `CountRetry`, `AfterTool`, `UnmarkToolRunning` | `after_tool` |
| `AskUser`, `Pause` | `ClarificationService.create` as the search tool calls it |
| `OperationEnds`, `Verify` | the end of the agent's stream and the decision how to close |
| `Timeout`, `Disconnect`, `Fault` | the `except` clauses; possible wherever the task may be suspended |
| `Cleanup`, `Finish`, `CleanupFails` | `_finish_failed`, `_finish_cancelled`, and their own failure |
| `CancelRead`, `CancelWrite` | `cancel` |
| `Crash`, `Restart`, `RecoverAs` | process death, `fail_incomplete_runs`, `create_recovery_child` |

`store` is the store the harness was built with.  `main.py` always takes
PostgreSQL; the in-memory store is what a harness without a store, the tests
and the evaluation use.  It has no unique index and does not outlive a crash.

Modes: `off` and `shadow` differ only in what is recorded and are one value.
Phase history, hashes and model names do not influence control and are left out.

### 2.3 Clarification

Adds the card and the token (`clarification_requests`,
`clarification_resume_tokens`) and the calls of the resume endpoint.
`SaveCard` is `AskUser` with the row it stores; `Answer` is `answer_atomic`,
one transaction; `ClaimRead`, then `ClaimAtomic` (PostgreSQL) or `ConsumeToken`
and `StartChild` (memory), then `Resume` when the response's generator starts,
or `ClientGone` when it never does.  Answers are one value: which option is
chosen does not influence control.  Checks of owner and token text fail without
effect and are left out.  In memory, `ConsumeToken` and `StartChild` are two
actions although no `await` between them suspends: the token is spent under one
lock and the child moved under another, and the model allows more behaviours
than asyncio does.  `Roots` are the runs that a user may start and `Askers` those
whose search may ask; both bound the instance, and the proofs hold for any.

`Questions` has neither stores nor calls, tasks or crashes.  A run asks once at
most (`Ask`), its question is answered by one child (`Answer`) or lapses, only a
run that has asked waits (`Wait`), and the ticket of the answer is spent in one
step, for a run that waits (`Spend`), or lapses; a spent ticket starts its child
once (`Begin`).  `ClarificationRefinement` reads the question off the card, the
ticket off the token and the task of the child, and the asker off the status:

| step of `Clarification` | step of `Questions` |
|---|---|
| `SaveCard` | `Ask`, or none when the card was there |
| `CardExpires`, `TokenExpires` | `Lapse`, `TicketLapses`, or none when the card was answered or the token spent |
| `Answer` | `Answer` |
| `ConsumeToken` | `Spend`, or none when the claim is refused |
| `Resume` | `Begin` |
| `Pause` | `Wait` |
| a run closed by its task, a cancel, a restart | `Leave` |
| everything else, such as `ClaimRead`, `ClaimAtomic` (which always fails, see 6), `StartChild` | none |

### 2.4 MemoryLifecycle

A row is known by its unique (type, normalized content) pair, so that a memory
of the model is stored at most once; content, similarity and sanitizing are
left out.  `row` is what is committed; `keyLock` and `rowLock` are the advisory
locks of the conflict keys and the row locks; `call` is a service call with what
it has read.

| actions | code |
|---|---|
| `ListForCreate`, `UpsertMemory`, `AddMemoryEvent` | the three transactions of `create_candidate` |
| `Reject`, `GetForDelete`, `DeleteMemory` | `reject`, `delete`; each followed or preceded by its event |
| `ConfirmRead`, `LockKey`, `LockTarget`, `Supersede`, `ConfirmWrite` | the statements of `confirm_memory_atomic`, one transaction; its writes appear with `ConfirmWrite` |
| `ConfirmInMemory` | the confirmation in the in-memory repository, which never suspends |
| `Abandon` | the connection is lost: rollback |
| `Expire` | the clock |

`newest` and `confirms` only observe.

### 2.5 Conversations

`stored` is the conversation as committed, `states` the rows of
`conversation_states`, `slot` the run that the unique index admits, `doing` each
request with its own copy.

| actions | code |
|---|---|
| `Start`, `Stop`, `CloseEarly` | the run of the request: admitted; ended with its task; cancelled or paused while its task goes on |
| `GetConversation`, `SkipLlm`, `AddUserMessage`, `UpdateConversation` | load, the workflow handler's save, the user's message, the final save |
| `FilterMessages`, `SaveState` | the message filter, counting and storing a compacted state |
| `Llm` | an answer, with or without another round of tools |
| `DeleteConversation`, `Restart` | the delete endpoint; a restart with the retention sweep |

A message is its request and role; what it says does not influence control.

### 2.6 ContextCompiler

The items with partition, priority, size, mandatory flag and flaw are chosen at
the start; `CheckItems`, `RefuseItems` are the checks before the loop, `Admit`
is one turn of it in the code's order, `Finish` the check after it,
`SaveManifest`, `SaveFails` the manifest and the prompt.  Only the shapes that
`enhance_system_prompt` and `enhance_user_messages` build occur.

`prompt` is what is in the messages, not what the manifest records.  The policy
and the request (`Fixed`) are messages of their own that are never taken out; the
other messages and the memories are filtered by what was admitted; and the
evidence that the user chose for a resumed run (`Unplaced`) is counted, reserved
and recorded as a mandatory item, but no message carries it
(`state/context.py:197` to 200 and 249 to 267), in either mode.

### 2.7 Rollout

`policies` is the table, `process` the monitors and administrators with the
policy they are about to roll back, `serving` the decision of each request under
way.  Of a policy's modes the model has one, and tells `enforce` from less; so a
rollback, which the code writes as "shadow" even where the policy said "off", is
`enforce |-> FALSE`.

| actions | code |
|---|---|
| `Decide`, `PersistDecision`, `EndRequest` | `decide`, `persist_decision`, the end of the run |
| `LoadSignals`, `ChooseTarget` | `load_signals`, `trigger`, the choice in `evaluate_once` |
| `Claim`, `FreeLock` | `claim_monitor_version`: its lock ends with its transaction |
| `ListForRollback`, `InsertPolicy`, `InsertFails`, `AdminRollback` | `rollback` from the monitor and from the endpoint |
| `AddPolicy`, `Deactivate`, `ChangeSignals` | operators in the database; what happened to requests |

Which signals hold is an input: no code under `src/` emits the attributes
behind a safety incident, `trace.py` only lets them pass.  Policies of one scope
and version are listed by the database in some order, which `ListedBefore`
fixes.

### 2.8 QueryPlanning and PlanGuard

`Ground` is `GroundingService.search`: eligibility, relations, join paths and
values are computed as in `link`, while scores are nondeterministic, so that any
tables may be relevant and some assets may be missing from the evidence.
`ShortestPaths` states what the breadth-first search returns; which of several
shortest paths is arbitrary.  `DraftPlan` lets the model draft any plan of the
pools that `PlanStatus` (`QueryPlanValidator.validate`) calls VALID: with or without
metrics, with a grain that is any part of its dimensions, and with identifier
columns among them.  `WriteSql` is the SQL such a plan asks for, `RewriteSql` one
of the edits a model may make, and `Accepts` is `query_plan_alignment_errors`,
conjunct by conjunct.

A SELECT is a record: tables with multiplicity, joins, predicates, outputs,
groups, sort, limit.  A predicate has a column, an operator, literals each
written as a string, a number or a date, the side the column is on (`flipped`),
and what stands around it (AND, OR, NOT).  The guard's own view of it is looser,
and modelled as the code has it:

| definition | what the code looks at |
|---|---|
| `OperatorNodes` | all nodes of one operator in which the column occurs anywhere, outside an OR; neither the order of operands nor a NOT around them |
| `Strings`, `Numbers`, `FiltersPresent` | dictionary values among the strings only, literals among the numbers only, without their sign |
| `TimePresent` | words in the joined texts of all lower, all upper and all equal bounds on the time column, whether strict or not |
| `NothingUnplanned` | names of columns and tables |

`Meaning` is not code: it is what the record selects and returns, but for the
predicates on the time column, of which the guard knows words only.  Of the
operators of a filter NOT_IN, BETWEEN and the null tests are left out, and of the
presets of a time range the instance has YESTERDAY; any other is a value of
`TimeNeeds` and `DateWords`, for which the proofs hold.

What the constants assume is what the code checks when a catalog is loaded or
configured: a relation equates two different columns (`grounding/models.py:136`),
an asset id names a column or a metric, a plan's limit is at least 1.  Other
assumptions are about data the code does not check: `MAX_QUERY_ROWS` is not set
below the limit of a plan (both are 200 by default); the example SQL of a metric
names a column, and its predicates are on columns that
`query_plan_guard.py:505` collects; the values of the time column are not in the
dictionary.  That the bounds of a preset have the words that its check looks for
is an assumption on `PresetBounds`, which stands for SQL the model is asked for.

### 2.9 QueryTools

`found` and `authorized` are the two fields of `RequestGroundingState`; `tool`
is the tool being executed and the await it is at.

| actions | code |
|---|---|
| `SearchFinds`, `SearchFindsNothing`, `SaveClarification`, `PauseRun` | `search_schema_knowledge` up to pausing its own run |
| `ValidatePlan`, `SavePlan`, `SavePlanFails` | `validate_query_plan`: clear, store, set |
| `ReadStatus`, `GuardSql`, `TraceGuard`, `RunQuery` | `safe_read_sql` between its awaits |
| `CancelRun`, `EndRun` | a cancel, which leaves the tool running; the end of the task |

The keyword and allow-list guards are one nondeterministic verdict in
`GuardSql`.

### 2.10 The two compositions

`MCAgentState` holds `MemoryLifecycle`, `Conversations` and `ContextCompiler`,
`MCGovernedQuery` holds `Rollout`, `QueryTools` and `PlanGuard`.  The parts of one
composition share no variable.  `part` says which is explored; the others stay
at an initial state, so a run is the union of the three state spaces and not
their product.  Where the code couples two parts, the coupling is in the part:
the admission of runs is `slot` in `Conversations`, the mode of a decision is
`Modes` or `setting`.

## 3. Runs

| run | instance | shows |
|---|---|---|
| `approval` | 2 requests, 2 approvals of any of the four kinds, 1 order and 2 that may be created, pool of 2; a third request or a changed product beside a single draft | version counting, drafts, durable expiry, finality, refinement, the inductive invariant |
| `approval_chat` | 3 commands for one draft approval, pool of 2, fair | the cards tell the truth; every request is answered |
| `approval_audit` | 2 requests, 1 approval, 3 users of 3 roles, right and wrong tokens, pool of 2 | violation: see 6 |
| `run_lifecycle` | 2 runs, reads and writes, 1 tool call, 1 retry, 1 cancel | table, budget, ownership, recovery, cancel answers |
| `run_liveness` | 2 runs, 1 tool call, 1 retry, fair | every run is closed |
| `run_tool_after_cancel` | 1 run, 1 cancel | violation: see 6 |
| `clarification` | a parent that asks, 2 more runs that answers or recoveries may start, 2 claims, 1 cancel, both stores | one child, one stream, expiry, ownership, refinement, the inductive invariant |
| `clarify_claim` | parent and child, 1 claim, PostgreSQL | violation: see 6 |
| `agent_state` | 3 memories of which 2 share a key, 2 calls, both repositories; 3 requests on one conversation; 3 items of a prompt, both modes | one memory per key and the newest, saves that lose nothing, versions of compactions, budgets, the inductive invariants of the three |
| `memory_limit` | 3 memories, 1 client, a limit of 1 | violation: see 6 |
| `governed_query` | 2 processes and 2 changes over 2 policies; 2 drafts and every order of tools; 3 joined tables and SQL up to 2 edits from its plan | emergencies take effect, only authorized SQL runs, accepted SQL is what was planned, valid plans can be executed |
| `guard_is_strict` | as `governed_query`, SQL 1 edit from its plan | violation: see 6 |

### Bounds, and why they are enough

* Two requests for two approvals are the smallest instance in which two
  approvals of one version, two decisions of one approval, or an approval and a
  failing one compete.  Three requests on one approval (`approval_chat`) are
  needed for a waiter that has a connection while another one waits for it.
  The proofs remove these bounds for the properties in section 5.
* `MaxProductVersion` bounds how often the product row changes (once in
  each run).  One change is enough to make a draft approval stale.  In `approval` the
  state constraint `CrowdsAreSmall` explores a change, and a third request, only
  where there is a single draft to create; `approval_chat` has both together.
* A pool of 2 lets two confirms hold every connection while one needs a second
  one.
* `Trail` selects the event types kept in the state, `Types` and `Tokens` the
  workload.
* Two runs in one conversation are enough for a parent and its child, and for a
  request refused by the index.  `clarification` has a third one, so that a card
  can be answered twice and a child can be recovered while a token is claimed; one
  run asks there (`Roots`, `Askers`): two requests of users beside each other are in
  `run_lifecycle`, and a child that asks again in the proofs only.  Runs of
  different conversations share nothing but the process; a crash and a restart
  hit both.
* Tool calls: the budget is 1 and a second call is refused.  Each call goes
  through the same statuses, so a higher budget repeats the same states.
* The second claim is there for a token that is presented twice; a third one
  finds it spent as the second does.
* Memories: two of one key are needed for rivals and a third, without a key, for
  the other path of a confirmation; two calls for every race of two
  transactions.  `MaxActive` is 1.  `confirms` counts to 2, where the property
  stops distinguishing.
* Conversation: a prompt keeps 1 user turn (`UserTurns`), so that the second
  request already compacts; the third one finds a state of the second.
  `MaxRounds` is 1: a second round compacts the same turns again.
* Prompt: three items of two sizes against a total of 5 and shares of 3 and 1
  let mandatory items fill a partition or the whole budget, and optional ones
  fit in one and not in the other.  Section 5 has the proofs for all sizes.
* Rollout: `MaxChanges` is 2: the environment raises the incident and changes one
  more thing (a new policy, a deactivation, a rollback, another signal) before,
  during or after the downgrade.  The instance starts with a seed that
  enforces nothing and a policy that does.
* Plan and guard: three tables in a cycle of three relations are the smallest
  catalog in which a shortest path is not the only one; paths have at most 2
  hops.  Drafts return up to two columns, one of them an identifier
  (`DimensionPool`), and have at most one filter (`MaxFilters`) out of five, with
  values of the dictionary, literals, one of them below zero, and an identifier
  that the validator refuses.  Two filters of one operator on one column are named by
  `SharesOperator`, which a filter and a metric's predicate already make; others
  are independent of each other, which the proofs do not assume.  SQL is at most
  `MaxEdits` = 2 edits from the plan's own: one edit that the guard overlooks may
  hide another.  The predicates an edit may add are those the guard may take for
  another one: a subset of the values, a literal of the other kind, one without
  its sign, flipped operands, another date, a bound that is not strict.  Columns
  have four values (`Domain`), one below zero, enough for the operators to differ.

`CHECK_DEADLOCK FALSE`: in `Clarification.cfg`, because in memory there is no
restart, so that the instance stops when the runs, both claims and the cancel
have been used; in `AgentState.cfg`, `MemoryLimit.cfg`,
`GovernedQuery.cfg` and `GuardIsStrict.cfg`, because every request, compilation, run
and edit of these instances comes to an end.

### Fairness

* `ActionApproval`: weak fairness of a request's own steps (a servlet thread
  keeps running; the steps include the time limits of the pool) and strong
  fairness of `Load`, because PostgreSQL queues the waiters of a row lock.  No
  fairness of the users, the clock, the product or crashes.
* `RunLifecycle`: weak fairness of `Timeout` (asyncio.timeout is armed when the
  task starts) and of `Cleanup` or `Finish` (the event loop runs the handlers).
  The model, a tool or a client may hang for ever, and `Restart` is not fair:
  `compose.yaml` has no restart policy.  A handler that fails (`CleanupFails`)
  or a crash therefore ends the promise, and `RunsClose` says so.
* `Rollout`: weak fairness of a process's own steps, since the loop of `main.py`
  (lines 294 to 302) calls the monitor every minute and logs what fails; strong
  fairness of `InsertPolicy`, which says that the database does not refuse
  every insert for ever; weak fairness of the steps of a request, which its timeout
  ends.  No fairness of operators, administrators or signals.  The loop runs
  unless `rollout_policy_mode` is "off", which is the setting the model is about.

## 4. Properties

| property | what would break it, for instance |
|---|---|
| `OneApprovalPerVersion`, `VersionCountsApprovals` | the version is not compared at the flush; a change does not move it |
| `OneDraftPerApproval` | an approval that is no longer PENDING is executed again |
| `OnlyApprovedChanges` | the execution trusts the preview's reading of the order |
| `DecisionsAreFinal` | the action is loaded without FOR UPDATE |
| `ExpiryIsDurable` | noRollbackFor is missing |
| `ImplementsLedger` | a deleted order can be moved on |
| `AllAnswered` | the pool has no time limit |
| `OneDecisionCard`, `CardsHold` | the second of two commands is told what the first one did |
| `BudgetHolds` | the comparison is made with the count before the call |
| `ActiveRunsAreOwned` | a timeout that nobody handles |
| `OneActivePerConversation` | the index names some of the active statuses only |
| `RecoveryIsReadOnly` | any failed run is recovered, not only an interrupted one |
| `CancelAnswersHold` | cancel reports success although its transition was refused |
| `RunsFollowTheTable` | a handler writes its outcome without asking the table; a claim moves its child without asking it |
| `RunsClose` | the handler leaves a run alone while a tool is in it |
| `OneChildPerCard` | the answer does not spend its card |
| `ResumedOnce` | the claim does not look at the parent |
| `ClaimedChildrenAreOwned` | a disconnect that nobody handles |
| `ExpiredIsNotApplied` | the claim looks only at whether the token was spent |
| `ImplementsQuestions` | a card that could not be saved does not keep its run from pausing |
| `AgentStateInv` | a confirmation gives up the lock of its key before it commits |
| `OneActivePerKey` | a confirmation takes the lock of its key although another one holds it |
| `NewestIsActive` | in memory, a confirmation of an inactive memory supersedes the active one |
| `SavesExtend` | a request is admitted while another one holds the conversation |
| `ShownStateIsStored` | the version of a state is the number of states, not the one after |
| `EnforcedPrompt` | items are admitted by partition, without mandatory ones first |
| `PruningIsNeeded` | after one item was left out all later optional ones are |
| `OnlyAuthorizedSql` | a new search keeps the plan that was validated on the old evidence |
| `AcceptedSqlIsPlanned` | the guard asks whether a join is there, not whether it is an inner one |
| `PlansAreExecutable` | the guard forgets the columns of a metric's own predicates |
| `EmergencyTakesEffect` | the next version is the target's plus one, which may be taken |

Each of these changes is an operator in the modules (`X_Fault`, or a name that
says what is wrong), listed under `mutants` in `PROJECT.json`: replacing `X` by it makes TLC
report the property.

What qualifies some of them:

* `NewestIsActive`, in PostgreSQL, leaves out memories that were confirmed twice:
  `confirm_memory_atomic` may have read such a memory as active before another
  confirmation superseded it, and then supersedes that one and confirms an
  inactive memory, after which none of the two is recalled.
* `SavesExtend` and `ShownStateIsStored` hold unless a run was closed while its
  task went on (a cancel or a clarification), which admits a second request
  beside the first.
* `OnlyAuthorizedSql` does not exclude a query of a run cancelled after the
  status was read; `NoToolInClosedRun` is about that.
* `EnforcedPrompt` leaves out the evidence of a resumed run, which is never shown,
  and expired items.
* `AcceptedSqlIsPlanned` speaks of SQL that PostgreSQL would run.  Its first half
  (`AcceptedReadsThePlan`) is about all of it: the plan's tables, joins, outputs,
  limit and the predicates of its metrics.  The second half, that the rows and
  groups are the plan's too, is about SQL that compares each column in one
  place, with the column first and its literals in the form the plan has them,
  none below zero, that negates nothing, groups by what the plan asks for, names
  each table once, and has neither a predicate on a column that the plan only
  joins by nor a relation of its own between columns of the plan (`Disciplined`).
  Each of these conditions is there because the guard accepts SQL that violates
  it, as `GuardIsStrict` shows; see 6.  Predicates on the time column are not
  compared at all.
* `PlansAreExecutable` leaves out three kinds of plans.  In one, an operator is
  used on one column with two sets of values (`SharesOperator`): the guard takes
  their values together, so that no SQL satisfies it.  The others (`NoSqlFor`) have a
  literal below zero, which the guard never finds, or name no asset at all, so
  that their SQL has no table.
* `EmergencyTakesEffect` speaks of global policies.  A narrower policy that
  enforces has precedence for its route and is not touched by a downgrade.

## 5. Proofs

For every number of actions, orders, users and requests, every pool size and
every assignment of roles (`ConstantsAssumption`, which asks only that the constants
have their types and that the two null values are not ids):

| theorem | statement |
|---|---|
| `TypeCorrect` | `Spec => []TypeOK` |
| `Invariance` | `Spec => []ApprovalInv` |
| `AtMostOneApproval` | `Spec => []OneApprovalPerVersion` |
| `Finality` | `Spec => DecisionsAreFinal` |
| `ApprovedOnly` | `Spec => OnlyApprovedChanges` |
| `ExpiryStays` | `Spec => []ExpiryIsDurable` |
| `EveryApprovalOnce` | `Spec => []VersionCountsApprovals` |
| `DraftsAreApproved` | `Spec => []OneDraftPerApproval` |
| `Refinement` | `Spec => ImplementsLedger` |
| `ChatIsACaller` | `ChatSpec => Spec` |
| `ChatTypeCorrect` | `ChatSpec => []ChatTypeOK` |
| `OneCard` | `ChatSpec => []OneDecisionCard` |
| `CardsAreTrue` | `ChatSpec => []CardsHold` |

The argument.  `OneApprovalPerVersion` is not inductive: a request that has
passed its checks and is about to commit may be what breaks it.
`ApprovalInv` adds what such a request may rely on.  `LockInv`: between
`loadAndValidate` and the end of the transaction the action is PENDING, owned
by the request's user, and its row lock is the request's, so no other request
decides it.  `FlushInv`: the rules that `execute` checked still hold if the order's
version is still the one that was read, because whatever changes an order
changes its version.  `BasisInv`: an approval's version never exceeds the
order's, and a confirmed one is below it.  Then two approvals confirmed for the
same version contradict the version comparison at the flush of the second.
`Finality` and `ApprovedOnly` are step properties that follow from the same
invariant; `Refinement` maps each commit to one step of `OrderLedger` and every
other step to a stutter.

`DecidedInv` says that of the requests for an action one gets past its commit,
and that what it committed stays.  The theorems on the chat follow: by
`ChatIsACaller` it adds nothing to what callers may do, and a card is given
to a request that was answered (`CardInv`).  `EveryApprovalOnce` and
`DraftsAreApproved` compare cardinalities.  `CountInv` keeps the counted sets
finite, although the constants need not be, and each commit adds one element to
both sides or to none.

For every set of runs, conversations and cancel calls, every budget, workload
and store (`RunAssumption`):

| theorem | statement |
|---|---|
| `RunInvariance` | `Spec => []RunInv` |
| `BudgetNeverExceeded` | `Spec => []BudgetHolds` |
| `ActiveRunsOwned` | `Spec => []ActiveRunsAreOwned` |
| `CancelAnswersStay` | `Spec => []CancelAnswersHold` |
| `RecoveryOfReadsOnly` | `Spec => []RecoveryIsReadOnly` |
| `OneActiveRun` | `Spec => []OneActivePerConversation` |
| `StatusFollowsTable` | `Spec => RunsFollowTheTable` |

The argument.  `RunInv` says of every task what its next step needs: a list of
statuses that is not empty where one is set, and that ends with COMPLETED while
closing or holds FAILED or CANCELLED while failing (`TaskInv`); a tool call that is
counted and not yet entered is reserved in the budget (`BudgetInv`); a call of
the cancel endpoint was answered with a closed run (`CancelInv`); a child's
parent is closed (`ParentInv`).  The proof separates the row from the task.
`RowStep` states what any step may do to the rows of `agent_runs`: one row is
inserted, or every row stays or moves along the table.  `StatusFollowsTable`,
`OneActiveRun`, the stability of the cancel answers and of the parents follow
from that alone, because a closed status has no successor in the table.  `Alone` states that
a task's step leaves the other tasks alone, so that each action is proved for
its own run.

For every set of runs, conversations, cancels and claims and both stores
(`RunAssumption`):

| theorem | statement |
|---|---|
| `ClarInvariance` | `ClarSpec => []ClarInv` |
| `OneChildHolds` | `ClarSpec => []OneChildPerCard` |
| `ResumedOnceHolds` | `ClarSpec => []ResumedOnce` |
| `ClaimedChildrenOwned` | `ClarSpec => []ClaimedChildrenAreOwned` |
| `ExpiryHolds` | `ClarSpec => ExpiredIsNotApplied` |
| `ResumesFollowTable` | `ClarSpec => RunsFollowTheTable` |
| `ClarificationRefines` | `ClarSpec => ImplementsQuestions` |

The argument.  None of these is inductive: they depend on what a call read
before another task moved the runs.  `ClarInv` adds that a run that has saved a
card is about to pause or has ended and never saves another (`Asked`); that a
card's child is the run it names and no other card's (`CardInv`, `ChildInv`);
that a token is spent for one call, which is the only one that may start its
child (`TokenInv`, `OneOwner`); and what a call may rely on at each of its
points (`ClaimInv`); and that only a run whose card is saved pauses or waits
(`WaitInv`).  The lemmas on frames say what a step may do to the runs
of a card; then one lemma for each conjunct states under which such steps it is
kept, and each action is shown to be one of them.

`ClarificationRefines` maps each step as the table in 2.3 says.  `Wait` needs
`WaitInv`, as nothing in `Pause` looks at the card.  `Spend` needs that the parent
still waits when the token is spent: `ConsumeToken` follows a read that may be old,
and `ClaimInv` keeps what was read, since NEEDS_CLARIFICATION has no successor in
the table.  `Begin` needs that the child's token is spent and the child has no
task while a call is about to start it (`ClaimInv`), which `OneOwner` preserves.
`Leave` needs only the table of statuses.  In PostgreSQL no claim succeeds, so
the behaviours with `Spend` and `Begin` are those of the in-memory stores.

For every instance of the other parts:

| theorem | statement | argument |
|---|---|---|
| `MemTypesCorrect`, `OneActivePerKeyHolds` | `MemSpec => []MemTypeOK`, `[]OneActivePerKey` | `MemInv`: the lock of a key is held by the one confirmation between lock and commit (`KeyLockDiscipline`); a confirmation that decided not to take the lock, on a reading that may be stale, can only confirm an inactive memory, since nothing becomes active again (`UnlockedIsInactive`); expired memories still count in PostgreSQL (`OneConfirmedPerKey`). All other steps only take rows out of force |
| `NewestIsActiveHolds` | `MemSpec => []NewestIsActive` | `NewestInv`: a memory that was never confirmed for its key was not superseded either (`ForceIsCounted`), so a confirmation under the lock supersedes only memories that were confirmed before (`SupersedesItsKey`), and the one confirmed last stays active in whatever status it is (`NewestStaysActive`) |
| `WorkersHold`, `NoSaveLosesMessages` | `ConversationsSpec => []WorkersHoldTheSlot`, `SavesExtend` | only the request that holds the slot works, so what it loaded still has all that is stored (`CopiesExtend`) |
| `ShownIsStored` | `ConversationsSpec => ShownStateIsStored` | `StatesInv`: the versions of the states are 1 to their number, and what a compaction counted is still that number, because only the holder of the slot compacts |
| `CompilerTypesCorrect`, `PruningIsNeededHolds` | `CompilerSpec => []CompilerTypeOK`, `[]PruningIsNeeded` | usage and total only grow |
| `EnforcedPromptHolds` | `CompilerSpec => []EnforcedPrompt` | `AdmissionInv`: the mandatory items come first and together they fit, so the total never exceeds the budget before an optional item is looked at, and after that only what fits is admitted; the policy and the request, which are shown whatever was admitted, are always admitted, so what is shown is part of what was counted |
| `PartsOfTheState`, `AgentStateInvHolds` | `AgentStateSpec => MemSpec /\ ConversationsSpec /\ CompilerSpec`, `[]AgentStateInv` | each step of the composition is a step or a stutter of each part, so the inductive invariant of each part holds |
| `OnePolicyPerVersion` | `RolloutSpec => []RolloutTypeOK` | `RolloutInv`: the table is finite, so that a last version exists; an insert is refused when its version was taken since it was read |
| `ToolsTypeCorrect`, `OnlyAuthorizedSqlRuns` | `ToolsSpec => []ToolsTypeOK`, `[]OnlyAuthorizedSql` | `ToolsInv`: the plan in force is one that the evidence in force grounds, and it is stored before it is in force |
| `PlansCanBeExecuted`, `AcceptedIsPlanned` | `GuardSpec => []PlansAreExecutable`, `[]AcceptedSqlIsPlanned` | below |
| `PartsAreThemselves`, `GovernedTypeCorrect` | `GovernedSpec =>` the specifications of its parts, `[]GovernedTypeOK` | each step of the composition is a step or a stutter of each part |

The runs `agent_state` and `governed_query` check the same properties on the
compositions; by `PartsOfTheState` and `PartsAreThemselves` what is proved of a
part holds there.

The linker's paths, for every catalog (`PlansCanBeExecuted`, first half).  The
linker returns shortest paths between two tables; the validator asks whether
the paths a plan chose end in the plan's tables, cover them and connect them,
looking only at how often a path passes a table.  `Connects` says that every
cut between two tables is crossed, and everything follows from cuts: a shortest
path has no relation to spare (`ShortestIsLeast`), so each of its relations is
the only one across some cut (`CutOfOne`).  Hence it leaves its first table by
one relation (`OneWayOut`: else the union of two such cuts is not crossed),
passes every other table twice (`NoOtherEnd`: else the table can be moved to the
other side), so its ends are the two tables it was searched for (`EndsOfPath`); and it
lies on one side of a cut that it does not cross (`PathOnOneSide`).  Then paths
between any two of a plan's tables connect all that they pass
(`LinkedPathsJoin`).

Plan against SQL (second half, and `AcceptedIsPlanned`).  The SQL of a plan has
the plan's predicates and no other, so the guard's checks hold of it one by
one (`OwnSqlAccepted`); `PlanHasTables` and `NoSqlFor` give the table it needs.  The
invariant of `GuardSpec` keeps of a plan what the validator checked of it
(`PlanIsChecked`): without it a filter might have a form the guard does not read.
Conversely, for any SQL, the guard and the database together give the tables
(what is read must be there, and nothing else may be), and the conjuncts of the
metrics (`ConjunctHolds`).  For disciplined SQL `FilterIsRead` shows that a
predicate whose literals have the planned form is read as what it is,
`PlannedIsWritten` that what the guard finds among the nodes of a column and
operator is the planned predicate itself, and `WrittenIsPlanned` that no other
predicate is there; joins and groups are equal because one inclusion is checked
by the guard and the other one by `Disciplined`.  The proofs are for any SQL of
the model's syntax, not only for SQL that is `MaxEdits` from a plan.

Cardinalities and largest elements of finite sets are used through the library's
theorems on finite sets.  `FiniteSetHasLargest`, which the library does not have, is
proved by a smallest counterexample.

The invariants of the proofs were checked by TLC on the instances of the runs
before they were proved.  Some are properties of a run: `ApprovalInv`,
`RunInv` (which contains `TypeOK`), `ClarInv` (which contains `ClarTypeOK`) and
`AgentStateInv`.

Only model-checked: the liveness properties `AllAnswered`, `RunsClose` and
`EmergencyTakesEffect`, as liveness under fairness is out of the prover's reach.
Every other property of a passing run is a theorem.

## 6. Disagreements found

* `ExecutedIsAudited` (`approval_audit`): the README of the program says that execution is
  refused when the audit is unavailable, and the acceptance scenarios that a
  commit is recorded.  The callback after the commit calls `record` on `this`, past
  the proxy that would open a transaction for it: ACTION_CONFIRMED is never
  stored, nor are ACTION_CANCELLED and ACTION_PREVIEWED, and the caller gets a 200.
* `NoToolInClosedRun` (`run_tool_after_cancel`): `before_tool` refuses a closed
  run at its first read only.  A cancel between its reads lets the tool run.
* `ClaimsAreServed` (`clarify_claim`): the claim of a resume token in PostgreSQL
  locks the nullable side of an outer join, which the server rejects.  The
  tests use the in-memory store, where claims work.
* `MemoryLimitHolds` (`memory_limit`): the harness document promises at most 500
  memories in force per user.  The limit is compared only when a candidate is
  created, and leaves rejected records out, which can be confirmed again.
* `GuardIsStrict` (`guard_is_strict`): the harness document says that predicates, sets
  of values and the window of time are compared strictly before the database is
  asked.  The guard accepts SQL that selects other rows than the plan: a second
  predicate on a column that the plan constrains, a NOT around a planned filter,
  operands in the other order, a literal of the other kind, another number of days
  that begins with the same digit, further groups, a table listed twice
  (`query_plan_guard.py:600`, `:109`, `:329`).  So it does with a predicate on a
  column the plan joins by, such as `c_id = 1` next to a planned join on `c_id`,
  since the guard adds these columns to those that predicates may be on
  (`query_plan_guard.py:573`), and with a second relation between columns that are
  all allowed.  `Disciplined` names what is assumed instead.  The last two were found
  by the proof of `AcceptedIsPlanned`, which failed without them.

Observed, without a run of their own:

* Two overlapping cancels of one run end with `InvalidRunTransition` for the
  second (`run_store.py:313`), although the Phase C design calls cancelling
  idempotent; the model answers such a call with "error".
* `evaluate_once` selects a route's policy for latencies; `provenance_incomplete`
  falls into the branch of safety incidents and downgrades the global policy
  (`monitor.py:64`), although the Phase D document says that provenance affects
  only the cohort or route it was observed on.
* The evidence that a user chose for a resumed run is a mandatory item of the
  manifest but never in front of the model (`state/context.py:121` to 138, 200).
  The harness document says that the answer enters the instruction hash of the
  child, and not that it is shown.
* A valid plan with a literal below zero has no SQL that the guard accepts: a sign is
  not part of a literal (`query_plan_guard.py:642`).  The model can only try again
  until its budget of tools is used up.
* `QueryPlanStore.save` keeps the first row of a draft (`plan_store.py:102`): a
  draft that was stored BLOCKED and is VALID on later evidence authorizes SQL,
  while its stored row stays BLOCKED.  `OnlyAuthorizedSql` therefore says that a
  row exists, not which status it has.
* A deleted conversation is written anew by a request that was running
  (`repositories.py:229`, an upsert); no document says what should happen.

## 7. Plan, and what is left out

| order | modules | properties, runs, theorems | status |
|---|---|---|---|
| 1 | approval, chat | refined to the ledger; every safety property is proved | done |
| 2 | `RunLifecycle` | `RunInv` and its consequences are proved | done |
| 3 | `Clarification` | `ClarInv` and its consequences are proved | done |
| 4 | `MemoryLifecycle` | `OneActivePerKey` and `NewestIsActive` are proved | done |
| 5 | `Conversations` | `SavesExtend` and `ShownStateIsStored` are proved | done |
| 6 | `Rollout` | one policy per version is proved; checked under fairness | done |
| 7 | `ContextCompiler` | `PruningIsNeeded` and `EnforcedPrompt` are proved | done |
| 8 | `QueryPlanning`, `PlanGuard`, `QueryTools` | `OnlyAuthorizedSql`, `PlansAreExecutable` and `AcceptedSqlIsPlanned` are proved | done |
| 9 | `Questions` | implemented by `Clarification`, proved | done |

Not modelled:

* authentication: stateless checks of a signed token; the role a request has is
  a constant of `ActionApproval`;
* the allow-lists of the SQL guard and the keyword rules of intent and result
  guard: rules over text with no other definition to compare them with, one
  nondeterministic verdict in `QueryTools`;
* the numbers of trace events: one INSERT under an advisory lock per run that
  reads its own maximum; nothing reads a number back to decide anything;
* exporters, sampling, dashboards and the evidence view: projections;
* scores of retrieval and schema linking, confidence, ranking: real numbers; any
  outcome of them is allowed where they influence control;
* the agent audit logger: an HTTP call whose failure is a `Fault` of `RunLifecycle`;
* the audit endpoint and the administrators' query of events: inserts and reads
  without a rule between them;
* the `mark_*` methods of `HarnessRun`, which nothing in the service calls;
* offline evaluation, configuration, construction of objects, UI.
