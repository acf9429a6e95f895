# A TLA+ model of the Axiom delivery backend

This directory holds TLA+ specifications of the backend under `src/backend/app`,
TLC configurations that check them on small instances, and TLAPS proofs. Line
references are to that tree; *RES* stands for
`services/runtime_execution_service.py`.

## The system

The backend is a FastAPI application over PostgreSQL (SQLite in tests). A user
asks for something in a chat; the **runtime** turns the request into a durable
*execution*, which a background asyncio task carries out: intent analysis,
planning, tool and agent calls, pauses for input or approval, completion. Around
it are the governed **Action Center** (proposals, approvals, execution), model
**budgets**, an **audit** hash chain, delivery records and several analyses.
The container runs `uvicorn --workers 2` (`Dockerfile:33`), and ECS keeps one
task alive (`desired_count = 1`), with an overlap during deploys.

| Component | State | Operations | Interacts with | Hard behaviour |
|---|---|---|---|---|
| Runtime execution lifecycle (RES, `runtime/leases.py`, `runtime/recovery.py`, `runtime/child_reconciliation.py`, `tool_sdk/executor.py`) | `runtime_executions`, `runtime_continuations`, `runtime_execution_events`, `tool_executions`; per process `_tasks`, `_heartbeat_tasks`, `_owned_attempts` | start, continue/approve/deny, cancel, expire, heartbeat, recover, shut down | tools, budget, agents, events | several processes, leases, crashes, retries, deadlines, answers that come late |
| Event journal and stream (RES 4846-5255, `api/runtime.py`) | events with a per-execution sequence, the counter on the row | append, end, read after a cursor, stream | lifecycle, UI | late commits, a drifted counter, three reads per poll, reconnection |
| Managed agents (`agents/execution_service.py`) | agent executions, continuations, tool rows | start, ask, answer, deny, cancel, expire, reconcile | runtime, tools, budget | statuses read before an await and written after it, late answers, child/parent agreement |
| Workflow engine (`workflow/`, `runtime/parallel_executor.py`, `task_graph.py`, `approval_coordinator.py`) | workflow and task states, approvals, cancellation token (in memory) | execute, retry, approve, cancel, pause | agents | parallel tasks, answers to old attempts, cancellation of siblings |
| Action Center (`action_center/service.py`) | proposed actions, approval requests, decisions, executions | submit, decide, delegate, execute, verify, cancel | audit, notifications, integrations | concurrent requests, separation of duties, versions, expiry |
| Budget enforcement (`governance/budget_enforcement.py`) | budgets, reservations, overrides | reserve, settle, release, override | runtime, agents, chat, audit | concurrent admission, sums in several statements, replay, fallback, lock order |
| Audit chain (`audit/events.py`) | `audit_logs` with hashes | append | everything | concurrent appends, unflushed rows |
| Governance records (`governance/`) | versioned policies, models, clarifications | review, activate | runtime | review races |
| Planners, resolvers, AI providers, tools, MCP, integrations | catalogues and caches | pure calls and I/O | runtime | environment only |
| Delivery, RAID, agile/meeting/ceremony/knowledge intelligence | versioned records | CRUD, analyses | UI | optimistic versions |
| API routers, auth, settings, metrics, frontend, infrastructure | - | - | - | not modelled |

`PROJECT.json` lists every component with its status and every hazard with the
properties that cover it.

## What makes each component correct

* **Runtime**: one final outcome per execution, agreeing with its terminal
  event; an answer is asked for exactly while one can be given; the governed
  write happens at most once and completion implies it happened; only the owner
  acts; nothing is left running behind an ended execution; every running
  execution pauses or ends although processes die.
* **Event journal**: numbers are new and ascending, whatever drift the counter
  has; a client receives a prefix of the journal, in order, across batches and
  reconnections; a stream that closes has sent everything; every stream of an
  ended execution closes.
* **Managed agents**: one request runs an execution; a gated tool is called only
  after somebody else approved; an execution that has not ended is being run or
  waits with a question of the kind its status names; every run ends or asks.
* **Workflow engine**: an agent works on a gated task only if this attempt was
  approved; no task starts before all it depends on; an optional task may fail;
  what was reported at the end stays; every execution ends or waits for a person.
* **Action Center**: an executed action was approved, in that version and
  payload, by enough distinct people other than the requester; once; a cancelled
  action is not executed.
* **Budget**: what is reserved stays below the limit unless overridden; a call
  holds a reservation on each of its budgets; every reservation ends once.
* **Audit**: each entry's `previous_hash` is its predecessor's hash; no entry
  names one that was rolled back.

## Modules

| Module | Models |
|---|---|
| `RuntimeExecution` | one execution, its row, children and continuation; the processes, their tasks, heartbeats and recovery sweeps |
| `RuntimeLifecycle` | what readers of an execution are promised: status, attempt, terminal event |
| `RuntimeExecutionProofs` | TLAPS theorems about `RuntimeExecution`, in every mode |
| `ActionCenter` | one proposed action, its approvals, decisions, attempts and verification, and the HTTP requests working on them |
| `ActionLifecycle` | what readers of an action are promised: status, version, whether the external change was made |
| `MCActionCenter` | the symmetry of the users, keys and requests for TLC |
| `ActionCenterProofs` | TLAPS theorems about `ActionCenter` |
| `BudgetEnforcement` | the budgets of one tenant, their reservations, the override, and the calls being admitted and ended |
| `BudgetLedger` | what the budget gate promises: admission in one step |
| `MCBudget` | the models, prices, limits and routes of the instance |
| `BudgetProofs` | TLAPS theorems about `BudgetEnforcement` |
| `AuditChain` | the audit rows of one tenant and the sessions that append to them |
| `AuditProofs` | TLAPS theorems about `AuditChain` |
| `WorkflowEngine` | one execution of a workflow: graph, batches, attempts, approvals, token |
| `MCWorkflow` | the three dependency graphs of the instance |
| `WorkflowProofs` | TLAPS theorems about `WorkflowEngine` |
| `RuntimeEvents` | the event journal of one execution, its writers and the streams that read it |
| `MCEvents` | writers and client of the instance |
| `EventProofs` | TLAPS theorems about `RuntimeEvents` |
| `AgentExecution` | one managed-agent execution, its questions, its tool call and the requests working on it |
| `MCAgentExecution` | users and requests of the instance |
| `AgentProofs` | TLAPS theorems about `AgentExecution` |

The modules meet at the rows they share. `RuntimeExecution` keeps of the journal
only the terminal event (`final`), which `RuntimeEvents` models as one of its
writers; `AgentExecution` sees its parent as one step, `Reconcile`; the calls
that `RuntimeExecution` makes of the budget gate are the callers of
`BudgetEnforcement`. They are checked apart: what one assumes of the other is
said in its section.

### RuntimeExecution

*State.* `row` is the `RuntimeExecution` row (status, `lease_owner`, the ticks
left until `lease_expires_at`, `attempt`). `overdue`, `lapsed` say whether
`deadline_at` and the continuation's `expires_at` have passed; `cont` is the
pending continuation, `granted` is `runtime_metadata["approval_granted"]`,
`final` the terminal event, `tool` the status of the two `ToolExecution` rows
(`lost` is `failed` with the code WORKER_LOSS_RETRY). In memory, per process:
`proc` (not yet started, up, gone), `owned` and `latest` (the entries of
`_owned_attempts` and `_tasks`), `task` (the asyncio tasks, in launch order),
`api` and `snap` (the request handler a process is in the middle of, with the
row object its session has loaded). `calls` and `denied` are history variables.

*The request* is the Jira create flow, the one external write the runtime
governs: read the create metadata, pause for missing input, pause for approval,
create the issue, complete. Both tools go through `Insert` (ownership check,
idempotency lookup, INSERT) and `FinishTool`.

*Atomicity.* A process is one event loop: code between two awaits is not
interleaved with other handlers of the same process (`LoopFree`), but every
database transaction is a step of its own with respect to other processes.
A transaction that loads the row before it locks it is split in two: the load
fills `snap`, and the commit decides on `snap` and writes, as SQLAlchemy does,
only the columns that differ from it (`Flush`). `Expire` runs on a thread of the
pool and needs no free loop.

*Actions and code.*

| Actions | Code |
|---|---|
| `StartInsert`, `StartClaim`, `StartRun` | `start`: INSERT, `claim_execution`, transition to RUNNING, `create_task` |
| `CancelRead`, `CancelCommit` | `cancel` |
| `Continue`, `ContinueRejected` | `continue_execution` and `/approve`, `/deny` |
| `Expire` | `expire_continuations` |
| `TaskStart` ... `TimeOut`, `DeadlineFires` | `_execute_with_deadline`, `_execute`, `_execute_jira_create_flow`, `_execute_runtime_tool`, `ToolExecutor.execute` |
| `DeliverCancel`, `EndTask` | the two `finally` blocks: `_execute`'s drops the entry of `_tasks`, `_execute_with_deadline`'s waits for the heartbeat and then drops that of `_owned_attempts`, unless a second cancellation arrives during the wait (RES 800-803) |
| `Heartbeat` | `_heartbeat`, `renew_execution_lease` |
| `RecoverSettle`, `RecoverRelaunch` | `RuntimeRecoveryService` |
| `Tick`, `DeadlinePasses`, `ContinuationLapses` | time |
| `WorkerUp`, `Crash`, `Shutdown` | a container starts, is killed, or runs the `lifespan` shutdown |

*Modes.* `MultiInstance` allows several processes at once (the container's two
uvicorn workers, and deploys); `Stalls` allows a live process to miss its
heartbeats for a whole lease (a blocked loop or an unreachable database).
With both off, heartbeats are punctual, as `RUNTIME_HEARTBEAT_SECONDS <
RUNTIME_LEASE_SECONDS` intends (`core/config.py:113-118`), and one process hands
over to the next.

*Fairness* (`FairSpec`): lease time passes; every live process sweeps
(`recovery.start` is part of the lifespan); the ECS service restarts a stopped
process, so the last lifetime, `Stable`, comes up and stays; handlers and tasks
that can run do. Requests, heartbeats, crashes and the passing of a deadline are
not fair, so no liveness property depends on a user or on luck.

### RuntimeLifecycle

The abstract specification: one status moving through the transition table, one
outcome written together with the terminal status, an attempt that grows only
while running. `RefinesLifecycle` maps `row.status`, `row.attempt` and `final`.

### ActionCenter

References are to `action_center/service.py` unless a file is named.

*State.* `action` is the `delivery_proposed_actions` row. Its `payload` stands
for the JSON column that the fingerprint covers; `Critical` are the payloads for
which `policy_for` asks for two approvals. `expired` says that `expires_at`,
which every approval copies, has passed. `approvals` are the `approval_requests`
rows in order of submission, `decisions` the committed
`action_approval_decisions`, `execs` the `action_executions` row of each
idempotency key together with its `action_verifications` row. `req` holds the
HTTP requests in flight: what each does and the row it has loaded.

*Atomicity.* The endpoints are synchronous functions on a thread pool, in
several processes, over READ COMMITTED transactions. Only `execute` locks the
action row. So an operation is a `...Load` step, which reads the rows and applies
the checks, and a `...Commit` step, which writes the columns that differ from
what was loaded (`Flushed`) and ends. `decide` has a third step between them,
`DecideCount`, because its insert and its count are separate statements that see
what others have committed. `ApprovalRequest` has a version column
(`__mapper_args__`): of two requests that loaded one approval the second to
write it fails and rolls back, which `Written` models by ending it.
`ProposedAction` has none. `execute` is one step, from its lock to its commit;
the lock conflicts with the foreign-key lock of a decision inserted by an open
transaction (`RowFree`). The retry endpoint loads the action before `execute`
locks it, and the locking query does not refresh the loaded object, so
`RetryCommit` decides on its snapshot. `Abort` is a crash, a lost client or a
database abort.

*Actions and code.*

| Actions | Code |
|---|---|
| `EditLoad`, `EditCommit` | `edit` |
| `SubmitLoad`, `SubmitCommit` | `submit` |
| `DecideLoad`, `DecideCount`, `DecideCommit`, `ExpireCommit`, `SupersedeCommit` | `decide` and its two early ways out |
| `DelegateLoad`, `DelegateCommit` | `delegate` |
| `Execute`; `RetryLoad`, `RetryCommit` | `execute`; `retry_action` (`api/action_center.py:239`) |
| `VerifyLoad`, `VerifyCommit` | `verify` |
| `CancelLoad`, `CancelCommit` | `cancel` |
| `Expire` | the clock passes `expires_at` |

*Left out.* Notifications, evidence and audit rows; the RAID item that an
execution changes (an attempt succeeds or fails, and a verification finds the
record or not, which it may not when the record was removed elsewhere); fields
of the action that the fingerprint covers besides the payload; actions that an
agent creates with status PROPOSED, on which no endpoint but cancel acts.
`Overlap = FALSE` restricts the model to one request at a time. The deployed
service does not keep to it; `action_serial` uses it to separate what the
endpoints get right by themselves from what only their overlap breaks, which the
table of deviations lists.

`RefinesLifecycle` maps the status, the version and the existence of a
successful attempt to `ActionLifecycle`.

### BudgetEnforcement

References are to `governance/budget_enforcement.py`.

*State.* `rows` is the `budget_reservations` row of each budget and idempotency
key, `override` the `budget_overrides` row, `lock` and `keeper` the row locks on budgets and on the
override. `pc` and `call` say where each caller is and what it has counted so
far; `segments` counts the calls begun under a key, since the runtime and the
agents reserve again under the same key after a pause.

*Atomicity.* One step per statement. `reserve` reads the budgets in scope and
the key's reservations (`Begin`), locks the budgets in list order (`Lock`), sums
settled and reserved amounts of each in two statements (`SumSettled`,
`SumReserved`, which fold over the rows as they are at that moment:
`SettledSum`, `ReservedSum`), and either admits, uses the override (`ReadOverride`), starts
again with the cheaper model in the same transaction (`Reroute`), or refuses
(`Block`). `settle` and `release` lock no budget, so they fall between the sums.
`DeadlockAbort` is the database breaking a cycle, `Collide` the unique key of a
reservation, `Abandon` a cancelled task or a dead process.

*Left out.* Model versions, prices and currencies, periods, soft limits and
alert rows; the audit row of a refusal (`AuditChain`).

`RefinesLedger` maps open reservations and the reserved sums to `BudgetLedger`,
where a request counts and commits in one step.

### AuditChain

`append_audit_event` (`audit/events.py:24`) reads the last row it can see FOR
UPDATE, chains a row to it and leaves flush and commit to its caller. `row` holds
the rows by id, `pending` what each session has added and not flushed (sessions
do not autoflush, `database/session.py:53`), `want` and `lock` the row locks.
A query fixes its row before it waits for that row's lock, so `Granted` chains to
the row the wait was for, not to a newer one. `Verifies` is
`AuditIntegrityService.verify` (`governance/service.py:398`); a hash is named by
the event it was computed for, so the content of events is left out.

### WorkflowEngine

*State.* `dependsOn` is the graph, chosen from `Plans`; `engine`, `workflow`,
`completed` and `batch` belong to `execute` and the `ParallelExecutor`; `pc`,
`state`, `attempt`, `waits` to each task; `requests` are the `ApprovalManager`'s
requests, with a history field `granted`; `cancelled`, `paused` are the token.

*Atomicity.* One event loop: a step runs from one await that can suspend to the
next. A task that raises cancels the rest of its TaskGroup at once (`Raise`).

| Actions | Code |
|---|---|
| `Execute`, `RefuseToStart`, `StartWorkflow`, `Finish` | `DefaultWorkflowEngine.execute` |
| `NextBatch` | `ParallelExecutor.execute`, `TaskGraph` |
| `Admit` ... `Return`, `Fail` | `_execute_single`, `_execute_task`, `_execute_agent` |
| `Answered`, `ApprovalTimesOut`, `Respond` | `ApprovalCoordinator`, `ApprovalManager` |
| `Control` | `CancellationToken` |

*Left out.* Results, events and logging; checkpoints (nothing restores them).

### RuntimeEvents

*State.* `row` is the part of the execution row that the journal uses: ended or
not, and `last_event_sequence`. `journal` holds the kind of each committed event,
`tx` the writers' transactions, `stream` the server side of each client's stream
with the results of its three queries, `received` what each client was sent.
`Init` allows any imported history: a counter below it, an ended execution
without its terminal event.

*Actions.* `Lock`, `Append`, `End`, `Commit`, `Rollback`:
`append_runtime_event`, `transition_execution`, `_append_runtime_event_locked`.
`ReadBatch`, `ReadStatus`, `ReadTerminal`: the statements of
`_read_durable_events`. `Send`, `Poll`, `Connect`, `Disconnect`: `stream` and its
client.

*Assumed.* A writer decides on the row it has locked, and an ended execution
stays ended. `RuntimeExecution` shows that with two processes a handler that
loaded the row earlier can break the second (`TerminalIsFinal` below), so
`ClosedIsComplete` is about executions that end once. The process-local tracker
only shortens the poll and is left out.

### AgentExecution

References are to `agents/execution_service.py`.

*State.* `profile` fixes the case: the message asks "which tool", the assignment
is gated by an approval, a parent runtime execution waits. `status` is the row's
(a kind of question stands for `waiting_for_<kind>`), `conts` the continuations
in order, `lapsed` the last one past its `expires_at`, `tool` the tool row,
`req` the requests: where each is and what it has loaded. Two history variables:
`lost`, a process died in the middle of a run or a denial; `carried`, values that
came from a caller held the key `_approval_consumed`.

*The flags of a run.* `_run` reads `_clarification_consumed` and
`_approval_consumed` from the values it is given (1012, 1156). `start` passes the
caller's inputs as they are (405) and `resume` merges an answer into them (1493),
neither of which removes these keys, so `Init` and `Resumed` take any values and
`carried` records that the approval's key was among them. `ToolApproved` is about
the other executions: there the gate depends on the service's own bookkeeping
alone.

*Atomicity.* A step is a database transaction or what lies between two awaits.
`cancel` and an expiring `resume` load rows and write them later without looking
again, so they are split (`CancelLoad`/`CancelCommit`,
`AnswerLoad`/`ExpireCommit`); `_fail`, `_timeout` and the end of `_run` read the
status and then write it (`Check`, `Write`); `resume` claims the continuation by
a conditional UPDATE (`Claim`, `AlreadyUsed`). A row's status may become one that
another row of its kind has already only in violation of
`uq_agent_continuation_state`: `Fits` guards every write of a continuation, and
`Conflict` is the request that fails there. Claim, cancellation and
reconciliation lock the two rows in different orders; the deadlock that can
follow ends one transaction, which is an `Abort`.

| Actions | Code |
|---|---|
| `Ask`, `CallTool`, `CallModel`, `Raise` | `_run` up to its await; `_make_continuation` |
| `ToolReturns`, `ModelReturns`, `TimesOut`, `TaskCancelled`, `Check`, `Write` | the rest of `_run`, `_run_with_timeout`, `_fail`, `_timeout` |
| `CancelLoad`, `CancelCommit` | `cancel`, `_terminalize_cancelled` |
| `AnswerLoad`, `Claim`, `Deny`, `AlreadyUsed`, `Conflict`, `ExpireCommit` | `resume` |
| `Reconcile` | `runtime/child_reconciliation.py` |

*Left out.* The agent's prompt, schema and results (an outcome is chosen), the
budget calls, events and audit rows, and the other tools of a plan.

## Runs

| Run | Mode | Checks |
|---|---|---|
| `runtime_fleet` | two processes, stalls | `WaitingHasContinuation`, `WaitingIsFree`, `CompletedHasWrite`, `AnnouncedOnce`, `AnswersKept`: what survives everything the deployment can do |
| `runtime_stall` | one process, stalls | `TypeOK`, `WriteSentAtMostOnce`, `RefinesLifecycle` |
| `runtime_handover` | one process at a time, three lifetimes, punctual, fair | `OneDriver`, `FencedSteps`, `NoOrphanTool`, `OutcomeKept`: what the design assumes of a single process; `RunningSettles` |
| `runtime_denial` | one process | violated: `DenialHolds` |
| `action_overlap` | two requests at once, a plain and a critical payload | `ApprovedHasDecisions`, `ExecutedWasApproved`, `VerifiedHasEvidence`, `DecidedIsFinal` |
| `action_serial` | one request at a time, two keys, three submissions | `TypeOK`, `WaitsForOneApproval`, `ExecutedAtMostOnce`, `RefinesLifecycle` |
| `budget_gate` | two calls at once, three budgets, two models, an override, fair | `OutstandingWithinLimit`, `FirstCallReserved`, `EndsOnce`, `RequestAnswered`, `RefinesLedger` |
| `audit_chain` | three sessions, five appends, fair | `LinksCommitted`, `AppendAnswered` |
| `workflow_engine` | three tasks, three graphs, fair | `ApprovalGates`, `DependenciesFirst`, `EndIsFinal`, `EndsOrWaits` |
| `workflow_optional` | the same tasks, two of them optional | violated: `OptionalMayFail` |
| `runtime_events` | three writers, one client, fair | `NoConflict`, `PrefixReceived`, `ClosedIsComplete`, `StreamEnds` |
| `agent_execution` | two requests, three questions, fair | `OneRun`, `ToolApproved`, `SomebodyActs`, `RunSettles` |

The container runs two workers, so what `runtime_stall` and `runtime_handover`
show holds of executions whose requests and recovery stay in one process
(`runtime_handover`: whose heartbeats are in time as well). What is lost otherwise
is in the table of deviations.

*Bounds of the runtime.* `MaxTasks` bounds the tasks launched, `MaxContinues`
the answers (`Continue` carries the guard), `MaxAttempts` is the code's own
limit (3 in production, 2 or 3 here), `LeaseTicks` the lease in ticks. In the
handover run `MaxTasks >= MaxContinues + MaxAttempts`, and in the
stall run `MaxTasks = MaxContinues + MaxAttempts`, so the bound on tasks never
stops a step there. In the fleet run it is 2, enough for an owner and one
relaunched task. Two attempts and one or two answers are enough for a task to be
recovered, paused, resumed and recovered again; two processes are enough for
each race, since every race is between one owner and one other handler. The
at-most-once write with several processes is proved rather than checked.

*Bounds of the action center.* Three users: a requester and two others, so that
two distinct approvers exist and an approver, an executor and a verifier can
coincide or differ. Two versions, so that an approval may be for an old one;
two or three submissions (`MaxApprovals`), so that a request is superseded or
sent back and another takes its place; two idempotency keys where attempts are
the question; two requests in flight, since every race is between two.
`Assignees` bounds whom a submission or a delegation may name. Symmetry covers
the users with no role in the instance, the keys and the requests; no checked
property is a liveness property. `action_serial` has 330,392 distinct states,
`action_overlap` 1,167,536.

*Bounds of the budget.* One budget per model and one on the tenant, so that two
calls share a budget or do not, and a rerouted call shares one with itself; one
budget appears while calls are under way. The limits are reached by two
reservations. `Usages = {3}` is a usage above every estimate; one key makes two
calls, the other one; the override has one use. 262,480 states.

*Bounds of the audit chain.* Three sessions, so that one waits for a row while a
third commits a newer one; five appends, at most two unflushed per session.
136,884 states.

*Bounds of the workflow.* Two gated tasks side by side, one with a timeout and a
retry, and a task that depends on both; the same tasks in a chain, where the last
depends on the first as well, so that a dependency completes while another is
still missing; and a graph that can never finish, as two tasks depend on one the
workflow lacks. With `MaxParallel = 2` a batch holds at most two tasks, so the
semaphore is exercised but never full for long. 214,250 states.

*Bounds of the journal.* Three writers, so that one waits, one holds the lock and
one has ended the execution; a client alone, since clients only read and are
independent; batches of two over up to six events, so that a batch is full,
partial and empty, and a poll falls between two commits. When the numbers run
out writers can only roll back, which no checked property depends on. 13,950
states.

*Bounds of the agent.* Two requests, since each race is between one that has
loaded and one that writes; three users: the requester, an approver and one who
is neither; three questions: a clarification, an input and the clarification asked
again, or an input and an approval. 360,354 states.

*Fairness.* The runtime's is above. `BudgetEnforcement`: the statements of a live
transaction run, a free lock is granted, a deadlock is broken; no call has to
end. `AuditChain`: transactions end (strong fairness only for the grant of a row
lock, for the database serves waiters in turn). `WorkflowEngine`: the loop runs
what is ready and timeouts expire; nobody has to answer or resume.
`RuntimeEvents`: a stream goes on polling; no writer has to write.
`AgentExecution`: a live process runs its handlers and `wait_for` bounds a run;
neither tools, models nor users have to answer.

`CHECK_DEADLOCK` is off in all runs because an execution that has ended and an
action in a terminal status really stop.

*Findings.* Two runs show a disagreement. `runtime_denial`: a denied approval is
recorded as granted (RES 2089), and the resumed task makes the write.
`workflow_optional`: "Tasks are required unless plan metadata explicitly marks
them optional" (`workflow/default_workflow_engine.py:253`), and
`test_optional_failure_does_not_prevent_required_success`
(`backend/tests/test_required_workflow_tasks.py:33`) calls the check of the
required tasks by itself; in an execution the TaskGroup of the batch raises first
(`runtime/parallel_executor.py:123`), and the workflow ends FAILED although all
required tasks are COMPLETED.

### Other deviations

The modules state further properties that the documentation, a comment or a test
promises and TLC refutes. To reproduce one, take the configuration named, set the
constants given, remove SYMMETRY if users are told apart, and check the property
alone (under `Spec` unless another is named).

| Property | What is promised | Configuration | Counterexample |
|---|---|---|---|
| `RuntimeExecution!TerminalIsFinal` | "Atomically apply the canonical public RuntimeExecution transition." (RES 221) | `RuntimeFleet`, Stalls FALSE | `StartInsert`, `CancelRead`, `StartClaim`, `CancelCommit`, `StartRun`: a handler of another process that loaded the row before it locked it overwrites a terminal status |
| `FencedSteps` (two processes) | "`lease_owner` plus `attempt` fences stale workers" (`docs/RUNTIME_STABILITY.md:16`) | `RuntimeFleet`, Stalls FALSE | a cancellation commits between the check of the lease and the insert of the tool row: the check is not atomic with the work it guards |
| `FencedSteps` (stalls) | the same | `RuntimeStall`, MaxTasks 2 | the fencing token is read from `_owned_attempts`, shared by the tasks of a process: a stalled process recovers its own execution, and the old task then presents the new attempt |
| `OutcomeKept` (stalls) | "Preserve the first terminal child outcome" (`tool_sdk/executor.py:267`) | `RuntimeStall`, MaxTasks 2 | `_finish` keeps only cancelled and timed-out rows: a late answer turns a child that recovery marked failed into a succeeded one |
| `AbandonedReadRestarts` | "Read-only abandoned work may be restarted." (`docs/RUNTIME_STABILITY.md:10`) | `RuntimeDenial`, MaxTasks 2, MaxContinues 1 | the relaunched task builds the same idempotency key and its insert violates `uq_tool_idempotency` |
| `RuntimeExecution!PendingSettles` | "database ownership prevents abandoned executions from remaining active" (`docs/RUNTIME_STABILITY.md:23`) | `RuntimeDenial`, MaxTasks 2, MaxContinues 1, `FairSpec` | the sweep looks only at RUNNING rows: a crash right after the insert leaves PENDING for ever |
| `ActionCenter!TerminalIsFinal` | "Invalid and terminal transitions return explicit `409` errors." (`docs/action-state-machines.md:28`) | `ActionOverlap` | `SubmitLoad`, `CancelLoad`, `CancelCommit`, `SubmitCommit`: CANCELLED becomes PENDING_APPROVAL |
| `VersionNamesPayload` | "Editing requires `expected_version`" (`docs/action-state-machines.md:24`) | `ActionOverlap` | two edits of version 1 both succeed and write version 2 |
| `PendingIsCurrent` | "A material edit supersedes the prior request" (`docs/action-state-machines.md:20`) | `ActionOverlap` | `EditLoad`, `SubmitLoad`, `EditCommit`, `SubmitCommit`: the new request is for the old version and nobody can decide it |
| `ExecutedAtMostOnce` (overlap) | "Execution locks the action row" (`docs/action-state-machines.md:25`) | `ActionSerial`, Overlap TRUE | `RetryLoad`, `Execute`, `RetryCommit`: the retry decides on the action it loaded before the lock and makes the change again under another key |
| `DistinctApprovers` | "Multiple approval decisions must come from distinct actors." (`docs/approval-security.md:9`) | `ActionSerial` | one person's two decisions, on two submissions of one version, count as two approvers |
| `RequesterDoesNotApprove` | "cannot be approved by their requester" (`docs/approval-security.md:9`) | `ActionSerial`, Admins {ann} | the duties are compared with who submitted: an administrator submits and the requester approves |
| `SpendWithinLimit` | "blocks hard limits" (`docs/copilot-budget-and-cost.md:3`) | `BudgetGate` | a call settles above its estimate: spent and reserved pass the limit without an override |
| `EveryCallReserved` | "reserves estimated Decimal-safe cost" before a provider invocation (`docs/copilot-budget-and-cost.md:3`) | `BudgetGate` | a second call under a key is admitted on the key's first reservation, for another model's budgets too, and whatever became of it |
| `NoLockCycle` | "Updating each budget row in stable order" (`budget_enforcement.py:248`) | `BudgetGate` | `Reroute` asks for the cheaper model's budget while it holds the tenant's |
| `ReservationHasCall` | "Cancellation and terminal failure must settle or release budget reservations." (`docs/copilot-runtime-states.md:3`) | `BudgetGate` | `Begin` ... `Admit`, `Abandon`: a cancelled task settles and releases nothing, and nothing reads `expires_at` |
| `Verifies` | "The last-row lock protects normal transactional writers" (`docs/audit-integrity.md:5`) | `AuditChain` | two appends to an empty chain have no row to lock, or two appends of one transaction are not flushed between: two rows name one predecessor |
| `Answerable` | `test_clarification_is_authorized_validated_and_resumes_same_execution` (`backend/tests/test_agent_execution_phase3.py:340`) | `AgentExecution` | `Ask`, `AnswerLoad`, `Claim`, `Ask`, `AnswerLoad`, `Claim`, `Ask`: after clarification and input the clarification is asked again, and its answer violates `uq_agent_continuation_state`; the execution waits until somebody cancels it or it expires |
| `CancelIsDurable` | `test_cancellation_is_durable_idempotent_and_blocks_resume` (`backend/tests/test_agent_execution_phase3.py:321`) | `AgentExecution` | `Reconcile`, `Ask`: the run of a cancelled child asks its question and sets it waiting again |
| `ClarifiedOnce` | "and not clarification_consumed" (`agents/execution_service.py:1012`) | `AgentExecution` | the flag lives only in the run that the clarification resumed: the run resumed by the following input asks for the clarification again (and see `Answerable`) |

Three further peculiarities are visible in the code and in the modules without a
property of their own. A cancellation during a batch of a workflow ends it FAILED,
not CANCELLED, as the TaskGroup wraps the error in an ExceptionGroup (`Raise`).
One task's granted approval shows the whole workflow as RUNNING while another
task still waits (`Answered`; `workflow/default_workflow_engine.py:378`). And the
per-task isolation of the executor (`fail_fast`, `mark_failed`), which would let
the workflow of `workflow_optional` go on, is unreachable.

## Proofs

A theorem holds for every value of the constants that the named assumptions allow,
in every mode. Each safety property, action property and refinement that a passing
run checks is a theorem, with these exceptions, which TLC alone checks:

* liveness (`RunSettles`, `StreamEnds`, `EndsOrWaits`, `AppendAnswered`,
  `RequestAnswered`, `RunningSettles`): it rests on fairness and `ENABLED`, which
  are out of the proof system's reach;
* what the code keeps in one mode only: `OneDriver`, `FencedSteps`,
  `NoOrphanTool`, `OutcomeKept` and `RefinesLifecycle` of the runtime,
  `WaitsForOneApproval`, `ExecutedAtMostOnce` and `RefinesLifecycle` of the Action
  Center. The deployment does not stay in that mode, so that a theorem with the
  mode as its hypothesis would say nothing about it; the runs tell what the code
  gets right before the mode's hazard is added, and the table of deviations what it
  does not afterwards.

### RuntimeExecution

`RuntimeExecutionProofs` proves, for any set of processes, which may stall or not,
any lease length and any limits:

* `TypeCorrect`: `Spec => []TypeOK`.
* `WaitingCorrect`: `Spec => []WaitingHasContinuation`. The property is not
  inductive: a commit decides on `snap`, which may be stale. The strengthening
  `WaitInv` adds that every live task has a process (`TaskHasWorker`), that a
  process is in one synchronous section at a time (`Exclusive`), that a process
  in the middle of `start` has no other handler acting for the row
  (`StartingAlone`), and that a cancellation in progress either sees the current
  continuation or will clear it (`Cancelling`).
* `WriteAtMostOnce`: `Spec => []WriteSentAtMostOnce`, and `CompletedCorrect`:
  `Spec => []CompletedHasWrite`. Their common strengthening `WriteInv` says that
  at most one task is inside the write call (`OneCaller`), that it is a task
  whose row is not yet finished (`CallerUnfinished`), that a task about to
  complete has its result (`WrapHasWrite`), and that `calls` counts exactly the
  inserted write row (`CallsCounted`): the unique key is what limits it.

* `AnswersStay`: `Spec => AnswersKept`. A task that is in a call finds its tool row
  without an answer (`WriteInv`); `_finish` keeps one that was cancelled or timed
  out meanwhile, and reconciliation and recovery write only rows that run.
* `WaitingFree`: `Spec => []WaitingIsFree`, and `EndAnnouncedOnce`:
  `Spec => AnnouncedOnce`. `RowStep` says what a step may do to the row: it is the
  first to announce an end, which the row then has (`RowEnds`), or it announces
  nothing, and leaves status and owner alone or makes the row running, or waiting
  for nobody's lease (`RowQuiet`). The columns that a stale session writes are
  those it changed in its copy, so that a pause over a newer row still writes the
  status and the released lease together (`FlushMoved`). `EndInv` adds that a
  status which is terminal is the one announced; a stale pause may overwrite the
  status, but not the announcement.

### ActionCenter

`ActionCenterProofs` proves, for any users, payloads, keys, bounds and number of
requests in flight, overlapping or not:

* `TypeCorrect`: `Spec => []TypeOK`, and `DecidedFinal`: `Spec => DecidedIsFinal`.
  A request decides on what it loaded, so neither is inductive. The strengthening
  `OpenRequests` says that a request in flight that names an approval finds it
  pending, one that verifies names an attempt that exists, and one that edits
  has a version left: every commit that writes an approval ends the other
  requests that loaded it, which is what the version column is for.
* `ApprovalHasQuorum`: `Spec => []ApprovedHasDecisions`. `Counts` adds that a
  decision under way is about the version its approval binds, is not stored yet,
  and counted no more decisions than there are. `ApprovalSteps` says how a step
  may change an approval, `DecisionsGrow` that decisions are only added, and
  `ApprovesFills` that the decision stored is one more than those counted.
* `ExecutionBound`: `Spec => []ExecutedWasApproved`. `AttemptSteps` says how a
  step may change an attempt, and approved requests stay as they are.
* `VerifiedByAnother`: `Spec => []VerifiedHasEvidence`: an action that reads as
  verified has a successful attempt that somebody other than its maker has found.
  A verification decides on what it loaded earlier. `Checkers` adds that one
  under way is not by the maker of its attempt, whose row is never made again;
  `Evidence` that it was begun while the action waited for it and checks an attempt
  that succeeded. The run that checks
  the property has one key; that of a retry under a second key is covered by the
  theorem.

### BudgetEnforcement

`BudgetProofs` proves, for any budgets, limits, models, routes, keys and number
of callers, from the assumptions on the constants:

* `TypeCorrect`, and `LimitHolds`: `Spec => []OutstandingWithinLimit`. The counts
  of a request are taken in statements of their own, so the limit is kept by the
  locks. `Phases` says what a caller has locked at each place, `Counted` that a
  request which is not over a limit has found room in every budget it has
  counted, or has locked an override it may use; `Undisturbed` is what another
  caller's step leaves of both.
* `ReservationsEndOnce`: `Spec => EndsOnce`, an action property.
* `LocksOrdered`: `Spec => []LocksInOrder` (no run checks it). `Ordered` adds
  that what a caller still has to lock lies above all it holds, until it is
  rerouted; the table of deviations has the cycle that a reroute can make.
* `FirstReserved`: `Spec => []FirstCallReserved`. `Firsts` adds that a key with
  one call has one caller and, until it is admitted, no reservation.

* The sums are folds over the rows, which the community modules define by a
  function chosen on the subsets of a set. `SmallestSet` (a property that some
  subset of a finite set lacks has a smallest one that lacks it) stands in for
  induction: it gives that the function exists (`TotalsExist`), is one whatever the
  set it was chosen for (`TotalsAgree`), and that any element may be taken out
  first (`TotalRemove`). `SumIsTotal` connects the fold of the module to it;
  `SumGrows` and `SumFalls` say what one new or one closed row does to a sum,
  `AdmitSums` and `CloseSums` what an admission and the end of a reservation do. They are what the limit and the refinement rest on.
* `LedgerImplemented`: `Spec => RefinesLedger`. `AdmitLedger` is the step that
  matters: by `Counted` each budget of the request has room when it commits, or
  an approved override covers it; `CloseLedger` ends a key's
  reservations, and every other step leaves the ledger alone.

### AuditChain

`AuditProofs` proves, for any number of sessions and rows: `TypeCorrect`,
`LinksHold` (`LinksCommitted`) and `LocksAscending` (`LocksAscend`, which no run checks). The invariant is `Closed`
(a session without a transaction holds nothing), `Linked` (a row names a lower
one that its session could see, so a committed row names a committed one),
`Remembered` (so do events not yet flushed) and `Locked`.

### RuntimeEvents

`EventProofs` proves, for any number of writers, clients and events, any batch
size and any imported history: `TypeCorrect`, `NumbersFresh` (`NoConflict`),
`PrefixHolds` (`PrefixReceived`), `ClosedHolds` (`ClosedIsComplete`). None of the
last three is inductive: `Settled` adds that the terminal event is the last one,
its row has ended and nobody is about to append another; `Served` adds what a
stream's cursor, its batch and its three reads say about the journal as it was
when each was made, so that a stream which saw the terminal event in none of its
batches has still sent everything.

### WorkflowEngine

`WorkflowProofs` proves, for any tasks, graphs, approvals, retries and size of
the semaphore: `TypeCorrect`, `ApprovalHolds` (`ApprovalGates`), `DependenciesHold`
(`DependenciesFirst`), `EndHolds` (`EndIsFinal`). `Tracked` says that a task
under way belongs to the batch that runs, and that a task which waits for an
approval, or has passed it, names the request of its present attempt: this is
why an answer to an earlier attempt cannot let it through. `Counted` ties
`completed` to the tasks' places, `Ordered` says that a task has left its first
place only when all it depends on is in `completed`, `Recorded` the status of a request to what was
answered.

### AgentExecution

`AgentProofs` proves, for any users, approvers, requests in flight and number of
questions, with the two assumptions of the module:

* `TypeCorrect` and `RunsAlone` (`OneRun`). `Requested` adds what each request
  has loaded: an answer names a continuation that exists and that its user may
  answer. `Handled` is the step of one request, and needs only that a new run
  comes from settling the one open question.
* `GateHolds` (`ToolApproved`). `Gate` adds that a run flagged as approved has an
  approval by another user behind it, or values that carried the flag; no step
  takes an approval back, and `carried` stays true.
* `ActorExists` (`SomebodyActs`), inductive once `OneRun` and `Requested` hold.
* `ResultExists` (`SucceededHasResult`, which no run checks). `Results` follows
  the tool row from the call to the write: no other request can touch it in
  between except the parent, which never turns a finished row into another.

## Not modelled, and why

*Inside the modelled components.* Of the runtime: the plain-chat,
managed-agent and canonical-input flows, retries of the HTTP layer, metrics,
redaction and the content of inputs and answers. The canonical continue path
holds a row lock while it awaits a worker thread; it is listed as a hazard
without a property. The budget calls around a task are left to the budget
module, the events to the journal's. Of the workflow engine: checkpoints, which
nothing restores. Of the agents: prompts, schemas, results, the other tools of a
plan.

*Components left out.* Governance records, delivery, RAID and the agile, meeting,
ceremony and knowledge intelligence are mostly create/read/update operations of
one transaction each, some with an optimistic version: a step model of them
would restate the code. Planning and intent
resolution, tool discovery, MCP, integrations and AI providers are pure
functions of text and calls to services outside the process; the modules take
their outcomes as choices. Authentication and permissions appear as guards on
who may act. HTTP routers, database models, migrations, seeds, metrics,
settings, the frontend and the infrastructure keep no state of their own that
could be interleaved. These parts are most of the tree, so the map covers a
small share of its lines: the concurrent core, not the application around it.

*Worth adding next.*

1. The canonical continue path and the managed-agent flow as further actions of
   `RuntimeExecution`, which then composes it with `AgentExecution` through
   `Reconcile`.
2. Governance policies and clarifications: review races between two versions.
3. The runtime's calls of the budget gate as callers of `BudgetEnforcement`, so
   that a reservation's fate follows from the cancellations and crashes of
   `RuntimeExecution` instead of `Abandon`.
