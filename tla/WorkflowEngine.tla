---------------------------- MODULE WorkflowEngine ----------------------------
(***************************************************************************)
(* One execution of a workflow by DefaultWorkflowEngine: the dependency    *)
(* graph run in batches by ParallelExecutor, each task's attempts and      *)
(* human approvals, and the cancellation token.                            *)
(*                                                                         *)
(* Everything runs on one asyncio event loop, so a step is what happens    *)
(* between two awaits that can suspend: a wait on the token, on the        *)
(* semaphore, on an approval or on the agent, or an event published to     *)
(* the handlers.  A batch is a TaskGroup: the first task that raises       *)
(* cancels the others where they are suspended, and none of them takes     *)
(* another step (the CancelledError passes every handler of _execute_task).*)
(* The repository is InMemoryWorkflowRepository, whose save cannot fail.   *)
(***************************************************************************)
EXTENDS Naturals, Sequences, FiniteSets

CONSTANTS
  Tasks,             \* the tasks of the workflow
  Plans,             \* dependency graphs: each maps a task to its task.depends_on,
                     \* which may name a task the workflow lacks or form a cycle
  RequiresApproval,  \* the tasks with requires_approval
  Impatient,         \* those of them with an approval_timeout_seconds
  Optional,          \* the tasks whose metadata says required = False
  RetryCount,        \* task.retry_count
  MaxParallel        \* max_parallel_tasks of the executor's semaphore

ASSUME TaskAssumption == /\ IsFiniteSet(Tasks)
                         /\ RequiresApproval \subseteq Tasks
                         /\ Impatient \subseteq RequiresApproval
                         /\ Optional \subseteq Tasks
ASSUME RetryAssumption == RetryCount \in [Tasks -> Nat]
ASSUME LimitAssumption == MaxParallel \in Nat \ {0}

VARIABLES
  dependsOn,  \* the graph of this workflow
  engine,     \* where execute is
  workflow,   \* workflow.state
  completed,  \* TaskGraph._completed
  batch,      \* the tasks of the TaskGroup
  pc,         \* where _execute_task is, for each task
  state,      \* task.state
  attempt,    \* task.attempt
  waits,      \* the approval request the current attempt of a task created
  requests,   \* the ApprovalManager's requests, in order of creation
  cancelled,  \* CancellationToken._cancelled
  paused      \* CancellationToken: the pause event is cleared

vars == <<dependsOn, engine, workflow, completed, batch, pc, state, attempt, waits,
          requests, cancelled, paused>>

graph == <<dependsOn, completed, batch>>
token == <<cancelled, paused>>
-----------------------------------------------------------------------------
Engine   == {"idle", "checking", "batch", "finishing", "ended"}
States   == {"PENDING", "RUNNING", "APPROVAL_PENDING", "COMPLETED", "FAILED", "CANCELLED"}
Ended    == {"COMPLETED", "FAILED", "TIMED_OUT", "CANCELLED"}
Places   == {"idle", "queued", "admitted", "started", "waiting", "granted", "agent",
             "returned", "completing", "retrying", "failing", "done", "stopped"}
\* the places where a task holds one of the semaphore's slots
Holding  == Places \ {"idle", "queued", "done", "stopped"}
Statuses == {"PENDING", "APPROVED", "REJECTED", "CANCELLED"}

(* A request; `granted` records that it has been APPROVED at some time,      *)
(* which the code does not keep.                                             *)
Requests == [task : Tasks, attempt : Nat, status : Statuses, set : BOOLEAN,
             granted : BOOLEAN]

MaxAttempts(t) == RetryCount[t] + 1

\* wrong on purpose: one completed dependency unlocks a task
ReadyEarly(done) == {t \in Tasks \ done : dependsOn[t] = {} \/ dependsOn[t] \cap done # {}}

(* TaskGraph: the tasks whose every dependency has completed.                *)
Ready(done) == {t \in Tasks \ done : dependsOn[t] \subseteq done}
-----------------------------------------------------------------------------
Init ==
  /\ dependsOn \in Plans
  /\ engine = "idle" /\ workflow = "PENDING"
  /\ completed = {} /\ batch = {}
  /\ pc = [t \in Tasks |-> "idle"]
  /\ state = [t \in Tasks |-> "PENDING"]
  /\ attempt = [t \in Tasks |-> 0]
  /\ waits = [t \in Tasks |-> 0]
  /\ requests = <<>>
  /\ cancelled = FALSE /\ paused = FALSE

Goto(t, place) == pc' = [pc EXCEPT ![t] = place]

\* wrong on purpose: asyncio.gather leaves the other tasks running
RaiseAlone(t) ==
  /\ pc' = [pc EXCEPT ![t] = "stopped"]
  /\ engine' = "ended" /\ workflow' = "FAILED"
  /\ UNCHANGED graph

(* _execute_task raises: the TaskGroup stops every task that has not         *)
(* returned and leaves with an ExceptionGroup, which execute catches as any  *)
(* other exception (it is not a WorkflowCancelledError): fail_workflow.      *)
Raise(t) ==
  /\ pc' = [u \in Tasks |-> IF u \in batch /\ pc[u] # "done" THEN "stopped" ELSE pc[u]]
  /\ engine' = "ended" /\ workflow' = "FAILED"
  /\ UNCHANGED graph
-----------------------------------------------------------------------------
(* execute: it waits while paused, and a cancellation raises before the      *)
(* workflow has started and outside the try.                                 *)
Execute ==
  /\ engine = "idle" /\ engine' = "checking"
  /\ UNCHANGED <<workflow, graph, pc, state, attempt, waits, requests, token>>

RefuseToStart ==
  /\ engine = "checking" /\ ~paused /\ cancelled
  /\ engine' = "ended"
  /\ UNCHANGED <<workflow, graph, pc, state, attempt, waits, requests, token>>

(* is_complete: no task ever fails or is blocked, as a task that raises ends *)
(* the batch before mark_failed.                                             *)
IsComplete(done) == done = Tasks

(* ParallelExecutor.execute: the next batch, or the end of the loop; a graph *)
(* with tasks that can never be ready is a RuntimeError.                     *)
Schedule(done, current) ==
  /\ completed' = done
  /\ batch' = Ready(done)
  /\ pc' = [t \in Tasks |-> IF t \in Ready(done) THEN "queued" ELSE pc[t]]
  /\ \/ Ready(done) # {} /\ engine' = "batch" /\ workflow' = current
     \/ Ready(done) = {} /\ IsComplete(done) /\ engine' = "finishing" /\ workflow' = current
     \/ Ready(done) = {} /\ ~IsComplete(done) /\ engine' = "ended" /\ workflow' = "FAILED"
  /\ UNCHANGED <<dependsOn, state, attempt, waits, requests, token>>

StartWorkflow ==
  /\ engine = "checking" /\ ~paused /\ ~cancelled
  /\ Schedule({}, "RUNNING")

NextBatch ==
  /\ engine = "batch" /\ \A t \in batch : pc[t] = "done"
  /\ Schedule(completed \cup batch, workflow)

(* _assert_required_tasks_succeeded, then complete_workflow.                 *)
Succeeded == \A t \in Tasks \ Optional : state[t] = "COMPLETED"

Finish ==
  /\ engine = "finishing" /\ ~paused
  /\ engine' = "ended"
  /\ workflow' = IF cancelled THEN "CANCELLED"
                 ELSE IF Succeeded THEN "COMPLETED" ELSE "FAILED"
  /\ UNCHANGED <<graph, pc, state, attempt, waits, requests, token>>
-----------------------------------------------------------------------------
(* _execute_single: a slot of the semaphore.                                 *)
Admit(t) ==
  /\ pc[t] = "queued"
  /\ Cardinality({u \in Tasks : pc[u] \in Holding}) < MaxParallel
  /\ Goto(t, "admitted")
  /\ UNCHANGED <<engine, workflow, graph, state, attempt, waits, requests, token>>

(* The first check is outside the try: a cancellation leaves the task as it  *)
(* is.                                                                       *)
StartTask(t) ==
  /\ pc[t] = "admitted" /\ ~paused
  /\ \/ /\ ~cancelled /\ Goto(t, "started")
        /\ state' = [state EXCEPT ![t] = "RUNNING"]
        /\ attempt' = [attempt EXCEPT ![t] = 1]
        /\ UNCHANGED <<engine, workflow, graph>>
     \/ cancelled /\ Raise(t) /\ UNCHANGED <<state, attempt>>
  /\ UNCHANGED <<waits, requests, token>>

(* fail_task; what follows its event raises.                                 *)
FailTask(t, ended) ==
  /\ Goto(t, "failing")
  /\ state' = [state EXCEPT ![t] = ended]
  /\ UNCHANGED <<engine, workflow, graph, attempt, waits, requests, token>>

Again(t, place) ==
  /\ attempt[t] < MaxAttempts(t)
  /\ attempt' = [attempt EXCEPT ![t] = attempt[t] + 1]
  /\ Goto(t, place)
  /\ UNCHANGED <<engine, workflow, graph, state, waits, requests, token>>

Exhausted(t) == attempt[t] >= MaxAttempts(t)

(* The two retrying handlers: a timeout continues with the loop, any other   *)
(* exception, WorkflowCancelledError included, first checks the token.       *)
TimedOut(t) == Again(t, "started")  \/ (Exhausted(t) /\ FailTask(t, "TIMED_OUT"))
Fault(t)    == Again(t, "retrying") \/ (Exhausted(t) /\ FailTask(t, "FAILED"))

(* ApprovalCoordinator.create and approval_pending.                          *)
Ask(t) ==
  /\ requests' = Append(requests, [task |-> t, attempt |-> attempt[t], status |-> "PENDING",
                                   set |-> FALSE, granted |-> FALSE])
  /\ waits' = [waits EXCEPT ![t] = Len(requests) + 1]
  /\ workflow' = "APPROVAL_PENDING"
  /\ Goto(t, "waiting")
  /\ UNCHANGED <<engine, graph, state, attempt, token>>

(* One pass of the loop, up to the first wait.                               *)
Begin(t) ==
  \/ t \in RequiresApproval /\ Ask(t)
  \/ /\ t \notin RequiresApproval /\ Goto(t, "agent")
     /\ UNCHANGED <<engine, workflow, graph, state, attempt, waits, requests, token>>

Attempt(t) ==
  /\ pc[t] = "started" /\ ~paused
  /\ IF cancelled THEN Fault(t) ELSE Begin(t)

(* This check is in the handler: nothing marks the task as failed.           *)
Retry(t) ==
  /\ pc[t] = "retrying" /\ ~paused
  /\ \/ cancelled /\ Raise(t) /\ UNCHANGED <<state, attempt, waits, requests, token>>
     \/ ~cancelled /\ Begin(t)
-----------------------------------------------------------------------------
\* wrong on purpose: any request of the task that was approved will do
VerdictOfAny(t, status) ==
  \E i \in 1 .. Len(requests) : requests[i].task = t /\ requests[i].status = status

(* wait_for_approval: once the event is set it reads the status again.       *)
Verdict(t, status) == requests[waits[t]].set /\ requests[waits[t]].status = status

Answered(t) ==
  /\ pc[t] = "waiting"
  /\ \/ /\ Verdict(t, "APPROVED") /\ Goto(t, "granted") /\ workflow' = "RUNNING"
        /\ UNCHANGED <<engine, graph, state, attempt, waits, requests, token>>
     \/ Verdict(t, "REJECTED")  /\ FailTask(t, "FAILED")
     \/ Verdict(t, "CANCELLED") /\ FailTask(t, "CANCELLED")

ApprovalTimesOut(t) == pc[t] = "waiting" /\ t \in Impatient /\ TimedOut(t)

Granted(t) ==
  /\ pc[t] = "granted" /\ ~paused
  /\ \/ cancelled /\ Fault(t)
     \/ /\ ~cancelled /\ Goto(t, "agent")
        /\ UNCHANGED <<engine, workflow, graph, state, attempt, waits, requests, token>>

(* _execute_agent: the agent returns, raises or exceeds timeout_seconds.     *)
AgentReturns(t) ==
  /\ pc[t] = "agent" /\ Goto(t, "returned")
  /\ UNCHANGED <<engine, workflow, graph, state, attempt, waits, requests, token>>
AgentRaises(t)   == pc[t] = "agent" /\ Fault(t)
AgentTimesOut(t) == pc[t] = "agent" /\ TimedOut(t)

(* The check after the agent: a cancellation now is a failed attempt, and so *)
(* is a result that is no AgentResult; an unsuccessful AgentResult completes *)
(* the task.                                                                 *)
CompleteTask(t) ==
  /\ pc[t] = "returned" /\ ~paused /\ ~cancelled
  /\ Goto(t, "completing")
  /\ state' = [state EXCEPT ![t] = "COMPLETED"]
  /\ UNCHANGED <<engine, workflow, graph, attempt, waits, requests, token>>
Spoilt(t) == pc[t] = "returned" /\ ~paused /\ Fault(t)

Return(t) ==
  /\ pc[t] = "completing" /\ Goto(t, "done")
  /\ UNCHANGED <<engine, workflow, graph, state, attempt, waits, requests, token>>

Fail(t) ==
  /\ pc[t] = "failing" /\ Raise(t)
  /\ UNCHANGED <<state, attempt, waits, requests, token>>
-----------------------------------------------------------------------------
Answer(i, status, signalled) ==
  /\ requests' = [requests EXCEPT
       ![i] = [task |-> requests[i].task, attempt |-> requests[i].attempt, status |-> status,
               set |-> requests[i].set \/ signalled,
               granted |-> requests[i].granted \/ status = "APPROVED"]]
  /\ UNCHANGED <<engine, workflow, graph, pc, state, attempt, waits, token>>

\* wrong on purpose: only an approval signals the event
RespondSilently(i) ==
  \E status \in Statuses \ {"PENDING"} : Answer(i, status, status = "APPROVED")

(* approve, reject and cancel of ApprovalCoordinator: the manager sets the   *)
(* status whatever it was, and the event is signalled.                       *)
Respond(i) == \E status \in Statuses \ {"PENDING"} : Answer(i, status, TRUE)

(* The holder of the token.                                                  *)
Pause  == paused' = TRUE  /\ UNCHANGED cancelled
Resume == paused' = FALSE /\ UNCHANGED cancelled
Cancel == cancelled' = TRUE /\ UNCHANGED paused

Control ==
  /\ Pause \/ Resume \/ Cancel
  /\ UNCHANGED <<engine, workflow, graph, pc, state, attempt, waits, requests>>

Run  == Execute \/ RefuseToStart \/ StartWorkflow \/ NextBatch \/ Finish
Step(t) ==
  \/ Admit(t) \/ StartTask(t) \/ Attempt(t) \/ Retry(t) \/ Answered(t)
  \/ ApprovalTimesOut(t) \/ Granted(t) \/ AgentReturns(t) \/ AgentRaises(t)
  \/ AgentTimesOut(t) \/ CompleteTask(t) \/ Spoilt(t) \/ Return(t) \/ Fail(t)

Next ==
  \/ Run
  \/ \E t \in Tasks : Step(t)
  \/ \E i \in 1 .. Len(requests) : Respond(i)
  \/ Control

Spec == Init /\ [][Next]_vars

(* The event loop runs whatever is ready, an agent ends within               *)
(* timeout_seconds, and an approval timeout expires.  Nobody has to answer   *)
(* an approval, and nobody has to resume a paused workflow.                  *)
FairSpec == Spec /\ WF_vars(Run) /\ \A t \in Tasks : WF_vars(Step(t))
-----------------------------------------------------------------------------
TypeOK ==
  /\ dependsOn \in Plans
  /\ engine \in Engine /\ workflow \in States
  /\ completed \subseteq Tasks /\ batch \subseteq Tasks
  /\ pc \in [Tasks -> Places]
  /\ state \in [Tasks -> {"PENDING", "RUNNING"} \cup Ended]
  /\ attempt \in [Tasks -> Nat] /\ \A t \in Tasks : attempt[t] <= MaxAttempts(t)
  /\ requests \in Seq(Requests)
  /\ waits \in [Tasks -> Nat] /\ \A t \in Tasks : waits[t] <= Len(requests)
  /\ cancelled \in BOOLEAN /\ paused \in BOOLEAN

(* An agent works on a task that requires approval only when the request of  *)
(* this very attempt was granted: an answer that comes late, to the request  *)
(* of an attempt that timed out, opens nothing.                              *)
ApprovalGates ==
  \A t \in RequiresApproval : pc[t] \in {"agent", "returned", "completing", "done"} =>
    /\ waits[t] > 0
    /\ requests[waits[t]].task = t
    /\ requests[waits[t]].attempt = attempt[t]
    /\ requests[waits[t]].granted

(* No task is queued, asks for its approval or reaches its agent before      *)
(* every task it depends on has completed and stays so; a dependency the     *)
(* workflow lacks, or a cycle, holds it back for good.                       *)
DependenciesFirst ==
  \A t \in Tasks : pc[t] # "idle" =>
    \A u \in dependsOn[t] : u \in Tasks /\ state[u] = "COMPLETED" /\ pc[u] = "done"

(* What default_workflow_engine.py:253 and the tests promise, and the code   *)
(* does not keep (the configuration WorkflowOptional shows it): an optional  *)
(* task that fails does not fail a workflow whose required tasks succeeded.  *)
OptionalMayFail ==
  engine = "ended" /\ ~cancelled /\ Succeeded
    /\ (\E t \in Optional : state[t] \in {"FAILED", "TIMED_OUT"})
  => workflow = "COMPLETED"

(* Once execute has returned or raised, nothing of the workflow moves: no    *)
(* task left behind by a failed batch overwrites the state that was          *)
(* reported.                                                                 *)
EndIsFinal == [][engine = "ended" => UNCHANGED <<workflow, state, attempt, pc>>]_vars

(* An execution ends unless it is paused or somebody still has to answer an  *)
(* approval that does not time out: no answer is slept through, whichever    *)
(* request of whichever attempt it was for.                                  *)
Unanswered == \E t \in RequiresApproval \ Impatient :
                pc[t] = "waiting" /\ requests[waits[t]].status = "PENDING"
EndsOrWaits == engine # "idle" ~> (engine = "ended" \/ paused \/ Unanswered)
===============================================================================
