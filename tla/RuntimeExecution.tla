--------------------------- MODULE RuntimeExecution ---------------------------
(***************************************************************************)
(* One durable runtime execution, the backend processes that run it and    *)
(* the recovery sweep that reclaims it.  The request modelled is the Jira  *)
(* create flow, the runtime's governed external write: a read-only         *)
(* metadata tool, an input or approval pause, the write tool, completion.  *)
(*                                                                         *)
(* A process is one asyncio event loop: code between two awaits runs       *)
(* without another handler of the same process, but never without the      *)
(* other processes, so every transaction is an action of its own.  SELECT  *)
(* FOR UPDATE does not repopulate an object its session already loaded:    *)
(* a handler that loaded the row before locking it decides on snap[w], and *)
(* its flush writes only the columns it changed relative to that snapshot. *)
(***************************************************************************)
EXTENDS Naturals

CONSTANTS
  Workers,        \* process lifetimes: a restarted process is another worker
  Nobody,         \* lease_owner IS NULL
  LeaseTicks,     \* RUNTIME_LEASE_SECONDS, in ticks of the model's clock
  MaxAttempts,    \* RUNTIME_MAX_RECOVERY_ATTEMPTS
  MaxTasks,       \* bound: asyncio tasks launched for the execution
  MaxContinues,   \* bound: continuations answered
  MultiInstance,  \* may several processes be up at the same time?
  Stalls,         \* may a live process miss its heartbeats for a whole lease?
  Stable          \* a process lifetime that never ends, once begun

ASSUME NobodyAssumption  == Nobody \notin Workers
ASSUME StableAssumption  == Stable \in Workers
ASSUME LeaseAssumption   == LeaseTicks \in Nat \ {0}
ASSUME AttemptAssumption == MaxAttempts \in Nat \ {0}
ASSUME TaskAssumption    == MaxTasks \in Nat \ {0} /\ MaxContinues \in Nat
ASSUME ModeAssumption    == MultiInstance \in BOOLEAN /\ Stalls \in BOOLEAN

VARIABLES
  row,       \* the RuntimeExecution row: status and lease columns
  overdue,   \* deadline_at has passed
  cont,      \* kind of the pending RuntimeContinuation, or "none"
  lapsed,    \* that continuation's expires_at has passed
  granted,   \* runtime_metadata["approval_granted"]
  final,     \* the durable terminal event, or "none"
  tool,      \* status of the ToolExecution row of each tool
  calls,     \* history: how often each external call was started
  denied,    \* history: an approver has denied the action
  proc,      \* "new", "up" or "down" for each process lifetime
  owned,     \* _owned_attempts[execution], 0 when there is no entry
  latest,    \* _tasks[execution], 0 when there is no entry
  task,      \* the asyncio tasks launched, in launch order
  launched,  \* how many
  api,       \* the request handler a process is in the middle of
  snap       \* the row as a process's open session loaded it

durable == <<row, overdue, cont, lapsed, granted, final, tool, calls, denied>>
memory  == <<proc, owned, latest, task, launched, api, snap>>
vars    == <<durable, memory>>
-----------------------------------------------------------------------------
Waiting  == {"WAITING_FOR_INPUT", "WAITING_FOR_APPROVAL"}
Terminal == {"COMPLETED", "FAILED", "CANCELLED", "TIMED_OUT"}
Statuses == {"ABSENT", "PENDING", "RUNNING"} \cup Waiting \cup Terminal

ValidTransition(s, t) ==
  \/ s = "PENDING" /\ t \in {"RUNNING", "CANCELLED"}
  \/ s = "RUNNING" /\ t \in Waiting \cup Terminal
  \/ s = "WAITING_FOR_INPUT" /\ t \in {"RUNNING", "CANCELLED", "TIMED_OUT"}
  \/ s = "WAITING_FOR_APPROVAL" /\ t \in {"RUNNING", "FAILED", "CANCELLED", "TIMED_OUT"}

WaitStatus(kind) == IF kind = "input" THEN "WAITING_FOR_INPUT" ELSE "WAITING_FOR_APPROVAL"

Tools        == {"read", "write"}      \* jira.get_create_metadata, jira.create_issue
ToolStatuses == {"absent", "running", "succeeded", "failed", "timed_out", "cancelled",
                 "lost"}               \* "lost": failed with WORKER_LOSS_RETRY
Slots        == 1 .. MaxTasks
SyncPcs      == {"insert", "gate", "pause_input", "pause_approval", "wrap", "fail", "timeout", "late"}
AwaitPcs     == {"work", "call"}
Pcs          == {"none", "ready", "end", "done"} \cup AwaitPcs \cup SyncPcs
Rows         == [status : Statuses, owner : Workers \cup {Nobody},
                 ttl : 0 .. LeaseTicks, attempt : 1 .. MaxAttempts]
Tasks        == [pc : Pcs, worker : Workers \cup {Nobody}, gen : 0 .. MaxAttempts,
                 tool : Tools, hb : BOOLEAN, kill : BOOLEAN]

NoRow    == [status |-> "ABSENT", owner |-> Nobody, ttl |-> 0, attempt |-> 1]
NoTask   == [pc |-> "none", worker |-> Nobody, gen |-> 0, tool |-> "read",
             hb |-> FALSE, kill |-> FALSE]
Finished == [pc |-> "done", worker |-> Nobody, gen |-> 0, tool |-> "read",
             hb |-> FALSE, kill |-> FALSE]

\* assert_execution_lease, on the row (or the stale object) it is given
LeaseHeld(r, w, attempt) == r.owner = w /\ r.attempt = attempt /\ r.ttl > 0

Claimed(r, w) == [status |-> r.status, owner |-> w, ttl |-> LeaseTicks, attempt |-> r.attempt]

\* wrong on purpose: a lease that survives a pause or the end
MovedKeepingLease(r, status) == [r EXCEPT !.status = status]

\* what transition_execution assigns: waiting and terminal states drop the lease
Moved(r, status) ==
  [status  |-> status,
   owner   |-> IF status \in Waiting \cup Terminal THEN Nobody ELSE r.owner,
   ttl     |-> IF status \in Waiting \cup Terminal THEN 0 ELSE r.ttl,
   attempt |-> r.attempt]

\* the UPDATE a session emits: the columns that differ from what it loaded
Flush(db, loaded, new) ==
  [status  |-> IF new.status # loaded.status THEN new.status ELSE db.status,
   owner   |-> IF new.owner # loaded.owner THEN new.owner ELSE db.owner,
   ttl     |-> IF new.owner # loaded.owner THEN new.ttl ELSE db.ttl,
   attempt |-> db.attempt]

ChildTarget(status) ==
  IF status = "FAILED" THEN "failed"
  ELSE IF status = "CANCELLED" THEN "cancelled" ELSE "timed_out"

\* wrong on purpose: children left as they are, or all of them rewritten
ReconciledNever(status) == tool
ReconciledAll(status) ==
  IF status = "COMPLETED" THEN tool
  ELSE [t \in Tools |-> IF tool[t] = "absent" THEN "absent" ELSE ChildTarget(status)]

\* child reconciliation of a terminal transition
Reconciled(status) ==
  IF status = "COMPLETED" THEN tool
  ELSE [t \in Tools |-> IF tool[t] = "running" THEN ChildTarget(status) ELSE tool[t]]

ChildrenAllowCompletion == \A t \in Tools : tool[t] \in {"absent", "succeeded", "lost"}

\* the handler that runs now is at an await everywhere else in its process
LoopFree(w) ==
  /\ proc[w] = "up"
  /\ api[w] = "idle"
  /\ \A k \in Slots : task[k].worker = w => task[k].pc \notin SyncPcs

\* wrong on purpose: a sweep that ignores the lease, that waits for a lease to be
\* released by hand, or that takes waiting executions for abandoned ones
StaleAlways        == row.status = "RUNNING"
StaleOwnerlessOnly == row.status = "RUNNING" /\ row.owner = Nobody
StaleAnyStatus     == row.status \in {"RUNNING"} \cup Waiting /\ (row.owner = Nobody \/ row.ttl = 0)

\* find_stale_execution_ids and the check under the lock
Stale == row.status = "RUNNING" /\ (row.owner = Nobody \/ row.ttl = 0)
-----------------------------------------------------------------------------
TypeOK ==
  /\ row \in Rows
  /\ overdue \in BOOLEAN /\ lapsed \in BOOLEAN /\ granted \in BOOLEAN /\ denied \in BOOLEAN
  /\ cont \in {"none", "input", "approval"}
  /\ final \in Terminal \cup {"none"}
  /\ tool \in [Tools -> ToolStatuses]
  /\ calls \in [Tools -> Nat]
  /\ proc \in [Workers -> {"new", "up", "down"}]
  /\ owned \in [Workers -> 0 .. MaxAttempts]
  /\ latest \in [Workers -> 0 .. MaxTasks]
  /\ task \in [Slots -> Tasks]
  /\ launched \in 0 .. MaxTasks
  /\ api \in [Workers -> {"idle", "inserted", "claimed", "cancelling"}]
  /\ snap \in [Workers -> Rows]

Init ==
  /\ row = NoRow /\ overdue = FALSE /\ cont = "none" /\ lapsed = FALSE
  /\ granted = FALSE /\ denied = FALSE /\ final = "none"
  /\ tool = [t \in Tools |-> "absent"] /\ calls = [t \in Tools |-> 0]
  /\ proc = [w \in Workers |-> "new"]
  /\ owned = [w \in Workers |-> 0] /\ latest = [w \in Workers |-> 0]
  /\ task = [k \in Slots |-> NoTask] /\ launched = 0
  /\ api = [w \in Workers |-> "idle"] /\ snap = [w \in Workers |-> NoRow]
-----------------------------------------------------------------------------
\* Fragments of actions: what several handlers do in the same way

NotYet == <<overdue, granted, denied>>    \* columns only a few actions touch
Children == <<tool, calls>>

\* wrong on purpose: a second terminal event is accepted
CanSettleAgain(status) == status = "COMPLETED" => ChildrenAllowCompletion

\* a terminal transition of the row a session loaded; the unique index on
\* terminal events refuses a second one
CanSettle(status) ==
  /\ final = "none"
  /\ status = "COMPLETED" => ChildrenAllowCompletion

\* wrong on purpose: a pending continuation outlives the execution
SettleKeepingContinuation(loaded, status) ==
  /\ row' = Flush(row, loaded, Moved(loaded, status))
  /\ tool' = Reconciled(status)
  /\ final' = status
  /\ UNCHANGED <<NotYet, calls, cont, lapsed>>

Settle(loaded, status) ==
  /\ row' = Flush(row, loaded, Moved(loaded, status))
  /\ tool' = Reconciled(status)
  /\ cont' = "none" /\ lapsed' = FALSE
  /\ final' = status
  /\ UNCHANGED <<NotYet, calls>>

\* asyncio.create_task(_execute_with_deadline(...)) after _owned_attempts[...] = gen
Launched(w, gen) ==
  /\ launched < MaxTasks
  /\ launched' = launched + 1
  /\ task' = [task EXCEPT ![launched + 1] =
                [pc |-> "ready", worker |-> w, gen |-> gen, tool |-> "read",
                 hb |-> FALSE, kill |-> FALSE]]
  /\ latest' = [latest EXCEPT ![w] = launched + 1]
  /\ owned' = [owned EXCEPT ![w] = gen]

\* task.cancel(): a task that never started just ends, a later one is
\* interrupted at the await where it is suspended
Cancelled(t) ==
  IF t.pc = "ready" THEN Finished
  ELSE IF t.pc \in AwaitPcs \cup {"end"}
       THEN [pc |-> t.pc, worker |-> t.worker, gen |-> t.gen, tool |-> t.tool,
             hb |-> t.hb, kill |-> TRUE]
       ELSE t

\* wrong on purpose: the task is left running
KillNothing(w) == task

KillLatest(w) == IF latest[w] = 0 THEN task ELSE [task EXCEPT ![latest[w]] = Cancelled(@)]

\* wrong on purpose: the last outcome reported is the one that stays
ToolFinishLast(old, outcome) == outcome

\* ToolExecutor._finish: a cancellation or a timeout of the row is kept
ToolFinish(old, outcome) == IF old \in {"cancelled", "timed_out"} THEN old ELSE outcome

\* the tool a task is in the middle of is told that its caller was cancelled
Interrupted(k) ==
  IF task[k].pc = "call"
  THEN [tool EXCEPT ![task[k].tool] = ToolFinish(@, "cancelled")]
  ELSE tool

Turn(k, pc) ==
  /\ task[k].pc = pc
  /\ pc \in SyncPcs \/ LoopFree(task[k].worker)

At(t, pc) == [pc |-> pc, worker |-> t.worker, gen |-> t.gen, tool |-> t.tool,
              hb |-> t.hb, kill |-> t.kill]

Goto(k, pc) == task' = [task EXCEPT ![k] = At(@, pc)]

Ending(t) == [pc |-> "end", worker |-> t.worker, gen |-> t.gen, tool |-> t.tool,
              hb |-> FALSE, kill |-> FALSE]

\* _execute returns, or raises what cancelled it: its finally block drops whatever
\* _tasks holds (a task that was late never called it), and the finally block of
\* _execute_with_deadline stops the heartbeat and waits for it
Leave(k) ==
  /\ task' = [task EXCEPT ![k] = Ending(@)]
  /\ latest' = IF task[k].pc = "late" THEN latest
               ELSE [latest EXCEPT ![task[k].worker] = 0]

\* _assert_local_ownership: only a process that knows it owns the row is checked
OwnershipAsserted(w) == owned[w] = 0 \/ LeaseHeld(row, w, owned[w])
-----------------------------------------------------------------------------
\* Requests

StartInsert(w) ==
  /\ LoopFree(w) /\ row.status = "ABSENT"
  /\ row' = Moved(row, "PENDING")
  /\ api' = [api EXCEPT ![w] = "inserted"]
  /\ UNCHANGED <<NotYet, cont, lapsed, final, Children,
                 proc, owned, latest, task, launched, snap>>

\* claim_execution: a conditional UPDATE, then a fresh SELECT
StartClaim(w) ==
  LET won == row.status = "PENDING" /\ row.owner = Nobody IN
  /\ api[w] = "inserted"
  /\ row' = IF won THEN Claimed(row, w) ELSE row
  /\ api' = [api EXCEPT ![w] = IF won THEN "claimed" ELSE "idle"]
  /\ snap' = [snap EXCEPT ![w] = IF won THEN row' ELSE NoRow]
  /\ UNCHANGED <<NotYet, cont, lapsed, final, Children, proc, owned, latest, task, launched>>

StartRun(w) ==
  /\ api[w] = "claimed"
  /\ api' = [api EXCEPT ![w] = "idle"]
  /\ snap' = [snap EXCEPT ![w] = NoRow]
  /\ \/ /\ LeaseHeld(snap[w], w, snap[w].attempt)
        /\ row' = Flush(row, snap[w], Moved(snap[w], "RUNNING"))
        /\ Launched(w, row'.attempt)
     \/ /\ ~LeaseHeld(snap[w], w, snap[w].attempt)
        /\ UNCHANGED <<row, owned, latest, task, launched>>
  /\ UNCHANGED <<NotYet, cont, lapsed, final, Children, proc>>

\* cancel: the row is loaded by an ordinary SELECT ...
CancelRead(w) ==
  /\ LoopFree(w)
  /\ row.status \in Statuses \ (Terminal \cup {"ABSENT"})
  /\ api' = [api EXCEPT ![w] = "cancelling"]
  /\ snap' = [snap EXCEPT ![w] = row]
  /\ UNCHANGED <<durable, proc, owned, latest, task, launched>>

\* ... and cancelled under the row lock as it was loaded
CancelCommit(w) ==
  /\ api[w] = "cancelling"
  /\ api' = [api EXCEPT ![w] = "idle"]
  /\ snap' = [snap EXCEPT ![w] = NoRow]
  /\ \/ /\ CanSettle("CANCELLED")
        /\ Settle(snap[w], "CANCELLED")
        /\ owned' = [owned EXCEPT ![w] = 0]
        /\ task' = KillLatest(w)
     \/ /\ ~CanSettle("CANCELLED")
        /\ UNCHANGED <<durable, owned, task>>
  /\ UNCHANGED <<proc, latest, launched>>

\* continue_execution by any process; a denial of an approval takes the same path
Continue(w, decision) ==
  LET kind == IF decision = "input" THEN "input" ELSE "approval" IN
  /\ LoopFree(w)
  /\ row.status = WaitStatus(kind) /\ cont = kind /\ ~lapsed
  /\ row.owner = Nobody
  /\ launched < row.attempt + MaxContinues    \* bound
  /\ row' = Moved(Claimed(row, w), "RUNNING")
  /\ cont' = "none"
  /\ granted' = (granted \/ kind = "approval")
  /\ denied' = (denied \/ decision = "deny")
  /\ Launched(w, row.attempt)
  /\ UNCHANGED <<overdue, lapsed, final, Children, proc, api, snap>>

\* the same with a required value missing: rolled back, but _owned_attempts keeps it
ContinueRejected(w) ==
  /\ LoopFree(w)
  /\ row.status = "WAITING_FOR_INPUT" /\ cont = "input" /\ ~lapsed
  /\ row.owner = Nobody
  /\ owned' = [owned EXCEPT ![w] = row.attempt]
  /\ UNCHANGED <<durable, proc, latest, task, launched, api, snap>>

\* expire_continuations, from a status request on a threadpool thread
Expire(w) ==
  /\ proc[w] = "up" /\ row.status \in Waiting /\ cont # "none" /\ lapsed
  /\ CanSettle("TIMED_OUT")
  /\ Settle(row, "TIMED_OUT")
  /\ owned' = [owned EXCEPT ![w] = 0]
  /\ UNCHANGED <<proc, latest, task, launched, api, snap>>
-----------------------------------------------------------------------------
\* The asyncio task of one launch: _execute_with_deadline around _execute

TaskStart(k) ==
  LET w == task[k].worker IN
  /\ Turn(k, "ready")
  /\ task' = [task EXCEPT ![k] =
                [pc   |-> IF overdue THEN "late" ELSE "work",
                 worker |-> w, gen |-> IF owned[w] = 0 THEN @.gen ELSE owned[w],
                 tool |-> @.tool, hb |-> TRUE, kill |-> @.kill]]
  /\ UNCHANGED <<durable, proc, owned, latest, launched, api, snap>>

\* analysis, planning and model calls are over: the Jira flow begins
BeginRead(k) ==
  LET w == task[k].worker IN
  /\ Turn(k, "work") /\ ~task[k].kill
  /\ \/ OwnershipAsserted(w) /\ Goto(k, "insert") /\ UNCHANGED latest
     \/ ~OwnershipAsserted(w) /\ Leave(k)
  /\ UNCHANGED <<durable, proc, owned, launched, api, snap>>

WorkFails(k) ==
  /\ Turn(k, "work") /\ ~task[k].kill
  /\ Goto(k, "fail")
  /\ UNCHANGED <<durable, proc, owned, latest, launched, api, snap>>

After(t) == IF t = "read" THEN "gate" ELSE "wrap"

\* wrong on purpose: no unique key, so a row that did not succeed is tried again
InsertAgain(k) ==
  LET t == task[k].tool IN
  /\ Turn(k, "insert")
  /\ \/ /\ tool[t] # "succeeded"
        /\ tool' = [tool EXCEPT ![t] = "running"]
        /\ calls' = [calls EXCEPT ![t] = @ + 1]
        /\ Goto(k, "call")
     \/ tool[t] = "succeeded" /\ Goto(k, After(t)) /\ UNCHANGED Children
  /\ UNCHANGED <<row, NotYet, cont, lapsed, final, proc, owned, latest, launched, api, snap>>

\* ToolExecutor.execute up to the connector call.  The idempotency key is unique:
\* a succeeded row is reused and any other existing row makes the INSERT fail
Insert(k) ==
  LET t == task[k].tool IN
  /\ Turn(k, "insert")
  /\ \/ /\ tool[t] = "absent"
        /\ tool' = [tool EXCEPT ![t] = "running"]
        /\ calls' = [calls EXCEPT ![t] = @ + 1]
        /\ Goto(k, "call")
     \/ /\ tool[t] # "absent"
        /\ Goto(k, IF tool[t] = "succeeded" THEN After(t) ELSE "fail")
        /\ UNCHANGED Children
  /\ UNCHANGED <<row, NotYet, cont, lapsed, final, proc, owned, latest, launched, api, snap>>

FinishTool(k, outcome) ==
  LET t == task[k].tool IN
  /\ Turn(k, "call") /\ ~task[k].kill
  /\ tool' = [tool EXCEPT ![t] = ToolFinish(@, outcome)]
  /\ Goto(k, IF tool'[t] = "succeeded" THEN After(t)
             ELSE IF tool'[t] = "timed_out" THEN "timeout" ELSE "fail")
  /\ UNCHANGED <<row, NotYet, cont, lapsed, final, calls,
                 proc, owned, latest, launched, api, snap>>

\* fields are missing, or nobody has approved the write yet
GatePause(k) ==
  LET w == task[k].worker IN
  /\ Turn(k, "gate")
  /\ \E kind \in {"pause_input", "pause_approval"} :
       /\ kind = "pause_approval" => ~granted
       /\ Goto(k, kind)
  /\ snap' = [snap EXCEPT ![w] = row]
  /\ UNCHANGED <<durable, proc, owned, latest, launched, api>>

GateWrite(k) ==
  LET w == task[k].worker IN
  /\ Turn(k, "gate") /\ granted
  /\ \/ /\ OwnershipAsserted(w)
        /\ task' = [task EXCEPT ![k] =
                      [pc |-> "insert", worker |-> w, gen |-> @.gen, tool |-> "write",
                       hb |-> @.hb, kill |-> @.kill]]
        /\ UNCHANGED latest
     \/ ~OwnershipAsserted(w) /\ Leave(k)
  /\ UNCHANGED <<durable, proc, owned, launched, api, snap>>

\* the continuation and the waiting state, decided on the row loaded at the gate
PauseCommit(k) ==
  LET w    == task[k].worker
      kind == IF task[k].pc = "pause_input" THEN "input" ELSE "approval"
      held == LeaseHeld(snap[w], w, owned[w])
  IN
  /\ task[k].pc \in {"pause_input", "pause_approval"}
  /\ snap' = [snap EXCEPT ![w] = NoRow]
  /\ \/ /\ held /\ snap[w].status = "RUNNING"
        /\ row' = Flush(row, snap[w], Moved(snap[w], WaitStatus(kind)))
        /\ cont' = kind /\ lapsed' = FALSE
        /\ owned' = [owned EXCEPT ![w] = 0]
        /\ Leave(k)
     \/ /\ ~held
        /\ Leave(k) /\ UNCHANGED <<row, cont, lapsed, owned>>
     \/ /\ held /\ snap[w].status # "RUNNING"
        /\ Goto(k, "fail") /\ UNCHANGED <<row, cont, lapsed, owned, latest>>
  /\ UNCHANGED <<NotYet, final, Children, proc, launched, api>>

\* _complete_execution and _timeout_execution, fenced by _owned_attempts
Finish(k, status) ==
  LET w    == task[k].worker
      held == LeaseHeld(row, w, owned[w])
      done == held /\ ValidTransition(row.status, status) /\ CanSettle(status)
  IN
  /\ \/ /\ done
        /\ Settle(row, status)
        /\ owned' = [owned EXCEPT ![w] = 0]
        /\ Leave(k)
     \/ /\ ~done /\ held /\ status = "COMPLETED"
        /\ Goto(k, "fail") /\ UNCHANGED <<durable, owned, latest>>
     \/ /\ ~done /\ ~(held /\ status = "COMPLETED")
        /\ Leave(k) /\ UNCHANGED <<durable, owned>>
  /\ UNCHANGED <<proc, launched, api, snap>>

Complete(k) == task[k].pc = "wrap" /\ Finish(k, "COMPLETED")
Fail(k)     == task[k].pc = "fail" /\ Finish(k, "FAILED")
TimeOut(k)  == task[k].pc \in {"timeout", "late"} /\ Finish(k, "TIMED_OUT")

\* asyncio.wait_for gives up on _execute; a cancellation already asked for prevails
DeadlineFires(k) ==
  /\ \E pc \in AwaitPcs : Turn(k, pc)
  /\ overdue /\ ~task[k].kill
  /\ tool' = Interrupted(k)
  /\ Goto(k, "timeout")
  /\ latest' = [latest EXCEPT ![task[k].worker] = 0]
  /\ UNCHANGED <<row, NotYet, cont, lapsed, final, calls, proc, owned, launched, api, snap>>

DeliverCancel(k) ==
  /\ \E pc \in AwaitPcs : Turn(k, pc)
  /\ task[k].kill
  /\ tool' = Interrupted(k)
  /\ Leave(k)
  /\ UNCHANGED <<row, NotYet, cont, lapsed, final, calls, proc, owned, launched, api, snap>>

\* the heartbeat has ended and the entry of _owned_attempts is dropped, unless a
\* cancellation arrived during that wait
EndTask(k) ==
  LET w == task[k].worker IN
  /\ Turn(k, "end")
  /\ task' = [task EXCEPT ![k] = Finished]
  /\ owned' = [owned EXCEPT ![w] = IF task[k].kill THEN @ ELSE 0]
  /\ UNCHANGED <<durable, proc, latest, launched, api, snap>>

Heartless(t) == [pc |-> t.pc, worker |-> t.worker, gen |-> t.gen, tool |-> t.tool,
                 hb |-> FALSE, kill |-> t.kill]

Heartbeat(k) ==
  LET w       == task[k].worker
      renewed == row.status = "RUNNING" /\ LeaseHeld(row, w, task[k].gen)
  IN
  /\ task[k].hb /\ LoopFree(w)
  /\ \/ /\ renewed /\ row.ttl < LeaseTicks
        /\ row' = Claimed(row, w)
        /\ UNCHANGED task
     \/ /\ ~renewed \/ Stalls          \* three database errors in a row
        /\ task' = [j \in Slots |-> IF j = k THEN Heartless(KillLatest(w)[j])
                                            ELSE KillLatest(w)[j]]
        /\ UNCHANGED row
  /\ UNCHANGED <<NotYet, cont, lapsed, final, Children,
                 proc, owned, latest, launched, api, snap>>
-----------------------------------------------------------------------------
\* The recovery sweep

AnyTool(S) == \E t \in Tools : tool[t] \in S

\* wrong on purpose: recovery without the attempt limit, and recovery that takes
\* any succeeded tool for the write
RecoveryUnbounded ==
  IF overdue                                                   THEN "TIMED_OUT"
  ELSE IF AnyTool({"failed", "lost"}) \/ tool["write"] = "running" THEN "FAILED"
  ELSE                                                              "RUNNING"
RecoveryAnySuccess ==
  IF overdue                                                   THEN "TIMED_OUT"
  ELSE IF row.attempt >= MaxAttempts \/ AnyTool({"failed"})    THEN "FAILED"
  ELSE IF AnyTool({"succeeded"})                               THEN "COMPLETED"
  ELSE                                                              "RUNNING"

\* what reconcile_execution decides, in its order; an abandoned read still counts
\* as a failed child
RecoveryStatus ==
  IF overdue                             THEN "TIMED_OUT"
  ELSE IF row.attempt >= MaxAttempts     THEN "FAILED"
  ELSE IF AnyTool({"timed_out"})         THEN "TIMED_OUT"
  ELSE IF AnyTool({"failed", "lost"})    THEN "FAILED"
  ELSE IF tool["write"] = "running"      THEN "FAILED"
  ELSE IF tool["write"] = "succeeded"    THEN "COMPLETED"
  ELSE                                        "RUNNING"

RecoverSettle(w) ==
  /\ LoopFree(w) /\ Stale
  /\ RecoveryStatus # "RUNNING"
  /\ CanSettle(RecoveryStatus)
  /\ Settle(row, RecoveryStatus)
  /\ owned' = [owned EXCEPT ![w] = 0]
  /\ UNCHANGED <<proc, latest, task, launched, api, snap>>

RecoverRelaunch(w) ==
  /\ LoopFree(w) /\ Stale
  /\ RecoveryStatus = "RUNNING"
  /\ row' = [status |-> row.status, owner |-> w, ttl |-> LeaseTicks,
              attempt |-> row.attempt + 1]
  /\ tool' = [t \in Tools |-> IF tool[t] = "running" THEN "lost" ELSE tool[t]]
  /\ Launched(w, row'.attempt)
  /\ UNCHANGED <<NotYet, cont, lapsed, final, calls, proc, api, snap>>

Recover(w) == RecoverSettle(w) \/ RecoverRelaunch(w)
-----------------------------------------------------------------------------
\* Time and processes

\* the owner's heartbeat (or the claim itself) comes in time
Punctual ==
  \E w \in Workers :
    /\ row.owner = w /\ proc[w] = "up"
    /\ \/ api[w] # "idle"
       \/ \E k \in Slots : /\ task[k].worker = w /\ task[k].gen = row.attempt
                           /\ task[k].hb \/ task[k].pc = "ready"

Aged(r) == [status |-> r.status, owner |-> r.owner,
            ttl |-> IF r.ttl > 0 THEN r.ttl - 1 ELSE 0, attempt |-> r.attempt]

Tick ==
  /\ row.ttl > 0
  /\ Stalls \/ row.ttl > 1 \/ ~Punctual
  /\ row' = Aged(row)
  /\ snap' = [w \in Workers |-> Aged(snap[w])]
  /\ UNCHANGED <<NotYet, cont, lapsed, final, Children, proc, owned, latest, task, launched, api>>

DeadlinePasses ==
  /\ row.status \in {"RUNNING"} \cup Waiting /\ ~overdue
  /\ overdue' = TRUE
  /\ UNCHANGED <<row, cont, lapsed, granted, final, Children, denied, memory>>

ContinuationLapses ==
  /\ cont # "none" /\ ~lapsed
  /\ lapsed' = TRUE
  /\ UNCHANGED <<row, NotYet, cont, final, Children, memory>>

WorkerUp(w) ==
  /\ proc[w] = "new"
  /\ MultiInstance \/ \A v \in Workers : proc[v] # "up"
  /\ proc' = [proc EXCEPT ![w] = "up"]
  /\ UNCHANGED <<durable, owned, latest, task, launched, api, snap>>

Gone(w) ==
  /\ w # Stable /\ proc[w] = "up"
  /\ proc' = [proc EXCEPT ![w] = "down"]
  /\ owned' = [owned EXCEPT ![w] = 0] /\ latest' = [latest EXCEPT ![w] = 0]
  /\ task' = [k \in Slots |-> IF task[k].worker = w THEN Finished ELSE task[k]]
  /\ api' = [api EXCEPT ![w] = "idle"] /\ snap' = [snap EXCEPT ![w] = NoRow]
  /\ UNCHANGED launched

Crash(w) == Gone(w) /\ UNCHANGED durable

\* lifespan: the tasks in _tasks are cancelled and awaited, the row is left alone
Shutdown(w) ==
  LET k == latest[w] IN
  /\ LoopFree(w) /\ Gone(w)
  /\ tool' = IF k = 0 THEN tool ELSE Interrupted(k)
  /\ UNCHANGED <<row, NotYet, cont, lapsed, final, calls>>
-----------------------------------------------------------------------------
Request(w) ==
  \/ StartInsert(w) \/ StartClaim(w) \/ StartRun(w)
  \/ CancelRead(w) \/ CancelCommit(w)
  \/ \E decision \in {"input", "approve", "deny"} : Continue(w, decision)
  \/ ContinueRejected(w) \/ Expire(w)

TaskStep(k) ==
  \/ TaskStart(k) \/ BeginRead(k) \/ WorkFails(k) \/ Insert(k)
  \/ \E outcome \in {"succeeded", "failed", "timed_out"} : FinishTool(k, outcome)
  \/ GatePause(k) \/ GateWrite(k) \/ PauseCommit(k)
  \/ Complete(k) \/ Fail(k) \/ TimeOut(k)
  \/ DeadlineFires(k) \/ DeliverCancel(k) \/ EndTask(k)

Process(w) == WorkerUp(w) \/ Crash(w) \/ Shutdown(w)

Next ==
  \/ \E w \in Workers : Request(w) \/ Recover(w) \/ Process(w)
  \/ \E k \in Slots : TaskStep(k) \/ Heartbeat(k)
  \/ Tick \/ DeadlinePasses \/ ContinuationLapses

Spec == Init /\ [][Next]_vars

\* handlers run on, lease time passes, every live process sweeps, and the last
\* process lifetime does come up; requests, heartbeats and crashes are not fair
Fairness ==
  /\ WF_vars(Tick)
  /\ WF_vars(WorkerUp(Stable))
  /\ \A w \in Workers : /\ WF_vars(Recover(w))
                        /\ WF_vars(StartClaim(w) \/ StartRun(w) \/ CancelCommit(w))
  /\ \A k \in Slots : WF_vars(TaskStep(k))

FairSpec == Spec /\ Fairness
-----------------------------------------------------------------------------
\* Properties

\* A waiting status and its pending continuation are written and consumed
\* together: nobody waits for an answer that cannot be given (or twice).
\* _pause_for_*, continue_execution, cancel, expire_continuations.
WaitingHasContinuation ==
  \A kind \in {"input", "approval"} : row.status = WaitStatus(kind) <=> cont = kind

\* The external write is sent at most once per execution, whatever is paused,
\* resumed, cancelled, recovered or relaunched in between: the unique idempotency
\* key of the ToolExecution row, and recovery's refusal to replay.
WriteSentAtMostOnce == calls["write"] <= 1

\* An execution is reported complete only if its issue was created: by the task
\* itself or by a recovery that found the persisted result.
CompletedHasWrite == row.status = "COMPLETED" => tool["write"] = "succeeded"

\* A waiting execution is leased to nobody, however stale the row was that a handler
\* paused: continue_execution claims it only if lease_owner IS NULL, so one that
\* kept its owner could never be answered.
WaitingIsFree == row.status \in Waiting => row.owner = Nobody

\* The end is announced once, and an execution that still changes its status after
\* that (a stale pause can overwrite it) never gets a different end: the partial
\* unique index on terminal events against every handler that settles.
AnnouncedOnce ==
  [][final # "none" => /\ final' = final
                       /\ row'.status \in Terminal => row'.status = final]_vars

\* What a connector answered, or what a cancellation or a timeout recorded, is never
\* rewritten: neither by a later answer, nor by child reconciliation, nor by recovery.
\* A row recovery marked failed is not among them: a late answer overwrites that.
AnswersKept ==
  [][\A t \in Tools : tool[t] \in {"succeeded", "cancelled", "timed_out"}
                        => tool'[t] = tool[t]]_vars

\* Each status, terminal event and attempt a reader can see is one the lifecycle
\* allows: transition_execution, _append_runtime_event_locked, recovery.
Lifecycle == INSTANCE RuntimeLifecycle
               WITH status <- row.status, attempt <- row.attempt, outcome <- final
RefinesLifecycle == Lifecycle!Spec

\* A status that is terminal stays so (transition_execution's table has no way
\* out of it).
TerminalIsFinal == [][row.status \in Terminal => row'.status = row.status]_vars

\* No connector call is on record as running once the execution has ended.
NoOrphanTool == row.status \in Terminal => \A t \in Tools : tool[t] # "running"

\* What a task does to the row or to the outside world, it does as the current
\* owner and in the current attempt: "lease_owner plus attempt fences stale
\* workers from ... external actions, and parent transitions".
Acts(k) == /\ task[k].pc \in SyncPcs /\ task'[k] # task[k]
           /\ row'.status # row.status \/ calls' # calls
FencedSteps ==
  [][\A k \in Slots : Acts(k) => /\ row.owner = task[k].worker
                                 /\ row.attempt = task[k].gen]_vars

\* Two coroutines never drive the same execution at the same time.
Driving(k) == task[k].pc \notin {"none", "end", "done"}
OneDriver == \A j, k \in Slots : Driving(j) /\ Driving(k) => j = k

\* A tool row that has reached an outcome keeps it (_finish: "Preserve the first
\* terminal child outcome").
OutcomeKept ==
  [][\A t \in Tools : tool[t] \notin {"absent", "running"} => tool'[t] = tool[t]]_vars

\* A denied approval never reaches the connector.
DenialHolds == denied => calls["write"] = 0

\* A running execution eventually pauses or ends, even if its process is lost.
RunningSettles == row.status = "RUNNING" ~> row.status # "RUNNING"

\* The same for one that has not been started yet.
PendingSettles == row.status = "PENDING" ~> row.status # "PENDING"

\* An abandoned read that a relaunched task comes to again is sent again ("Read-only
\* abandoned work may be restarted").
AbandonedReadRestarts ==
  [][\A k \in Slots :
       (task[k].pc = "insert" /\ task'[k].pc \in {"call", "fail"} /\ tool[task[k].tool] = "lost")
         => task'[k].pc = "call"]_vars
=============================================================================
