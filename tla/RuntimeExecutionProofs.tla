------------------------ MODULE RuntimeExecutionProofs ------------------------
(***************************************************************************)
(* What RuntimeExecution guarantees for every number of processes, tasks,  *)
(* attempts and ticks, whether or not processes overlap or stall.          *)
(***************************************************************************)
EXTENDS RuntimeExecution, TLAPS

\* Only a task that was never launched, or has ended, belongs to nobody.
TaskHasWorker ==
  \A k \in Slots : task[k].worker = Nobody => task[k].pc \in {"none", "done"} /\ ~task[k].hb

\* A process is in one synchronous section at a time: a request or a task.
Exclusive ==
  \A k \in Slots : task[k].pc \in SyncPcs => api[task[k].worker] = "idle"

Active(k) == task[k].pc \notin {"none", "done"}

\* Until the one request that starts the execution is over, nothing else runs it.
Starting(w) == api[w] \in {"inserted", "claimed"}
StartingAlone ==
  /\ \A v, w \in Workers : Starting(v) /\ Starting(w) => v = w
  /\ \A w \in Workers : Starting(w) => row.status \in {"PENDING", "CANCELLED"}
  /\ \A w \in Workers : api[w] = "claimed" => snap[w].status = "PENDING"
  /\ row.status = "ABSENT" => \A w \in Workers : ~Starting(w) /\ api[w] # "cancelling"
  /\ (row.status = "ABSENT" \/ \E w \in Workers : Starting(w))
       => \A k \in Slots : ~Active(k)

\* A cancellation is under way only for a row that was loaded before its end.
Cancelling ==
  \A w \in Workers : api[w] = "cancelling" => snap[w].status \notin Terminal

\* The strengthening under which WaitingHasContinuation is inductive.
WaitInv ==
  TypeOK /\ TaskHasWorker /\ Exclusive /\ StartingAlone /\ Cancelling /\ WaitingHasContinuation

\* One task at most is in a call, and its row has neither been absent nor succeeded.
OneCaller ==
  \A j, k \in Slots : task[j].pc = "call" /\ task[k].pc = "call" /\ task[j].tool = task[k].tool
                        => j = k
CallerUnfinished == \A k \in Slots : task[k].pc = "call" => tool[task[k].tool] \notin {"absent", "succeeded"}
WrapHasWrite     == \A k \in Slots : task[k].pc = "wrap" => tool["write"] = "succeeded"
CallsCounted     == \A t \in Tools : calls[t] <= 1 /\ (tool[t] = "absent" => calls[t] = 0)

\* The strengthening under which the two facts about the write are inductive.
WriteInv ==
  TypeOK /\ TaskHasWorker /\ OneCaller /\ CallerUnfinished /\ WrapHasWrite /\ CallsCounted
         /\ CompletedHasWrite
-----------------------------------------------------------------------------
\* What the operators of the model return

LEMMA MovedType ==
  ASSUME NEW r \in Rows, NEW s \in Statuses
  PROVE  Moved(r, s) \in Rows /\ Moved(r, s).status = s
BY LeaseAssumption DEF Moved, Rows

LEMMA ClaimedType ==
  ASSUME NEW r \in Rows, NEW w \in Workers
  PROVE  Claimed(r, w) \in Rows /\ Claimed(r, w).status = r.status
BY LeaseAssumption DEF Claimed, Rows

LEMMA FlushType ==
  ASSUME NEW db \in Rows, NEW loaded \in Rows, NEW new \in Rows
  PROVE  /\ Flush(db, loaded, new) \in Rows
         /\ Flush(db, loaded, new).status =
              IF new.status # loaded.status THEN new.status ELSE db.status
BY DEF Flush, Rows

LEMMA CancelledType ==
  ASSUME NEW t \in Tasks
  PROVE  /\ Cancelled(t) \in Tasks
         /\ Cancelled(t).worker \in {t.worker, Nobody}
         /\ Cancelled(t).worker = Nobody => (t.worker = Nobody \/ Cancelled(t) = Finished)
         /\ Cancelled(t).pc # t.pc => Cancelled(t) = Finished
BY AttemptAssumption DEF Cancelled, Tasks, Finished, NoTask, Pcs, AwaitPcs, SyncPcs, Tools

LEMMA FinishedType == Finished \in Tasks /\ NoTask \in Tasks
BY AttemptAssumption DEF Finished, NoTask, Tasks, Pcs, Tools

LEMMA KillLatestType ==
  ASSUME TypeOK, NEW w \in Workers
  PROVE  /\ KillLatest(w) \in [Slots -> Tasks]
         /\ \A k \in Slots : KillLatest(w)[k] \in {task[k], Cancelled(task[k])}
BY CancelledType DEF KillLatest, TypeOK, Slots

LEMMA ReconciledType ==
  ASSUME TypeOK, NEW status \in Terminal
  PROVE  Reconciled(status) \in [Tools -> ToolStatuses]
BY DEF Reconciled, TypeOK, ChildTarget, ToolStatuses, Terminal
-----------------------------------------------------------------------------
\* Type correctness

LEMMA Defaults ==
  NoRow \in Rows /\ 0 \in 0 .. MaxAttempts /\ 0 \in 0 .. MaxTasks
BY AttemptAssumption, LeaseAssumption, TaskAssumption DEF NoRow, Rows, Statuses

Typed == TypeOK /\ TaskHasWorker

LEMMA TypedInit == Init => Typed
<1>. SUFFICES ASSUME Init PROVE Typed
  OBVIOUS
<1>2. row \in Rows /\ snap \in [Workers -> Rows]
  BY Defaults DEF Init
<1>3. task \in [Slots -> Tasks] /\ TaskHasWorker
  BY FinishedType DEF Init, TaskHasWorker, NoTask
<1>4. /\ tool \in [Tools -> ToolStatuses]
      /\ calls \in [Tools -> Nat]
  BY DEF Init, ToolStatuses
<1>5. /\ owned \in [Workers -> 0 .. MaxAttempts]
      /\ latest \in [Workers -> 0 .. MaxTasks]
      /\ launched \in 0 .. MaxTasks
  BY AttemptAssumption, TaskAssumption DEF Init
<1>6. /\ proc \in [Workers -> {"new", "up", "down"}]
      /\ api \in [Workers -> {"idle", "inserted", "claimed", "cancelling"}]
  BY DEF Init
<1>. QED
  BY <1>2, <1>3, <1>4, <1>5, <1>6 DEF Init, Typed, TypeOK

\* A terminal transition: row, child and continuation columns keep their types.
LEMMA SettleType ==
  ASSUME TypeOK, NEW loaded \in Rows, NEW status \in Terminal, Settle(loaded, status)
  PROVE  /\ row' \in Rows /\ tool' \in [Tools -> ToolStatuses]
         /\ cont' = "none" /\ lapsed' = FALSE /\ final' = status
         /\ overdue' = overdue /\ granted' = granted /\ denied' = denied /\ calls' = calls
BY MovedType, FlushType, ReconciledType
   DEF Settle, TypeOK, Statuses, NotYet

LEMMA LaunchedType ==
  ASSUME Typed, NEW w \in Workers, NEW gen \in 1 .. MaxAttempts, Launched(w, gen)
  PROVE  /\ launched' \in 0 .. MaxTasks /\ task' \in [Slots -> Tasks]
         /\ latest' \in [Workers -> 0 .. MaxTasks] /\ owned' \in [Workers -> 0 .. MaxAttempts]
         /\ TaskHasWorker'
BY TaskAssumption, AttemptAssumption, NobodyAssumption
   DEF Launched, Typed, TypeOK, Tasks, Pcs, Tools, Slots, TaskHasWorker

LEMMA KilledType ==
  ASSUME Typed, NEW w \in Workers, task' = KillLatest(w)
  PROVE  task' \in [Slots -> Tasks] /\ TaskHasWorker'
<1>1. task' \in [Slots -> Tasks]
  BY KillLatestType DEF Typed
<1>2. ASSUME NEW k \in Slots, task'[k].worker = Nobody
      PROVE  task'[k].pc \in {"none", "done"} /\ ~task'[k].hb
  <2>1. task[k] \in Tasks /\ task'[k] \in {task[k], Cancelled(task[k])}
    BY KillLatestType DEF Typed, TypeOK
  <2>2. task[k].worker = Nobody \/ task'[k] = Finished
    BY <1>2, <2>1, CancelledType
  <2>3. task[k].worker = Nobody => task'[k] = task[k] \/ task'[k] = Finished
    BY <2>1, CancelledType DEF Typed, TaskHasWorker, Cancelled, AwaitPcs
  <2>. QED
    BY <2>1, <2>2, <2>3 DEF Typed, TaskHasWorker, Finished
<1>. QED
  BY <1>1, <1>2 DEF TaskHasWorker

\* Moving a task that runs keeps the types.
LEMMA GotoType ==
  ASSUME Typed, NEW k \in Slots, NEW pc \in Pcs, task[k].pc \notin {"none", "done"},
         Goto(k, pc)
  PROVE  /\ task' \in [Slots -> Tasks] /\ TaskHasWorker'
         /\ task[k].worker \in Workers
BY DEF Goto, At, Typed, TypeOK, Tasks, TaskHasWorker

LEMMA LeaveType ==
  ASSUME Typed, NEW k \in Slots, task[k].pc \notin {"none", "done"}, Leave(k)
  PROVE  /\ task' \in [Slots -> Tasks] /\ TaskHasWorker'
         /\ task[k].worker \in Workers
         /\ latest' \in [Workers -> 0 .. MaxTasks]
<1>1. "end" \in Pcs
  BY DEF Pcs
<1>2. /\ task' \in [Slots -> Tasks] /\ TaskHasWorker'
      /\ task[k].worker \in Workers
  BY <1>1 DEF Leave, Ending, Typed, TypeOK, Tasks, TaskHasWorker
<1>. QED
  BY <1>2, TaskAssumption DEF Leave, Typed, TypeOK

\* A tool outcome is a tool status.
LEMMA InterruptedType ==
  ASSUME TypeOK, NEW k \in Slots
  PROVE  Interrupted(k) \in [Tools -> ToolStatuses]
BY DEF Interrupted, ToolFinish, TypeOK, ToolStatuses, Tasks

\* What a request does keeps the types.
LEMMA TypedRequest ==
  ASSUME Typed, NEW w \in Workers, Request(w)
  PROVE  Typed'
<1>. USE DEF Typed
<1>1. CASE StartInsert(w)
  BY <1>1, MovedType DEF StartInsert, TypeOK, TaskHasWorker, Statuses, NotYet, Children
<1>2. CASE StartClaim(w)
  BY <1>2, ClaimedType, AttemptAssumption, LeaseAssumption
     DEF StartClaim, TypeOK, TaskHasWorker, NotYet, Children, NoRow, Rows, Statuses
<1>3. CASE StartRun(w)
  <2>1. snap' \in [Workers -> Rows] /\ api' \in [Workers -> {"idle", "inserted", "claimed", "cancelling"}]
    BY <1>3, AttemptAssumption, LeaseAssumption DEF StartRun, TypeOK, NoRow, Rows, Statuses
  <2>2. CASE LeaseHeld(snap[w], w, snap[w].attempt)
    <3>1. row' = Flush(row, snap[w], Moved(snap[w], "RUNNING")) /\ Launched(w, row'.attempt)
      BY <1>3, <2>2 DEF StartRun
    <3>2. row' \in Rows
      BY <3>1, MovedType, FlushType DEF TypeOK, Statuses
    <3>3. row'.attempt \in 1 .. MaxAttempts
      BY <3>2 DEF Rows
    <3>. QED
      BY <1>3, <2>1, <3>1, <3>2, <3>3, LaunchedType DEF StartRun, TypeOK, NotYet, Children
  <2>3. CASE ~LeaseHeld(snap[w], w, snap[w].attempt)
    BY <1>3, <2>1, <2>3 DEF StartRun, TypeOK, TaskHasWorker, NotYet, Children
  <2>. QED
    BY <2>2, <2>3
<1>4. CASE CancelRead(w)
  BY <1>4 DEF CancelRead, TypeOK, TaskHasWorker, durable
<1>5. CASE CancelCommit(w)
  <2>1. snap' \in [Workers -> Rows] /\ api' \in [Workers -> {"idle", "inserted", "claimed", "cancelling"}]
    BY <1>5, AttemptAssumption, LeaseAssumption DEF CancelCommit, TypeOK, NoRow, Rows, Statuses
  <2>2. CASE CanSettle("CANCELLED")
    <3>1. /\ Settle(snap[w], "CANCELLED") /\ owned' = [owned EXCEPT ![w] = 0]
          /\ task' = KillLatest(w) /\ UNCHANGED <<proc, latest, launched>>
      BY <1>5, <2>2 DEF CancelCommit
    <3>2. "CANCELLED" \in Terminal /\ snap[w] \in Rows
      BY DEF Terminal, TypeOK
    <3>3. task' \in [Slots -> Tasks] /\ TaskHasWorker'
      BY <3>1, KilledType
    <3>4. owned' \in [Workers -> 0 .. MaxAttempts]
      BY <3>1, Defaults DEF TypeOK
    <3>. QED
      BY <2>1, <3>1, <3>2, <3>3, <3>4, SettleType DEF TypeOK
  <2>3. CASE ~CanSettle("CANCELLED")
    BY <1>5, <2>1, <2>3 DEF CancelCommit, TypeOK, TaskHasWorker, durable
  <2>. QED
    BY <2>2, <2>3
<1>6. ASSUME NEW decision \in {"input", "approve", "deny"}, Continue(w, decision)
      PROVE  Typed'
  <2>1. row' = Moved(Claimed(row, w), "RUNNING") /\ row' \in Rows
    BY <1>6, ClaimedType, MovedType DEF Continue, TypeOK, Statuses
  <2>2. Launched(w, row.attempt) /\ row.attempt \in 1 .. MaxAttempts
    BY <1>6 DEF Continue, TypeOK, Rows
  <2>. QED
    BY <1>6, <2>1, <2>2, LaunchedType DEF Continue, TypeOK, Children
<1>7. CASE ContinueRejected(w)
  BY <1>7 DEF ContinueRejected, TypeOK, TaskHasWorker, durable, Rows
<1>8. CASE Expire(w)
  <2>1. "TIMED_OUT" \in Terminal /\ row \in Rows
    BY DEF Terminal, TypeOK
  <2>2. owned' \in [Workers -> 0 .. MaxAttempts]
    BY <1>8, Defaults DEF Expire, TypeOK
  <2>. QED
    BY <1>8, <2>1, <2>2, SettleType DEF Expire, TypeOK, TaskHasWorker
<1>. QED
  BY <1>1, <1>2, <1>3, <1>4, <1>5, <1>6, <1>7, <1>8 DEF Request

\* The end of _complete_execution, _fail and _timeout_execution keeps the types.
LEMMA TypedFinish ==
  ASSUME Typed, NEW k \in Slots, NEW status \in Terminal, Finish(k, status),
         task[k].pc \notin {"none", "done"}
  PROVE  Typed'
<1>. DEFINE w    == task[k].worker
            held == LeaseHeld(row, w, owned[w])
            done == held /\ ValidTransition(row.status, status) /\ CanSettle(status)
<1>. USE DEF Typed
<1>1. CASE done
  <2>1. /\ Settle(row, status) /\ owned' = [owned EXCEPT ![w] = 0] /\ Leave(k)
        /\ UNCHANGED <<proc, launched, api, snap>>
    BY <1>1 DEF Finish
  <2>2. row \in Rows
    BY DEF TypeOK
  <2>3. owned' \in [Workers -> 0 .. MaxAttempts]
    BY <2>1, Defaults DEF TypeOK
  <2>4. /\ task' \in [Slots -> Tasks] /\ TaskHasWorker'
        /\ latest' \in [Workers -> 0 .. MaxTasks]
    BY <2>1, LeaveType
  <2>. QED
    BY <2>1, <2>2, <2>3, <2>4, SettleType DEF TypeOK
<1>2. CASE ~done /\ held /\ status = "COMPLETED"
  <2>1. /\ Goto(k, "fail") /\ UNCHANGED <<durable, owned, latest>>
        /\ UNCHANGED <<proc, launched, api, snap>>
    BY <1>2 DEF Finish
  <2>2. "fail" \in Pcs
    BY DEF Pcs, SyncPcs
  <2>. QED
    BY <2>1, <2>2, GotoType DEF TypeOK, durable
<1>3. CASE ~done /\ ~(held /\ status = "COMPLETED")
  <2>1. Leave(k) /\ UNCHANGED <<durable, owned>> /\ UNCHANGED <<proc, launched, api, snap>>
    BY <1>3 DEF Finish
  <2>. QED
    BY <2>1, LeaveType DEF TypeOK, durable
<1>. QED
  BY <1>1, <1>2, <1>3

\* What a task does keeps the types.
LEMMA TypedTaskStep ==
  ASSUME Typed, NEW k \in Slots, TaskStep(k)
  PROVE  Typed'
<1>. DEFINE w == task[k].worker
<1>. USE DEF Typed
<1>1. task[k] \in Tasks /\ row \in Rows /\ (w # Nobody => w \in Workers)
  BY DEF TypeOK, Tasks
<1>2. AwaitPcs \cup SyncPcs \cup {"end"} \subseteq Pcs
  BY DEF Pcs
<1>3. CASE TaskStart(k)
  <2>1. w \in Workers /\ UNCHANGED <<durable, proc, owned, latest, launched, api, snap>>
    BY <1>1, <1>3 DEF TaskStart, Turn, TaskHasWorker
  <2>2. task' = [task EXCEPT ![k] =
                  [pc   |-> IF overdue THEN "late" ELSE "work",
                   worker |-> w, gen |-> IF owned[w] = 0 THEN task[k].gen ELSE owned[w],
                   tool |-> task[k].tool, hb |-> TRUE, kill |-> task[k].kill]]
    BY <1>3 DEF TaskStart
  <2>3. owned[w] \in 0 .. MaxAttempts
    BY <2>1 DEF TypeOK
  <2>4. task' \in [Slots -> Tasks]
    BY <1>1, <2>1, <2>2, <2>3 DEF TypeOK, Tasks, Pcs, SyncPcs, AwaitPcs
  <2>5. TaskHasWorker'
    BY <2>1, <2>2, NobodyAssumption DEF TaskHasWorker, TypeOK
  <2>. QED
    BY <2>1, <2>4, <2>5 DEF TypeOK, durable
<1>4. CASE BeginRead(k)
  <2>1. task[k].pc = "work" /\ ((Goto(k, "insert") /\ UNCHANGED latest) \/ Leave(k))
        /\ UNCHANGED <<durable, proc, owned, launched, api, snap>>
    BY <1>4 DEF BeginRead, Turn
  <2>. QED
    BY <1>2, <2>1, GotoType, LeaveType DEF TypeOK, durable, SyncPcs
<1>5. CASE WorkFails(k)
  BY <1>2, <1>5, GotoType DEF WorkFails, Turn, TypeOK, durable, SyncPcs
<1>6. CASE Insert(k)
  <2>1. task[k].pc = "insert" /\ task[k].tool \in Tools
    BY <1>1, <1>6 DEF Insert, Turn, Tasks
  <2>2. /\ \/ Goto(k, "call") \/ Goto(k, "gate") \/ Goto(k, "wrap") \/ Goto(k, "fail")
        /\ UNCHANGED <<row, overdue, granted, denied, cont, lapsed, final,
                       proc, owned, latest, launched, api, snap>>
    BY <1>6 DEF Insert, After, NotYet
  <2>3. tool' \in [Tools -> ToolStatuses] /\ calls' \in [Tools -> Nat]
    BY <1>6, <2>1 DEF Insert, Children, TypeOK, ToolStatuses
  <2>4. task' \in [Slots -> Tasks] /\ TaskHasWorker'
    BY <1>2, <2>1, <2>2, GotoType DEF SyncPcs, AwaitPcs
  <2>. QED
    BY <2>2, <2>3, <2>4 DEF TypeOK
<1>7. ASSUME NEW outcome \in {"succeeded", "failed", "timed_out"}, FinishTool(k, outcome)
      PROVE  Typed'
  <2>1. task[k].pc = "call" /\ task[k].tool \in Tools
    BY <1>1, <1>7 DEF FinishTool, Turn, Tasks
  <2>2. /\ \/ Goto(k, "gate") \/ Goto(k, "wrap") \/ Goto(k, "timeout") \/ Goto(k, "fail")
        /\ UNCHANGED <<row, overdue, granted, denied, cont, lapsed, final, calls,
                       proc, owned, latest, launched, api, snap>>
    BY <1>7 DEF FinishTool, After, NotYet
  <2>3. tool' \in [Tools -> ToolStatuses]
    BY <1>7, <2>1 DEF FinishTool, ToolFinish, TypeOK, ToolStatuses
  <2>4. task' \in [Slots -> Tasks] /\ TaskHasWorker'
    BY <1>2, <2>1, <2>2, GotoType DEF SyncPcs, AwaitPcs
  <2>. QED
    BY <2>2, <2>3, <2>4 DEF TypeOK
<1>8. CASE GatePause(k)
  <2>1. /\ task[k].pc = "gate"
        /\ Goto(k, "pause_input") \/ Goto(k, "pause_approval")
        /\ snap' = [snap EXCEPT ![w] = row]
        /\ UNCHANGED <<durable, proc, owned, latest, launched, api>>
    BY <1>8 DEF GatePause, Turn
  <2>. QED
    BY <1>1, <1>2, <2>1, GotoType DEF TypeOK, durable, SyncPcs
<1>9. CASE GateWrite(k)
  <2>1. /\ task[k].pc = "gate" /\ w \in Workers
        /\ UNCHANGED <<durable, proc, owned, launched, api, snap>>
    BY <1>1, <1>9 DEF GateWrite, Turn, TaskHasWorker
  <2>2. CASE Leave(k)
    BY <2>1, <2>2, LeaveType DEF TypeOK, durable
  <2>3. CASE ~Leave(k)
    <3>1. /\ task' = [task EXCEPT ![k] =
                        [pc |-> "insert", worker |-> w, gen |-> task[k].gen, tool |-> "write",
                         hb |-> task[k].hb, kill |-> task[k].kill]]
          /\ UNCHANGED latest
      BY <1>9, <2>3 DEF GateWrite
    <3>2. task' \in [Slots -> Tasks]
      BY <1>1, <2>1, <3>1 DEF TypeOK, Tasks, Pcs, SyncPcs, Tools
    <3>3. TaskHasWorker'
      BY <2>1, <3>1, NobodyAssumption DEF TaskHasWorker, TypeOK
    <3>. QED
      BY <2>1, <3>1, <3>2, <3>3 DEF TypeOK, durable
  <2>. QED
    BY <2>2, <2>3
<1>10. CASE PauseCommit(k)
  <2>1. /\ task[k].pc \in {"pause_input", "pause_approval"}
        /\ snap' = [snap EXCEPT ![w] = NoRow]
        /\ UNCHANGED <<overdue, granted, denied, final, tool, calls, proc, launched, api>>
    BY <1>10 DEF PauseCommit, NotYet, Children
  <2>2. w \in Workers /\ snap[w] \in Rows
    BY <1>1, <2>1 DEF TaskHasWorker, TypeOK
  <2>3. snap' \in [Workers -> Rows]
    BY <2>1, Defaults DEF TypeOK
  <2>4. /\ Leave(k) \/ (Goto(k, "fail") /\ UNCHANGED latest)
        /\ UNCHANGED owned \/ owned' = [owned EXCEPT ![w] = 0]
        /\ UNCHANGED <<cont, lapsed>> \/ (cont' \in {"input", "approval"} /\ lapsed' = FALSE)
        /\ UNCHANGED row \/ \E status \in Waiting :
                              row' = Flush(row, snap[w], Moved(snap[w], status))
    BY <1>10 DEF PauseCommit, WaitStatus, Waiting
  <2>5. row' \in Rows
    <3>1. ASSUME NEW status \in Waiting, row' = Flush(row, snap[w], Moved(snap[w], status))
          PROVE  row' \in Rows
      BY <1>1, <2>2, <3>1, MovedType, FlushType DEF Statuses
    <3>. QED
      BY <1>1, <2>4, <3>1
  <2>6. /\ task' \in [Slots -> Tasks] /\ TaskHasWorker'
        /\ latest' \in [Workers -> 0 .. MaxTasks]
    BY <1>2, <2>1, <2>4, GotoType, LeaveType DEF SyncPcs, TypeOK
  <2>7. owned' \in [Workers -> 0 .. MaxAttempts]
    BY <2>4, Defaults DEF TypeOK
  <2>8. cont' \in {"none", "input", "approval"} /\ lapsed' \in BOOLEAN
    BY <2>4 DEF TypeOK
  <2>. QED
    BY <2>1, <2>3, <2>5, <2>6, <2>7, <2>8 DEF TypeOK
<1>11. CASE Complete(k)
  BY <1>11, TypedFinish DEF Complete, Terminal
<1>12. CASE Fail(k)
  BY <1>12, TypedFinish DEF Fail, Terminal
<1>13. CASE TimeOut(k)
  BY <1>13, TypedFinish DEF TimeOut, Terminal
<1>14. CASE DeadlineFires(k)
  <2>1. /\ task[k].pc \in AwaitPcs /\ tool' = Interrupted(k) /\ Goto(k, "timeout")
        /\ latest' = [latest EXCEPT ![w] = 0]
        /\ UNCHANGED <<row, overdue, granted, denied, cont, lapsed, final, calls,
                       proc, owned, launched, api, snap>>
    BY <1>14 DEF DeadlineFires, Turn, NotYet
  <2>2. task' \in [Slots -> Tasks] /\ TaskHasWorker'
    BY <1>2, <2>1, GotoType DEF AwaitPcs, SyncPcs
  <2>3. latest' \in [Workers -> 0 .. MaxTasks]
    BY <2>1, Defaults DEF TypeOK
  <2>. QED
    BY <2>1, <2>2, <2>3, InterruptedType DEF TypeOK
<1>15. CASE DeliverCancel(k)
  <2>1. /\ task[k].pc \in AwaitPcs /\ tool' = Interrupted(k) /\ Leave(k)
        /\ UNCHANGED <<row, overdue, granted, denied, cont, lapsed, final, calls,
                       proc, owned, launched, api, snap>>
    BY <1>15 DEF DeliverCancel, Turn, NotYet
  <2>2. task[k].pc \notin {"none", "done"}
    BY <2>1 DEF AwaitPcs
  <2>. QED
    BY <2>1, <2>2, LeaveType, InterruptedType DEF TypeOK
<1>16. CASE EndTask(k)
  <2>1. /\ task' = [task EXCEPT ![k] = Finished]
        /\ owned' = [owned EXCEPT ![w] = IF task[k].kill THEN owned[w] ELSE 0]
        /\ UNCHANGED <<durable, proc, latest, launched, api, snap>>
    BY <1>16 DEF EndTask
  <2>2. task' \in [Slots -> Tasks] /\ TaskHasWorker'
    BY <2>1, FinishedType DEF TypeOK, TaskHasWorker, Finished
  <2>3. owned' \in [Workers -> 0 .. MaxAttempts]
    BY <2>1, Defaults DEF TypeOK
  <2>. QED
    BY <2>1, <2>2, <2>3 DEF TypeOK, durable
<1>. QED
  BY <1>3, <1>4, <1>5, <1>6, <1>7, <1>8, <1>9, <1>10, <1>11, <1>12, <1>13, <1>14, <1>15, <1>16
     DEF TaskStep

\* What a heartbeat, the sweep, the clock and the processes do keeps the types.
LEMMA TypedHeartbeat ==
  ASSUME Typed, NEW k \in Slots, Heartbeat(k)
  PROVE  Typed'
<1>. DEFINE w == task[k].worker
<1>. USE DEF Typed
<1>1. w \in Workers /\ row \in Rows
  BY DEF Heartbeat, TaskHasWorker, TypeOK, Tasks
<1>2. UNCHANGED <<overdue, granted, denied, cont, lapsed, final, tool, calls,
                  proc, owned, latest, launched, api, snap>>
  BY DEF Heartbeat, NotYet, Children
<1>3. CASE row' = Claimed(row, w) /\ UNCHANGED task
  <2>1. row' \in Rows
    BY <1>1, <1>3, ClaimedType
  <2>. QED
    BY <1>2, <1>3, <2>1 DEF TypeOK, TaskHasWorker
<1>4. CASE /\ task' = [j \in Slots |-> IF j = k THEN Heartless(KillLatest(w)[j])
                                                ELSE KillLatest(w)[j]]
           /\ UNCHANGED row
  <2>1. ASSUME NEW j \in Slots
        PROVE  /\ KillLatest(w)[j] \in Tasks
               /\ KillLatest(w)[j].worker = Nobody
                    => KillLatest(w)[j].pc \in {"none", "done"} /\ ~KillLatest(w)[j].hb
    <3>1. KillLatest(w)[j] \in {task[j], Cancelled(task[j])} /\ task[j] \in Tasks
      BY <1>1, KillLatestType DEF TypeOK
    <3>2. KillLatest(w)[j] \in Tasks
      BY <3>1, CancelledType
    <3>. QED
      BY <3>1, <3>2, CancelledType DEF TaskHasWorker, Cancelled, AwaitPcs, Finished
  <2>2. ASSUME NEW t \in Tasks
        PROVE  /\ Heartless(t) \in Tasks
               /\ Heartless(t).worker = t.worker /\ Heartless(t).pc = t.pc /\ ~Heartless(t).hb
    BY DEF Heartless, Tasks
  <2>3. task' \in [Slots -> Tasks] /\ TaskHasWorker'
    BY <1>4, <2>1, <2>2 DEF TaskHasWorker
  <2>. QED
    BY <1>2, <1>4, <2>3 DEF TypeOK
<1>. QED
  BY <1>3, <1>4 DEF Heartbeat

LEMMA TypedRecover ==
  ASSUME Typed, NEW w \in Workers, Recover(w)
  PROVE  Typed'
<1>. USE DEF Typed
<1>0. row \in Rows
  BY DEF TypeOK
<1>1. CASE RecoverSettle(w)
  <2>1. RecoveryStatus \in Terminal
    BY <1>1 DEF RecoverSettle, RecoveryStatus, Terminal
  <2>2. /\ Settle(row, RecoveryStatus) /\ owned' = [owned EXCEPT ![w] = 0]
        /\ UNCHANGED <<proc, latest, task, launched, api, snap>>
    BY <1>1 DEF RecoverSettle
  <2>3. owned' \in [Workers -> 0 .. MaxAttempts]
    BY <2>2, Defaults DEF TypeOK
  <2>. QED
    BY <1>0, <2>1, <2>2, <2>3, SettleType DEF TypeOK, TaskHasWorker
<1>2. CASE RecoverRelaunch(w)
  <2>1. row.attempt < MaxAttempts
    BY <1>0, <1>2, AttemptAssumption DEF RecoverRelaunch, RecoveryStatus, Rows
  <2>2. /\ row' = [status |-> row.status, owner |-> w, ttl |-> LeaseTicks,
                   attempt |-> row.attempt + 1]
        /\ Launched(w, row'.attempt)
        /\ tool' = [t \in Tools |-> IF tool[t] = "running" THEN "lost" ELSE tool[t]]
        /\ UNCHANGED <<overdue, granted, denied, cont, lapsed, final, calls, proc, api, snap>>
    BY <1>2 DEF RecoverRelaunch, NotYet
  <2>3. row' \in Rows /\ row'.attempt \in 1 .. MaxAttempts
    BY <1>0, <2>1, <2>2, AttemptAssumption, LeaseAssumption DEF Rows
  <2>4. tool' \in [Tools -> ToolStatuses]
    BY <2>2 DEF TypeOK, ToolStatuses
  <2>. QED
    BY <2>2, <2>3, <2>4, LaunchedType DEF TypeOK
<1>. QED
  BY <1>1, <1>2 DEF Recover

LEMMA TypedTick ==
  ASSUME Typed, Tick
  PROVE  Typed'
<1>1. ASSUME NEW r \in Rows
      PROVE  Aged(r) \in Rows /\ Aged(r).status = r.status
  BY LeaseAssumption DEF Aged, Rows
<1>. QED
  BY <1>1 DEF Tick, Typed, TypeOK, TaskHasWorker, NotYet, Children

LEMMA TypedProcess ==
  ASSUME Typed, NEW w \in Workers, Process(w)
  PROVE  Typed'
<1>. USE DEF Typed
<1>1. CASE WorkerUp(w)
  BY <1>1 DEF WorkerUp, TypeOK, TaskHasWorker, durable
<1>2. ASSUME Gone(w)
      PROVE  /\ proc' \in [Workers -> {"new", "up", "down"}]
             /\ owned' \in [Workers -> 0 .. MaxAttempts]
             /\ latest' \in [Workers -> 0 .. MaxTasks]
             /\ task' \in [Slots -> Tasks] /\ TaskHasWorker'
             /\ api' \in [Workers -> {"idle", "inserted", "claimed", "cancelling"}]
             /\ snap' \in [Workers -> Rows]
             /\ launched' = launched
  <2>1. task' \in [Slots -> Tasks] /\ TaskHasWorker'
    BY <1>2, FinishedType DEF Gone, TypeOK, TaskHasWorker, Finished
  <2>. QED
    BY <1>2, <2>1, Defaults DEF Gone, TypeOK
<1>3. CASE Crash(w)
  BY <1>2, <1>3 DEF Crash, TypeOK, durable
<1>4. CASE Shutdown(w)
  <2>1. tool' \in [Tools -> ToolStatuses]
    BY <1>4, InterruptedType DEF Shutdown, TypeOK, Slots
  <2>. QED
    BY <1>2, <1>4, <2>1 DEF Shutdown, TypeOK, NotYet
<1>. QED
  BY <1>1, <1>3, <1>4 DEF Process

LEMMA TypedNext == Typed /\ [Next]_vars => Typed'
<1>. SUFFICES ASSUME Typed, [Next]_vars PROVE Typed'
  OBVIOUS
<1>1. CASE DeadlinePasses
  BY <1>1 DEF DeadlinePasses, Typed, TypeOK, TaskHasWorker, Children, memory
<1>2. CASE ContinuationLapses
  BY <1>2 DEF ContinuationLapses, Typed, TypeOK, TaskHasWorker, NotYet, Children, memory
<1>3. CASE UNCHANGED vars
  BY <1>3 DEF vars, durable, memory, Typed, TypeOK, TaskHasWorker
<1>. QED
  BY <1>1, <1>2, <1>3, TypedRequest, TypedTaskStep, TypedHeartbeat, TypedRecover, TypedTick,
     TypedProcess DEF Next

\* Every variable of every reachable state has its type, whatever the number of
\* processes, tasks and attempts.
THEOREM TypeCorrect == Spec => []TypeOK
<1>1. Spec => []Typed
  BY TypedInit, TypedNext, PTL DEF Spec
<1>. QED
  BY <1>1, PTL DEF Typed
-----------------------------------------------------------------------------
\* Waiting executions have their continuation

\* A step of a task is a step of that task, in the turn of its process.
LEMMA TaskStepFrame ==
  ASSUME Typed, NEW k \in Slots, TaskStep(k)
  PROVE  /\ task[k].pc \notin {"none", "done"} /\ task[k].worker \in Workers
         /\ task[k].pc \in SyncPcs \/ LoopFree(task[k].worker)
         /\ \A j \in Slots : j # k => task'[j] = task[j]
         /\ task'[k] = Finished \/ task'[k].worker = task[k].worker
         /\ api' = api
         /\ \A v \in Workers : v # task[k].worker => snap'[v] = snap[v]
<1>. DEFINE w == task[k].worker
<1>1. /\ task \in [Slots -> Tasks] /\ snap \in [Workers -> Rows]
      /\ w # Nobody => w \in Workers
  BY DEF Typed, TypeOK, Tasks
<1>2. ASSUME NEW pc, Goto(k, pc)
      PROVE  /\ \A j \in Slots : j # k => task'[j] = task[j]
             /\ task'[k].worker = w
  BY <1>1, <1>2 DEF Goto, At
<1>0. ASSUME Leave(k)
      PROVE  /\ \A j \in Slots : j # k => task'[j] = task[j]
             /\ task'[k].worker = w
  BY <1>1, <1>0 DEF Leave, Ending
<1>3. ASSUME NEW status \in Terminal, Finish(k, status)
      PROVE  /\ \A j \in Slots : j # k => task'[j] = task[j]
             /\ task'[k].worker = w /\ api' = api /\ snap' = snap
  BY <1>0, <1>2, <1>3 DEF Finish
<1>. DEFINE Frame == /\ \A j \in Slots : j # k => task'[j] = task[j]
                     /\ task'[k] = Finished \/ task'[k].worker = w
                     /\ api' = api
                     /\ \A v \in Workers : v # w => snap'[v] = snap[v]
                     /\ task[k].pc \notin {"none", "done"}
                     /\ task[k].pc \in SyncPcs \/ LoopFree(w)
<1>4. Frame
  <2>1. CASE TaskStart(k)
    BY <1>1, <2>1 DEF TaskStart, Turn, SyncPcs
  <2>2. CASE BeginRead(k)
    BY <1>0, <1>1, <1>2, <2>2 DEF BeginRead, Turn, SyncPcs
  <2>3. CASE WorkFails(k)
    BY <1>1, <1>2, <2>3 DEF WorkFails, Turn, SyncPcs
  <2>4. CASE Insert(k)
    BY <1>1, <1>2, <2>4 DEF Insert, Turn, SyncPcs
  <2>5. ASSUME NEW outcome \in {"succeeded", "failed", "timed_out"}, FinishTool(k, outcome)
        PROVE  Frame
    BY <1>1, <1>2, <2>5 DEF FinishTool, Turn, SyncPcs
  <2>6. CASE GatePause(k)
    BY <1>1, <1>2, <2>6 DEF GatePause, Turn, SyncPcs
  <2>7. CASE GateWrite(k)
    BY <1>0, <1>1, <1>2, <2>7 DEF GateWrite, Turn, SyncPcs
  <2>8. CASE PauseCommit(k)
    <3>1. /\ task[k].pc \in {"pause_input", "pause_approval"}
          /\ snap' = [snap EXCEPT ![w] = NoRow] /\ api' = api
          /\ Leave(k) \/ Goto(k, "fail")
      BY <2>8 DEF PauseCommit
    <3>. QED
      BY <1>0, <1>1, <1>2, <3>1 DEF SyncPcs
  <2>9. CASE Complete(k)
    BY <1>1, <1>3, <2>9 DEF Complete, SyncPcs, Terminal
  <2>10. CASE Fail(k)
    BY <1>1, <1>3, <2>10 DEF Fail, SyncPcs, Terminal
  <2>11. CASE TimeOut(k)
    BY <1>1, <1>3, <2>11 DEF TimeOut, SyncPcs, Terminal
  <2>12. CASE DeadlineFires(k)
    BY <1>1, <1>2, <2>12 DEF DeadlineFires, Turn, SyncPcs, AwaitPcs
  <2>13. CASE DeliverCancel(k)
    BY <1>0, <1>1, <1>2, <2>13 DEF DeliverCancel, Turn, SyncPcs, AwaitPcs
  <2>14. CASE EndTask(k)
    BY <1>1, <2>14 DEF EndTask, Turn, SyncPcs
  <2>. QED
    BY <2>1, <2>2, <2>3, <2>4, <2>5, <2>6, <2>7, <2>8, <2>9, <2>10, <2>11, <2>12, <2>13, <2>14 DEF TaskStep
<1>. QED
  BY <1>1, <1>4 DEF Typed, TaskHasWorker

\* The row of a terminal transition that finds another status is at its end, and
\* no continuation is left.
LEMMA SettledStatus ==
  ASSUME NEW loaded \in Rows, NEW status \in Terminal, row \in Rows,
         Settle(loaded, status), loaded.status # status
  PROVE  row'.status = status /\ cont' = "none"
<1>1. status \in Statuses
  BY DEF Statuses
<1>2. Moved(loaded, status) \in Rows /\ Moved(loaded, status).status = status
  BY <1>1, MovedType
<1>3. row' = Flush(row, loaded, Moved(loaded, status)) /\ cont' = "none"
  BY DEF Settle
<1>. QED
  BY <1>2, <1>3, FlushType

\* What a task may do to the status of the row and to the continuation.
LEMMA TaskStepStatus ==
  ASSUME Typed, NEW k \in Slots, TaskStep(k)
  PROVE  \/ row' = row /\ cont' = cont
         \/ \E kind \in {"input", "approval"} : row'.status = WaitStatus(kind) /\ cont' = kind
         \/ row'.status \in Terminal /\ cont' = "none"
<1>. DEFINE w == task[k].worker
            Goal == \/ row' = row /\ cont' = cont
                    \/ \E kind \in {"input", "approval"} :
                         row'.status = WaitStatus(kind) /\ cont' = kind
                    \/ row'.status \in Terminal /\ cont' = "none"
<1>0. row \in Rows /\ snap[w] \in Rows
  BY TaskStepFrame DEF Typed, TypeOK
<1>1. ASSUME NEW status \in Terminal, Finish(k, status)
      PROVE  Goal
  <2>1. CASE UNCHANGED durable
    BY <2>1 DEF durable
  <2>2. CASE ~UNCHANGED durable
    <3>1. Settle(row, status) /\ ValidTransition(row.status, status)
      BY <1>1, <2>2 DEF Finish
    <3>2. row.status # status
      BY <3>1 DEF ValidTransition, Terminal
    <3>. QED
      BY <1>0, <3>1, <3>2, SettledStatus
  <2>. QED
    BY <2>1, <2>2
<1>2. CASE PauseCommit(k)
  <2>1. CASE UNCHANGED <<row, cont>>
    BY <2>1
  <2>2. CASE ~UNCHANGED <<row, cont>>
    <3>1. PICK kind \in {"input", "approval"} :
            /\ snap[w].status = "RUNNING" /\ cont' = kind
            /\ row' = Flush(row, snap[w], Moved(snap[w], WaitStatus(kind)))
      BY <1>2, <2>2 DEF PauseCommit
    <3>2. WaitStatus(kind) \in Statuses /\ WaitStatus(kind) # "RUNNING"
      BY DEF WaitStatus, Statuses, Waiting
    <3>3. row'.status = WaitStatus(kind)
      BY <1>0, <3>1, <3>2, MovedType, FlushType
    <3>. QED
      BY <3>1, <3>3
  <2>. QED
    BY <2>1, <2>2
<1>3. CASE Complete(k) \/ Fail(k) \/ TimeOut(k)
  BY <1>1, <1>3 DEF Complete, Fail, TimeOut, Terminal
<1>4. CASE TaskStart(k) \/ BeginRead(k) \/ WorkFails(k) \/ Insert(k) \/ GatePause(k)
           \/ GateWrite(k) \/ DeadlineFires(k) \/ DeliverCancel(k) \/ EndTask(k)
  BY <1>4 DEF TaskStart, BeginRead, WorkFails, Insert, GatePause, GateWrite, DeadlineFires,
              DeliverCancel, EndTask, durable
<1>5. ASSUME NEW outcome \in {"succeeded", "failed", "timed_out"}, FinishTool(k, outcome)
      PROVE  Goal
  BY <1>5 DEF FinishTool
<1>. QED
  BY <1>2, <1>3, <1>4, <1>5 DEF TaskStep

\* All of WaitInv but the type and the property itself is kept by a step that moves
\* no request, starts no task for an execution that has none, and leaves snapshots of
\* requests in flight as they are.
LEMMA WaitFrame ==
  ASSUME WaitInv, Typed', UNCHANGED api,
         \A w \in Workers : api[w] # "idle" => snap'[w].status = snap[w].status,
         \A k \in Slots : task'[k].pc \in SyncPcs => api[task'[k].worker] = "idle",
         \/ /\ row'.status = row.status
            /\ \A k \in Slots : Active(k)' => Active(k)
         \/ /\ row'.status # "ABSENT"
            /\ \A w \in Workers : ~Starting(w)
  PROVE  Exclusive' /\ StartingAlone' /\ Cancelling'
<1>1. Exclusive' /\ Cancelling'
  BY DEF WaitInv, Exclusive, Cancelling
<1>2. StartingAlone'
  <2>1. CASE \A w \in Workers : ~Starting(w)
    BY <2>1 DEF WaitInv, StartingAlone, Starting
  <2>2. CASE /\ row'.status = row.status
             /\ \A k \in Slots : Active(k)' => Active(k)
    BY <2>2 DEF WaitInv, StartingAlone, Starting
  <2>. QED
    BY <2>1, <2>2
<1>. QED
  BY <1>1, <1>2

\* An execution with a task, or one that runs or waits, is not being started.
LEMMA NotStarting ==
  ASSUME WaitInv,
         \/ row.status \notin {"ABSENT", "PENDING", "CANCELLED"}
         \/ \E k \in Slots : Active(k)
  PROVE  \A w \in Workers : ~Starting(w)
BY DEF WaitInv, StartingAlone

\* The continuation side of WaitInv, by what a step does to status and continuation.
LEMMA WaitKept ==
  ASSUME WaitingHasContinuation,
         \/ row'.status = row.status /\ cont' = cont
         \/ \E kind \in {"input", "approval"} : row'.status = WaitStatus(kind) /\ cont' = kind
         \/ row'.status \in Statuses \ Waiting /\ cont' = "none"
  PROVE  WaitingHasContinuation'
<1>1. WaitStatus("input") = "WAITING_FOR_INPUT" /\ WaitStatus("approval") = "WAITING_FOR_APPROVAL"
  BY DEF WaitStatus
<1>. QED
  BY <1>1 DEF WaitingHasContinuation, Waiting

LEMMA WaitInit == Init => WaitInv
<1>. SUFFICES ASSUME Init PROVE WaitInv
  OBVIOUS
<1>1. Typed
  BY TypedInit
<1>2. Exclusive /\ StartingAlone /\ Cancelling
  BY DEF Init, Exclusive, StartingAlone, Starting, Cancelling, Active, NoTask, NoRow, SyncPcs
<1>3. WaitingHasContinuation
  BY DEF Init, WaitingHasContinuation, NoRow, WaitStatus
<1>. QED
  BY <1>1, <1>2, <1>3 DEF WaitInv, Typed

LEMMA WaitTaskStep ==
  ASSUME WaitInv, NEW k \in Slots, TaskStep(k)
  PROVE  WaitInv'
<1>. DEFINE w == task[k].worker
<1>1. Typed /\ Typed'
  BY TypedTaskStep DEF WaitInv, Typed
<1>2. api[w] = "idle"
  BY <1>1, TaskStepFrame DEF LoopFree, WaitInv, Exclusive
<1>3. \A v \in Workers : ~Starting(v)
  BY <1>1, TaskStepFrame, NotStarting DEF Active
<1>4. row.status # "ABSENT"
  BY <1>1, TaskStepFrame DEF WaitInv, StartingAlone, Active
<1>5. \A j \in Slots : task'[j].pc \in SyncPcs => api[task'[j].worker] = "idle"
  <2>1. Finished.pc \notin SyncPcs
    BY DEF Finished, SyncPcs
  <2>. QED
    BY <1>1, <1>2, <2>1, TaskStepFrame DEF WaitInv, Exclusive
<1>6. row'.status # "ABSENT"
  BY <1>1, <1>4, TaskStepStatus DEF WaitStatus, Terminal
<1>7. Exclusive' /\ StartingAlone' /\ Cancelling'
  BY <1>1, <1>2, <1>3, <1>5, <1>6, TaskStepFrame, WaitFrame
<1>8. WaitingHasContinuation'
  BY <1>1, TaskStepStatus, WaitKept DEF WaitInv, Statuses, Waiting, Terminal
<1>. QED
  BY <1>1, <1>7, <1>8 DEF WaitInv, Typed

LEMMA WaitRecover ==
  ASSUME WaitInv, NEW w \in Workers, Recover(w)
  PROVE  WaitInv'
<1>1. Typed /\ Typed'
  BY TypedRecover DEF WaitInv, Typed
<1>2. row.status = "RUNNING" /\ row \in Rows
  BY <1>1 DEF Recover, RecoverSettle, RecoverRelaunch, Stale, Typed, TypeOK
<1>3. \A v \in Workers : ~Starting(v)
  BY <1>2, NotStarting
<1>4. UNCHANGED <<api, snap>>
  BY DEF Recover, RecoverSettle, RecoverRelaunch
<1>5. \A k \in Slots : task'[k].pc \in SyncPcs => api[task'[k].worker] = "idle"
  <2>1. CASE UNCHANGED task
    BY <1>4, <2>1 DEF WaitInv, Exclusive
  <2>2. CASE ~UNCHANGED task
    <3>1. /\ launched' = launched + 1
          /\ task' = [task EXCEPT ![launched + 1] =
                [pc |-> "ready", worker |-> w, gen |-> row'.attempt, tool |-> "read",
                 hb |-> FALSE, kill |-> FALSE]]
      BY <2>2 DEF Recover, RecoverSettle, RecoverRelaunch, Launched
    <3>. QED
      BY <1>1, <3>1 DEF WaitInv, Exclusive, SyncPcs, Typed, TypeOK
  <2>. QED
    BY <2>1, <2>2
<1>6. \/ row'.status = row.status /\ cont' = cont
      \/ row'.status \in Terminal /\ cont' = "none"
  <2>1. CASE RecoverSettle(w)
    <3>1. RecoveryStatus \in Terminal /\ Settle(row, RecoveryStatus) /\ row.status # RecoveryStatus
      BY <1>2, <2>1 DEF RecoverSettle, RecoveryStatus, Terminal
    <3>. QED
      BY <1>2, <3>1, SettledStatus
  <2>2. CASE RecoverRelaunch(w)
    BY <2>2 DEF RecoverRelaunch
  <2>. QED
    BY <2>1, <2>2 DEF Recover
<1>7. row'.status # "ABSENT"
  BY <1>2, <1>6 DEF Terminal
<1>8. Exclusive' /\ StartingAlone' /\ Cancelling'
  BY <1>1, <1>3, <1>4, <1>5, <1>7, WaitFrame
<1>9. WaitingHasContinuation'
  BY <1>6, WaitKept DEF WaitInv, Statuses, Waiting, Terminal
<1>. QED
  BY <1>1, <1>8, <1>9 DEF WaitInv, Typed

LEMMA WaitRequest ==
  ASSUME WaitInv, NEW w \in Workers, Request(w)
  PROVE  WaitInv'
<1>1. Typed /\ Typed'
  BY TypedRequest DEF WaitInv, Typed
<1>2. row \in Rows /\ snap[w] \in Rows /\ api \in [Workers -> {"idle", "inserted", "claimed", "cancelling"}]
      /\ snap \in [Workers -> Rows] /\ task \in [Slots -> Tasks]
  BY <1>1 DEF Typed, TypeOK
<1>. SUFFICES Exclusive' /\ StartingAlone' /\ Cancelling' /\ WaitingHasContinuation'
  BY <1>1 DEF WaitInv, Typed
<1>11. \A k \in Slots : task[k].pc \in SyncPcs => task[k].worker \in Workers
  BY <1>1 DEF Typed, TypeOK, TaskHasWorker, Tasks, SyncPcs
<1>3. CASE StartInsert(w)
  <2>1. /\ row.status = "ABSENT" /\ row'.status = "PENDING"
        /\ api' = [api EXCEPT ![w] = "inserted"] /\ LoopFree(w)
        /\ UNCHANGED <<cont, task, snap>>
    BY <1>3 DEF StartInsert, Moved
  <2>2. Exclusive'
    BY <1>2, <2>1 DEF WaitInv, Exclusive, LoopFree
  <2>3. StartingAlone'
    BY <1>2, <2>1 DEF WaitInv, StartingAlone, Starting, Active
  <2>4. Cancelling'
    BY <1>2, <2>1 DEF WaitInv, Cancelling
  <2>5. WaitingHasContinuation'
    BY <2>1 DEF WaitInv, WaitingHasContinuation, WaitStatus
  <2>. QED
    BY <2>2, <2>3, <2>4, <2>5
<1>4. CASE StartClaim(w)
  <2>1. /\ api[w] = "inserted" /\ row'.status = row.status
        /\ UNCHANGED <<cont, task>>
        /\ \/ /\ api' = [api EXCEPT ![w] = "claimed"] /\ row.status = "PENDING"
              /\ snap' = [snap EXCEPT ![w] = row']
           \/ api' = [api EXCEPT ![w] = "idle"] /\ snap' = [snap EXCEPT ![w] = NoRow]
    BY <1>4 DEF StartClaim, Claimed
  <2>2. Exclusive'
    BY <1>2, <1>11, <2>1 DEF WaitInv, Exclusive
  <2>3. StartingAlone'
    BY <1>2, <2>1 DEF WaitInv, StartingAlone, Starting, Active
  <2>4. Cancelling'
    BY <1>2, <2>1 DEF WaitInv, Cancelling
  <2>5. WaitingHasContinuation'
    BY <2>1 DEF WaitInv, WaitingHasContinuation
  <2>. QED
    BY <2>2, <2>3, <2>4, <2>5
<1>5. CASE StartRun(w)
  <2>1. /\ api[w] = "claimed" /\ api' = [api EXCEPT ![w] = "idle"]
        /\ snap' = [snap EXCEPT ![w] = NoRow] /\ UNCHANGED cont
    BY <1>5 DEF StartRun
  <2>2. /\ row.status \in {"PENDING", "CANCELLED"} /\ snap[w].status = "PENDING"
        /\ \A v \in Workers \ {w} : ~Starting(v)
        /\ \A k \in Slots : ~Active(k)
    BY <2>1 DEF WaitInv, StartingAlone, Starting
  <2>3. row'.status = "RUNNING" \/ row' = row
    <3>1. CASE row' = Flush(row, snap[w], Moved(snap[w], "RUNNING"))
      BY <1>2, <2>2, <3>1, MovedType, FlushType DEF Statuses
    <3>. QED
      BY <1>5, <3>1 DEF StartRun
  <2>4. \A v \in Workers : ~Starting(v)'
    BY <1>2, <2>1, <2>2 DEF Starting
  <2>5. \A k \in Slots : task'[k].pc \notin SyncPcs
    BY <1>2, <1>5, <2>2 DEF StartRun, Launched, Active, SyncPcs
  <2>6. StartingAlone'
    BY <2>1, <2>2, <2>3, <2>4 DEF StartingAlone, Starting
  <2>7. Exclusive' /\ Cancelling'
    BY <1>2, <2>1, <2>5 DEF WaitInv, Exclusive, Cancelling
  <2>8. WaitingHasContinuation'
    BY <2>1, <2>2, <2>3 DEF WaitInv, WaitingHasContinuation, WaitStatus
  <2>. QED
    BY <2>6, <2>7, <2>8
<1>6. CASE CancelRead(w)
  <2>1. /\ row.status \notin Terminal \cup {"ABSENT"} /\ LoopFree(w)
        /\ api' = [api EXCEPT ![w] = "cancelling"] /\ snap' = [snap EXCEPT ![w] = row]
        /\ UNCHANGED <<row, cont, task>>
    BY <1>6 DEF CancelRead, durable
  <2>2. Exclusive' /\ Cancelling'
    BY <1>2, <2>1 DEF WaitInv, Exclusive, Cancelling, LoopFree
  <2>3. StartingAlone'
    BY <1>2, <2>1 DEF WaitInv, StartingAlone, Starting, LoopFree, Active
  <2>4. WaitingHasContinuation'
    BY <2>1 DEF WaitInv, WaitingHasContinuation
  <2>. QED
    BY <2>2, <2>3, <2>4
<1>7. CASE CancelCommit(w)
  <2>1. /\ api[w] = "cancelling" /\ api' = [api EXCEPT ![w] = "idle"]
        /\ snap' = [snap EXCEPT ![w] = NoRow]
        /\ \/ Settle(snap[w], "CANCELLED") /\ task' = KillLatest(w)
           \/ UNCHANGED <<row, cont, task>>
    BY <1>7 DEF CancelCommit, durable
  <2>2. \/ row'.status = "CANCELLED" /\ cont' = "none"
        \/ UNCHANGED <<row, cont>>
    BY <1>2, <2>1, SettledStatus DEF WaitInv, Cancelling, Terminal
  <2>3. row.status # "ABSENT"
    BY <2>1 DEF WaitInv, StartingAlone
  <2>4. ASSUME NEW k \in Slots
        PROVE  task'[k] = task[k] \/ task'[k] = Finished
                 \/ (task'[k].pc = task[k].pc /\ task'[k].worker = task[k].worker)
    <3>1. CASE UNCHANGED task
      BY <3>1
    <3>2. CASE task' = KillLatest(w)
      BY <1>1, <3>2, KillLatestType DEF Typed, Cancelled
    <3>. QED
      BY <2>1, <3>1, <3>2
  <2>5. \A k \in Slots : Active(k)' => Active(k)
    <3>1. CASE UNCHANGED task
      BY <3>1 DEF Active
    <3>2. CASE task' = KillLatest(w)
      BY <1>1, <3>2, KillLatestType DEF Typed, Cancelled, AwaitPcs, Finished, Active
    <3>. QED
      BY <2>1, <3>1, <3>2
  <2>6. Exclusive' /\ Cancelling'
    BY <1>2, <2>1, <2>4 DEF WaitInv, Exclusive, Cancelling, Finished, SyncPcs
  <2>7. StartingAlone'
    BY <1>2, <2>1, <2>2, <2>3, <2>5 DEF WaitInv, StartingAlone, Starting
  <2>8. WaitingHasContinuation'
    BY <2>2, WaitKept DEF WaitInv, Statuses, Waiting, Terminal
  <2>. QED
    BY <2>6, <2>7, <2>8
<1>8. ASSUME NEW decision \in {"input", "approve", "deny"}, Continue(w, decision)
      PROVE  Exclusive' /\ StartingAlone' /\ Cancelling' /\ WaitingHasContinuation'
  <2>1. /\ row.status \in Waiting /\ row' = Moved(Claimed(row, w), "RUNNING") /\ cont' = "none"
        /\ Launched(w, row.attempt) /\ UNCHANGED <<api, snap>>
    BY <1>8 DEF Continue, WaitStatus, Waiting
  <2>2. row'.status = "RUNNING"
    BY <2>1 DEF Moved
  <2>3. \A v \in Workers : ~Starting(v)
    BY <2>1, NotStarting DEF Waiting
  <2>4. \A k \in Slots : task'[k].pc \in SyncPcs => api[task'[k].worker] = "idle"
    BY <1>2, <2>1 DEF WaitInv, Exclusive, Launched, SyncPcs
  <2>5. Exclusive' /\ StartingAlone' /\ Cancelling'
    BY <1>1, <2>1, <2>2, <2>3, <2>4, WaitFrame
  <2>6. WaitingHasContinuation'
    BY <2>1, <2>2, WaitKept DEF WaitInv, Statuses, Waiting, Terminal
  <2>. QED
    BY <2>5, <2>6
<1>9. CASE ContinueRejected(w)
  <2>1. UNCHANGED <<row, cont, task, api, snap>>
    BY <1>9 DEF ContinueRejected, durable
  <2>. QED
    BY <2>1 DEF WaitInv, Exclusive, StartingAlone, Starting, Active, Cancelling,
               WaitingHasContinuation
<1>10. CASE Expire(w)
  <2>1. /\ row.status \in Waiting /\ Settle(row, "TIMED_OUT")
        /\ UNCHANGED <<task, api, snap>>
    BY <1>10 DEF Expire
  <2>2. row'.status = "TIMED_OUT" /\ cont' = "none"
    BY <1>2, <2>1, SettledStatus DEF Terminal, Waiting
  <2>3. \A v \in Workers : ~Starting(v)
    BY <2>1, NotStarting DEF Waiting
  <2>4. Exclusive' /\ StartingAlone' /\ Cancelling'
    BY <1>1, <2>1, <2>2, <2>3, WaitFrame DEF WaitInv, Exclusive
  <2>5. WaitingHasContinuation'
    BY <2>2, WaitKept DEF WaitInv, Statuses, Waiting, Terminal
  <2>. QED
    BY <2>4, <2>5
<1>. QED
  BY <1>3, <1>4, <1>5, <1>6, <1>7, <1>8, <1>9, <1>10 DEF Request

LEMMA WaitHeartbeat ==
  ASSUME WaitInv, NEW k \in Slots, Heartbeat(k)
  PROVE  WaitInv'
<1>1. Typed /\ Typed'
  BY TypedHeartbeat DEF WaitInv, Typed
<1>2. row'.status = row.status /\ UNCHANGED <<cont, api, snap>>
  BY DEF Heartbeat, Claimed
<1>3. task[k].worker \in Workers
  BY <1>1 DEF Heartbeat, Typed, TypeOK, TaskHasWorker, Tasks
<1>4. ASSUME NEW j \in Slots
      PROVE  /\ task'[j].pc = task[j].pc /\ task'[j].worker = task[j].worker
             \/ task'[j].pc = "done"
  <2>1. CASE UNCHANGED task
    BY <2>1
  <2>2. CASE ~UNCHANGED task
    <3>1. task'[j] \in {KillLatest(task[k].worker)[j], Heartless(KillLatest(task[k].worker)[j])}
      BY <2>2 DEF Heartbeat
    <3>2. task'[j].pc = KillLatest(task[k].worker)[j].pc
          /\ task'[j].worker = KillLatest(task[k].worker)[j].worker
      BY <3>1 DEF Heartless
    <3>3. KillLatest(task[k].worker)[j] \in {task[j], Cancelled(task[j])}
      BY <1>1, <1>3, KillLatestType DEF Typed
    <3>4. \/ /\ Cancelled(task[j]).pc = task[j].pc
             /\ Cancelled(task[j]).worker = task[j].worker
          \/ Cancelled(task[j]).pc = "done"
      BY DEF Cancelled, AwaitPcs, Finished
    <3>. QED
      BY <3>2, <3>3, <3>4
  <2>. QED
    BY <2>1, <2>2
<1>5. \A j \in Slots : task'[j].pc \in SyncPcs => api[task'[j].worker] = "idle"
  BY <1>4 DEF WaitInv, Exclusive, SyncPcs
<1>6. \A j \in Slots : Active(j)' => Active(j)
  BY <1>4 DEF Active
<1>7. Exclusive' /\ StartingAlone' /\ Cancelling'
  BY <1>1, <1>2, <1>5, <1>6, WaitFrame
<1>. QED
  BY <1>1, <1>2, <1>7 DEF WaitInv, Typed, WaitingHasContinuation

LEMMA WaitProcess ==
  ASSUME WaitInv, NEW w \in Workers, Process(w)
  PROVE  WaitInv'
<1>1. Typed /\ Typed'
  BY TypedProcess DEF WaitInv, Typed
<1>2. CASE WorkerUp(w)
  BY <1>1, <1>2 DEF WorkerUp, durable, WaitInv, Typed, Exclusive, StartingAlone, Starting,
                    Active, Cancelling, WaitingHasContinuation
<1>3. CASE ~WorkerUp(w)
  <2>1. Gone(w) /\ UNCHANGED <<row, cont>>
    BY <1>3 DEF Process, Crash, Shutdown, durable
  <2>2. /\ task' = [k \in Slots |-> IF task[k].worker = w THEN Finished ELSE task[k]]
        /\ api' = [api EXCEPT ![w] = "idle"] /\ snap' = [snap EXCEPT ![w] = NoRow]
    BY <2>1 DEF Gone
  <2>3. /\ api \in [Workers -> {"idle", "inserted", "claimed", "cancelling"}]
        /\ snap \in [Workers -> Rows]
    BY <1>1 DEF Typed, TypeOK
  <2>4. ASSUME NEW k \in Slots
        PROVE  /\ task'[k].pc \in SyncPcs => task'[k] = task[k]
               /\ Active(k)' => Active(k)
    BY <2>2 DEF Finished, SyncPcs, Active
  <2>5. Exclusive' /\ Cancelling'
    BY <2>2, <2>3, <2>4 DEF WaitInv, Exclusive, Cancelling
  <2>6. StartingAlone'
    BY <2>1, <2>2, <2>3, <2>4 DEF WaitInv, StartingAlone, Starting
  <2>7. WaitingHasContinuation'
    BY <2>1 DEF WaitInv, WaitingHasContinuation
  <2>. QED
    BY <1>1, <2>5, <2>6, <2>7 DEF WaitInv, Typed
<1>. QED
  BY <1>2, <1>3

LEMMA WaitNext == WaitInv /\ [Next]_vars => WaitInv'
<1>. SUFFICES ASSUME WaitInv, [Next]_vars PROVE WaitInv'
  OBVIOUS
<1>1. Typed /\ Typed'
  BY TypedNext DEF WaitInv, Typed
<1>2. CASE Tick \/ DeadlinePasses \/ ContinuationLapses \/ UNCHANGED vars
  <2>1. /\ row'.status = row.status /\ UNCHANGED <<cont, api, task>>
        /\ \A w \in Workers : snap'[w].status = snap[w].status
    BY <1>2 DEF Tick, Aged, DeadlinePasses, ContinuationLapses, NotYet, memory, durable, vars
  <2>. QED
    BY <1>1, <2>1 DEF WaitInv, Typed, Exclusive, StartingAlone, Starting, Active, Cancelling,
                      WaitingHasContinuation
<1>. QED
  BY <1>2, WaitRequest, WaitTaskStep, WaitHeartbeat, WaitRecover, WaitProcess DEF Next

\* Nobody ever waits for an answer that cannot be given: in every reachable state an
\* execution waits for an input or an approval exactly if that continuation is
\* pending.  A second cancellation, a stale snapshot or an overlapping process does
\* not separate the two.
THEOREM WaitingCorrect == Spec => []WaitingHasContinuation
<1>1. Spec => []WaitInv
  BY WaitInit, WaitNext, PTL DEF Spec
<1>. QED
  BY <1>1, PTL DEF WaitInv
-----------------------------------------------------------------------------
\* The external write

\* No task comes to a call or to the end of the flow in this step.
QuietTasks ==
  \A k \in Slots : task'[k].pc \in {"call", "wrap"} =>
                     task[k].pc = task'[k].pc /\ task[k].tool = task'[k].tool

\* A child that has been inserted stays, one that has succeeded stays so, and no call
\* is sent in this step.
QuietTools ==
  /\ calls' = calls
  /\ \A t \in Tools : \/ tool'[t] = tool[t]
                      \/ /\ tool[t] \notin {"absent", "succeeded"}
                         /\ tool'[t] \notin {"absent", "succeeded"}

QuietStatus ==
  row'.status = "COMPLETED" => row.status = "COMPLETED" \/ tool["write"] = "succeeded"

LEMMA WriteKept ==
  ASSUME WriteInv, Typed', QuietTasks, QuietTools, QuietStatus
  PROVE  WriteInv'
<1>1. "write" \in Tools
  BY DEF Tools
<1>2. \A k \in Slots : task[k].tool \in Tools
  BY DEF WriteInv, TypeOK, Tasks
<1>3. OneCaller'
  BY DEF WriteInv, OneCaller, QuietTasks
<1>4. CallerUnfinished'
  BY <1>2 DEF WriteInv, CallerUnfinished, QuietTasks, QuietTools
<1>5. WrapHasWrite'
  BY <1>1 DEF WriteInv, WrapHasWrite, QuietTasks, QuietTools
<1>6. CallsCounted'
  BY DEF WriteInv, CallsCounted, QuietTools
<1>7. CompletedHasWrite'
  BY <1>1 DEF WriteInv, CompletedHasWrite, QuietStatus, QuietTools
<1>. QED
  BY <1>3, <1>4, <1>5, <1>6, <1>7 DEF WriteInv, Typed

LEMMA SettleQuiet ==
  ASSUME TypeOK, NEW loaded \in Rows, NEW status \in Terminal, Settle(loaded, status)
  PROVE  QuietTools /\ (row'.status = "COMPLETED" => "COMPLETED" \in {row.status, status})
<1>1. status \in Statuses /\ row \in Rows
  BY DEF Statuses, TypeOK
<1>2. row' = Flush(row, loaded, Moved(loaded, status)) /\ tool' = Reconciled(status)
      /\ calls' = calls
  BY DEF Settle
<1>3. row'.status \in {row.status, status}
  BY <1>1, <1>2, MovedType, FlushType
<1>4. QuietTools
  BY <1>2 DEF QuietTools, Reconciled, ChildTarget, TypeOK
<1>. QED
  BY <1>3, <1>4

LEMMA InterruptedQuiet ==
  ASSUME WriteInv, NEW k \in Slots, tool' = Interrupted(k), calls' = calls
  PROVE  QuietTools
BY DEF WriteInv, TypeOK, Tasks, CallerUnfinished, QuietTools, Interrupted, ToolFinish

LEMMA GotoQuiet ==
  ASSUME TypeOK, NEW k \in Slots, NEW pc, pc \notin {"call", "wrap"}, Goto(k, pc)
  PROVE  QuietTasks
BY DEF Goto, At, QuietTasks, TypeOK

LEMMA LeaveQuiet ==
  ASSUME TypeOK, NEW k \in Slots, Leave(k)
  PROVE  QuietTasks
BY DEF Leave, Ending, QuietTasks, TypeOK

LEMMA LaunchedQuiet ==
  ASSUME TypeOK, NEW w, NEW gen, Launched(w, gen)
  PROVE  QuietTasks
BY DEF Launched, QuietTasks, TypeOK

LEMMA KilledQuiet ==
  ASSUME TypeOK, NEW w \in Workers, task' = KillLatest(w)
  PROVE  QuietTasks
<1>1. \A k \in Slots : task'[k] \in {task[k], Cancelled(task[k])}
  BY KillLatestType
<1>. QED
  BY <1>1 DEF QuietTasks, Cancelled, Finished

LEMMA WriteInit == Init => WriteInv
<1>. SUFFICES ASSUME Init PROVE WriteInv
  OBVIOUS
<1>1. Typed
  BY TypedInit
<1>2. OneCaller /\ CallerUnfinished /\ WrapHasWrite /\ CallsCounted /\ CompletedHasWrite
  BY DEF Init, OneCaller, CallerUnfinished, WrapHasWrite, CallsCounted, CompletedHasWrite,
         NoTask, NoRow
<1>. QED
  BY <1>1, <1>2 DEF WriteInv, Typed

LEMMA WriteRequest ==
  ASSUME WriteInv, NEW w \in Workers, Request(w)
  PROVE  WriteInv'
<1>1. Typed /\ Typed' /\ TypeOK
  BY TypedRequest DEF WriteInv, Typed
<1>2. row \in Rows /\ snap[w] \in Rows /\ "RUNNING" \in Statuses
  BY <1>1 DEF TypeOK, Statuses
<1>. SUFFICES QuietTasks /\ QuietTools /\ QuietStatus
  BY <1>1, WriteKept
<1>3. CASE StartInsert(w) \/ StartClaim(w) \/ CancelRead(w) \/ ContinueRejected(w)
  BY <1>3 DEF StartInsert, StartClaim, CancelRead, ContinueRejected, Moved, Claimed, Children,
              durable, QuietTasks, QuietTools, QuietStatus
<1>4. CASE StartRun(w)
  <2>1. UNCHANGED <<tool, calls>>
    BY <1>4 DEF StartRun, Children
  <2>2. CASE UNCHANGED <<row, task>>
    BY <2>1, <2>2 DEF QuietTasks, QuietTools, QuietStatus
  <2>3. CASE ~UNCHANGED <<row, task>>
    <3>1. row' = Flush(row, snap[w], Moved(snap[w], "RUNNING")) /\ Launched(w, row'.attempt)
      BY <1>4, <2>3 DEF StartRun
    <3>2. row'.status \in {"RUNNING", row.status}
      BY <1>2, <3>1, MovedType, FlushType
    <3>. QED
      BY <1>1, <2>1, <3>1, <3>2, LaunchedQuiet DEF QuietTools, QuietStatus
  <2>. QED
    BY <2>2, <2>3
<1>5. CASE CancelCommit(w)
  <2>1. CASE UNCHANGED <<durable, task>>
    BY <2>1 DEF durable, QuietTasks, QuietTools, QuietStatus
  <2>2. CASE ~UNCHANGED <<durable, task>>
    <3>1. Settle(snap[w], "CANCELLED") /\ task' = KillLatest(w) /\ "CANCELLED" \in Terminal
      BY <1>5, <2>2 DEF CancelCommit, Terminal
    <3>. QED
      BY <1>1, <1>2, <3>1, SettleQuiet, KilledQuiet DEF QuietStatus
  <2>. QED
    BY <2>1, <2>2
<1>6. ASSUME NEW decision \in {"input", "approve", "deny"}, Continue(w, decision)
      PROVE  QuietTasks /\ QuietTools /\ QuietStatus
  BY <1>1, <1>6, LaunchedQuiet DEF Continue, Moved, Children, QuietTools, QuietStatus
<1>7. CASE Expire(w)
  <2>1. Settle(row, "TIMED_OUT") /\ UNCHANGED task /\ "TIMED_OUT" \in Terminal
    BY <1>7 DEF Expire, Terminal
  <2>. QED
    BY <1>1, <1>2, <2>1, SettleQuiet DEF QuietTasks, QuietStatus
<1>. QED
  BY <1>3, <1>4, <1>5, <1>6, <1>7 DEF Request

LEMMA WriteTaskStep ==
  ASSUME WriteInv, NEW k \in Slots, TaskStep(k)
  PROVE  WriteInv'
<1>. DEFINE w == task[k].worker
            t == task[k].tool
            Quiet == QuietTasks /\ QuietTools /\ QuietStatus
<1>1. Typed /\ Typed' /\ TypeOK
  BY TypedTaskStep DEF WriteInv, Typed
<1>2. row \in Rows /\ snap[w] \in Rows /\ t \in Tools /\ task \in [Slots -> Tasks]
      /\ tool \in [Tools -> ToolStatuses] /\ calls \in [Tools -> Nat]
  BY <1>1, TaskStepFrame DEF TypeOK, Tasks
<1>3. ASSUME Quiet PROVE WriteInv'
  BY <1>1, <1>3, WriteKept
<1>4. CASE TaskStart(k) \/ EndTask(k)
  <2>1. UNCHANGED durable /\ \A j \in Slots : task'[j] = task[j] \/ task'[j].pc \notin {"call", "wrap"}
    BY <1>2, <1>4 DEF TaskStart, EndTask, Finished
  <2>. QED
    BY <1>3, <2>1 DEF durable, QuietTasks, QuietTools, QuietStatus
<1>5. CASE BeginRead(k) \/ WorkFails(k) \/ GatePause(k)
  <2>1. UNCHANGED durable /\ (Leave(k) \/ \E pc \in Pcs \ {"call", "wrap"} : Goto(k, pc))
    BY <1>5 DEF BeginRead, WorkFails, GatePause, Pcs, SyncPcs
  <2>. QED
    BY <1>1, <1>3, <2>1, GotoQuiet, LeaveQuiet DEF durable, QuietTools, QuietStatus
<1>6. CASE GateWrite(k)
  <2>1. UNCHANGED durable /\ \A j \in Slots : task'[j] = task[j] \/ task'[j].pc \notin {"call", "wrap"}
    BY <1>2, <1>6 DEF GateWrite, Leave, Ending
  <2>. QED
    BY <1>3, <2>1 DEF durable, QuietTasks, QuietTools, QuietStatus
<1>7. CASE PauseCommit(k)
  <2>1. /\ UNCHANGED <<tool, calls>>
        /\ (Leave(k) \/ \E pc \in Pcs \ {"call", "wrap"} : Goto(k, pc))
        /\ UNCHANGED row \/ \E status \in Waiting :
                              row' = Flush(row, snap[w], Moved(snap[w], status))
    BY <1>7 DEF PauseCommit, Children, Pcs, SyncPcs, WaitStatus, Waiting
  <2>2. row'.status = row.status \/ row'.status \in Waiting
    <3>1. ASSUME NEW status \in Waiting, row' = Flush(row, snap[w], Moved(snap[w], status))
          PROVE  row'.status \in {row.status, status}
      BY <1>2, <3>1, MovedType, FlushType DEF Statuses
    <3>. QED
      BY <2>1, <3>1
  <2>. QED
    BY <1>1, <1>3, <2>1, <2>2, GotoQuiet, LeaveQuiet DEF Waiting, QuietTools, QuietStatus
<1>8. ASSUME NEW status \in Terminal, Finish(k, status),
             status = "COMPLETED" => tool["write"] = "succeeded"
      PROVE  Quiet
  <2>1. Leave(k) \/ \E pc \in Pcs \ {"call", "wrap"} : Goto(k, pc)
    BY <1>8 DEF Finish, Pcs, SyncPcs
  <2>2. Settle(row, status) \/ UNCHANGED durable
    BY <1>8 DEF Finish
  <2>3. CASE Settle(row, status)
    BY <1>1, <1>2, <1>8, <2>1, <2>3, GotoQuiet, LeaveQuiet, SettleQuiet DEF QuietStatus
  <2>4. CASE UNCHANGED durable
    BY <1>1, <2>1, <2>4, GotoQuiet, LeaveQuiet DEF durable, QuietTools, QuietStatus
  <2>. QED
    BY <2>2, <2>3, <2>4
<1>9. CASE Complete(k) \/ Fail(k) \/ TimeOut(k)
  BY <1>3, <1>8, <1>9 DEF Complete, Fail, TimeOut, Terminal, WriteInv, WrapHasWrite
<1>10. CASE DeadlineFires(k) \/ DeliverCancel(k)
  <2>1. /\ tool' = Interrupted(k) /\ calls' = calls /\ row' = row
        /\ (Leave(k) \/ \E pc \in Pcs \ {"call", "wrap"} : Goto(k, pc))
    BY <1>10 DEF DeadlineFires, DeliverCancel, Pcs, SyncPcs
  <2>. QED
    BY <1>1, <1>3, <2>1, GotoQuiet, LeaveQuiet, InterruptedQuiet DEF QuietStatus
<1>11. CASE Insert(k)
  <2>1. row' = row
    BY <1>11 DEF Insert
  <2>2. CASE tool[t] # "absent"
    <3>1. /\ UNCHANGED <<tool, calls>>
          /\ task' = [task EXCEPT ![k] = At(task[k], IF tool[t] = "succeeded" THEN After(t)
                                                                              ELSE "fail")]
      BY <1>11, <2>2 DEF Insert, Children, Goto
    <3>2. \A j \in Slots : task'[j].pc = "call" => task'[j] = task[j]
      BY <1>2, <3>1 DEF At, After
    <3>3. OneCaller' /\ CallerUnfinished'
      BY <3>1, <3>2 DEF WriteInv, OneCaller, CallerUnfinished
    <3>4. WrapHasWrite'
      BY <1>2, <3>1 DEF WriteInv, WrapHasWrite, At, After, Tools
    <3>. QED
      BY <1>1, <2>1, <3>1, <3>3, <3>4 DEF WriteInv, Typed, CallsCounted, CompletedHasWrite
  <2>3. CASE tool[t] = "absent"
    <3>1. /\ tool' = [tool EXCEPT ![t] = "running"]
          /\ calls' = [calls EXCEPT ![t] = calls[t] + 1]
          /\ task' = [task EXCEPT ![k] = At(task[k], "call")]
      BY <1>11, <2>3 DEF Insert, Goto
    <3>2. \A j \in Slots : task[j].pc = "call" => task[j].tool # t
      BY <2>3 DEF WriteInv, CallerUnfinished
    <3>3. \A j \in Slots : task'[j].pc = "call" => j = k \/ task'[j] = task[j]
      BY <1>2, <3>1
    <3>4. task'[k].tool = t
      BY <1>2, <3>1 DEF At
    <3>5. OneCaller'
      BY <3>2, <3>3, <3>4 DEF WriteInv, OneCaller
    <3>6. CallerUnfinished'
      BY <1>2, <3>1, <3>2, <3>3, <3>4 DEF WriteInv, CallerUnfinished, TypeOK, Tasks
    <3>7. WrapHasWrite' /\ CompletedHasWrite'
      BY <1>2, <2>1, <2>3, <3>1 DEF WriteInv, WrapHasWrite, CompletedHasWrite, At
    <3>8. CallsCounted'
      BY <1>2, <2>3, <3>1 DEF WriteInv, CallsCounted
    <3>. QED
      BY <1>1, <3>5, <3>6, <3>7, <3>8 DEF WriteInv, Typed
  <2>. QED
    BY <2>2, <2>3
<1>12. ASSUME NEW outcome \in {"succeeded", "failed", "timed_out"}, FinishTool(k, outcome)
       PROVE  WriteInv'
  <2>1. /\ task[k].pc = "call" /\ row' = row /\ calls' = calls
        /\ tool' = [tool EXCEPT ![t] = ToolFinish(tool[t], outcome)]
        /\ task' = [task EXCEPT ![k] = At(task[k], IF tool'[t] = "succeeded" THEN After(t)
                                  ELSE IF tool'[t] = "timed_out" THEN "timeout" ELSE "fail")]
    BY <1>12 DEF FinishTool, Turn, Goto
  <2>2. tool'[t] # "absent" /\ tool[t] \notin {"absent", "succeeded"}
    BY <1>2, <2>1 DEF WriteInv, CallerUnfinished, ToolFinish
  <2>3. \A j \in Slots : task'[j].pc = "call" => task'[j] = task[j] /\ task[j].tool # t
    BY <1>2, <2>1 DEF WriteInv, OneCaller, At, After
  <2>4. OneCaller'
    BY <2>3 DEF WriteInv, OneCaller
  <2>5. CallerUnfinished'
    BY <1>2, <2>1, <2>3 DEF WriteInv, CallerUnfinished
  <2>6. WrapHasWrite'
    <3>1. ASSUME NEW j \in Slots, task'[j].pc = "wrap" PROVE tool'["write"] = "succeeded"
      <4>1. CASE j = k
        BY <1>2, <2>1, <3>1, <4>1 DEF At, After, Tools
      <4>2. CASE j # k
        BY <1>2, <2>1, <2>2, <3>1, <4>2 DEF WriteInv, WrapHasWrite
      <4>. QED
        BY <4>1, <4>2
    <3>. QED
      BY <3>1 DEF WrapHasWrite
  <2>7. CompletedHasWrite' /\ CallsCounted'
    BY <1>2, <2>1, <2>2 DEF WriteInv, CompletedHasWrite, CallsCounted
  <2>. QED
    BY <1>1, <2>4, <2>5, <2>6, <2>7 DEF WriteInv, Typed
<1>. QED
  BY <1>4, <1>5, <1>6, <1>7, <1>9, <1>10, <1>11, <1>12 DEF TaskStep

LEMMA WriteOther ==
  ASSUME WriteInv, NEW w \in Workers, NEW k \in Slots,
         \/ Recover(w) \/ Process(w) \/ Heartbeat(k)
         \/ Tick \/ DeadlinePasses \/ ContinuationLapses \/ UNCHANGED vars
  PROVE  WriteInv'
<1>1. Typed /\ TypeOK /\ row \in Rows
  BY DEF WriteInv, Typed, TypeOK
<1>2. Typed'
  <2>1. [Next]_vars
    BY DEF Next
  <2>. QED
    BY <1>1, <2>1, TypedNext
<1>. SUFFICES QuietTasks /\ QuietTools /\ QuietStatus
  BY <1>2, WriteKept
<1>3. CASE RecoverSettle(w)
  <2>1. /\ RecoveryStatus \in Terminal /\ Settle(row, RecoveryStatus) /\ UNCHANGED task
        /\ RecoveryStatus = "COMPLETED" => tool["write"] = "succeeded"
    BY <1>3 DEF RecoverSettle, RecoveryStatus, Terminal
  <2>. QED
    BY <1>1, <2>1, SettleQuiet DEF QuietTasks, QuietStatus
<1>4. CASE RecoverRelaunch(w)
  <2>1. /\ row'.status = row.status /\ calls' = calls /\ Launched(w, row'.attempt)
        /\ tool' = [t \in Tools |-> IF tool[t] = "running" THEN "lost" ELSE tool[t]]
    BY <1>4 DEF RecoverRelaunch
  <2>. QED
    BY <1>1, <2>1, LaunchedQuiet DEF QuietTools, QuietStatus
<1>5. CASE Heartbeat(k)
  <2>1. row'.status = row.status /\ UNCHANGED <<tool, calls>>
    BY <1>5 DEF Heartbeat, Claimed, Children
  <2>2. QuietTasks
    <3>1. CASE UNCHANGED task
      BY <3>1 DEF QuietTasks
    <3>2. CASE ~UNCHANGED task
      <4>1. task[k].worker \in Workers
        BY <1>1, <1>5 DEF Heartbeat, Typed, TypeOK, TaskHasWorker, Tasks
      <4>2. \A j \in Slots : task'[j] \in {KillLatest(task[k].worker)[j],
                                          Heartless(KillLatest(task[k].worker)[j])}
        BY <1>5, <3>2 DEF Heartbeat
      <4>3. \A j \in Slots : KillLatest(task[k].worker)[j] \in {task[j], Cancelled(task[j])}
        BY <1>1, <4>1, KillLatestType
      <4>4. ASSUME NEW j \in Slots, task'[j].pc \in {"call", "wrap"}
            PROVE  task[j].pc = task'[j].pc /\ task[j].tool = task'[j].tool
        <5>1. /\ task'[j].pc = KillLatest(task[k].worker)[j].pc
              /\ task'[j].tool = KillLatest(task[k].worker)[j].tool
          BY <4>2 DEF Heartless
        <5>2. \/ Cancelled(task[j]).pc = task[j].pc /\ Cancelled(task[j]).tool = task[j].tool
              \/ Cancelled(task[j]).pc = "done"
          BY DEF Cancelled, Finished
        <5>. QED
          BY <4>3, <4>4, <5>1, <5>2
      <4>. QED
        BY <4>4 DEF QuietTasks
    <3>. QED
      BY <3>1, <3>2
  <2>. QED
    BY <2>1, <2>2 DEF QuietTools, QuietStatus
<1>6. CASE WorkerUp(w)
  BY <1>6 DEF WorkerUp, durable, QuietTasks, QuietTools, QuietStatus
<1>7. CASE Crash(w) \/ Shutdown(w)
  <2>1. Gone(w) /\ row' = row /\ calls' = calls
    BY <1>7 DEF Crash, Shutdown, durable
  <2>2. QuietTasks
    BY <2>1 DEF Gone, QuietTasks, Finished
  <2>3. QuietTools
    <3>1. CASE UNCHANGED tool
      BY <2>1, <3>1 DEF QuietTools
    <3>2. CASE ~UNCHANGED tool
      <4>1. tool' = Interrupted(latest[w]) /\ latest[w] \in Slots
        <5>1. tool' = Interrupted(latest[w]) /\ latest[w] # 0
          BY <1>7, <3>2 DEF Crash, Shutdown, durable
        <5>2. latest[w] \in 0 .. MaxTasks
          BY <1>1 DEF TypeOK
        <5>. QED
          BY <5>1, <5>2, TaskAssumption DEF Slots
      <4>. QED
        BY <2>1, <4>1, InterruptedQuiet
    <3>. QED
      BY <3>1, <3>2
  <2>. QED
    BY <2>1, <2>2, <2>3 DEF QuietStatus
<1>8. CASE Tick \/ DeadlinePasses \/ ContinuationLapses \/ UNCHANGED vars
  BY <1>8 DEF Tick, Aged, DeadlinePasses, ContinuationLapses, NotYet, Children, memory, durable,
              vars, QuietTasks, QuietTools, QuietStatus
<1>. QED
  BY <1>3, <1>4, <1>5, <1>6, <1>7, <1>8 DEF Recover, Process

LEMMA WriteNext == WriteInv /\ [Next]_vars => WriteInv'
<1>1. Slots # {} /\ Workers # {}
  BY TaskAssumption, StableAssumption DEF Slots
<1>. QED
  BY <1>1, WriteRequest, WriteTaskStep, WriteOther DEF Next

\* The issue is created at most once per execution: no interleaving of pauses,
\* continuations, cancellations, crashes, recoveries and relaunches sends the write
\* a second time.
THEOREM WriteAtMostOnce == Spec => []WriteSentAtMostOnce
<1>1. Spec => []WriteInv
  BY WriteInit, WriteNext, PTL DEF Spec
<1>2. WriteInv => WriteSentAtMostOnce
  BY DEF WriteInv, CallsCounted, WriteSentAtMostOnce, Tools
<1>. QED
  BY <1>1, <1>2, PTL

\* An execution that is reported complete has its issue.
THEOREM CompletedCorrect == Spec => []CompletedHasWrite
<1>1. Spec => []WriteInv
  BY WriteInit, WriteNext, PTL DEF Spec
<1>. QED
  BY <1>1, PTL DEF WriteInv
-----------------------------------------------------------------------------
\* What is answered, and what is announced

KeptAnswers ==
  \A t \in Tools : tool[t] \in {"succeeded", "cancelled", "timed_out"} => tool'[t] = tool[t]

LEMMA AnswersStep == WriteInv /\ [Next]_vars => KeptAnswers
<1>. SUFFICES ASSUME WriteInv, [Next]_vars PROVE KeptAnswers
  OBVIOUS
<1>1. /\ tool \in [Tools -> ToolStatuses] /\ \A k \in Slots : task[k].tool \in Tools
      /\ latest \in [Workers -> 0 .. MaxTasks]
  BY DEF WriteInv, TypeOK, Tasks
<1>2. CASE UNCHANGED tool
  BY <1>2 DEF KeptAnswers
<1>3. ASSUME NEW status, tool' = Reconciled(status) PROVE KeptAnswers
  BY <1>1, <1>3 DEF KeptAnswers, Reconciled
<1>4. ASSUME NEW k \in Slots, tool' = Interrupted(k) PROVE KeptAnswers
  BY <1>1, <1>4 DEF KeptAnswers, Interrupted, ToolFinish, WriteInv, CallerUnfinished
<1>5. ASSUME NEW k \in Slots, TaskStep(k) PROVE KeptAnswers
  <2>1. CASE Insert(k)
    BY <1>1, <2>1 DEF Insert, Children, KeptAnswers
  <2>2. ASSUME NEW outcome \in {"succeeded", "failed", "timed_out"}, FinishTool(k, outcome)
        PROVE  KeptAnswers
    BY <1>1, <2>2 DEF FinishTool, Turn, ToolFinish, KeptAnswers, WriteInv, CallerUnfinished
  <2>3. CASE Complete(k) \/ Fail(k) \/ TimeOut(k)
    BY <1>2, <1>3, <2>3 DEF Complete, Fail, TimeOut, Finish, Settle, durable
  <2>4. CASE DeadlineFires(k) \/ DeliverCancel(k)
    BY <1>4, <2>4 DEF DeadlineFires, DeliverCancel
  <2>5. CASE \/ TaskStart(k) \/ BeginRead(k) \/ WorkFails(k) \/ GatePause(k) \/ GateWrite(k)
             \/ PauseCommit(k) \/ EndTask(k)
    BY <1>2, <2>5 DEF TaskStart, BeginRead, WorkFails, GatePause, GateWrite, PauseCommit, EndTask,
                      Children, durable
  <2>. QED
    BY <1>5, <2>1, <2>2, <2>3, <2>4, <2>5 DEF TaskStep
<1>6. ASSUME NEW w \in Workers, Request(w) PROVE KeptAnswers
  BY <1>2, <1>3, <1>6 DEF Request, StartInsert, StartClaim, StartRun, CancelRead, CancelCommit,
       Continue, ContinueRejected, Expire, Settle, Children, durable
<1>7. ASSUME NEW w \in Workers, Recover(w) PROVE KeptAnswers
  <2>1. CASE RecoverSettle(w)
    BY <1>3, <2>1 DEF RecoverSettle, Settle
  <2>2. CASE RecoverRelaunch(w)
    BY <1>1, <2>2 DEF RecoverRelaunch, KeptAnswers
  <2>. QED
    BY <1>7, <2>1, <2>2 DEF Recover
<1>8. ASSUME NEW w \in Workers, Process(w) PROVE KeptAnswers
  <2>1. latest[w] # 0 => latest[w] \in Slots
    BY <1>1, TaskAssumption DEF Slots
  <2>. QED
    BY <1>2, <1>4, <1>8, <2>1 DEF Process, WorkerUp, Crash, Shutdown, durable
<1>9. ASSUME NEW k \in Slots, Heartbeat(k) PROVE KeptAnswers
  BY <1>2, <1>9 DEF Heartbeat, Children
<1>10. CASE Tick \/ DeadlinePasses \/ ContinuationLapses \/ UNCHANGED vars
  BY <1>2, <1>10 DEF Tick, DeadlinePasses, ContinuationLapses, Children, vars, durable
<1>. QED
  BY <1>5, <1>6, <1>7, <1>8, <1>9, <1>10 DEF Next

\* What a connector has answered, or a cancellation or a timeout has recorded for it,
\* is what the record says ever after.
THEOREM AnswersStay == Spec => AnswersKept
<1>1. Spec => []WriteInv
  BY WriteInit, WriteNext, PTL DEF Spec
<1>2. WriteInv /\ [Next]_vars => [KeptAnswers]_vars
  BY AnswersStep
<1>. QED
  BY <1>1, <1>2, PTL DEF Spec, AnswersKept, KeptAnswers

\* A step either leaves the announcement alone, and then makes no row terminal, or it
\* is the first to announce an end, which the row then has.
RowQuiet ==
  /\ final' = final
  /\ \/ row'.status = row.status /\ (row.status \in Waiting => row'.owner = row.owner)
     \/ row'.status \in {"PENDING", "RUNNING"}
     \/ row'.status \in Waiting /\ row'.owner = Nobody
RowEnds == final = "none" /\ final' \in Terminal /\ row'.status = final'

LEMMA SettleEnds ==
  ASSUME NEW loaded \in Rows, NEW status \in Terminal, row \in Rows,
         CanSettle(status), Settle(loaded, status), loaded.status # status
  PROVE  RowEnds
<1>1. final = "none" /\ final' = status
  BY DEF CanSettle, Settle
<1>. QED
  BY <1>1, SettledStatus DEF RowEnds

\* What a flush of a row moved to some status leaves in the columns it writes.
LEMMA FlushMoved ==
  ASSUME NEW db \in Rows, NEW loaded \in Rows, NEW status \in Statuses,
         loaded.status # status
  PROVE  /\ Flush(db, loaded, Moved(loaded, status)).status = status
         /\ status \in Waiting /\ loaded.owner # Nobody
              => Flush(db, loaded, Moved(loaded, status)).owner = Nobody
BY DEF Flush, Moved, Rows

LEMMA RowRequest ==
  ASSUME WaitInv, NEW w \in Workers, Request(w)
  PROVE  RowQuiet \/ RowEnds
<1>1. row \in Rows /\ snap[w] \in Rows
  BY DEF WaitInv, TypeOK
<1>2. CASE StartInsert(w) \/ CancelRead(w) \/ ContinueRejected(w)
  BY <1>2 DEF StartInsert, CancelRead, ContinueRejected, Moved, durable, RowQuiet
<1>3. CASE StartClaim(w)
  BY <1>3 DEF StartClaim, Claimed, RowQuiet, Waiting
<1>4. CASE StartRun(w)
  <2>1. /\ final' = final
        /\ row' = row \/ row' = Flush(row, snap[w], Moved(snap[w], "RUNNING"))
    BY <1>4 DEF StartRun
  <2>2. snap[w].status = "PENDING"
    BY <1>4 DEF StartRun, WaitInv, StartingAlone
  <2>3. Flush(row, snap[w], Moved(snap[w], "RUNNING")).status = "RUNNING"
    BY <1>1, <2>2, FlushMoved DEF Statuses
  <2>. QED
    BY <2>1, <2>3 DEF RowQuiet
<1>5. CASE CancelCommit(w)
  <2>1. CASE UNCHANGED durable
    BY <2>1 DEF durable, RowQuiet
  <2>2. CASE ~UNCHANGED durable
    <3>1. CanSettle("CANCELLED") /\ Settle(snap[w], "CANCELLED")
      BY <1>5, <2>2 DEF CancelCommit
    <3>2. snap[w].status # "CANCELLED"
      BY <1>5 DEF CancelCommit, WaitInv, Cancelling, Terminal
    <3>. QED
      BY <1>1, <3>1, <3>2, SettleEnds DEF Terminal
  <2>. QED
    BY <2>1, <2>2
<1>6. ASSUME NEW decision \in {"input", "approve", "deny"}, Continue(w, decision)
      PROVE  RowQuiet
  BY <1>6 DEF Continue, Moved, RowQuiet
<1>7. CASE Expire(w)
  BY <1>1, <1>7, SettleEnds DEF Expire, Waiting, Terminal
<1>. QED
  BY <1>2, <1>3, <1>4, <1>5, <1>6, <1>7 DEF Request

LEMMA RowTaskStep ==
  ASSUME WaitInv, NEW k \in Slots, TaskStep(k)
  PROVE  RowQuiet \/ RowEnds
<1>. DEFINE w == task[k].worker
<1>1. w \in Workers /\ row \in Rows /\ snap[w] \in Rows
  BY TaskStepFrame DEF WaitInv, Typed, TypeOK
<1>2. ASSUME NEW status \in Terminal, Finish(k, status) PROVE RowQuiet \/ RowEnds
  <2>1. CASE UNCHANGED durable
    BY <2>1 DEF durable, RowQuiet
  <2>2. CASE ~UNCHANGED durable
    <3>1. /\ Settle(row, status) /\ CanSettle(status) /\ ValidTransition(row.status, status)
      BY <1>2, <2>2 DEF Finish
    <3>2. row.status # status
      BY <3>1 DEF ValidTransition, Terminal
    <3>. QED
      BY <1>1, <3>1, <3>2, SettleEnds
  <2>. QED
    BY <2>1, <2>2
<1>3. CASE Complete(k) \/ Fail(k) \/ TimeOut(k)
  BY <1>2, <1>3 DEF Complete, Fail, TimeOut, Terminal
<1>4. CASE PauseCommit(k)
  <2>1. final' = final
    BY <1>4 DEF PauseCommit
  <2>2. CASE UNCHANGED row
    BY <2>1, <2>2 DEF RowQuiet
  <2>3. CASE ~UNCHANGED row
    <3>1. PICK status \in Waiting :
            /\ snap[w].status = "RUNNING" /\ snap[w].owner = w
            /\ row' = Flush(row, snap[w], Moved(snap[w], status))
      BY <1>4, <2>3 DEF PauseCommit, LeaseHeld, WaitStatus, Waiting
    <3>2. w # Nobody /\ status \in Statuses /\ status # "RUNNING"
      BY <1>1, NobodyAssumption DEF Statuses, Waiting
    <3>3. row'.status = status /\ row'.owner = Nobody
      BY <1>1, <3>1, <3>2, FlushMoved
    <3>. QED
      BY <2>1, <3>3 DEF RowQuiet
  <2>. QED
    BY <2>2, <2>3
<1>5. CASE \/ TaskStart(k) \/ BeginRead(k) \/ WorkFails(k) \/ Insert(k) \/ GatePause(k)
           \/ GateWrite(k) \/ DeadlineFires(k) \/ DeliverCancel(k) \/ EndTask(k)
  BY <1>5 DEF TaskStart, BeginRead, WorkFails, Insert, GatePause, GateWrite, DeadlineFires,
              DeliverCancel, EndTask, durable, RowQuiet
<1>6. ASSUME NEW outcome \in {"succeeded", "failed", "timed_out"}, FinishTool(k, outcome)
      PROVE  RowQuiet
  BY <1>6 DEF FinishTool, RowQuiet
<1>. QED
  BY <1>3, <1>4, <1>5, <1>6 DEF TaskStep

LEMMA RowStep == WaitInv /\ [Next]_vars => RowQuiet \/ RowEnds
<1>. SUFFICES ASSUME WaitInv, [Next]_vars PROVE RowQuiet \/ RowEnds
  OBVIOUS
<1>1. row \in Rows
  BY DEF WaitInv, TypeOK
<1>2. ASSUME NEW w \in Workers, Recover(w) PROVE RowQuiet \/ RowEnds
  <2>1. CASE RecoverSettle(w)
    <3>1. /\ RecoveryStatus \in Terminal /\ row.status = "RUNNING"
          /\ CanSettle(RecoveryStatus) /\ Settle(row, RecoveryStatus)
      BY <2>1 DEF RecoverSettle, RecoveryStatus, Stale, Terminal
    <3>. QED
      BY <1>1, <3>1, SettleEnds DEF Terminal
  <2>2. CASE RecoverRelaunch(w)
    BY <2>2 DEF RecoverRelaunch, Stale, RowQuiet
  <2>. QED
    BY <1>2, <2>1, <2>2 DEF Recover
<1>3. ASSUME NEW w \in Workers, Process(w) PROVE RowQuiet
  BY <1>3 DEF Process, WorkerUp, Crash, Shutdown, durable, RowQuiet
<1>4. ASSUME NEW k \in Slots, Heartbeat(k) PROVE RowQuiet
  BY <1>4 DEF Heartbeat, Claimed, RowQuiet
<1>5. CASE Tick \/ DeadlinePasses \/ ContinuationLapses \/ UNCHANGED vars
  BY <1>5 DEF Tick, Aged, DeadlinePasses, ContinuationLapses, memory, vars, durable, RowQuiet
<1>. QED
  BY <1>2, <1>3, <1>4, <1>5, RowRequest, RowTaskStep DEF Next

\* The end a row has is the announced one.
EndAnnounced == row.status \in Terminal => row.status = final
EndInv == WaitInv /\ WaitingIsFree /\ EndAnnounced
EndStep == final # "none" => final' = final /\ (row'.status \in Terminal => row'.status = final)

LEMMA EndInit == Init => EndInv
BY WaitInit DEF Init, EndInv, WaitingIsFree, EndAnnounced, NoRow, Waiting, Terminal

LEMMA EndNext == EndInv /\ [Next]_vars => EndInv' /\ EndStep
<1>. SUFFICES ASSUME EndInv, [Next]_vars PROVE EndInv' /\ EndStep
  OBVIOUS
<1>1. WaitInv' /\ (RowQuiet \/ RowEnds)
  BY WaitNext, RowStep DEF EndInv
<1>2. WaitingIsFree'
  BY <1>1 DEF EndInv, WaitingIsFree, RowQuiet, RowEnds, Waiting, Terminal
<1>3. EndAnnounced' /\ EndStep
  BY <1>1 DEF EndInv, EndAnnounced, EndStep, RowQuiet, RowEnds, Waiting, Terminal
<1>. QED
  BY <1>1, <1>2, <1>3 DEF EndInv

\* A waiting execution is leased to nobody, so an answer can claim it.
THEOREM WaitingFree == Spec => []WaitingIsFree
<1>1. Spec => []EndInv
  BY EndInit, EndNext, PTL DEF Spec
<1>. QED
  BY <1>1, PTL DEF EndInv

\* An execution has one announced end, and no other end is ever written into its row.
THEOREM EndAnnouncedOnce == Spec => AnnouncedOnce
<1>1. Spec => []EndInv
  BY EndInit, EndNext, PTL DEF Spec
<1>2. EndInv /\ [Next]_vars => [EndStep]_vars
  BY EndNext
<1>. QED
  BY <1>1, <1>2, PTL DEF Spec, AnnouncedOnce, EndStep
=============================================================================
