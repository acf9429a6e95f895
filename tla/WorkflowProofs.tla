---------------------------- MODULE WorkflowProofs ----------------------------
(***************************************************************************)
(* Theorems about WorkflowEngine, for any tasks, dependency graphs,        *)
(* approvals, retries and size of the semaphore.                           *)
(***************************************************************************)
EXTENDS WorkflowEngine, SequenceTheorems, TLAPS

USE TaskAssumption, RetryAssumption, LimitAssumption

Active == Places \ {"idle", "done", "stopped"}
Gated  == {"granted", "agent", "returned", "completing", "done"}

(* A task that is under way belongs to the batch that runs.                  *)
Placed(p, t) == /\ p \in Active => engine = "batch" /\ t \in batch
                /\ p = "stopped" => engine = "ended"

(* A task that waits for an approval, or has passed one, names the request   *)
(* of its present attempt.                                                   *)
Asked(t, p, n, i, rs) ==
  t \in RequiresApproval /\ p \in Gated \cup {"waiting"} =>
    /\ i \in 1 .. Len(rs) /\ rs[i].task = t /\ rs[i].attempt = n
    /\ p \in Gated => rs[i].granted = TRUE

Tracked == \A t \in Tasks :
  /\ Placed(pc[t], t)
  /\ pc[t] \in {"completing", "done"} => state[t] = "COMPLETED"
  /\ Asked(t, pc[t], attempt[t], waits[t], requests)

Counted == /\ \A t \in completed : pc[t] = "done"
           /\ \A t \in batch : pc[t] # "idle"
           /\ engine \in {"idle", "checking"} => completed = {}
           /\ workflow = "COMPLETED" => engine = "ended"

Recorded == \A i \in 1 .. Len(requests) :
  requests[i].status = "APPROVED" => requests[i].granted = TRUE

IInv == TypeOK /\ Tracked /\ Counted /\ Recorded

TaskStates == {"PENDING", "RUNNING"} \cup Ended

LEMMA InitInv == Init => IInv
<1> SUFFICES ASSUME Init PROVE IInv
  OBVIOUS
<1>1. /\ engine = "idle" /\ workflow = "PENDING" /\ completed = {} /\ batch = {}
      /\ pc = [t \in Tasks |-> "idle"] /\ state = [t \in Tasks |-> "PENDING"]
      /\ attempt = [t \in Tasks |-> 0] /\ waits = [t \in Tasks |-> 0] /\ requests = <<>>
      /\ dependsOn \in Plans /\ cancelled = FALSE /\ paused = FALSE
  BY DEF Init
<1>2. requests \in Seq(Requests) /\ Len(requests) = 0
  BY <1>1
<1>3. \A t \in Tasks : 0 <= MaxAttempts(t) /\ RetryCount[t] \in Nat
  BY DEF MaxAttempts
<1>4. TypeOK
  <2>1. /\ pc \in [Tasks -> Places] /\ state \in [Tasks -> {"PENDING", "RUNNING"} \cup Ended]
        /\ engine \in Engine /\ workflow \in States
    BY <1>1 DEF Engine, States, Places
  <2>2. /\ attempt \in [Tasks -> Nat] /\ waits \in [Tasks -> Nat]
        /\ \A t \in Tasks : attempt[t] <= MaxAttempts(t) /\ waits[t] <= Len(requests)
    BY <1>1, <1>2, <1>3
  <2>3. QED
    BY <1>1, <1>2, <2>1, <2>2 DEF TypeOK
<1>5. Tracked
  BY <1>1 DEF Tracked, Placed, Asked, Active, Gated
<1>6. Counted /\ Recorded
  BY <1>1, <1>2 DEF Counted, Recorded
<1>7. QED
  BY <1>4, <1>5, <1>6 DEF IInv
-----------------------------------------------------------------------------
(* A step of one task: what it writes, and what its new place must agree     *)
(* with.                                                                     *)
LEMMA Moved ==
  ASSUME IInv, NEW t \in Tasks, pc[t] \in Active,
         NEW p \in Places \ {"idle", "stopped"}, NEW s \in TaskStates, NEW n \in Nat, NEW i \in Nat,
         n <= MaxAttempts(t),
         pc' = [pc EXCEPT ![t] = p], state' = [state EXCEPT ![t] = s],
         attempt' = [attempt EXCEPT ![t] = n], waits' = [waits EXCEPT ![t] = i],
         requests' \in Seq(Requests), Len(requests) <= Len(requests'), i <= Len(requests'),
         \A k \in 1 .. Len(requests) : requests'[k] = requests[k],
         Recorded', workflow' \in States \ {"COMPLETED"},
         UNCHANGED <<engine, graph, token>>,
         p \in {"completing", "done"} => s = "COMPLETED",
         Asked(t, p, n, i, requests')
  PROVE  IInv'
<1>1. engine = "batch" /\ t \in batch
  BY DEF IInv, Tracked, Placed
<1>2. UNCHANGED <<engine, dependsOn, completed, batch, cancelled, paused>>
  BY DEF graph, token
<1>3. /\ pc' \in [Tasks -> Places] /\ state' \in [Tasks -> TaskStates]
      /\ attempt' \in [Tasks -> Nat] /\ waits' \in [Tasks -> Nat]
      /\ pc'[t] = p /\ state'[t] = s /\ attempt'[t] = n /\ waits'[t] = i
      /\ \A u \in Tasks : u # t => /\ pc'[u] = pc[u] /\ state'[u] = state[u]
                                   /\ attempt'[u] = attempt[u] /\ waits'[u] = waits[u]
  BY DEF IInv, TypeOK, TaskStates
<1>4. Len(requests) \in Nat /\ Len(requests') \in Nat
  BY DEF IInv, TypeOK
<1>5. TypeOK'
  <2>1. \A u \in Tasks : attempt'[u] <= MaxAttempts(u)'
    BY <1>3 DEF IInv, TypeOK, MaxAttempts
  <2>2. \A u \in Tasks : waits'[u] <= Len(requests')
    <3>1. ASSUME NEW u \in Tasks, u # t PROVE waits'[u] <= Len(requests')
      <4>1. waits'[u] = waits[u] /\ waits[u] \in Nat /\ waits[u] <= Len(requests)
        BY <1>3, <3>1 DEF IInv, TypeOK
      <4>2. QED
        BY <1>4, <4>1
    <3>2. QED
      BY <1>3, <3>1
  <2>3. QED
    BY <1>2, <1>3, <2>1, <2>2 DEF IInv, TypeOK, TaskStates
<1>6. Tracked'
  <2>1. ASSUME NEW u \in Tasks
        PROVE  /\ Placed(pc[u], u)' /\ (pc'[u] \in {"completing", "done"} => state'[u] = "COMPLETED")
               /\ Asked(u, pc'[u], attempt'[u], waits'[u], requests')
    <3>1. CASE u = t
      BY <1>1, <1>2, <1>3, <3>1 DEF Placed
    <3>2. CASE u # t
      <4>1. /\ Placed(pc[u], u) /\ (pc[u] \in {"completing", "done"} => state[u] = "COMPLETED")
            /\ Asked(u, pc[u], attempt[u], waits[u], requests)
        BY DEF IInv, Tracked
      <4>2. Asked(u, pc[u], attempt[u], waits[u], requests')
        BY <1>4, <4>1 DEF Asked
      <4>3. QED
        BY <1>2, <1>3, <3>2, <4>1, <4>2 DEF Placed
    <3>3. QED
      BY <3>1, <3>2
  <2>2. QED
    BY <2>1 DEF Tracked
<1>7. Counted'
  <2>1. t \notin completed
    BY DEF IInv, Counted, Active
  <2>2. completed \subseteq Tasks /\ batch \subseteq Tasks
    BY DEF IInv, TypeOK
  <2>3. QED
    BY <1>1, <1>2, <1>3, <2>1, <2>2 DEF IInv, Counted
<1>8. QED
  BY <1>5, <1>6, <1>7 DEF IInv

LEMMA Raised ==
  ASSUME IInv, NEW t \in Tasks, pc[t] \in Active, Raise(t),
         UNCHANGED <<state, attempt, waits, requests, token>>
  PROVE  IInv'
<1>1. engine = "batch" /\ t \in batch
  BY DEF IInv, Tracked, Placed
<1>2. /\ engine' = "ended" /\ workflow' = "FAILED"
      /\ UNCHANGED <<dependsOn, completed, batch, cancelled, paused>>
  BY DEF Raise, graph, token
<1>3. /\ pc' \in [Tasks -> Places]
      /\ \A u \in Tasks : pc'[u] = pc[u] \/ (pc'[u] = "stopped" /\ u \in batch /\ pc[u] # "done")
      /\ \A u \in Tasks : pc'[u] \notin Active
  <2>1. \A u \in Tasks : pc[u] \in Active => u \in batch
    BY DEF IInv, Tracked, Placed
  <2>2. \A u \in Tasks : pc'[u] = IF u \in batch /\ pc[u] # "done" THEN "stopped" ELSE pc[u]
    BY DEF Raise
  <2>3. \A u \in Tasks : pc'[u] \notin Active
    BY <2>1, <2>2 DEF Active
  <2>4. pc' \in [Tasks -> Places]
    BY DEF Raise, IInv, TypeOK, Places
  <2>5. QED
    BY <2>2, <2>3, <2>4
<1>4. TypeOK'
  BY <1>2, <1>3 DEF IInv, TypeOK, Engine, States, MaxAttempts
<1>5. Tracked'
  <2>1. ASSUME NEW u \in Tasks
        PROVE  /\ Placed(pc[u], u)' /\ (pc'[u] \in {"completing", "done"} => state'[u] = "COMPLETED")
               /\ Asked(u, pc'[u], attempt'[u], waits'[u], requests')
    <3>1. /\ Placed(pc[u], u) /\ (pc[u] \in {"completing", "done"} => state[u] = "COMPLETED")
          /\ Asked(u, pc[u], attempt[u], waits[u], requests)
      BY DEF IInv, Tracked
    <3>2. CASE pc'[u] = pc[u]
      BY <1>2, <1>3, <3>1, <3>2 DEF Placed
    <3>3. CASE pc'[u] = "stopped"
      BY <1>2, <1>3, <3>3 DEF Placed, Asked, Gated
    <3>4. QED
      BY <1>3, <3>2, <3>3
  <2>2. QED
    BY <2>1 DEF Tracked
<1>6. Counted' /\ Recorded'
  <2>1. completed \subseteq Tasks /\ batch \subseteq Tasks
    BY DEF IInv, TypeOK
  <2>2. QED
    BY <1>2, <1>3, <2>1 DEF IInv, Counted, Recorded
<1>7. QED
  BY <1>4, <1>5, <1>6 DEF IInv
(* A step of one task that asks nobody and leaves the workflow's state.      *)
LEMMA Proceeded ==
  ASSUME IInv, NEW t \in Tasks, pc[t] \in Active,
         NEW p \in Places \ {"idle", "stopped"}, NEW s \in TaskStates, NEW n \in Nat,
         n <= MaxAttempts(t),
         pc' = [pc EXCEPT ![t] = p], state' = [state EXCEPT ![t] = s],
         attempt' = [attempt EXCEPT ![t] = n],
         workflow' \in States \ {"COMPLETED"},
         UNCHANGED <<engine, graph, waits, requests, token>>,
         p \in {"completing", "done"} => s = "COMPLETED",
         Asked(t, p, n, waits[t], requests)
  PROVE  IInv'
<1>1. waits' = [waits EXCEPT ![t] = waits[t]] /\ waits[t] \in Nat /\ waits[t] <= Len(requests)
  BY DEF IInv, TypeOK
<1>2. requests' = requests /\ requests \in Seq(Requests) /\ Len(requests) \in Nat
  BY DEF IInv, TypeOK
<1>3. Recorded'
  BY <1>2 DEF IInv, Recorded
<1>4. /\ requests' \in Seq(Requests) /\ Len(requests) <= Len(requests')
      /\ waits[t] <= Len(requests') /\ \A k \in 1 .. Len(requests) : requests'[k] = requests[k]
      /\ Asked(t, p, n, waits[t], requests')
  BY <1>1, <1>2
<1> DEFINE i == waits[t]
<1>5. waits' = [waits EXCEPT ![t] = i] /\ i \in Nat /\ i <= Len(requests')
      /\ Asked(t, p, n, i, requests')
  BY <1>1, <1>4
<1> HIDE DEF i
<1>6. QED
  BY <1>3, <1>4, <1>5, Moved

(* What is known of a task that is under way.                                *)
LEMMA Under ==
  ASSUME IInv, NEW t \in Tasks, pc[t] \in Active
  PROVE  /\ engine = "batch" /\ t \in batch /\ workflow \in States \ {"COMPLETED"}
         /\ pc = [pc EXCEPT ![t] = pc[t]] /\ state = [state EXCEPT ![t] = state[t]]
         /\ attempt = [attempt EXCEPT ![t] = attempt[t]]
         /\ state[t] \in TaskStates /\ attempt[t] \in Nat /\ attempt[t] <= MaxAttempts(t)
         /\ waits[t] \in Nat /\ waits[t] <= Len(requests)
         /\ (pc[t] \in {"completing", "done"} => state[t] = "COMPLETED")
         /\ Asked(t, pc[t], attempt[t], waits[t], requests)
<1>1. engine = "batch" /\ t \in batch
  BY DEF IInv, Tracked, Placed
<1>2. workflow \in States \ {"COMPLETED"}
  BY <1>1 DEF IInv, TypeOK, Counted
<1>3. /\ pc = [pc EXCEPT ![t] = pc[t]] /\ state = [state EXCEPT ![t] = state[t]]
      /\ attempt = [attempt EXCEPT ![t] = attempt[t]] /\ state[t] \in TaskStates
      /\ attempt[t] \in Nat /\ attempt[t] <= MaxAttempts(t)
      /\ waits[t] \in Nat /\ waits[t] <= Len(requests)
  BY DEF IInv, TypeOK, TaskStates
<1>4. /\ (pc[t] \in {"completing", "done"} => state[t] = "COMPLETED")
      /\ Asked(t, pc[t], attempt[t], waits[t], requests)
  BY DEF IInv, Tracked
<1>5. QED
  BY <1>1, <1>2, <1>3, <1>4

LEMMA FailTaskKept ==
  ASSUME IInv, NEW t \in Tasks, pc[t] \in Active,
         NEW ended \in {"TIMED_OUT", "FAILED", "CANCELLED"}, FailTask(t, ended)
  PROVE  IInv'
<1>1. pc' = [pc EXCEPT ![t] = "failing"] /\ state' = [state EXCEPT ![t] = ended]
  BY DEF FailTask, Goto
<1>2. Asked(t, "failing", attempt[t], waits[t], requests)
  BY DEF Asked, Gated
<1>3. "failing" \in Places \ {"idle", "stopped"} /\ ended \in TaskStates
  BY DEF Places, TaskStates, Ended
<1>4. UNCHANGED <<engine, workflow, graph, attempt, waits, requests, token>>
  BY DEF FailTask
<1>5. QED
  BY <1>1, <1>2, <1>3, <1>4, Under, Proceeded

LEMMA AgainKept ==
  ASSUME IInv, NEW t \in Tasks, pc[t] \in Active, NEW p \in {"started", "retrying"}, Again(t, p)
  PROVE  IInv'
<1>1. pc' = [pc EXCEPT ![t] = p] /\ attempt' = [attempt EXCEPT ![t] = attempt[t] + 1]
  BY DEF Again, Goto
<1>2. attempt[t] + 1 \in Nat /\ attempt[t] + 1 <= MaxAttempts(t)
  BY Under DEF Again, MaxAttempts
<1>3. Asked(t, p, attempt[t] + 1, waits[t], requests) /\ p \notin {"completing", "done"}
  BY DEF Asked, Gated
<1>4. p \in Places \ {"idle", "stopped"}
  BY DEF Places
<1>5. UNCHANGED <<engine, workflow, graph, state, waits, requests, token>>
  BY DEF Again
<1> DEFINE n == attempt[t] + 1
<1> HIDE DEF n
<1>6. n \in Nat /\ n <= MaxAttempts(t) /\ attempt' = [attempt EXCEPT ![t] = n]
      /\ Asked(t, p, n, waits[t], requests)
  BY <1>1, <1>2, <1>3 DEF n
<1>7. state' = [state EXCEPT ![t] = state[t]]
  BY <1>5, Under
<1>8. QED
  BY <1>1, <1>3, <1>4, <1>5, <1>6, <1>7, Under, Proceeded

LEMMA TroubleKept ==
  ASSUME IInv, NEW t \in Tasks, pc[t] \in Active, TimedOut(t) \/ Fault(t)
  PROVE  IInv'
BY FailTaskKept, AgainKept DEF TimedOut, Fault

(* A task moves on and changes nothing but its place.                        *)
LEMMA WentOn ==
  ASSUME IInv, NEW t \in Tasks, pc[t] \in Active, NEW p \in Places \ {"idle", "stopped"},
         Goto(t, p), workflow' \in States \ {"COMPLETED"},
         UNCHANGED <<engine, graph, state, attempt, waits, requests, token>>,
         p \in {"completing", "done"} => state[t] = "COMPLETED",
         Asked(t, p, attempt[t], waits[t], requests)
  PROVE  IInv'
<1>1. pc' = [pc EXCEPT ![t] = p]
  BY DEF Goto
<1>2. /\ state' = [state EXCEPT ![t] = state[t]] /\ attempt' = [attempt EXCEPT ![t] = attempt[t]]
      /\ state[t] \in TaskStates /\ attempt[t] \in Nat /\ attempt[t] <= MaxAttempts(t)
  BY Under
<1>3. QED
  BY <1>1, <1>2, Proceeded

LEMMA BeginKept ==
  ASSUME IInv, NEW t \in Tasks, pc[t] \in Active, Begin(t)
  PROVE  IInv'
<1>1. CASE t \in RequiresApproval /\ Ask(t)
  <2> DEFINE r == [task |-> t, attempt |-> attempt[t], status |-> "PENDING",
                   set |-> FALSE, granted |-> FALSE]
             i == Len(requests) + 1
  <2>1. /\ requests' = Append(requests, r) /\ waits' = [waits EXCEPT ![t] = i]
        /\ workflow' = "APPROVAL_PENDING" /\ pc' = [pc EXCEPT ![t] = "waiting"]
        /\ UNCHANGED <<engine, graph, state, attempt, token>>
    BY <1>1 DEF Ask, Goto
  <2>2. /\ r \in Requests /\ r.task = t /\ r.attempt = attempt[t] /\ r.status = "PENDING"
    BY Under DEF Requests, Statuses
  <2>3. requests \in Seq(Requests)
    BY DEF IInv, TypeOK
  <2> HIDE DEF r
  <2>4. /\ requests' \in Seq(Requests) /\ Len(requests') = i /\ i \in Nat /\ Len(requests) <= i
        /\ \A k \in 1 .. Len(requests) : requests'[k] = requests[k]
        /\ requests'[i] = r /\ i \in 1 .. i /\ \A k \in 1 .. i : k = i \/ k \in 1 .. Len(requests)
    BY <2>1, <2>2, <2>3, AppendProperties
  <2> HIDE DEF i
  <2>5. Recorded'
    BY <2>2, <2>4 DEF IInv, Recorded
  <2>6. Asked(t, "waiting", attempt[t], i, requests')
    BY <2>2, <2>4 DEF Asked, Gated
  <2>7. workflow' \in States \ {"COMPLETED"} /\ "waiting" \in Places \ {"idle", "stopped"}
    BY <2>1 DEF States, Places
  <2>8. i <= Len(requests') /\ Len(requests) <= Len(requests')
    BY <2>4
  <2>9. /\ state' = [state EXCEPT ![t] = state[t]] /\ attempt' = [attempt EXCEPT ![t] = attempt[t]]
        /\ state[t] \in TaskStates /\ attempt[t] \in Nat /\ attempt[t] <= MaxAttempts(t)
    BY <2>1, Under
  <2>10. QED
    BY <2>1, <2>4, <2>5, <2>6, <2>7, <2>8, <2>9, Moved
<1>2. CASE t \notin RequiresApproval /\ Goto(t, "agent") /\
           UNCHANGED <<engine, workflow, graph, state, attempt, waits, requests, token>>
  <2>1. Asked(t, "agent", attempt[t], waits[t], requests)
    BY <1>2 DEF Asked
  <2>2. "agent" \in Places \ {"idle", "stopped"}
    BY DEF Places
  <2>3. QED
    BY <1>2, <2>1, <2>2, Under, WentOn
<1>3. QED
  BY <1>1, <1>2 DEF Begin
LEMMA StartTaskKept ==
  ASSUME IInv, NEW t \in Tasks, StartTask(t)
  PROVE  IInv'
<1>1. pc[t] = "admitted" /\ pc[t] \in Active
  BY DEF StartTask, Active, Places
<1>2. CASE cancelled
  BY <1>1, <1>2, Raised DEF StartTask
<1>3. CASE ~cancelled
  <2>1. /\ pc' = [pc EXCEPT ![t] = "started"] /\ state' = [state EXCEPT ![t] = "RUNNING"]
        /\ attempt' = [attempt EXCEPT ![t] = 1]
        /\ UNCHANGED <<engine, workflow, graph, waits, requests, token>>
    BY <1>3 DEF StartTask, Goto
  <2>2. 1 \in Nat /\ 1 <= MaxAttempts(t) /\ RetryCount[t] \in Nat
    BY DEF MaxAttempts
  <2>3. Asked(t, "started", 1, waits[t], requests)
    BY DEF Asked, Gated
  <2>4. "started" \in Places \ {"idle", "stopped"} /\ "RUNNING" \in TaskStates
    BY DEF Places, TaskStates
  <2>5. QED
    BY <1>1, <2>1, <2>2, <2>3, <2>4, Under, Proceeded
<1>4. QED
  BY <1>2, <1>3

LEMMA AnsweredKept ==
  ASSUME IInv, NEW t \in Tasks, Answered(t)
  PROVE  IInv'
<1>1. pc[t] = "waiting" /\ pc[t] \in Active
  BY DEF Answered, Active, Places
<1>2. CASE Verdict(t, "APPROVED") /\ Goto(t, "granted") /\ workflow' = "RUNNING"
           /\ UNCHANGED <<engine, graph, state, attempt, waits, requests, token>>
  <2>1. requests[waits[t]].status = "APPROVED"
    BY <1>2 DEF Verdict
  <2>2. Asked(t, "granted", attempt[t], waits[t], requests)
    BY <1>1, <2>1, Under DEF Asked, IInv, Recorded
  <2>3. "granted" \in Places \ {"idle", "stopped"} /\ workflow' \in States \ {"COMPLETED"}
    BY <1>2 DEF Places, States
  <2>4. QED
    BY <1>1, <1>2, <2>2, <2>3, WentOn
<1>3. CASE FailTask(t, "FAILED") \/ FailTask(t, "CANCELLED")
  BY <1>1, <1>3, FailTaskKept
<1>4. QED
  BY <1>2, <1>3 DEF Answered

(* The places a task passes without writing anything else.                   *)
LEMMA PassedKept ==
  ASSUME IInv, NEW t \in Tasks, pc[t] \in Active,
         NEW p \in {"admitted", "agent", "returned", "done"}, Goto(t, p),
         p \in {"agent", "returned", "done"} => pc[t] \in Gated,
         p = "done" => pc[t] = "completing",
         UNCHANGED <<engine, workflow, graph, state, attempt, waits, requests, token>>
  PROVE  IInv'
<1>1. Asked(t, p, attempt[t], waits[t], requests)
  BY Under DEF Asked, Gated
<1>2. p \in Places \ {"idle", "stopped"} /\ (p \in {"completing", "done"} => state[t] = "COMPLETED")
  BY Under DEF Places
<1>3. QED
  BY <1>1, <1>2, Under, WentOn

LEMMA CompleteTaskKept ==
  ASSUME IInv, NEW t \in Tasks, CompleteTask(t)
  PROVE  IInv'
<1>1. pc[t] = "returned" /\ pc[t] \in Active
  BY DEF CompleteTask, Active, Places
<1>2. /\ pc' = [pc EXCEPT ![t] = "completing"] /\ state' = [state EXCEPT ![t] = "COMPLETED"]
      /\ UNCHANGED <<engine, workflow, graph, attempt, waits, requests, token>>
  BY DEF CompleteTask, Goto
<1>3. Asked(t, "completing", attempt[t], waits[t], requests)
  BY <1>1, Under DEF Asked, Gated
<1>4. "completing" \in Places \ {"idle", "stopped"} /\ "COMPLETED" \in TaskStates
  BY DEF Places, TaskStates, Ended
<1>5. attempt' = [attempt EXCEPT ![t] = attempt[t]]
  BY <1>1, <1>2, Under
<1>6. QED
  BY <1>1, <1>2, <1>3, <1>4, <1>5, Under, Proceeded

LEMMA Started == \A t \in Tasks : Step(t) => pc[t] \in Active
BY DEF Step, Admit, StartTask, Attempt, Retry, Answered, ApprovalTimesOut, Granted, AgentReturns,
       AgentRaises, AgentTimesOut, CompleteTask, Spoilt, Return, Fail, Active, Places

LEMMA StepKept ==
  ASSUME IInv, NEW t \in Tasks, Step(t)
  PROVE  IInv'
<1>1. pc[t] \in Active
  BY Started
<1>2. CASE Admit(t)
  BY <1>1, <1>2, PassedKept DEF Admit
<1>3. CASE StartTask(t)
  BY <1>3, StartTaskKept
<1>4. CASE Attempt(t)
  BY <1>1, <1>4, TroubleKept, BeginKept DEF Attempt
<1>5. CASE Retry(t)
  BY <1>1, <1>5, BeginKept, Raised DEF Retry
<1>6. CASE Answered(t)
  BY <1>6, AnsweredKept
<1>7. CASE ApprovalTimesOut(t)
  BY <1>1, <1>7, TroubleKept DEF ApprovalTimesOut
<1>8. CASE Granted(t)
  BY <1>1, <1>8, TroubleKept, PassedKept DEF Granted, Gated
<1>9. CASE AgentReturns(t)
  BY <1>1, <1>9, PassedKept DEF AgentReturns, Gated
<1>10. CASE AgentRaises(t) \/ AgentTimesOut(t) \/ Spoilt(t)
  BY <1>1, <1>10, TroubleKept DEF AgentRaises, AgentTimesOut, Spoilt
<1>11. CASE CompleteTask(t)
  BY <1>11, CompleteTaskKept
<1>12. CASE Return(t)
  BY <1>1, <1>12, PassedKept DEF Return, Gated
<1>13. CASE Fail(t)
  BY <1>1, <1>13, Raised DEF Fail
<1>14. QED
  BY <1>2, <1>3, <1>4, <1>5, <1>6, <1>7, <1>8, <1>9, <1>10, <1>11, <1>12, <1>13 DEF Step
-----------------------------------------------------------------------------
(* execute and the executor.                                                 *)
LEMMA ScheduleKept ==
  ASSUME IInv, NEW done \in SUBSET Tasks, \A t \in done : pc[t] = "done",
         NEW current \in States \ {"COMPLETED"}, engine \in {"checking", "batch"},
         \A t \in Tasks : pc[t] \notin Active, Schedule(done, current)
  PROVE  IInv'
<1>1. /\ completed' = done /\ batch' = Ready(done)
      /\ pc' = [t \in Tasks |-> IF t \in Ready(done) THEN "queued" ELSE pc[t]]
      /\ UNCHANGED <<dependsOn, state, attempt, waits, requests, cancelled, paused>>
  BY DEF Schedule, token
<1>2. /\ engine' \in {"batch", "finishing", "ended"} /\ workflow' \in States \ {"COMPLETED"}
      /\ Ready(done) # {} => engine' = "batch"
  BY DEF Schedule, States
<1>3. Ready(done) \in SUBSET Tasks /\ Ready(done) \cap done = {}
  BY DEF Ready
<1>4. TypeOK'
  <2>1. pc' \in [Tasks -> Places]
    BY <1>1 DEF IInv, TypeOK, Places
  <2>2. QED
    BY <1>1, <1>2, <1>3, <2>1 DEF IInv, TypeOK, Engine, MaxAttempts
<1>5. Tracked'
  <2>1. ASSUME NEW u \in Tasks
        PROVE  /\ Placed(pc[u], u)' /\ (pc'[u] \in {"completing", "done"} => state'[u] = "COMPLETED")
               /\ Asked(u, pc'[u], attempt'[u], waits'[u], requests')
    <3>1. /\ Placed(pc[u], u) /\ (pc[u] \in {"completing", "done"} => state[u] = "COMPLETED")
          /\ Asked(u, pc[u], attempt[u], waits[u], requests)
      BY DEF IInv, Tracked
    <3>2. CASE u \in Ready(done)
      <4>1. pc'[u] = "queued" /\ engine' = "batch" /\ batch' = Ready(done)
        BY <1>1, <1>2, <3>2
      <4>2. QED
        BY <3>2, <4>1 DEF Placed, Asked, Gated
    <3>3. CASE u \notin Ready(done)
      <4>1. pc'[u] = pc[u] /\ pc[u] # "stopped" /\ pc[u] \notin Active
        BY <1>1, <3>1, <3>3 DEF Placed
      <4>2. QED
        BY <1>1, <3>1, <4>1 DEF Placed
    <3>4. QED
      BY <3>2, <3>3
  <2>2. QED
    BY <2>1 DEF Tracked
<1>6. Counted' /\ Recorded'
  BY <1>1, <1>2, <1>3 DEF IInv, Counted, Recorded
<1>7. QED
  BY <1>4, <1>5, <1>6 DEF IInv

LEMMA RunKept ==
  ASSUME IInv, Run
  PROVE  IInv'
<1>1. \A t \in Tasks : pc[t] \in Active => engine = "batch" /\ t \in batch
  BY DEF IInv, Tracked, Placed
<1>2. CASE Execute \/ RefuseToStart \/ Finish
  <2>1. /\ engine \in {"idle", "checking", "finishing"} /\ engine' \in {"checking", "ended"}
        /\ UNCHANGED <<dependsOn, completed, batch, pc, state, attempt, waits, requests, cancelled, paused>>
    BY <1>2 DEF Execute, RefuseToStart, Finish, graph, token
  <2>2. /\ workflow' \in States
        /\ workflow' = "COMPLETED" => engine' = "ended"
        /\ engine' = "checking" => engine = "idle"
    BY <1>2 DEF Execute, RefuseToStart, Finish, IInv, TypeOK, Counted, States
  <2>3. TypeOK'
    BY <2>1, <2>2 DEF IInv, TypeOK, Engine, MaxAttempts
  <2>4. Tracked'
    <3>1. \A t \in Tasks : pc[t] \notin Active /\ pc[t] # "stopped"
      BY <1>1, <2>1 DEF IInv, Tracked, Placed
    <3>2. QED
      BY <2>1, <3>1 DEF IInv, Tracked, Placed
  <2>5. Counted' /\ Recorded'
    BY <2>1, <2>2 DEF IInv, Counted, Recorded
  <2>6. QED
    BY <2>3, <2>4, <2>5 DEF IInv
<1>3. CASE StartWorkflow
  <2>1. Schedule({}, "RUNNING") /\ engine = "checking"
    BY <1>3 DEF StartWorkflow
  <2>2. "RUNNING" \in States \ {"COMPLETED"} /\ {} \in SUBSET Tasks
    BY DEF States
  <2>3. QED
    BY <1>1, <2>1, <2>2, ScheduleKept
<1>4. CASE NextBatch
  <2> DEFINE done == completed \cup batch
  <2>1. engine = "batch" /\ (\A t \in batch : pc[t] = "done") /\ Schedule(done, workflow)
    BY <1>4 DEF NextBatch
  <2>2. workflow \in States \ {"COMPLETED"} /\ done \in SUBSET Tasks /\ \A t \in done : pc[t] = "done"
    BY <2>1 DEF IInv, TypeOK, Counted
  <2>3. \A t \in Tasks : pc[t] \notin Active
    BY <1>1, <2>1 DEF Active
  <2> HIDE DEF done
  <2>4. QED
    BY <2>1, <2>2, <2>3, ScheduleKept
<1>5. QED
  BY <1>2, <1>3, <1>4 DEF Run
LEMMA RespondKept ==
  ASSUME IInv, NEW i \in 1 .. Len(requests), Respond(i)
  PROVE  IInv'
<1>1. PICK status \in Statuses \ {"PENDING"} : Answer(i, status, TRUE)
  BY DEF Respond
<1> DEFINE r == [task |-> requests[i].task, attempt |-> requests[i].attempt, status |-> status,
                 set |-> requests[i].set \/ TRUE,
                 granted |-> requests[i].granted \/ status = "APPROVED"]
<1>2. requests \in Seq(Requests) /\ Len(requests) \in Nat /\ requests[i] \in Requests
  BY DEF IInv, TypeOK
<1>3. requests' = [requests EXCEPT ![i] = r]
  BY <1>1 DEF Answer
<1>4. UNCHANGED <<engine, workflow, dependsOn, completed, batch, pc, state, attempt, waits,
                  cancelled, paused>>
  BY <1>1 DEF Answer, graph, token
<1>5. /\ r.task = requests[i].task /\ r.attempt = requests[i].attempt /\ r.status = status
      /\ r \in Requests
  BY <1>2 DEF Requests
<1>6. r.granted = (requests[i].granted \/ status = "APPROVED")
  OBVIOUS
<1>7. requests[i].granted = TRUE => r.granted = TRUE
  BY <1>6
<1>8. status = "APPROVED" => r.granted = TRUE
  BY <1>6
<1> HIDE DEF r
<1>9. /\ requests' \in Seq(Requests) /\ Len(requests') = Len(requests)
      /\ requests'[i] = r /\ \A k \in 1 .. Len(requests) : k # i => requests'[k] = requests[k]
  BY <1>2, <1>3, <1>5, ExceptSeq
<1>10. TypeOK'
  BY <1>4, <1>9 DEF IInv, TypeOK, MaxAttempts
<1>11. Tracked'
  <2>1. ASSUME NEW u \in Tasks PROVE Asked(u, pc[u], attempt[u], waits[u], requests')
    <3>1. Asked(u, pc[u], attempt[u], waits[u], requests)
      BY DEF IInv, Tracked
    <3>2. CASE waits[u] = i
      BY <1>5, <1>7, <1>9, <3>1, <3>2 DEF Asked
    <3>3. CASE waits[u] # i
      BY <1>9, <3>1, <3>3 DEF Asked
    <3>4. QED
      BY <3>2, <3>3
  <2>2. QED
    BY <1>4, <2>1 DEF IInv, Tracked, Placed
<1>12. Counted'
  BY <1>4 DEF IInv, Counted
<1>13. Recorded'
  BY <1>5, <1>8, <1>9 DEF IInv, Recorded
<1>14. QED
  BY <1>10, <1>11, <1>12, <1>13 DEF IInv

LEMMA ControlKept ==
  ASSUME IInv, Control \/ UNCHANGED vars
  PROVE  IInv'
<1>1. UNCHANGED <<engine, workflow, dependsOn, completed, batch, pc, state, attempt, waits, requests>>
  BY DEF Control, graph, vars
<1>2. cancelled' \in BOOLEAN /\ paused' \in BOOLEAN
  BY DEF Control, Pause, Resume, Cancel, vars, IInv, TypeOK
<1>3. TypeOK'
  BY <1>1, <1>2 DEF IInv, TypeOK, MaxAttempts
<1>4. Tracked' /\ Counted' /\ Recorded'
  BY <1>1 DEF IInv, Tracked, Placed, Counted, Recorded
<1>5. QED
  BY <1>3, <1>4 DEF IInv

LEMMA NextInv == IInv /\ [Next]_vars => IInv'
<1>1. SUFFICES ASSUME IInv, [Next]_vars PROVE IInv'
  OBVIOUS
<1>2. CASE Run
  BY <1>1, <1>2, RunKept
<1>3. ASSUME NEW t \in Tasks, Step(t) PROVE IInv'
  BY <1>1, <1>3, StepKept
<1>4. ASSUME NEW i \in 1 .. Len(requests), Respond(i) PROVE IInv'
  BY <1>1, <1>4, RespondKept
<1>5. CASE Control \/ UNCHANGED vars
  BY <1>1, <1>5, ControlKept
<1>6. QED
  BY <1>1, <1>2, <1>3, <1>4, <1>5 DEF Next

(* Once scheduled, a task has all its dependencies in TaskGraph._completed.  *)
Ordered == \A t \in Tasks : pc[t] # "idle" => dependsOn[t] \subseteq completed

LEMMA OrderedKept == IInv /\ Ordered /\ [Next]_vars => Ordered'
<1>1. SUFFICES ASSUME IInv, Ordered, [Next]_vars PROVE Ordered'
  OBVIOUS
<1>2. pc \in [Tasks -> Places] /\ completed \subseteq Tasks /\ batch \subseteq Tasks
  BY <1>1 DEF IInv, TypeOK
<1>3. ASSUME NEW done, completed \subseteq done, NEW current, Schedule(done, current)
      PROVE  Ordered'
  <2>1. /\ completed' = done /\ dependsOn' = dependsOn
        /\ \A t \in Tasks : pc'[t] = IF t \in Ready(done) THEN "queued" ELSE pc[t]
    BY <1>3 DEF Schedule
  <2>2. \A t \in Ready(done) : dependsOn[t] \subseteq done
    BY DEF Ready
  <2>3. QED
    BY <1>1, <1>3, <2>1, <2>2 DEF Ordered
<1>4. CASE Run
  <2>1. CASE Execute \/ RefuseToStart \/ Finish
    BY <1>1, <2>1 DEF Execute, RefuseToStart, Finish, graph, Ordered
  <2>2. CASE StartWorkflow
    <3>1. completed = {}
      BY <1>1, <2>2 DEF IInv, Counted, StartWorkflow
    <3>2. QED
      BY <1>3, <2>2, <3>1 DEF StartWorkflow
  <2>3. CASE NextBatch
    BY <1>3, <2>3 DEF NextBatch
  <2>4. QED
    BY <1>4, <2>1, <2>2, <2>3 DEF Run
<1>5. ASSUME NEW t \in Tasks, Step(t) PROVE Ordered'
  <2>1. pc[t] \in Active /\ pc[t] # "idle"
    BY <1>5, Started DEF Active
  <2>2. UNCHANGED graph
    BY <1>5 DEF Step, Admit, StartTask, Attempt, Retry, Answered, ApprovalTimesOut, Granted,
       AgentReturns, AgentRaises, AgentTimesOut, CompleteTask, Spoilt, Return, Fail, Raise, TimedOut,
       Fault, Again, FailTask, Begin, Ask
  <2>3. \A u \in Tasks : pc'[u] # "idle" => pc[u] # "idle"
    <3>1. CASE \E place \in Places \ {"idle"} : Goto(t, place)
      BY <1>2, <2>1, <3>1 DEF Goto
    <3>2. CASE Raise(t)
      <4>1. \A u \in batch : pc[u] # "idle"
        BY <1>1 DEF IInv, Counted
      <4>2. QED
        BY <3>2, <4>1 DEF Raise
    <3>3. {"queued", "admitted", "started", "waiting", "granted", "agent", "returned", "completing",
           "retrying", "failing", "done"} \subseteq Places \ {"idle"}
      BY DEF Places
    <3>4. (\E place \in Places \ {"idle"} : Goto(t, place)) \/ Raise(t)
      BY <1>5, <3>3 DEF Step, Admit, StartTask, Attempt, Retry, Answered, ApprovalTimesOut,
         Granted, AgentReturns, AgentRaises, AgentTimesOut, CompleteTask, Spoilt, Return, Fail,
         TimedOut, Fault, Again, FailTask, Begin, Ask
    <3>5. QED
      BY <3>1, <3>2, <3>4
  <2>4. QED
    BY <1>1, <2>2, <2>3 DEF Ordered, graph
<1>6. CASE Control \/ UNCHANGED vars \/ \E i \in 1 .. Len(requests) : Respond(i)
  BY <1>1, <1>6 DEF Control, vars, Respond, Answer, graph, Ordered
<1>7. QED
  BY <1>1, <1>4, <1>5, <1>6 DEF Next

LEMMA Invariance == Spec => []IInv
<1>1. IInv /\ [Next]_vars => IInv'
  BY NextInv
<1>2. QED
  BY InitInv, <1>1, PTL DEF Spec
-----------------------------------------------------------------------------
(* Every task, request and token keeps its type, whatever the graph; no task *)
(* is attempted more often than its retries allow.                           *)
THEOREM TypeCorrect == Spec => []TypeOK
<1>1. IInv => TypeOK
  BY DEF IInv
<1>2. QED
  BY <1>1, Invariance, PTL

(* No agent works on a task that requires approval unless the request of     *)
(* this attempt was granted, however answers, timeouts and retries overlap.  *)
THEOREM ApprovalHolds == Spec => []ApprovalGates
<1>1. IInv => ApprovalGates
  <2>1. SUFFICES ASSUME IInv, NEW t \in RequiresApproval,
                        pc[t] \in {"agent", "returned", "completing", "done"}
                 PROVE  /\ waits[t] > 0 /\ requests[waits[t]].task = t
                        /\ requests[waits[t]].attempt = attempt[t]
                        /\ requests[waits[t]].granted
    BY DEF ApprovalGates
  <2>2. t \in Tasks /\ Asked(t, pc[t], attempt[t], waits[t], requests)
    BY <2>1 DEF IInv, Tracked
  <2>3. QED
    BY <2>1, <2>2 DEF Asked, Gated
<1>2. QED
  BY <1>1, Invariance, PTL

(* No task is scheduled before all it depends on has completed, whatever the *)
(* graph, also one that names absent tasks or has a cycle.                   *)
THEOREM DependenciesHold == Spec => []DependenciesFirst
<1>1. Init => Ordered
  BY DEF Init, Ordered
<1>2. IInv /\ Ordered /\ [Next]_vars => Ordered'
  BY OrderedKept
<1>3. IInv /\ Ordered => DependenciesFirst
  <2>1. SUFFICES ASSUME IInv, Ordered, NEW t \in Tasks, pc[t] # "idle", NEW u \in dependsOn[t]
                 PROVE  u \in Tasks /\ state[u] = "COMPLETED" /\ pc[u] = "done"
    BY DEF DependenciesFirst
  <2>2. u \in completed /\ u \in Tasks
    BY <2>1 DEF Ordered, IInv, TypeOK
  <2>3. pc[u] = "done"
    BY <2>1, <2>2 DEF IInv, Counted
  <2>4. QED
    BY <2>1, <2>2, <2>3 DEF IInv, Tracked
<1>4. QED
  BY <1>1, <1>2, <1>3, Invariance, PTL DEF Spec

(* Once execute has ended, no task, attempt or state of the workflow moves.  *)
THEOREM EndHolds == Spec => EndIsFinal
<1>1. IInv /\ [Next]_vars =>
        [engine = "ended" => UNCHANGED <<workflow, state, attempt, pc>>]_vars
  <2>1. SUFFICES ASSUME IInv, Next, engine = "ended"
                 PROVE  UNCHANGED <<workflow, state, attempt, pc>>
    OBVIOUS
  <2>2. ~Run
    BY <2>1 DEF Run, Execute, RefuseToStart, StartWorkflow, NextBatch, Finish
  <2>3. \A t \in Tasks : ~Step(t)
    BY <2>1, Started DEF IInv, Tracked, Placed
  <2>4. CASE Control
    BY <2>4 DEF Control
  <2>5. ASSUME NEW i \in 1 .. Len(requests), Respond(i)
        PROVE  UNCHANGED <<workflow, state, attempt, pc>>
    BY <2>5 DEF Respond, Answer
  <2>6. QED
    BY <2>1, <2>2, <2>3, <2>4, <2>5 DEF Next
<1>2. QED
  BY <1>1, Invariance, PTL DEF Spec, EndIsFinal
===============================================================================
