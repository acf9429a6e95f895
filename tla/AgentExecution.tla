---------------------------- MODULE AgentExecution ----------------------------
(***************************************************************************)
(* One managed-agent execution (agents/execution_service.py): its row, its *)
(* continuations, its tool call, and the HTTP requests that run, answer    *)
(* and cancel it.  A run is the request that started or resumed it; it     *)
(* ends by asking a question, which another request answers, or by writing *)
(* an outcome.                                                             *)
(***************************************************************************)
EXTENDS Integers, Sequences, FiniteSets

CONSTANTS
  Requests,          \* request handlers that may be in flight at once
  Users, Owner,      \* who asks and answers; Owner started the execution
  Approvers,         \* holders of agents.approve or agents.admin
  MaxContinuations   \* bound on the questions asked

ASSUME UsersAssumption == Owner \in Users /\ Approvers \subseteq Users
ASSUME BoundAssumption == MaxContinuations \in Nat \ {0}

VARIABLES
  profile,  \* whether the message asks "which tool", the assignment needs
            \* approval, and a parent runtime execution waits for the agent
  chosen,   \* runtime_metadata["selected_tool"] is set
  status,   \* AgentExecution.status; a kind stands for waiting_for_<kind>
  conts,    \* the AgentContinuation rows, in order of creation
  lapsed,   \* the continuations up to this one are past expires_at
  tool,     \* the ToolExecution row's status
  req,      \* the requests in flight
  carried,  \* history: a caller's values held the key of the approval
  lost      \* history: a process died while it ran or denied the execution

vars == <<profile, chosen, status, conts, lapsed, tool, req, carried, lost>>

Kinds == {"clarification", "input", "approval"}
Ended == {"succeeded", "failed", "cancelled", "timed_out", "expired"}
Outcomes == {"none"} \cup Ended

Nobody == "nobody"

Continuations ==
  [kind : Kinds, status : {"pending", "consumed", "cancelled", "expired"},
   by : Users \cup {Nobody}, denied : BOOLEAN]

Ops == {"idle", "run", "cancel", "answer", "deny", "expire"}
Places == {"none", "plan", "tool", "model", "check", "write", "stop"}

Handlers ==
  [op : Ops, at : Places, cont : 0..MaxContinuations, by : Users \cup {Nobody},
   target : Outcomes, given : BOOLEAN, clarified : BOOLEAN, approved : BOOLEAN]

Idle ==
  [op |-> "idle", at |-> "none", cont |-> 0, by |-> Nobody, target |-> "none",
   given |-> FALSE, clarified |-> FALSE, approved |-> FALSE]

\* The start of _run with the inputs it is given.
Run(given, clarified, approved) ==
  [op |-> "run", at |-> "plan", cont |-> 0, by |-> Nobody, target |-> "none",
   given |-> given, clarified |-> clarified, approved |-> approved]

\* A request that has loaded the pending continuation c.
Holding(op, c, u) ==
  [op |-> op, at |-> "none", cont |-> c, by |-> u, target |-> "none",
   given |-> FALSE, clarified |-> FALSE, approved |-> FALSE]

\* A cancelled run that has loaded the pending continuation c, or none.
Stopping(c) ==
  [op |-> "run", at |-> "stop", cont |-> c, by |-> Nobody, target |-> "none",
   given |-> FALSE, clarified |-> FALSE, approved |-> FALSE]

\* A request about to end the execution with outcome t.
Ending(op, t) ==
  [op |-> op, at |-> "check", cont |-> 0, by |-> Nobody, target |-> t,
   given |-> FALSE, clarified |-> FALSE, approved |-> FALSE]

IsPending(c) == c \in DOMAIN conts /\ conts[c].status = "pending"

\* _pending: the continuation that waits for an answer, 0 if there is none.
Pending ==
  IF \E c \in DOMAIN conts : IsPending(c)
  THEN CHOOSE c \in DOMAIN conts : IsPending(c) ELSE 0

\* What _run still has to ask before it may do anything.
Question(q) ==
  IF profile.vague /\ ~q.clarified THEN "clarification"
  ELSE IF ~chosen THEN "none"
  ELSE IF ~q.given THEN "input"
  ELSE IF profile.gated /\ ~q.approved THEN "approval"
  ELSE "none"

\* uq_agent_continuation_state: no other row of c's kind has the status s.
Fits(c, s) ==
  c # 0 => \A d \in DOMAIN conts \ {c} : conts[d].kind = conts[c].kind => conts[d].status # s

\* The row c with another status, if there is such a row.
Marked(c, s) ==
  IF c = 0 THEN conts ELSE [conts EXCEPT ![c] = [conts[c] EXCEPT !.status = s]]
-----------------------------------------------------------------------------
\* start has inserted the row as running, and its run begins.  The inputs are
\* the caller's: nothing keeps the keys that _run reads as flags out of them.
Init ==
  /\ profile \in [vague : BOOLEAN, gated : BOOLEAN, parent : BOOLEAN]
  /\ chosen \in BOOLEAN
  /\ status = "running"
  /\ conts = << >>
  /\ lapsed = 0
  /\ tool = "none"
  /\ carried \in BOOLEAN
  /\ \E r \in Requests, given, clarified \in BOOLEAN :
       req = [x \in Requests |-> IF x = r THEN Run(given, clarified, carried) ELSE Idle]
  /\ lost = FALSE

Becomes(r, q) == req' = [req EXCEPT ![r] = q]

At(r, place) == req[r].op = "run" /\ req[r].at = place

\* _make_continuation: the question and the waiting status, whatever the
\* status has become meanwhile.  No question waits while a run asks (OneRun),
\* so the INSERT fits.
Ask(r) ==
  /\ At(r, "plan") /\ Question(req[r]) # "none"
  /\ status' = Question(req[r])
  /\ conts' = Append(conts, [kind |-> Question(req[r]), status |-> "pending",
                             by |-> Nobody, denied |-> FALSE])
  /\ Becomes(r, Idle)
  /\ UNCHANGED <<profile, chosen, lapsed, tool, carried, lost>>

\* executor.execute commits its own row before it awaits the connector.
CallTool(r) ==
  /\ At(r, "plan") /\ Question(req[r]) = "none" /\ chosen
  /\ tool = "none" /\ tool' = "running"
  /\ Becomes(r, [req[r] EXCEPT !.at = "tool"])
  /\ UNCHANGED <<profile, chosen, status, conts, lapsed, carried, lost>>

CallModel(r) ==
  /\ At(r, "plan") /\ Question(req[r]) = "none" /\ ~chosen
  /\ Becomes(r, [req[r] EXCEPT !.at = "model"])
  /\ UNCHANGED <<profile, chosen, status, conts, lapsed, tool, carried, lost>>

\* The agent, the tool or its policy is no longer available, or the INSERT of
\* the tool's row fails: the unit of work is rolled back and the run fails.
Raise(r) ==
  /\ At(r, "plan")
  /\ Becomes(r, Ending("run", "failed"))
  /\ UNCHANGED <<profile, chosen, status, conts, lapsed, tool, carried, lost>>

\* _finish: a tool row that was cancelled or timed out is kept.
Finished(outcome) == IF tool \in {"cancelled", "timed_out"} THEN tool ELSE outcome

\* The envelope reports the row's status, and only success goes on.
Reported(outcome) == IF Finished(outcome) = "succeeded" THEN "succeeded" ELSE "failed"

ToolReturns(r) ==
  /\ At(r, "tool")
  /\ \E outcome \in {"succeeded", "failed", "timed_out"} :
       /\ tool' = Finished(outcome)
       /\ Becomes(r, Ending("run", Reported(outcome)))
  /\ UNCHANGED <<profile, chosen, status, conts, lapsed, carried, lost>>

ModelReturns(r) ==
  /\ At(r, "model")
  /\ \E outcome \in {"succeeded", "failed"} : Becomes(r, Ending("run", outcome))
  /\ UNCHANGED <<profile, chosen, status, conts, lapsed, tool, carried, lost>>

Interrupted == IF tool = "running" THEN "cancelled" ELSE tool

\* wrong on purpose: the timeout ends the request and leaves the row running.
TimesOutQuietly(r) ==
  /\ At(r, "tool") \/ At(r, "model")
  /\ tool' = Interrupted
  /\ Becomes(r, Idle)
  /\ UNCHANGED <<profile, chosen, status, conts, lapsed, carried, lost>>

\* wait_for in _run_with_timeout.
TimesOut(r) ==
  /\ At(r, "tool") \/ At(r, "model")
  /\ tool' = Interrupted
  /\ Becomes(r, Ending("run", "timed_out"))
  /\ UNCHANGED <<profile, chosen, status, conts, lapsed, carried, lost>>

\* The parent's task is cancelled while it awaits the run.
TaskCancelled(r) ==
  /\ At(r, "tool") \/ At(r, "model")
  /\ profile.parent
  /\ tool' = Interrupted
  /\ Becomes(r, IF status \in Ended THEN Idle
                ELSE Stopping(Pending))
  /\ UNCHANGED <<profile, chosen, status, conts, lapsed, carried, lost>>

\* The end of _run, _fail and _timeout: the status is read, then written.
Check(r) ==
  /\ req[r].at = "check"
  /\ Becomes(r, IF status \in Ended THEN Idle ELSE [req[r] EXCEPT !.at = "write"])
  /\ UNCHANGED <<profile, chosen, status, conts, lapsed, tool, carried, lost>>

Write(r) ==
  /\ req[r].at = "write"
  /\ status' = req[r].target
  /\ Becomes(r, Idle)
  /\ UNCHANGED <<profile, chosen, conts, lapsed, tool, carried, lost>>
-----------------------------------------------------------------------------
\* cancel: the status and the pending continuation are loaded without a lock,
CancelLoad(r) ==
  /\ req[r] = Idle
  /\ status \notin Ended
  /\ Becomes(r, Holding("cancel", Pending, Nobody))
  /\ UNCHANGED <<profile, chosen, status, conts, lapsed, tool, carried, lost>>

\* and the loaded rows are written by primary key (_terminalize_cancelled).
CancelCommit(r) ==
  /\ req[r].op = "cancel" \/ At(r, "stop")
  /\ Fits(req[r].cont, "cancelled")
  /\ status' = "cancelled"
  /\ conts' = Marked(req[r].cont, "cancelled")
  /\ Becomes(r, Idle)
  /\ UNCHANGED <<profile, chosen, lapsed, tool, carried, lost>>

\* Who may answer: the requester, or for an approval somebody else who may
\* approve.
MayAnswer(u, kind) ==
  IF kind = "approval" THEN u # Owner /\ u \in Approvers ELSE u = Owner

\* resume, up to the claim.  Refused requests change nothing.
AnswerLoad(r) ==
  /\ req[r] = Idle
  /\ Pending # 0 /\ Len(conts) < MaxContinuations
  /\ \E u \in Users :
       IF Pending <= lapsed
       THEN Becomes(r, Holding("expire", Pending, Nobody))
       ELSE /\ MayAnswer(u, conts[Pending].kind)
            /\ \/ Becomes(r, Holding("answer", Pending, u))
               \/ /\ conts[Pending].kind = "approval"
                  /\ Becomes(r, Holding("deny", Pending, u))
  /\ UNCHANGED <<profile, chosen, status, conts, lapsed, tool, carried, lost>>

\* wrong on purpose: the execution goes on waiting for the expired question.
ExpireCommitAlone(r) ==
  /\ req[r].op = "expire"
  /\ conts' = Marked(req[r].cont, "expired")
  /\ Becomes(r, Idle)
  /\ UNCHANGED <<profile, chosen, status, lapsed, tool, carried, lost>>

\* The loaded rows are written without looking again.
ExpireCommit(r) ==
  /\ req[r].op = "expire"
  /\ Fits(req[r].cont, "expired")
  /\ conts' = Marked(req[r].cont, "expired")
  /\ status' = "expired"
  /\ Becomes(r, Idle)
  /\ UNCHANGED <<profile, chosen, lapsed, tool, carried, lost>>

\* wrong on purpose: the row is updated by its id alone.
ClaimedBlindly(c) == c \in DOMAIN conts

\* UPDATE ... WHERE status = 'pending' found the row.
Claimed(c) == IsPending(c)

Consumed(r, denied) ==
  LET c == req[r].cont IN
    [conts EXCEPT ![c] = [kind |-> conts[c].kind, status |-> "consumed",
                          by |-> req[r].by, denied |-> denied]]

\* What an answer's values hold: the inputs of the tool, and the keys that
\* _run reads as flags.
Answers == [given : BOOLEAN, clarified : BOOLEAN, approved : BOOLEAN]

\* wrong on purpose: any answer flags the approval.
ResumedApproved(r, values) ==
  LET kind == conts[req[r].cont].kind IN
    Run(kind # "clarification" \/ values.given, kind = "clarification", TRUE)

\* An approval resumes with the values known when it was asked, which lacked
\* nothing and whose flags _run had popped, and with its own flag.  An input
\* is validated, with what was known, by the tool's schema; a clarification
\* knew nothing.  What else these two hold is the caller's.
Resumed(r, values) ==
  LET kind == conts[req[r].cont].kind IN
    Run(kind # "clarification" \/ values.given,
        kind = "clarification" \/ (kind = "input" /\ values.clarified),
        kind = "approval" \/ values.approved)

Claim(r) ==
  LET kind == conts[req[r].cont].kind IN
  /\ req[r].op = "answer"
  /\ Claimed(req[r].cont) /\ Fits(req[r].cont, "consumed")
  /\ conts' = Consumed(r, FALSE)
  /\ status' = "running"
  /\ chosen' = (chosen \/ kind = "clarification")
  /\ \E values \in Answers :
       /\ Becomes(r, Resumed(r, values))
       /\ carried' = (carried \/ (kind # "approval" /\ values.approved))
  /\ UNCHANGED <<profile, lapsed, tool, lost>>

\* A denial is committed before the execution fails in a second transaction.
Deny(r) ==
  /\ req[r].op = "deny" /\ req[r].at = "none"
  /\ Claimed(req[r].cont) /\ Fits(req[r].cont, "consumed")
  /\ conts' = Consumed(r, TRUE)
  /\ Becomes(r, Ending("deny", "failed"))
  /\ UNCHANGED <<profile, chosen, status, lapsed, tool, carried, lost>>

\* CONTINUATION_ALREADY_USED
AlreadyUsed(r) ==
  /\ req[r].op \in {"answer", "deny"} /\ req[r].at = "none"
  /\ ~Claimed(req[r].cont)
  /\ Becomes(r, Idle)
  /\ UNCHANGED <<profile, chosen, status, conts, lapsed, tool, carried, lost>>

\* The status that a request writes into the continuation it holds.
Settlement(op) ==
  CASE op \in {"cancel", "run"} -> "cancelled"
    [] op = "expire" -> "expired"
    [] OTHER -> "consumed"

\* The write violates the unique constraint: the transaction is rolled back
\* and the request fails, so what it wanted cannot be done.
Conflict(r) ==
  /\ req[r].op \in {"answer", "deny"} => Claimed(req[r].cont)
  /\ ~Fits(req[r].cont, Settlement(req[r].op))
  /\ Becomes(r, Idle)
  /\ UNCHANGED <<profile, chosen, status, conts, lapsed, tool, carried, lost>>
-----------------------------------------------------------------------------
\* The parent ends with the outcome t and settles its children under a lock.
Reconcile(t) ==
  /\ profile.parent /\ Fits(Pending, "cancelled")
  /\ profile' = [vague |-> profile.vague, gated |-> profile.gated, parent |-> FALSE]
  /\ status' = IF status \in Ended THEN status ELSE t
  /\ conts' = Marked(Pending, "cancelled")
  /\ tool' = IF tool = "running" THEN t ELSE tool
  /\ UNCHANGED <<chosen, lapsed, req, carried, lost>>

\* Thirty minutes pass after the last question.
Lapse ==
  /\ lapsed < Len(conts) /\ lapsed' = Len(conts)
  /\ UNCHANGED <<profile, chosen, status, conts, tool, req, carried, lost>>

\* A process dies, or the database aborts the request's transaction.
Abort(r) ==
  /\ req[r] # Idle
  /\ lost' = (lost \/ req[r].op \in {"run", "deny"})
  /\ Becomes(r, Idle)
  /\ UNCHANGED <<profile, chosen, status, conts, lapsed, tool, carried>>

\* What the code does on its own.
Step(r) ==
  \/ Ask(r) \/ CallTool(r) \/ CallModel(r) \/ TimesOut(r) \/ Check(r) \/ Write(r)
  \/ CancelCommit(r) \/ ExpireCommit(r) \/ Claim(r) \/ Deny(r) \/ AlreadyUsed(r)
  \/ Conflict(r)

\* What users, connectors, models and the parent's task do.
Outside(r) ==
  \/ Raise(r) \/ ToolReturns(r) \/ ModelReturns(r) \/ TaskCancelled(r)
  \/ CancelLoad(r) \/ AnswerLoad(r) \/ Abort(r)

Next ==
  \/ \E r \in Requests : Step(r) \/ Outside(r)
  \/ \E t \in {"failed", "cancelled", "timed_out"} : Reconcile(t)
  \/ Lapse

Spec == Init /\ [][Next]_vars

\* The event loop of a live process runs its handlers, and wait_for bounds
\* every run.  Answers of users, tools and models are not assumed.
FairSpec == Spec /\ \A r \in Requests : WF_vars(Step(r))
-----------------------------------------------------------------------------
\* Every row, request and history variable keeps its type.
TypeOK ==
  /\ profile \in [vague : BOOLEAN, gated : BOOLEAN, parent : BOOLEAN]
  /\ chosen \in BOOLEAN
  /\ status \in {"running"} \cup Kinds \cup Ended
  /\ conts \in Seq(Continuations) /\ Len(conts) <= MaxContinuations
  /\ lapsed \in 0..Len(conts)
  /\ tool \in {"none", "running", "succeeded", "failed", "cancelled", "timed_out"}
  /\ req \in [Requests -> Handlers]
  /\ carried \in BOOLEAN /\ lost \in BOOLEAN

Running == {r \in Requests : req[r].op = "run"}
Open == {c \in DOMAIN conts : conts[c].status = "pending"}

\* However answers, cancellations, expiries and reconciliations overlap, at
\* most one request runs the execution, none does while a question waits for
\* its answer, and at most one question waits: resume claims the continuation
\* with UPDATE ... WHERE status = 'pending' (execution_service.py:1517).
OneRun ==
  /\ \A r, s \in Running : r = s
  /\ \A c, d \in Open : c = d
  /\ Running # {} => Open = {}

\* A tool that needs an approval is called only after somebody other than the
\* requester, who may approve, approved a question of this execution: neither
\* a denial, nor the answer to another question, nor any overlap of answers,
\* cancellations and expiries opens the gate (:1156).  The gate reads a key of
\* the run's values, so executions whose values came with it are excepted.
ToolApproved ==
  profile.gated /\ tool # "none" /\ ~carried =>
    \E c \in DOMAIN conts :
      /\ conts[c].kind = "approval" /\ ~conts[c].denied
      /\ conts[c].by \in Approvers \ {Owner}

\* Unless a process died in the middle, an execution that has not ended is
\* being run, or waits with a pending question of the kind its status names,
\* or is being denied: the status that a client reads is never that of a run
\* or of a question that is gone.  (It need not be answerable; see Answerable.)
SomebodyActs ==
  \/ lost
  \/ status \in Ended
  \/ status = "running" /\ Running # {}
  \/ \E c \in Open : conts[c].kind = status
  \/ \E r \in Requests : req[r].op = "deny" /\ req[r].at # "none"

\* An execution that succeeded has its result: the selected tool succeeded, or
\* no tool was selected and the model answered.  A tool row that the parent
\* cancelled under the run does not count (:1187).
SucceededHasResult == status = "succeeded" => tool = IF chosen THEN "succeeded" ELSE "none"

\* Unless its process dies, an execution that runs ends or asks: every run is
\* bounded by wait_for, however the tool or the model behaves (:547).
RunSettles == status = "running" ~> status # "running" \/ lost
-----------------------------------------------------------------------------
(* What tests and documents say and the code does not keep; see the README.  *)

\* "cancellation is durable, idempotent and blocks resume": a cancelled
\* execution stays cancelled (tests/test_agent_execution_phase3.py:321).
CancelIsDurable == [][status = "cancelled" => status' = "cancelled"]_status

\* A clarification that was answered is not asked again (execution_service.py:
\* 1012-1017: "and not clarification_consumed").
ClarifiedOnce ==
  Cardinality({c \in DOMAIN conts : conts[c].kind = "clarification"}) <= 1

\* A question that waits can be answered: its row may become consumed
\* (test_clarification_is_authorized_validated_and_resumes_same_execution,
\* tests/test_agent_execution_phase3.py:340).
Answerable == \A c \in Open : Fits(c, "consumed")
=============================================================================
