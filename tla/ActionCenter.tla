----------------------------- MODULE ActionCenter -----------------------------
(***************************************************************************)
(* One proposed action of the action center: its row, its approval         *)
(* requests, the human decisions, the execution attempts and their         *)
(* verification, and the HTTP requests that work on them.                  *)
(*                                                                         *)
(* The handlers are synchronous: they run on a thread pool, in several     *)
(* processes, each in one READ COMMITTED transaction.  Only execute locks  *)
(* the action row.  Every other handler loads the row, decides on what it  *)
(* loaded, and its flush writes the columns it changed relative to that    *)
(* snapshot: a request is a Load step and a Commit step, with a third one  *)
(* between them for decide.  ApprovalRequest carries a version column: of  *)
(* two requests that loaded the same approval the second one to write it   *)
(* fails and rolls back.  ProposedAction carries none.                     *)
(***************************************************************************)
EXTENDS Naturals, FiniteSets

CONSTANTS
  Actors,        \* the users of the tenant
  Nobody,        \* an approver or verifier column that is NULL
  Requester,     \* action.requester_id
  Admins,        \* the users with actions.admin
  Payloads,      \* values of the payload column, which the fingerprint covers
  Critical,      \* the payloads with critical_path or production_impact set
  Keys,          \* idempotency keys
  Requests,      \* HTTP requests in flight at once
  Overlap,       \* may requests overlap?
  Assignees,     \* bound: the users named in submissions and delegations, or Nobody
  MaxVersion,    \* bound: versions of the action
  MaxApprovals   \* bound: submissions

ASSUME ActorAssumption   == /\ Requester \in Actors /\ Admins \subseteq Actors
                            /\ Nobody \notin Actors
                            /\ Assignees \subseteq Actors \cup {Nobody}
ASSUME PayloadAssumption == Critical \subseteq Payloads
ASSUME BoundAssumption   == /\ MaxVersion \in Nat \ {0} /\ MaxApprovals \in Nat
                            /\ IsFiniteSet(Keys)
ASSUME ModeAssumption    == Overlap \in BOOLEAN

VARIABLES
  action,     \* the delivery_proposed_actions row: status, version, payload
  expired,    \* its expires_at, which every approval copies, has passed
  approvals,  \* its approval_requests rows, in order of submission
  decisions,  \* the committed action_approval_decisions rows
  execs,      \* the action_executions row of each idempotency key, with its
              \* action_verifications row in check and verifier
  req         \* the requests in flight

vars == <<action, expired, approvals, decisions, execs, req>>
-----------------------------------------------------------------------------
Terminal  == {"VERIFIED", "REJECTED", "CANCELLED", "EXPIRED"}
Editable  == {"DRAFT", "CHANGES_REQUESTED"}
Statuses  == Terminal \cup Editable \cup
             {"PENDING_APPROVAL", "APPROVED", "VERIFYING", "FAILED", "VERIFICATION_FAILED"}
Versions  == 1 .. MaxVersion
Rows      == [status : Statuses, version : Versions, payload : Payloads]

Approvals == 1 .. MaxApprovals
Verdicts  == {"APPROVED", "REJECTED", "CHANGES_REQUESTED"}
Requested == [status : {"PENDING", "CANCELLED", "EXPIRED", "SUPERSEDED"} \cup Verdicts,
              version : Versions, payload : Payloads, requester : Actors,
              assigned : Actors \cup {Nobody}]
Absent    == [status |-> "ABSENT"]
Decisions == [approval : Approvals, version : Versions, actor : Actors, decision : Verdicts]
Attempts  == [status : {"EXECUTED", "FAILED"}, version : Versions, payload : Payloads,
              by : Actors, attempt : Nat, verifier : Actors \cup {Nobody},
              check : {"NONE", "PENDING", "VERIFIED", "VERIFICATION_FAILED"}]

(* policy_for: how many approvals the payload takes. *)
Required(payload) == IF payload \in Critical THEN 2 ELSE 1

MayManage(u) == u = Requester \/ u \in Admins

Pending == {a \in Approvals : approvals[a].status = "PENDING"}

(* A flush writes a column only when it differs from what was loaded. *)
Flushed(loaded, new, current) == IF new # loaded THEN new ELSE current
-----------------------------------------------------------------------------
(* A request that is not running, and one that has loaded the action (and    *)
(* the approval `on`, for the endpoints that name one).                      *)
Idle == [pc |-> "idle"]
Loaded(op, u, a, k) ==
  [pc |-> "loaded", op |-> op, actor |-> u, on |-> a, key |-> k, snap |-> action]

Load(r, request) ==
  /\ req[r] = Idle
  /\ Overlap \/ \A q \in Requests : req[q] = Idle
  /\ req' = [req EXCEPT ![r] = request]
  /\ UNCHANGED <<action, expired, approvals, decisions, execs>>

Doing(r, op) == req[r].pc = "loaded" /\ req[r].op = op

\* wrong on purpose: no version column, the last writer wins
WrittenUnversioned(r, S) == req' = [req EXCEPT ![r] = Idle]

(* The request ends having written the approvals in S: any other one that    *)
(* loaded one of them can only fail with StaleDataError and roll back.       *)
Written(r, S) ==
  req' = [q \in Requests |->
            IF q = r \/ (req[q] # Idle /\ req[q].on \in S) THEN Idle ELSE req[q]]

(* The process dies, the client goes away or the database aborts the         *)
(* transaction: nothing of the request is kept.                              *)
Abort(r) ==
  /\ req[r] # Idle
  /\ req' = [req EXCEPT ![r] = Idle]
  /\ UNCHANGED <<action, expired, approvals, decisions, execs>>

Rewritten(a, status, assigned) ==
  [status |-> status, version |-> approvals[a].version, payload |-> approvals[a].payload,
   requester |-> approvals[a].requester, assigned |-> assigned]

Closed(S, status) ==
  [a \in Approvals |-> IF a \in S THEN Rewritten(a, status, approvals[a].assigned)
                                  ELSE approvals[a]]

Assigned(a, u) == [approvals EXCEPT ![a] = Rewritten(a, "PENDING", u)]

WithStatus(row, status) ==
  [status |-> status, version |-> row.version, payload |-> row.payload]

WriteStatus(r, new) == WithStatus(action, Flushed(req[r].snap.status, new, action.status))
-----------------------------------------------------------------------------
(* edit.  expected_version is compared with the row as loaded. *)
EditLoad(r, u) ==
  /\ MayManage(u) /\ action.status \in Editable /\ action.version < MaxVersion
  /\ Load(r, Loaded("edit", u, 0, Nobody))

EditCommit(r, p) ==
  /\ Doing(r, "edit")
  /\ LET snap == req[r].snap IN
     action' = [status  |-> Flushed(snap.status, "DRAFT", action.status),
                version |-> snap.version + 1,
                payload |-> Flushed(snap.payload, p, action.payload)]
  /\ approvals' = Closed(Pending, "SUPERSEDED")
  /\ Written(r, Pending)
  /\ UNCHANGED <<expired, decisions, execs>>

(* submit.  In any other status it returns the approval there is. *)
SubmitLoad(r, u) ==
  /\ MayManage(u) /\ action.status \in Editable
  /\ Load(r, Loaded("submit", u, 0, Nobody))

SubmitCommit(r, a, approver) ==
  /\ Doing(r, "submit")
  /\ approvals[a] = Absent
  /\ \A b \in 1 .. a - 1 : approvals[b] # Absent
  /\ action' = WriteStatus(r, "PENDING_APPROVAL")
  /\ approvals' = [approvals EXCEPT ![a] =
       [status |-> "PENDING", version |-> req[r].snap.version,
        payload |-> req[r].snap.payload, requester |-> req[r].actor,
        assigned |-> approver]]
  /\ Written(r, {})
  /\ UNCHANGED <<expired, decisions, execs>>

(* decide, up to its insert.  The assignment is checked before the status,   *)
(* expiry before the version; action.status is not looked at.                *)
Assignee(u, a) == approvals[a].assigned \in {Nobody, u}

Decided(d, a, v, u) == d.approval = a /\ d.version = v /\ d.actor = u

DecideLoad(r, u, a) ==
  /\ a \in Pending /\ Assignee(u, a)
  /\ \/ expired /\ Load(r, Loaded("expire", u, a, Nobody))
     \/ /\ ~expired /\ approvals[a].version # action.version
        /\ Load(r, Loaded("supersede", u, a, Nobody))
     \/ /\ ~expired /\ approvals[a].version = action.version
        /\ approvals[a].requester # u
        /\ \A d \in decisions : ~Decided(d, a, action.version, u)
        /\ Load(r, Loaded("decide", u, a, Nobody))

ExpireCommit(r) ==
  /\ Doing(r, "expire")
  /\ action' = WriteStatus(r, "EXPIRED")
  /\ approvals' = Closed({req[r].on}, "EXPIRED")
  /\ Written(r, {req[r].on})
  /\ UNCHANGED <<expired, decisions, execs>>

SupersedeCommit(r) ==
  /\ Doing(r, "supersede")
  /\ approvals' = Closed({req[r].on}, "SUPERSEDED")
  /\ Written(r, {req[r].on})
  /\ UNCHANGED <<action, expired, decisions, execs>>

(* decide, its insert and the count.  The insert waits for an uncommitted    *)
(* twin and fails on a committed one; the count sees what others committed   *)
(* and the request's own row, over all the approvals of the version.         *)
Mine(r, verdict) == [approval |-> req[r].on, version |-> req[r].snap.version,
                     actor |-> req[r].actor, decision |-> verdict]

Approving(version) == {d \in decisions : d.version = version /\ d.decision = "APPROVED"}

\* wrong on purpose: a count over all versions
EnoughEver(r) == Cardinality({d \in decisions : d.decision = "APPROVED"}) + 1
                   >= Required(approvals[req[r].on].payload)

Enough(r) == Cardinality(Approving(req[r].snap.version)) + 1
               >= Required(approvals[req[r].on].payload)

DecideCount(r, verdict) ==
  /\ Doing(r, "decide")
  /\ \A d \in decisions : ~Decided(d, req[r].on, req[r].snap.version, req[r].actor)
  /\ \A q \in Requests : ~(req[q].pc = "counted" /\ req[q].on = req[r].on
                             /\ req[q].actor = req[r].actor)
  /\ req' = [req EXCEPT ![r] =
       [pc |-> "counted", op |-> "decide", actor |-> req[r].actor, on |-> req[r].on,
        key |-> req[r].key, snap |-> req[r].snap, decision |-> verdict, enough |-> Enough(r)]]
  /\ UNCHANGED <<action, expired, approvals, decisions, execs>>

(* An approval that is one of several leaves the request to the pool. *)
Outcome(r) ==
  IF req[r].decision = "APPROVED" /\ ~req[r].enough THEN "PENDING_APPROVAL"
                                                   ELSE req[r].decision
DecideCommit(r) ==
  /\ req[r].pc = "counted"
  /\ LET a == req[r].on IN
     /\ decisions' = decisions \cup {Mine(r, req[r].decision)}
     /\ action' = WriteStatus(r, Outcome(r))
     /\ approvals' = IF Outcome(r) = "PENDING_APPROVAL"
                     THEN Assigned(a, Nobody)
                     ELSE Closed({a}, req[r].decision)
     /\ Written(r, {a})
  /\ UNCHANGED <<expired, execs>>

DelegateLoad(r, u, a) ==
  /\ a \in Pending /\ Assignee(u, a)
  /\ Load(r, Loaded("delegate", u, a, Nobody))

DelegateCommit(r, u) ==
  /\ Doing(r, "delegate")
  /\ u # approvals[req[r].on].requester
  /\ approvals' = Assigned(req[r].on, u)
  /\ Written(r, {req[r].on})
  /\ UNCHANGED <<action, expired, decisions, execs>>
-----------------------------------------------------------------------------
(* execute, from the lock on the action row to its commit: nobody else       *)
(* writes the row in between, and the EXECUTING status is never committed.   *)
(* The lock conflicts with the foreign-key lock of a decision inserted by a  *)
(* transaction still open.  `seen` is the action as the session sees it.     *)
RowFree == \A q \in Requests : req[q].pc # "counted"

\* wrong on purpose: the fingerprint is not compared
BoundByVersion(seen, a) == /\ approvals[a].status = "APPROVED"
                           /\ approvals[a].version = seen.version

Bound(seen, a) == /\ approvals[a].status = "APPROVED"
                  /\ approvals[a].version = seen.version
                  /\ approvals[a].payload = seen.payload

Attempted == {k \in Keys : execs[k] # Absent}

Attempt(seen, u, status) ==
  [status |-> status, version |-> seen.version, payload |-> seen.payload, by |-> u,
   attempt |-> Cardinality(Attempted) + 1, verifier |-> Nobody,
   check |-> IF status = "EXECUTED" THEN "PENDING" ELSE "NONE"]

\* wrong on purpose: the success is committed before the verification is created
RanUncommitted(status) == IF status = "EXECUTED" THEN "EXECUTING" ELSE "FAILED"

Ran(status) == IF status = "EXECUTED" THEN "VERIFYING" ELSE "FAILED"

\* wrong on purpose: an approved request is enough, whatever became of the action
MayRunApproved(seen) == \E a \in Approvals : Bound(seen, a)

MayRun(seen) == seen.status = "APPROVED"

Run(seen, u, k) ==
  /\ RowFree
  /\ execs[k] = Absent
  /\ MayRun(seen)
  /\ \/ /\ expired
        /\ action' = WithStatus(action, "EXPIRED")
        /\ UNCHANGED execs
     \/ /\ ~expired
        /\ \E a \in Approvals : Bound(seen, a)
        /\ \E status \in {"EXECUTED", "FAILED"} :
             /\ action' = WithStatus(action, Ran(status))
             /\ execs' = [execs EXCEPT ![k] = Attempt(seen, u, status)]
  /\ UNCHANGED <<expired, approvals, decisions>>

Execute(u, k) ==
  /\ Overlap \/ \A q \in Requests : req[q] = Idle
  /\ Run(action, u, k)
  /\ UNCHANGED req

(* The retry endpoint loads the action before execute locks it, and the      *)
(* locking query does not refresh what the session has loaded.               *)
RetryLoad(r, u) ==
  /\ action.status \in {"FAILED", "APPROVED"}
  /\ Load(r, Loaded("retry", u, 0, Nobody))

Reapproved(snap) ==
  WithStatus(snap, IF snap.status = "FAILED" THEN "APPROVED" ELSE snap.status)

RetryCommit(r, k) ==
  /\ Doing(r, "retry")
  /\ Run(Reapproved(req[r].snap), req[r].actor, k)
  /\ Written(r, {})

(* verify checks the latest successful attempt. *)
Executed == {k \in Keys : execs[k] # Absent /\ execs[k].status = "EXECUTED"}
Latest(k) == k \in Executed /\ \A j \in Executed : execs[j].attempt <= execs[k].attempt

\* wrong on purpose: whoever executed may verify
VerifyLoadOwn(r, u, k) ==
  /\ action.status = "VERIFYING"
  /\ Latest(k)
  /\ Load(r, Loaded("verify", u, 0, k))

VerifyLoad(r, u, k) ==
  /\ action.status = "VERIFYING"
  /\ Latest(k) /\ execs[k].by # u
  /\ Load(r, Loaded("verify", u, 0, k))

Verified(k, result, u) ==
  [status |-> execs[k].status, version |-> execs[k].version, payload |-> execs[k].payload,
   by |-> execs[k].by, attempt |-> execs[k].attempt, verifier |-> u, check |-> result]

Found(found) == IF found THEN "VERIFIED" ELSE "VERIFICATION_FAILED"

VerifyCommit(r, found) ==
  /\ Doing(r, "verify")
  /\ execs' = [execs EXCEPT ![req[r].key] =
                               Verified(req[r].key, Found(found), req[r].actor)]
  /\ action' = WriteStatus(r, Found(found))
  /\ Written(r, {})
  /\ UNCHANGED <<expired, approvals, decisions>>

\* wrong on purpose: terminal actions can be cancelled, and pending approvals
\* survive the cancellation
CancelLoadTerminal(r, u) ==
  /\ MayManage(u) /\ action.status # "VERIFYING"
  /\ Load(r, Loaded("cancel", u, 0, Nobody))
CancelCommitAlone(r) ==
  /\ Doing(r, "cancel")
  /\ action' = WriteStatus(r, "CANCELLED")
  /\ Written(r, {})
  /\ UNCHANGED <<expired, approvals, decisions, execs>>

CancelLoad(r, u) ==
  /\ MayManage(u) /\ action.status \notin Terminal \cup {"VERIFYING"}
  /\ Load(r, Loaded("cancel", u, 0, Nobody))

CancelCommit(r) ==
  /\ Doing(r, "cancel")
  /\ action' = WriteStatus(r, "CANCELLED")
  /\ approvals' = Closed(Pending, "CANCELLED")
  /\ Written(r, Pending)
  /\ UNCHANGED <<expired, decisions, execs>>

Expire ==
  /\ ~expired /\ expired' = TRUE
  /\ UNCHANGED <<action, approvals, decisions, execs, req>>
-----------------------------------------------------------------------------
Init ==
  /\ \E p \in Payloads : action = [status |-> "DRAFT", version |-> 1, payload |-> p]
  /\ expired = FALSE
  /\ approvals = [a \in Approvals |-> Absent]
  /\ decisions = {}
  /\ execs = [k \in Keys |-> Absent]
  /\ req = [r \in Requests |-> Idle]

Loads(r, u) ==
  \/ EditLoad(r, u) \/ SubmitLoad(r, u) \/ RetryLoad(r, u) \/ CancelLoad(r, u)
  \/ \E a \in Approvals : DecideLoad(r, u, a) \/ DelegateLoad(r, u, a)
  \/ \E k \in Keys : VerifyLoad(r, u, k)

Commits(r) ==
  \/ \E p \in Payloads : EditCommit(r, p)
  \/ \E a \in Approvals, u \in Assignees : SubmitCommit(r, a, u)
  \/ ExpireCommit(r) \/ SupersedeCommit(r)
  \/ \E verdict \in Verdicts : DecideCount(r, verdict)
  \/ DecideCommit(r)
  \/ \E u \in Assignees \ {Nobody} : DelegateCommit(r, u)
  \/ \E k \in Keys : RetryCommit(r, k)
  \/ \E found \in BOOLEAN : VerifyCommit(r, found)
  \/ CancelCommit(r)
  \/ Abort(r)

Next ==
  \/ \E r \in Requests : Commits(r) \/ \E u \in Actors : Loads(r, u)
  \/ \E u \in Actors, k \in Keys : Execute(u, k)
  \/ Expire

Spec == Init /\ [][Next]_vars
-----------------------------------------------------------------------------
(* Every column of the five tables and every field of a request in flight    *)
(* has a value of its type.                                                  *)
InFlight ==
  [pc : {"loaded"}, actor : Actors, on : {0} \cup Approvals, key : Keys \cup {Nobody},
   op : {"edit", "submit", "expire", "supersede", "decide", "delegate", "retry",
         "verify", "cancel"}, snap : Rows]
  \cup
  [pc : {"counted"}, op : {"decide"}, actor : Actors, on : Approvals,
   key : Keys \cup {Nobody}, snap : Rows, decision : Verdicts, enough : BOOLEAN]

TypeOK ==
  /\ action \in Rows /\ expired \in BOOLEAN
  /\ approvals \in [Approvals -> Requested \cup {Absent}]
  /\ decisions \subseteq Decisions
  /\ execs \in [Keys -> Attempts \cup {Absent}]
  /\ req \in [Requests -> InFlight \cup {Idle}]

(* One request at a time: an action waits for approval exactly when one      *)
(* pending approval request exists, and that one binds the version and the   *)
(* payload the action has now (edit, cancel and decide keep them together).  *)
WaitsForOneApproval ==
  /\ (action.status = "PENDING_APPROVAL") <=> (Pending # {})
  /\ \A a, b \in Pending : a = b
  /\ \A a \in Pending : /\ approvals[a].version = action.version
                        /\ approvals[a].payload = action.payload

(* One successful attempt per action, whatever keys execute and retry get. *)
ExecutedAtMostOnce == Cardinality(Executed) <= 1

(* A decided, cancelled, expired or superseded approval request never        *)
(* changes again, however many requests loaded it while it was pending.      *)
DecidedIsFinal ==
  [][\A a \in Approvals :
       approvals[a].status \notin {"ABSENT", "PENDING"} => approvals'[a] = approvals[a]]_vars

(* An approved request has as many committed approving decisions of its      *)
(* version behind it as the policy takes for its payload.                    *)
ApprovedHasDecisions ==
  \A a \in Approvals : approvals[a].status = "APPROVED" =>
    Cardinality(Approving(approvals[a].version)) >= Required(approvals[a].payload)

(* Whatever overlaps, an attempt carries a version and a payload that an     *)
(* approval request with that binding has been approved for.                 *)
ExecutedWasApproved ==
  \A k \in Attempted : \E a \in Approvals :
    /\ approvals[a].status = "APPROVED"
    /\ approvals[a].version = execs[k].version
    /\ approvals[a].payload = execs[k].payload

(* Nobody verifies an attempt of his own, even when a retry replaced the     *)
(* attempt that was the latest while the verification was under way.         *)
VerifierIsIndependent ==
  \A k \in Attempted : execs[k].verifier # execs[k].by

(* An action that reads as verified has a successful attempt that somebody   *)
(* other than the one who made it has found in the system it was made in,    *)
(* whatever edits, retries and other verifications were in flight.           *)
VerifiedHasEvidence ==
  action.status = "VERIFIED" =>
    \E k \in Executed : /\ execs[k].check = "VERIFIED"
                        /\ execs[k].verifier \notin {Nobody, execs[k].by}

(* A terminal action keeps its status (docs/action-state-machines.md:28). *)
TerminalIsFinal ==
  [][action.status \in Terminal => action'.status = action.status]_vars

(* Editing is refused on a stale version: the payload never changes without  *)
(* the version moving on (docs/action-state-machines.md:24).                 *)
VersionNamesPayload ==
  [][action'.payload # action.payload => action'.version > action.version]_vars

(* A material edit supersedes the prior request: no pending approval is for  *)
(* an older version than the action's (docs/action-state-machines.md:20).    *)
PendingIsCurrent == \A a \in Pending : approvals[a].version = action.version

(* The approvals behind an approved request come from distinct actors        *)
(* (docs/approval-security.md:9).                                            *)
DistinctApprovers ==
  \A a \in Approvals : approvals[a].status = "APPROVED" =>
    Cardinality({d.actor : d \in Approving(approvals[a].version)})
      >= Required(approvals[a].payload)

(* The requester of the action approves none of its versions                 *)
(* (docs/approval-security.md:9).                                            *)
RequesterDoesNotApprove ==
  \A d \in decisions : d.decision = "APPROVED" => d.actor # Requester

(* One request at a time, the row goes through the abstract life cycle. *)
Lifecycle == INSTANCE ActionLifecycle WITH
  status  <- action.status,
  version <- action.version,
  done    <- Executed # {}
RefinesLifecycle == Lifecycle!Spec
=============================================================================
