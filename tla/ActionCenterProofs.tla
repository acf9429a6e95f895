-------------------------- MODULE ActionCenterProofs --------------------------
(***************************************************************************)
(* What the action center keeps although its requests overlap, for every   *)
(* number of users, payloads, keys and requests in flight.  The invariant  *)
(* behind all of it is OpenRequests: a request in flight that names an     *)
(* approval finds it pending, because the version column ends every other  *)
(* request that loaded an approval one of them writes.                     *)
(***************************************************************************)
EXTENDS ActionCenter, FiniteSetTheorems, TLAPS

Deciding == {"expire", "supersede", "decide", "delegate"}

(* A request in flight names a pending approval where its operation needs    *)
(* one, an attempt that exists, and a version that can still be edited.      *)
Sound(q) ==
  /\ req[q].op \in Deciding => req[q].on \in Approvals
  /\ req[q].on \in Approvals => approvals[req[q].on].status = "PENDING"
  /\ req[q].op = "verify" => req[q].key \in Keys /\ execs[req[q].key] # Absent
  /\ req[q].op = "edit" => req[q].snap.version < MaxVersion

OpenRequests == \A q \in Requests : req[q] # Idle => Sound(q)

Inv == TypeOK /\ OpenRequests

States == [Approvals -> Requested \cup {Absent}]
Closing == {"CANCELLED", "EXPIRED", "SUPERSEDED"} \cup Verdicts
-----------------------------------------------------------------------------
LEMMA RowType ==
  ASSUME NEW row \in Rows, NEW s \in Statuses
  PROVE  WithStatus(row, s) \in Rows
BY DEF WithStatus, Rows

LEMMA WriteType ==
  ASSUME Inv, NEW r \in Requests, req[r] # Idle, NEW s \in Statuses
  PROVE  WriteStatus(r, s) \in Rows
<1>1. action \in Rows /\ action.status \in Statuses
  BY DEF Inv, TypeOK, Rows
<1>2. Flushed(req[r].snap.status, s, action.status) \in Statuses
  BY <1>1 DEF Flushed
<1> QED
  BY <1>1, <1>2, RowType DEF WriteStatus

(* A pending approval is a filed one, and rewriting it gives one. *)
LEMMA RewrittenType ==
  ASSUME Inv, NEW a \in Pending, NEW s \in Closing \cup {"PENDING"},
         NEW u \in Actors \cup {Nobody}
  PROVE  /\ a \in Approvals /\ approvals[a] \in Requested
         /\ Rewritten(a, s, u) \in Requested
<1>1. a \in Approvals /\ approvals[a].status = "PENDING"
  BY DEF Pending
<1>2. approvals[a] \in Requested
  BY <1>1 DEF Inv, TypeOK, Absent
<1> QED
  BY <1>1, <1>2 DEF Rewritten, Requested, Closing

LEMMA ClosedType ==
  ASSUME Inv, NEW S \in SUBSET Pending, NEW s \in Closing
  PROVE  /\ Closed(S, s) \in States
         /\ \A a \in Approvals \ S : Closed(S, s)[a] = approvals[a]
         /\ \A a \in S : Closed(S, s)[a].status = s
<1>1. \A a \in S : /\ approvals[a].assigned \in Actors \cup {Nobody}
                   /\ Rewritten(a, s, approvals[a].assigned) \in Requested
  <2> TAKE a \in S
  <2>1. a \in Pending
    OBVIOUS
  <2>2. approvals[a] \in Requested
    BY <2>1, RewrittenType
  <2>3. approvals[a].assigned \in Actors \cup {Nobody}
    BY <2>2 DEF Requested
  <2> QED
    BY <2>1, <2>3, RewrittenType
<1>2. approvals \in States /\ S \subseteq Approvals
  BY DEF Inv, TypeOK, States, Pending
<1>3. Closed(S, s) \in States
  BY <1>1, <1>2 DEF Closed, States
<1>4. \A a \in Approvals \ S : Closed(S, s)[a] = approvals[a]
  BY DEF Closed
<1>5. \A a \in S : Closed(S, s)[a].status = s
  BY <1>2 DEF Closed, Rewritten
<1> QED
  BY <1>3, <1>4, <1>5

LEMMA AssignedType ==
  ASSUME Inv, NEW a \in Pending, NEW u \in Actors \cup {Nobody}
  PROVE  /\ Assigned(a, u) \in States
         /\ \A b \in Approvals \ {a} : Assigned(a, u)[b] = approvals[b]
<1>1. a \in Approvals /\ Rewritten(a, "PENDING", u) \in Requested
  BY RewrittenType
<1>2. approvals \in States
  BY DEF Inv, TypeOK, States
<1> QED
  BY <1>1, <1>2 DEF Assigned, States

(* Whatever a request writes: if it wrote only the approvals S that were     *)
(* filed, the requests that remain are sound.                                *)
LEMMA CommitKeepsInv ==
  ASSUME Inv, NEW r \in Requests, NEW S \in SUBSET Approvals, Written(r, S),
         action' \in Rows, expired' \in BOOLEAN, approvals' \in States,
         \A a \in Approvals \ S : approvals'[a] = approvals[a] \/ approvals[a] = Absent,
         decisions' \subseteq Decisions,
         execs' \in [Keys -> Attempts \cup {Absent}],
         \A k \in Keys : execs[k] # Absent => execs'[k] # Absent
  PROVE  Inv'
<1>1. req \in [Requests -> InFlight \cup {Idle}]
  BY DEF Inv, TypeOK
<1>2. req' \in [Requests -> InFlight \cup {Idle}]
  BY <1>1 DEF Written
<1>3. \A q \in Requests : req'[q] # Idle =>
        req'[q] = req[q] /\ req[q] # Idle /\ req[q].on \notin S
  BY <1>1 DEF Written
<1>4. ASSUME NEW q \in Requests, req'[q] # Idle
      PROVE  Sound(q)'
  <2>1. req'[q] = req[q] /\ req[q].on \notin S /\ Sound(q)
    BY <1>3, <1>4 DEF Inv, OpenRequests
  <2>2. req[q].on \in Approvals => approvals'[req[q].on].status = "PENDING"
    BY <2>1 DEF Sound, Absent
  <2>3. req[q].op = "verify" => execs'[req[q].key] # Absent
    BY <2>1 DEF Sound
  <2> QED
    BY <2>1, <2>2, <2>3 DEF Sound
<1>5. OpenRequests'
  BY <1>4 DEF OpenRequests
<1> QED
  BY <1>2, <1>5 DEF Inv, TypeOK, States

LEMMA LoadKeepsInv ==
  ASSUME Inv, NEW r \in Requests, NEW x \in InFlight, Load(r, x),
         x.op \in Deciding => x.on \in Approvals,
         x.on \in Approvals => approvals[x.on].status = "PENDING",
         x.op = "verify" => x.key \in Keys /\ execs[x.key] # Absent,
         x.op = "edit" => x.snap.version < MaxVersion
  PROVE  Inv'
<1>1. req' = [req EXCEPT ![r] = x]
      /\ UNCHANGED <<action, expired, approvals, decisions, execs>>
  BY DEF Load
<1>2. req' \in [Requests -> InFlight \cup {Idle}]
  BY <1>1 DEF Inv, TypeOK
<1>3. ASSUME NEW q \in Requests, req'[q] # Idle
      PROVE  Sound(q)'
  <2>1. CASE q = r
    <3>1. req'[q] = x
      BY <1>1, <2>1 DEF Inv, TypeOK
    <3> QED
      BY <1>1, <3>1 DEF Sound
  <2>2. CASE q # r
    <3>1. req'[q] = req[q] /\ Sound(q)
      BY <1>1, <1>3, <2>2 DEF Inv, TypeOK, OpenRequests
    <3> QED
      BY <1>1, <3>1 DEF Sound
  <2> QED
    BY <2>1, <2>2
<1> QED
  BY <1>1, <1>2, <1>3 DEF Inv, TypeOK, OpenRequests
-----------------------------------------------------------------------------
LEMMA LoadedType ==
  ASSUME Inv, NEW u \in Actors, NEW a \in {0} \cup Approvals, NEW k \in Keys \cup {Nobody},
         NEW op \in {"edit", "submit", "expire", "supersede", "decide", "delegate",
                     "retry", "verify", "cancel"}
  PROVE  /\ Loaded(op, u, a, k) \in InFlight
         /\ Loaded(op, u, a, k).op = op /\ Loaded(op, u, a, k).on = a
         /\ Loaded(op, u, a, k).key = k /\ Loaded(op, u, a, k).snap = action
BY DEF Inv, TypeOK, Loaded, InFlight

LEMMA ApprovalsAreNumbers == 0 \notin Approvals
BY BoundAssumption DEF Approvals

LEMMA LoadsKeepInv ==
  ASSUME Inv, NEW r \in Requests, NEW u \in Actors, Loads(r, u)
  PROVE  Inv'
<1> DEFINE Plain(op) == Loaded(op, u, 0, Nobody)
           Named(op, a) == Loaded(op, u, a, Nobody)
<1>1. ASSUME NEW op \in {"submit", "retry", "cancel"}, Load(r, Plain(op))
      PROVE  Inv'
  <2>1. /\ Plain(op) \in InFlight /\ Plain(op).op = op /\ Plain(op).on = 0
    BY LoadedType
  <2>2. op \notin Deciding /\ op # "verify" /\ op # "edit"
    BY DEF Deciding
  <2> QED
    BY <1>1, <2>1, <2>2, ApprovalsAreNumbers, LoadKeepsInv
<1>2. ASSUME NEW a \in Pending, NEW op \in Deciding, Load(r, Named(op, a))
      PROVE  Inv'
  <2>1. a \in Approvals /\ approvals[a].status = "PENDING"
    BY DEF Pending
  <2>2. /\ Named(op, a) \in InFlight /\ Named(op, a).op = op /\ Named(op, a).on = a
    <3>1. op \in {"edit", "submit", "expire", "supersede", "decide", "delegate",
                  "retry", "verify", "cancel"}
      BY DEF Deciding
    <3>2. a \in {0} \cup Approvals /\ Nobody \in Keys \cup {Nobody}
      BY <2>1
    <3> QED
      BY <3>1, <3>2, LoadedType
  <2>3. op # "verify" /\ op # "edit"
    BY DEF Deciding
  <2> QED
    BY <1>2, <2>1, <2>2, <2>3, LoadKeepsInv
<1>3. CASE EditLoad(r, u)
  <2>1. Load(r, Plain("edit")) /\ action.version < MaxVersion
    BY <1>3 DEF EditLoad
  <2>2. /\ Plain("edit") \in InFlight /\ Plain("edit").op = "edit" /\ Plain("edit").on = 0
        /\ Plain("edit").snap = action
    BY LoadedType
  <2>3. "edit" \notin Deciding
    BY DEF Deciding
  <2> QED
    BY <2>1, <2>2, <2>3, ApprovalsAreNumbers, LoadKeepsInv
<1>4. CASE SubmitLoad(r, u) \/ RetryLoad(r, u) \/ CancelLoad(r, u)
  BY <1>1, <1>4 DEF SubmitLoad, RetryLoad, CancelLoad
<1>5. CASE \E a \in Approvals : DecideLoad(r, u, a) \/ DelegateLoad(r, u, a)
  <2>1. PICK a \in Pending : \E op \in Deciding : Load(r, Named(op, a))
    BY <1>5 DEF DecideLoad, DelegateLoad, Deciding
  <2> QED
    BY <1>2, <2>1
<1>6. CASE \E k \in Keys : VerifyLoad(r, u, k)
  <2>1. PICK k \in Keys : Load(r, Loaded("verify", u, 0, k)) /\ execs[k] # Absent
    BY <1>6 DEF VerifyLoad, Latest, Executed
  <2>2. /\ Loaded("verify", u, 0, k) \in InFlight /\ Loaded("verify", u, 0, k).op = "verify"
        /\ Loaded("verify", u, 0, k).on = 0 /\ Loaded("verify", u, 0, k).key = k
    BY LoadedType
  <2>3. "verify" \notin Deciding
    BY DEF Deciding
  <2> QED
    BY <2>1, <2>2, <2>3, ApprovalsAreNumbers, LoadKeepsInv
<1> QED
  BY <1>3, <1>4, <1>5, <1>6 DEF Loads

LEMMA InFlightFacts ==
  ASSUME Inv, NEW r \in Requests, req[r] # Idle
  PROVE  /\ req[r] \in InFlight /\ req[r].actor \in Actors /\ req[r].snap \in Rows
         /\ req[r].on \in {0} \cup Approvals /\ Sound(r)
         /\ req[r].on \in Approvals => req[r].on \in Pending
<1>1. req[r] \in InFlight /\ Sound(r)
  BY DEF Inv, TypeOK, OpenRequests
<1>2. /\ req[r].actor \in Actors /\ req[r].snap \in Rows
      /\ req[r].on \in {0} \cup Approvals
  BY <1>1 DEF InFlight
<1> QED
  BY <1>1, <1>2 DEF Sound, Pending

LEMMA DoingFacts ==
  ASSUME Inv, NEW r \in Requests, NEW op, Doing(r, op)
  PROVE  req[r] # Idle /\ req[r].op = op
BY DEF Doing, Idle

(* What stays of the types when a request leaves a table alone. *)
LEMMA Kept ==
  ASSUME Inv
  PROVE  /\ action \in Rows /\ expired \in BOOLEAN /\ approvals \in States
         /\ decisions \subseteq Decisions /\ execs \in [Keys -> Attempts \cup {Absent}]
BY DEF Inv, TypeOK, States

LEMMA EditKeepsInv ==
  ASSUME Inv, NEW r \in Requests, NEW p \in Payloads, EditCommit(r, p)
  PROVE  Inv'
<1>1. req[r] # Idle /\ req[r].op = "edit"
  BY DoingFacts DEF EditCommit
<1>2. req[r].snap \in Rows /\ req[r].snap.version < MaxVersion
  BY <1>1, InFlightFacts DEF Sound
<1>3. action' \in Rows
  <2>1. action' = [status  |-> Flushed(req[r].snap.status, "DRAFT", action.status),
                   version |-> req[r].snap.version + 1,
                   payload |-> Flushed(req[r].snap.payload, p, action.payload)]
    BY DEF EditCommit
  <2>2. action \in Rows
    BY Kept
  <2>3. Flushed(req[r].snap.status, "DRAFT", action.status) \in Statuses
    BY <2>2 DEF Rows, Flushed, Statuses, Editable
  <2>4. Flushed(req[r].snap.payload, p, action.payload) \in Payloads
    BY <2>2 DEF Rows, Flushed
  <2>5. req[r].snap.version + 1 \in Versions
    BY <1>2, BoundAssumption DEF Rows, Versions
  <2> QED
    BY <2>1, <2>3, <2>4, <2>5 DEF Rows
<1>4. /\ approvals' = Closed(Pending, "SUPERSEDED") /\ Written(r, Pending)
      /\ UNCHANGED <<expired, decisions, execs>>
  BY DEF EditCommit
<1>5. /\ approvals' \in States
      /\ \A a \in Approvals \ Pending : approvals'[a] = approvals[a]
  BY <1>4, ClosedType DEF Closing
<1>6. Pending \in SUBSET Approvals
  BY DEF Pending
<1> QED
  BY <1>3, <1>4, <1>5, <1>6, Kept, CommitKeepsInv

LEMMA CancelKeepsInv ==
  ASSUME Inv, NEW r \in Requests, CancelCommit(r)
  PROVE  Inv'
<1>1. req[r] # Idle
  BY DoingFacts DEF CancelCommit
<1>2. action' \in Rows
  BY <1>1, WriteType DEF CancelCommit, Statuses, Terminal
<1>4. /\ approvals' = Closed(Pending, "CANCELLED") /\ Written(r, Pending)
      /\ UNCHANGED <<expired, decisions, execs>>
  BY DEF CancelCommit
<1>5. /\ approvals' \in States
      /\ \A a \in Approvals \ Pending : approvals'[a] = approvals[a]
  BY <1>4, ClosedType DEF Closing
<1>6. Pending \in SUBSET Approvals
  BY DEF Pending
<1> QED
  BY <1>2, <1>4, <1>5, <1>6, Kept, CommitKeepsInv

LEMMA SubmitKeepsInv ==
  ASSUME Inv, NEW r \in Requests, NEW a \in Approvals, NEW u \in Assignees,
         SubmitCommit(r, a, u)
  PROVE  Inv'
<1>1. req[r] # Idle
  BY DoingFacts DEF SubmitCommit
<1>2. action' \in Rows
  BY <1>1, WriteType DEF SubmitCommit, Statuses
<1>3. req[r].snap \in Rows /\ req[r].actor \in Actors /\ u \in Actors \cup {Nobody}
  BY <1>1, InFlightFacts, ActorAssumption
<1>4. DEFINE filed == [status |-> "PENDING", version |-> req[r].snap.version,
                       payload |-> req[r].snap.payload, requester |-> req[r].actor,
                       assigned |-> u]
<1>5. filed \in Requested
  BY <1>3 DEF Requested, Rows
<1>6. /\ approvals[a] = Absent /\ approvals' = [approvals EXCEPT ![a] = filed]
      /\ Written(r, {}) /\ UNCHANGED <<expired, decisions, execs>>
  BY DEF SubmitCommit
<1>7. /\ approvals' \in States
      /\ \A b \in Approvals \ {} : approvals'[b] = approvals[b] \/ approvals[b] = Absent
  BY <1>5, <1>6, Kept DEF States
<1> QED
  BY <1>2, <1>6, <1>7, Kept, CommitKeepsInv

LEMMA CloseOneKeepsInv ==
  ASSUME Inv, NEW r \in Requests,
         ExpireCommit(r) \/ SupersedeCommit(r)
  PROVE  Inv'
<1>1. req[r] # Idle /\ req[r].op \in Deciding
  BY DoingFacts DEF ExpireCommit, SupersedeCommit, Deciding
<1>2. req[r].on \in Approvals /\ {req[r].on} \in SUBSET Pending
  BY <1>1, InFlightFacts DEF Sound
<1>3. action' \in Rows
  <2>1. CASE ExpireCommit(r)
    BY <1>1, <2>1, WriteType DEF ExpireCommit, Statuses, Terminal
  <2>2. CASE SupersedeCommit(r)
    BY <2>2, Kept DEF SupersedeCommit
  <2> QED
    BY <2>1, <2>2
<1>4. /\ \E s \in Closing : approvals' = Closed({req[r].on}, s)
      /\ Written(r, {req[r].on}) /\ UNCHANGED <<expired, decisions, execs>>
  BY DEF ExpireCommit, SupersedeCommit, Closing
<1>5. /\ approvals' \in States
      /\ \A a \in Approvals \ {req[r].on} : approvals'[a] = approvals[a]
  BY <1>2, <1>4, ClosedType
<1> QED
  BY <1>2, <1>3, <1>4, <1>5, Kept, CommitKeepsInv

LEMMA CountKeepsInv ==
  ASSUME Inv, NEW r \in Requests, NEW verdict \in Verdicts, DecideCount(r, verdict)
  PROVE  Inv'
<1>1. req[r] # Idle /\ req[r].op = "decide"
  BY DoingFacts DEF DecideCount
<1>2. /\ req[r] \in InFlight /\ req[r].actor \in Actors /\ req[r].snap \in Rows
      /\ req[r].on \in Approvals /\ Sound(r)
  BY <1>1, InFlightFacts DEF Sound, Deciding
<1>3. req[r].key \in Keys \cup {Nobody}
  BY <1>2 DEF InFlight
<1>4. Enough(r) \in BOOLEAN
  BY DEF Enough
<1> DEFINE counted == [pc |-> "counted", op |-> "decide", actor |-> req[r].actor,
                       on |-> req[r].on, key |-> req[r].key, snap |-> req[r].snap,
                       decision |-> verdict, enough |-> Enough(r)]
<1>5. /\ counted \in InFlight /\ counted.op = "decide" /\ counted.on = req[r].on
  BY <1>2, <1>3, <1>4 DEF InFlight
<1>6. /\ req' = [req EXCEPT ![r] = counted]
      /\ UNCHANGED <<action, expired, approvals, decisions, execs>>
  BY DEF DecideCount
<1> HIDE DEF counted
<1>7. req' \in [Requests -> InFlight \cup {Idle}]
  BY <1>5, <1>6 DEF Inv, TypeOK
<1>8. ASSUME NEW q \in Requests, req'[q] # Idle
      PROVE  Sound(q)'
  <2>1. CASE q = r
    <3>1. req'[q] = counted
      BY <1>6, <2>1 DEF Inv, TypeOK
    <3> QED
      BY <1>2, <1>5, <1>6, <3>1 DEF Sound
  <2>2. CASE q # r
    <3>1. req'[q] = req[q] /\ Sound(q)
      BY <1>6, <1>8, <2>2 DEF Inv, TypeOK, OpenRequests
    <3> QED
      BY <1>6, <3>1 DEF Sound
  <2> QED
    BY <2>1, <2>2
<1> QED
  BY <1>6, <1>7, <1>8 DEF Inv, TypeOK, OpenRequests

(* What an inserted decision is, and what it does to the approval. *)
LEMMA CountedFacts ==
  ASSUME Inv, NEW r \in Requests, req[r].pc = "counted"
  PROVE  /\ req[r] # Idle /\ req[r].on \in Pending /\ req[r].decision \in Verdicts
         /\ req[r].snap \in Rows /\ req[r].actor \in Actors /\ req[r].enough \in BOOLEAN
         /\ req[r].op = "decide"
<1>1. req[r] # Idle
  BY DEF Idle
<1>2. req[r] \in InFlight
  BY <1>1, InFlightFacts
<1>3. /\ req[r].on \in Approvals /\ req[r].decision \in Verdicts
      /\ req[r].snap \in Rows /\ req[r].actor \in Actors /\ req[r].enough \in BOOLEAN
      /\ req[r].op = "decide"
  BY <1>2 DEF InFlight
<1> QED
  BY <1>1, <1>3, InFlightFacts

LEMMA DecideKeepsInv ==
  ASSUME Inv, NEW r \in Requests, DecideCommit(r)
  PROVE  Inv'
<1> DEFINE a == req[r].on
<1>1. req[r].pc = "counted"
  BY DEF DecideCommit
<1>2. /\ req[r] # Idle /\ a \in Pending /\ req[r].decision \in Verdicts
      /\ req[r].snap \in Rows /\ req[r].actor \in Actors
  BY <1>1, CountedFacts
<1>3. a \in Approvals
  BY <1>2 DEF Pending
<1>4. action' \in Rows
  <2>1. Outcome(r) \in Statuses
    BY <1>2 DEF Outcome, Verdicts, Statuses, Terminal, Editable
  <2> QED
    BY <1>2, <2>1, WriteType DEF DecideCommit
<1>5. decisions' \subseteq Decisions
  <2>1. Mine(r, req[r].decision) \in Decisions
    BY <1>2, <1>3 DEF Mine, Decisions, Rows
  <2> QED
    BY <2>1, Kept DEF DecideCommit
<1>6. /\ approvals' \in States
      /\ \A b \in Approvals \ {a} : approvals'[b] = approvals[b]
  <2>1. CASE Outcome(r) = "PENDING_APPROVAL"
    <3>1. approvals' = Assigned(a, Nobody)
      BY <2>1 DEF DecideCommit
    <3> QED
      BY <1>2, <3>1, AssignedType
  <2>2. CASE Outcome(r) # "PENDING_APPROVAL"
    <3>1. approvals' = Closed({a}, req[r].decision)
      BY <2>2 DEF DecideCommit
    <3>2. req[r].decision \in Closing /\ {a} \in SUBSET Pending
      BY <1>2 DEF Closing
    <3>3. /\ Closed({a}, req[r].decision) \in States
          /\ \A b \in Approvals \ {a} : Closed({a}, req[r].decision)[b] = approvals[b]
      <4> DEFINE S == {a}  d == req[r].decision
      <4>1. S \in SUBSET Pending /\ d \in Closing
        BY <3>2
      <4> HIDE DEF S, d
      <4>2. Closed(S, d) \in States /\ \A b \in Approvals \ S : Closed(S, d)[b] = approvals[b]
        BY <4>1, ClosedType
      <4> QED
        BY <4>2 DEF S, d
    <3> QED
      BY <3>1, <3>3
  <2> QED
    BY <2>1, <2>2
<1>7. Written(r, {a}) /\ UNCHANGED <<expired, execs>>
  BY DEF DecideCommit
<1> QED
  BY <1>3, <1>4, <1>5, <1>6, <1>7, Kept, CommitKeepsInv

LEMMA DelegateKeepsInv ==
  ASSUME Inv, NEW r \in Requests, NEW u \in Assignees \ {Nobody}, DelegateCommit(r, u)
  PROVE  Inv'
<1> DEFINE a == req[r].on
<1>1. req[r] # Idle /\ req[r].op = "delegate"
  BY DoingFacts DEF DelegateCommit
<1>2. a \in Approvals /\ a \in Pending
  BY <1>1, InFlightFacts DEF Sound, Deciding
<1>3. u \in Actors \cup {Nobody}
  BY ActorAssumption
<1>4. /\ approvals' = Assigned(a, u) /\ Written(r, {a})
      /\ UNCHANGED <<action, expired, decisions, execs>>
  BY DEF DelegateCommit
<1>5. /\ approvals' \in States
      /\ \A b \in Approvals \ {a} : approvals'[b] = approvals[b]
  BY <1>2, <1>3, <1>4, AssignedType
<1> QED
  BY <1>2, <1>4, <1>5, Kept, CommitKeepsInv
-----------------------------------------------------------------------------
LEMMA AttemptType ==
  ASSUME Inv, NEW seen \in Rows, NEW u \in Actors, NEW status \in {"EXECUTED", "FAILED"}
  PROVE  Attempt(seen, u, status) \in Attempts
<1>1. IsFiniteSet(Keys)
  BY BoundAssumption
<1>2. IsFiniteSet(Attempted) /\ Cardinality(Attempted) \in Nat
  BY <1>1, FS_Subset, FS_CardinalityType DEF Attempted
<1>3. seen.version \in Versions /\ seen.payload \in Payloads
  BY DEF Rows
<1>4. CASE status = "EXECUTED"
  BY <1>2, <1>3, <1>4 DEF Attempt, Attempts
<1>5. CASE status = "FAILED"
  BY <1>2, <1>3, <1>5 DEF Attempt, Attempts
<1> QED
  BY <1>4, <1>5

(* What Run leaves: a typed row, and one more attempt at most. *)
LEMMA RunFacts ==
  ASSUME Inv, NEW seen \in Rows, NEW u \in Actors, NEW k \in Keys, Run(seen, u, k)
  PROVE  /\ action' \in Rows /\ execs' \in [Keys -> Attempts \cup {Absent}]
         /\ \A j \in Keys : execs[j] # Absent => execs'[j] # Absent
         /\ UNCHANGED <<expired, approvals, decisions>>
<1>1. execs[k] = Absent /\ UNCHANGED <<expired, approvals, decisions>>
  BY DEF Run
<1>2. CASE action' = WithStatus(action, "EXPIRED") /\ execs' = execs
  <2>1. action' \in Rows
    BY <1>2, Kept, RowType DEF Statuses, Terminal
  <2> QED
    BY <1>1, <1>2, <2>1, Kept
<1>3. ASSUME NEW status \in {"EXECUTED", "FAILED"},
             action' = WithStatus(action, Ran(status)),
             execs' = [execs EXCEPT ![k] = Attempt(seen, u, status)]
      PROVE  /\ action' \in Rows /\ execs' \in [Keys -> Attempts \cup {Absent}]
             /\ \A j \in Keys : execs[j] # Absent => execs'[j] # Absent
  <2>1. Ran(status) \in Statuses
    BY DEF Ran, Statuses
  <2>2. action' \in Rows
    BY <1>3, <2>1, Kept, RowType
  <2>3. Attempt(seen, u, status) \in Attempts
    BY AttemptType
  <2>4. execs' \in [Keys -> Attempts \cup {Absent}]
    BY <1>3, <2>3, Kept
  <2>5. ASSUME NEW j \in Keys, execs[j] # Absent
        PROVE  execs'[j] = execs[j]
    BY <1>1, <1>3, <2>5, Kept
  <2> QED
    BY <2>2, <2>4, <2>5
<1>4. \/ action' = WithStatus(action, "EXPIRED") /\ execs' = execs
      \/ \E status \in {"EXECUTED", "FAILED"} :
           /\ action' = WithStatus(action, Ran(status))
           /\ execs' = [execs EXCEPT ![k] = Attempt(seen, u, status)]
  BY DEF Run
<1> QED
  BY <1>1, <1>2, <1>3, <1>4

LEMMA ExecuteKeepsInv ==
  ASSUME Inv, NEW u \in Actors, NEW k \in Keys, Execute(u, k)
  PROVE  Inv'
<1>1. Run(action, u, k) /\ UNCHANGED req
  BY DEF Execute
<1>2. /\ action' \in Rows /\ execs' \in [Keys -> Attempts \cup {Absent}]
      /\ \A j \in Keys : execs[j] # Absent => execs'[j] # Absent
      /\ UNCHANGED <<expired, approvals, decisions>>
  BY <1>1, Kept, RunFacts
<1>3. ASSUME NEW q \in Requests, req'[q] # Idle
      PROVE  Sound(q)'
  <2>1. Sound(q)
    BY <1>1, <1>3 DEF Inv, OpenRequests
  <2> QED
    BY <1>1, <1>2, <2>1 DEF Sound
<1> QED
  BY <1>1, <1>2, <1>3 DEF Inv, TypeOK, OpenRequests

LEMMA RetryKeepsInv ==
  ASSUME Inv, NEW r \in Requests, NEW k \in Keys, RetryCommit(r, k)
  PROVE  Inv'
<1> DEFINE seen == Reapproved(req[r].snap)
<1>1. req[r] # Idle
  BY DoingFacts DEF RetryCommit
<1>2. req[r].snap \in Rows /\ req[r].actor \in Actors
  BY <1>1, InFlightFacts
<1>3. seen \in Rows
  <2>1. (IF req[r].snap.status = "FAILED" THEN "APPROVED" ELSE req[r].snap.status)
          \in Statuses
    BY <1>2 DEF Rows, Statuses
  <2> QED
    BY <1>2, <2>1, RowType DEF Reapproved
<1>4. Run(seen, req[r].actor, k) /\ Written(r, {})
  BY DEF RetryCommit
<1> HIDE DEF seen
<1>5. /\ action' \in Rows /\ execs' \in [Keys -> Attempts \cup {Absent}]
      /\ \A j \in Keys : execs[j] # Absent => execs'[j] # Absent
      /\ UNCHANGED <<expired, approvals, decisions>>
  BY <1>2, <1>3, <1>4, RunFacts
<1>6. {} \in SUBSET Approvals
  OBVIOUS
<1> QED
  BY <1>4, <1>5, <1>6, Kept, CommitKeepsInv

LEMMA VerifyKeepsInv ==
  ASSUME Inv, NEW r \in Requests, NEW found \in BOOLEAN, VerifyCommit(r, found)
  PROVE  Inv'
<1> DEFINE k == req[r].key
<1>1. req[r] # Idle /\ req[r].op = "verify"
  BY DoingFacts DEF VerifyCommit
<1>2. k \in Keys /\ execs[k] # Absent /\ req[r].actor \in Actors
  BY <1>1, InFlightFacts DEF Sound
<1>3. Found(found) \in {"VERIFIED", "VERIFICATION_FAILED"}
  BY DEF Found
<1>4. action' \in Rows
  <2>1. Found(found) \in Statuses
    BY <1>3 DEF Statuses, Terminal
  <2> QED
    BY <1>1, <2>1, WriteType DEF VerifyCommit
<1>5. Verified(k, Found(found), req[r].actor) \in Attempts
  <2>1. execs[k] \in Attempts
    BY <1>2, Kept
  <2> QED
    BY <1>2, <1>3, <2>1 DEF Verified, Attempts
<1>6. /\ execs' = [execs EXCEPT ![k] = Verified(k, Found(found), req[r].actor)]
      /\ Written(r, {}) /\ UNCHANGED <<expired, approvals, decisions>>
  BY DEF VerifyCommit
<1>7. execs' \in [Keys -> Attempts \cup {Absent}]
  BY <1>5, <1>6, Kept
<1>8. Absent \notin Attempts
  BY DEF Absent, Attempts
<1>9. ASSUME NEW j \in Keys, execs[j] # Absent
      PROVE  execs'[j] # Absent
  <2>1. execs'[j] = IF j = k THEN Verified(k, Found(found), req[r].actor) ELSE execs[j]
    BY <1>2, <1>6, Kept
  <2> QED
    BY <1>5, <1>8, <1>9, <2>1
<1>10. {} \in SUBSET Approvals
  OBVIOUS
<1> QED
  BY <1>4, <1>6, <1>7, <1>9, <1>10, Kept, CommitKeepsInv

LEMMA AbortKeepsInv ==
  ASSUME Inv, NEW r \in Requests, Abort(r)
  PROVE  Inv'
<1>1. /\ req' = [req EXCEPT ![r] = Idle]
      /\ UNCHANGED <<action, expired, approvals, decisions, execs>>
  BY DEF Abort
<1>2. req' \in [Requests -> InFlight \cup {Idle}]
  BY <1>1 DEF Inv, TypeOK
<1>3. ASSUME NEW q \in Requests, req'[q] # Idle
      PROVE  Sound(q)'
  <2>1. req'[q] = req[q] /\ Sound(q)
    BY <1>1, <1>3 DEF Inv, TypeOK, OpenRequests
  <2> QED
    BY <1>1, <2>1 DEF Sound
<1> QED
  BY <1>1, <1>2, <1>3 DEF Inv, TypeOK, OpenRequests

LEMMA StepKeepsInv ==
  ASSUME Inv, [Next]_vars
  PROVE  Inv'
<1>1. ASSUME NEW r \in Requests, Commits(r)
      PROVE  Inv'
  BY <1>1, EditKeepsInv, SubmitKeepsInv, CloseOneKeepsInv, CountKeepsInv, DecideKeepsInv,
     DelegateKeepsInv, RetryKeepsInv, VerifyKeepsInv, CancelKeepsInv, AbortKeepsInv
     DEF Commits
<1>2. ASSUME NEW r \in Requests, NEW u \in Actors, Loads(r, u)
      PROVE  Inv'
  BY <1>2, LoadsKeepInv
<1>3. ASSUME NEW u \in Actors, NEW k \in Keys, Execute(u, k)
      PROVE  Inv'
  BY <1>3, ExecuteKeepsInv
<1>4. CASE Expire
  BY <1>4 DEF Expire, Inv, TypeOK, OpenRequests, Sound
<1>5. CASE UNCHANGED vars
  BY <1>5 DEF vars, Inv, TypeOK, OpenRequests, Sound
<1> QED
  BY <1>1, <1>2, <1>3, <1>4, <1>5 DEF Next

LEMMA InitInv == Init => Inv
<1> SUFFICES ASSUME Init PROVE Inv
  OBVIOUS
<1>1. PICK p \in Payloads : action = [status |-> "DRAFT", version |-> 1, payload |-> p]
  BY DEF Init
<1>2. 1 \in Versions /\ "DRAFT" \in Statuses
  BY BoundAssumption DEF Versions, Statuses, Editable
<1>3. action \in Rows
  BY <1>1, <1>2 DEF Rows
<1> QED
  BY <1>3 DEF Init, Inv, TypeOK, OpenRequests

(* The tables and the requests in flight are well typed in every reachable   *)
(* state, for any users, payloads, keys and requests.                        *)
THEOREM TypeCorrect == Spec => []TypeOK
<1>1. Init => Inv
  BY InitInv
<1>2. Inv /\ [Next]_vars => Inv'
  BY StepKeepsInv
<1>3. Inv => TypeOK
  BY DEF Inv
<1> QED
  BY <1>1, <1>2, <1>3, PTL DEF Spec

LEMMA AlwaysInv == Spec => []Inv
<1>1. Init => Inv
  BY InitInv
<1>2. Inv /\ [Next]_vars => Inv'
  BY StepKeepsInv
<1> QED
  BY <1>1, <1>2, PTL DEF Spec
-----------------------------------------------------------------------------
Settled(a) == approvals[a].status \notin {"ABSENT", "PENDING"}

(* The commit of r that approves a with the approval the policy still lacks. *)
Approves(r, a) ==
  /\ DecideCommit(r) /\ a = req[r].on /\ req[r].decision = "APPROVED" /\ req[r].enough

(* A step leaves approval a alone, files it, or rewrites it while pending. *)
Carried(a) ==
  \/ approvals'[a] = approvals[a]
  \/ approvals[a] = Absent /\ approvals'[a].status = "PENDING"
  \/ /\ a \in Pending
     /\ approvals'[a].version = approvals[a].version
     /\ approvals'[a].payload = approvals[a].payload
     /\ approvals'[a].status = "APPROVED" => \E r \in Requests : Approves(r, a)

LEMMA ApprovalSteps ==
  ASSUME Inv, [Next]_vars, NEW a \in Approvals
  PROVE  Carried(a)
<1>1. ASSUME NEW r \in Requests, Commits(r)
      PROVE  Carried(a)
  <2>1. ASSUME NEW S \in SUBSET Pending, NEW s \in Closing, approvals' = Closed(S, s),
               s = "APPROVED" /\ a \in S => Approves(r, a)
        PROVE  Carried(a)
    <3>1. CASE a \notin S
      BY <2>1, <3>1, ClosedType DEF Carried
    <3>2. CASE a \in S
      <4>1. approvals'[a] = Rewritten(a, s, approvals[a].assigned)
        BY <2>1, <3>2 DEF Closed
      <4> QED
        BY <2>1, <3>2, <4>1 DEF Carried, Rewritten
    <3> QED
      BY <3>1, <3>2
  <2>2. ASSUME NEW b \in Pending, NEW u \in Actors \cup {Nobody}, approvals' = Assigned(b, u)
        PROVE  Carried(a)
    <3>1. CASE a # b
      BY <2>2, <3>1, AssignedType DEF Carried
    <3>2. CASE a = b
      <4>1. approvals'[a] = Rewritten(a, "PENDING", u)
        BY <2>2, <3>2, Kept DEF Assigned, States
      <4> QED
        BY <2>2, <3>2, <4>1 DEF Carried, Rewritten
    <3> QED
      BY <3>1, <3>2
  <2>3. CASE \E p \in Payloads : EditCommit(r, p)
    BY <2>1, <2>3 DEF EditCommit, Closing
  <2>4. CASE \E b \in Approvals, u \in Assignees : SubmitCommit(r, b, u)
    <3>1. PICK b \in Approvals, u \in Assignees : SubmitCommit(r, b, u)
      BY <2>4
    <3>2. approvals[b] = Absent /\ approvals \in States
      BY <3>1, Kept DEF SubmitCommit
    <3>3. CASE a = b
      <4>1. approvals'[a] = [status |-> "PENDING", version |-> req[r].snap.version,
                             payload |-> req[r].snap.payload, requester |-> req[r].actor,
                             assigned |-> u]
        BY <3>1, <3>2, <3>3 DEF SubmitCommit, States
      <4> QED
        BY <3>2, <3>3, <4>1 DEF Carried
    <3>4. CASE a # b
      BY <3>1, <3>2, <3>4 DEF SubmitCommit, States, Carried
    <3> QED
      BY <3>3, <3>4
  <2>5. CASE ExpireCommit(r) \/ SupersedeCommit(r)
    <3>1. req[r] # Idle /\ req[r].op \in Deciding
      BY <2>5, DoingFacts DEF ExpireCommit, SupersedeCommit, Deciding
    <3>2. {req[r].on} \in SUBSET Pending
      BY <3>1, InFlightFacts DEF Sound
    <3> QED
      BY <2>1, <2>5, <3>2 DEF ExpireCommit, SupersedeCommit, Closing
  <2>6. CASE DecideCommit(r)
    <3>1. req[r].on \in Pending /\ req[r].decision \in Closing
      BY <2>6, CountedFacts DEF DecideCommit, Closing
    <3>2. CASE Outcome(r) = "PENDING_APPROVAL"
      BY <2>2, <2>6, <3>1, <3>2 DEF DecideCommit
    <3>3. CASE Outcome(r) # "PENDING_APPROVAL"
      <4> DEFINE S == {req[r].on}
      <4>1. approvals' = Closed(S, req[r].decision)
        BY <2>6, <3>3 DEF DecideCommit
      <4>2. S \in SUBSET Pending
        BY <3>1
      <4>3. req[r].decision = "APPROVED" /\ a \in S => Approves(r, a)
        BY <2>6, <3>3 DEF Approves, Outcome
      <4> HIDE DEF S
      <4> QED
        BY <2>1, <3>1, <4>1, <4>2, <4>3
    <3> QED
      BY <3>2, <3>3
  <2>7. CASE \E u \in Assignees \ {Nobody} : DelegateCommit(r, u)
    <3>1. PICK u \in Assignees \ {Nobody} : DelegateCommit(r, u)
      BY <2>7
    <3>2. req[r] # Idle /\ req[r].op \in Deciding
      BY <3>1, DoingFacts DEF DelegateCommit, Deciding
    <3>3. req[r].on \in Pending
      BY <3>2, InFlightFacts DEF Sound
    <3>4. approvals' = Assigned(req[r].on, u) /\ u \in Actors \cup {Nobody}
      BY <3>1, ActorAssumption DEF DelegateCommit
    <3> QED
      BY <2>2, <3>3, <3>4
  <2>8. CASE CancelCommit(r)
    BY <2>1, <2>8 DEF CancelCommit, Closing
  <2>9. CASE \/ \E verdict \in Verdicts : DecideCount(r, verdict)
             \/ \E k \in Keys : RetryCommit(r, k)
             \/ \E found \in BOOLEAN : VerifyCommit(r, found)
             \/ Abort(r)
    <3>1. approvals' = approvals
      BY <2>9 DEF DecideCount, RetryCommit, Run, VerifyCommit, Abort
    <3> QED
      BY <3>1 DEF Carried
  <2> QED
    BY <1>1, <2>3, <2>4, <2>5, <2>6, <2>7, <2>8, <2>9 DEF Commits
<1>2. ASSUME NEW r \in Requests, NEW u \in Actors, Loads(r, u)
      PROVE  approvals' = approvals
  BY <1>2 DEF Loads, EditLoad, SubmitLoad, RetryLoad, CancelLoad, DecideLoad, DelegateLoad,
     VerifyLoad, Load
<1>3. ASSUME NEW u \in Actors, NEW k \in Keys, Execute(u, k)
      PROVE  approvals' = approvals
  BY <1>3 DEF Execute, Run
<1>4. Expire \/ UNCHANGED vars => approvals' = approvals
  BY DEF Expire, vars
<1>5. CASE approvals' = approvals
  BY <1>5 DEF Carried
<1> QED
  BY <1>1, <1>2, <1>3, <1>4, <1>5 DEF Next

LEMMA StepKeepsSettled ==
  ASSUME Inv, [Next]_vars, NEW a \in Approvals, Settled(a)
  PROVE  approvals'[a] = approvals[a]
BY ApprovalSteps DEF Carried, Settled, Pending, Absent

(* Once an approval request is decided, cancelled, expired or superseded no  *)
(* request changes it again, whatever it had loaded.                         *)
THEOREM DecidedFinal == Spec => DecidedIsFinal
<1>1. Inv /\ [Next]_vars =>
        [\A a \in Approvals : approvals[a].status \notin {"ABSENT", "PENDING"} =>
           approvals'[a] = approvals[a]]_vars
  BY StepKeepsSettled DEF Settled
<1> QED
  BY <1>1, AlwaysInv, PTL DEF Spec, DecidedIsFinal
-----------------------------------------------------------------------------
(* An attempt j that Run by u on `seen` has just made. *)
Made(j, seen, u) ==
  /\ execs[j] = Absent
  /\ \E a \in Approvals : Bound(seen, a)
  /\ execs'[j].version = seen.version /\ execs'[j].payload = seen.payload
  /\ execs'[j].by = u /\ execs'[j].verifier = Nobody

LEMMA RunMakes ==
  ASSUME Inv, NEW seen \in Rows, NEW u \in Actors, NEW k \in Keys, Run(seen, u, k),
         NEW j \in Keys
  PROVE  execs'[j] = execs[j] \/ Made(j, seen, u)
<1>1. \/ UNCHANGED execs
      \/ /\ \E a \in Approvals : Bound(seen, a)
         /\ \E status \in {"EXECUTED", "FAILED"} :
              execs' = [execs EXCEPT ![k] = Attempt(seen, u, status)]
  BY DEF Run
<1>2. execs[k] = Absent /\ execs \in [Keys -> Attempts \cup {Absent}]
  BY Kept DEF Run
<1>3. ASSUME NEW status \in {"EXECUTED", "FAILED"}, \E a \in Approvals : Bound(seen, a),
             execs' = [execs EXCEPT ![k] = Attempt(seen, u, status)]
      PROVE  execs'[j] = execs[j] \/ Made(j, seen, u)
  <2>1. CASE j # k
    BY <1>2, <1>3, <2>1
  <2>2. CASE j = k
    <3>1. execs'[j] = Attempt(seen, u, status)
      BY <1>2, <1>3, <2>2
    <3>2. /\ execs'[j].version = seen.version /\ execs'[j].payload = seen.payload
          /\ execs'[j].by = u /\ execs'[j].verifier = Nobody
      BY <3>1 DEF Attempt
    <3> QED
      BY <1>2, <1>3, <2>2, <3>2 DEF Made
  <2> QED
    BY <2>1, <2>2
<1> QED
  BY <1>1, <1>3

(* The one who verifies attempt j in the step of request r. *)
Checked(j, r) ==
  /\ req[r] # Idle /\ req[r].op = "verify" /\ req[r].key = j
  /\ execs'[j] # Absent
  /\ execs'[j].version = execs[j].version /\ execs'[j].payload = execs[j].payload
  /\ execs'[j].by = execs[j].by /\ execs'[j].verifier = req[r].actor

LEMMA VerifyChecks ==
  ASSUME Inv, NEW r \in Requests, NEW found \in BOOLEAN, VerifyCommit(r, found),
         NEW j \in Keys
  PROVE  execs'[j] = execs[j] \/ Checked(j, r)
<1>1. req[r] # Idle /\ req[r].op = "verify"
  BY DoingFacts DEF VerifyCommit
<1>2. execs' = [execs EXCEPT ![req[r].key] = Verified(req[r].key, Found(found), req[r].actor)]
      /\ execs \in [Keys -> Attempts \cup {Absent}]
  BY Kept DEF VerifyCommit
<1>3. CASE j = req[r].key
  <2>1. execs'[j] = Verified(j, Found(found), req[r].actor)
    BY <1>2, <1>3
  <2>2. execs[j] \in Attempts
    BY <1>1, <1>2, <1>3, InFlightFacts DEF Sound
  <2>3. execs'[j].status # "ABSENT"
    BY <2>1, <2>2 DEF Verified, Attempts
  <2>4. execs'[j] # Absent
    BY <2>3 DEF Absent
  <2> QED
    BY <1>1, <1>3, <2>1, <2>4 DEF Verified, Checked
<1>4. CASE j # req[r].key
  BY <1>2, <1>4
<1> QED
  BY <1>3, <1>4

(* Every step leaves an attempt alone, makes it or has it verified. *)
LEMMA AttemptSteps ==
  ASSUME Inv, [Next]_vars, NEW j \in Keys
  PROVE  \/ execs'[j] = execs[j]
         \/ \E seen \in Rows, u \in Actors : Made(j, seen, u)
         \/ \E r \in Requests : Checked(j, r)
<1>1. ASSUME NEW r \in Requests, Commits(r)
      PROVE  \/ execs'[j] = execs[j]
             \/ \E seen \in Rows, u \in Actors : Made(j, seen, u)
             \/ Checked(j, r)
  <2>1. CASE \E k \in Keys : RetryCommit(r, k)
    <3>1. PICK k \in Keys : RetryCommit(r, k)
      BY <2>1
    <3>2. req[r].snap \in Rows /\ req[r].actor \in Actors
      BY <3>1, DoingFacts, InFlightFacts DEF RetryCommit
    <3>3. (IF req[r].snap.status = "FAILED" THEN "APPROVED" ELSE req[r].snap.status)
            \in Statuses
      BY <3>2 DEF Rows, Statuses
    <3>4. Reapproved(req[r].snap) \in Rows
      BY <3>2, <3>3, RowType DEF Reapproved
    <3>5. Run(Reapproved(req[r].snap), req[r].actor, k)
      BY <3>1 DEF RetryCommit
    <3> QED
      BY <3>2, <3>4, <3>5, RunMakes
  <2>2. CASE \E found \in BOOLEAN : VerifyCommit(r, found)
    BY <2>2, VerifyChecks
  <2>3. CASE ~ \/ \E k \in Keys : RetryCommit(r, k)
               \/ \E found \in BOOLEAN : VerifyCommit(r, found)
    BY <1>1, <2>3 DEF Commits, EditCommit, SubmitCommit, ExpireCommit, SupersedeCommit,
       DecideCount, DecideCommit, DelegateCommit, CancelCommit, Abort
  <2> QED
    BY <2>1, <2>2, <2>3
<1>2. ASSUME NEW r \in Requests, NEW u \in Actors, Loads(r, u)
      PROVE  execs' = execs
  BY <1>2 DEF Loads, EditLoad, SubmitLoad, RetryLoad, CancelLoad, DecideLoad, DelegateLoad,
     VerifyLoad, Load
<1>3. ASSUME NEW u \in Actors, NEW k \in Keys, Execute(u, k)
      PROVE  execs'[j] = execs[j] \/ \E seen \in Rows : Made(j, seen, u)
  BY <1>3, Kept, RunMakes DEF Execute
<1>4. CASE Expire \/ UNCHANGED vars
  BY <1>4 DEF Expire, vars
<1> QED
  BY <1>1, <1>2, <1>3, <1>4 DEF Next

LEMMA ApprovedStays ==
  ASSUME Inv, [Next]_vars, NEW a \in Approvals, approvals[a].status = "APPROVED"
  PROVE  approvals'[a] = approvals[a]
BY StepKeepsSettled DEF Settled

(* The version and payload of every attempt were approved, although edits,   *)
(* submissions and decisions overlap and the retry works on a stale row.     *)
THEOREM ExecutionBound == Spec => []ExecutedWasApproved
<1>1. Init => ExecutedWasApproved
  BY DEF Init, ExecutedWasApproved, Attempted
<1>2. Inv /\ ExecutedWasApproved /\ [Next]_vars => ExecutedWasApproved'
  <2> SUFFICES ASSUME Inv, ExecutedWasApproved, [Next]_vars,
                      NEW j \in Keys, execs'[j] # Absent
               PROVE  \E a \in Approvals : /\ approvals'[a].status = "APPROVED"
                                           /\ approvals'[a].version = execs'[j].version
                                           /\ approvals'[a].payload = execs'[j].payload
    BY DEF ExecutedWasApproved, Attempted
  <2>1. CASE \E seen \in Rows, u \in Actors : Made(j, seen, u)
    <3>1. PICK seen \in Rows, u \in Actors : Made(j, seen, u)
      BY <2>1
    <3>2. PICK a \in Approvals : Bound(seen, a)
      BY <3>1 DEF Made
    <3>3. approvals'[a] = approvals[a]
      BY <3>2, ApprovedStays DEF Bound
    <3> QED
      BY <3>1, <3>2, <3>3 DEF Made, Bound
  <2>2. CASE execs'[j] = execs[j] \/ \E r \in Requests : Checked(j, r)
    <3>1. execs[j] # Absent
      BY <2>2, InFlightFacts DEF Checked, Sound
    <3>2. execs'[j].version = execs[j].version /\ execs'[j].payload = execs[j].payload
      BY <2>2 DEF Checked
    <3>3. PICK a \in Approvals : /\ approvals[a].status = "APPROVED"
                                 /\ approvals[a].version = execs[j].version
                                 /\ approvals[a].payload = execs[j].payload
      BY <3>1 DEF ExecutedWasApproved, Attempted
    <3>4. approvals'[a] = approvals[a]
      BY <3>3, ApprovedStays
    <3> QED
      BY <3>2, <3>3, <3>4
  <2> QED
    BY <2>1, <2>2, AttemptSteps
<1> QED
  BY <1>1, <1>2, AlwaysInv, PTL DEF Spec
-----------------------------------------------------------------------------
(* A request in flight after a step was in flight before it, has just        *)
(* loaded what it works on, or has just counted.                             *)
LoadedBy(q, u) ==
  /\ req'[q].pc = "loaded" /\ req'[q].actor = u /\ req'[q].snap = action
  /\ req'[q].op = "verify" => /\ req'[q].key \in Keys /\ execs[req'[q].key] # Absent
                              /\ execs[req'[q].key].by # u
  /\ req'[q].op = "decide" => approvals[req'[q].on].version = action.version
  /\ UNCHANGED <<approvals, decisions, execs>>

LEMMA LoadsLoad ==
  ASSUME Inv, NEW r \in Requests, NEW u \in Actors, Loads(r, u)
  PROVE  LoadedBy(r, u) /\ \A q \in Requests \ {r} : req'[q] = req[q]
<1> DEFINE L(op, a, k) == Loaded(op, u, a, k)
<1>1. ASSUME NEW x, Load(r, x)
      PROVE  /\ req'[r] = x /\ \A q \in Requests \ {r} : req'[q] = req[q]
             /\ UNCHANGED <<approvals, decisions, execs>>
  BY <1>1 DEF Load, Inv, TypeOK
<1>2. ASSUME NEW op \in {"edit", "submit", "retry", "cancel"}, Load(r, L(op, 0, Nobody))
      PROVE  LoadedBy(r, u) /\ \A q \in Requests \ {r} : req'[q] = req[q]
  <2>1. req'[r] = L(op, 0, Nobody)
    BY <1>1, <1>2
  <2>2. /\ req'[r].pc = "loaded" /\ req'[r].actor = u /\ req'[r].snap = action
        /\ req'[r].op # "verify" /\ req'[r].op # "decide"
    BY <2>1 DEF Loaded
  <2> QED
    BY <1>1, <1>2, <2>2 DEF LoadedBy
<1>3. ASSUME NEW a \in Approvals, NEW op \in Deciding, Load(r, L(op, a, Nobody)),
             op = "decide" => approvals[a].version = action.version
      PROVE  LoadedBy(r, u) /\ \A q \in Requests \ {r} : req'[q] = req[q]
  <2>1. req'[r] = L(op, a, Nobody)
    BY <1>1, <1>3
  <2>2. /\ req'[r].pc = "loaded" /\ req'[r].actor = u /\ req'[r].snap = action
        /\ req'[r].op = op /\ req'[r].on = a
    BY <2>1 DEF Loaded
  <2> QED
    BY <1>1, <1>3, <2>2 DEF LoadedBy, Deciding
<1>4. ASSUME NEW k \in Keys, VerifyLoad(r, u, k)
      PROVE  LoadedBy(r, u) /\ \A q \in Requests \ {r} : req'[q] = req[q]
  <2>1. /\ Load(r, L("verify", 0, k)) /\ execs[k] # Absent /\ execs[k].by # u
    BY <1>4 DEF VerifyLoad, Latest, Executed
  <2>2. req'[r] = L("verify", 0, k)
    BY <1>1, <2>1
  <2>3. /\ req'[r].pc = "loaded" /\ req'[r].actor = u /\ req'[r].snap = action
        /\ req'[r].op = "verify" /\ req'[r].key = k
    BY <2>2 DEF Loaded
  <2> QED
    BY <1>1, <2>1, <2>3 DEF LoadedBy
<1>5. CASE EditLoad(r, u) \/ SubmitLoad(r, u) \/ RetryLoad(r, u) \/ CancelLoad(r, u)
  BY <1>2, <1>5 DEF EditLoad, SubmitLoad, RetryLoad, CancelLoad
<1>6. CASE \E a \in Approvals : DecideLoad(r, u, a) \/ DelegateLoad(r, u, a)
  <2>1. PICK a \in Approvals : \E op \in Deciding :
          Load(r, L(op, a, Nobody)) /\ (op = "decide" => approvals[a].version = action.version)
    BY <1>6 DEF DecideLoad, DelegateLoad, Deciding
  <2> QED
    BY <1>3, <2>1
<1> QED
  BY <1>4, <1>5, <1>6 DEF Loads

LEMMA RequestSteps ==
  ASSUME Inv, [Next]_vars, NEW q \in Requests, req'[q] # Idle
  PROVE  \/ req'[q] = req[q] /\ req[q] # Idle
         \/ \E u \in Actors : LoadedBy(q, u)
         \/ \E verdict \in Verdicts : DecideCount(q, verdict)
<1>1. ASSUME NEW r \in Requests, NEW S, Written(r, S)
      PROVE  req'[q] = req[q] /\ req[q] # Idle
  BY <1>1 DEF Written, Inv, TypeOK
<1>2. ASSUME NEW r \in Requests, Commits(r)
      PROVE  \/ req'[q] = req[q] /\ req[q] # Idle
             \/ \E verdict \in Verdicts : DecideCount(q, verdict)
  <2>1. CASE Abort(r)
    BY <2>1 DEF Abort, Inv, TypeOK
  <2>2. CASE \E verdict \in Verdicts : DecideCount(r, verdict)
    <3>1. PICK verdict \in Verdicts : DecideCount(r, verdict)
      BY <2>2
    <3>2. q # r => req'[q] = req[q]
      BY <3>1 DEF DecideCount, Inv, TypeOK
    <3> QED
      BY <3>1, <3>2
  <2>3. CASE ~Abort(r) /\ ~ \E verdict \in Verdicts : DecideCount(r, verdict)
    <3>1. \E S : Written(r, S)
      BY <1>2, <2>3 DEF Commits, EditCommit, SubmitCommit, ExpireCommit, SupersedeCommit,
         DecideCommit, DelegateCommit, RetryCommit, VerifyCommit, CancelCommit
    <3> QED
      BY <1>1, <3>1
  <2> QED
    BY <2>1, <2>2, <2>3
<1>3. ASSUME NEW r \in Requests, NEW u \in Actors, Loads(r, u)
      PROVE  \/ req'[q] = req[q] /\ req[q] # Idle
             \/ LoadedBy(q, u)
  BY <1>3, LoadsLoad
<1>4. CASE Expire \/ UNCHANGED vars \/ \E u \in Actors, k \in Keys : Execute(u, k)
  BY <1>4 DEF Expire, vars, Execute
<1> QED
  BY <1>2, <1>3, <1>4 DEF Next

(* A verification under way is not by the one who made the attempt. *)
Independent(q) == req[q].op = "verify" => execs[req[q].key].by # req[q].actor

Checkers == VerifierIsIndependent /\ \A q \in Requests : req[q] # Idle => Independent(q)

LEMMA MakerStays ==
  ASSUME Inv, [Next]_vars, NEW j \in Keys, execs[j] # Absent
  PROVE  execs'[j].by = execs[j].by /\ execs'[j] # Absent
BY AttemptSteps DEF Made, Checked

(* Nobody verifies his own attempt, even when another attempt becomes the    *)
(* latest between the check and the write.                                   *)
LEMMA CheckersStep ==
  ASSUME Inv, Checkers, [Next]_vars
  PROVE  Checkers'
<1>1. ASSUME NEW j \in Keys, execs'[j] # Absent
      PROVE  execs'[j].verifier # execs'[j].by
  <2>1. CASE execs'[j] = execs[j]
    BY <1>1, <2>1 DEF Checkers, VerifierIsIndependent, Attempted
  <2>2. CASE \E seen \in Rows, u \in Actors : Made(j, seen, u)
    BY <2>2, ActorAssumption DEF Made
  <2>3. CASE \E r \in Requests : Checked(j, r)
    BY <2>3 DEF Checked, Checkers, Independent
  <2> QED
    BY <2>1, <2>2, <2>3, AttemptSteps
<1>2. ASSUME NEW q \in Requests, req'[q] # Idle, req'[q].op = "verify"
      PROVE  execs'[req'[q].key].by # req'[q].actor
  <2>1. CASE req'[q] = req[q] /\ req[q] # Idle
    <3>1. req[q].key \in Keys /\ execs[req[q].key] # Absent
      BY <1>2, <2>1, InFlightFacts DEF Sound
    <3>2. execs'[req[q].key].by = execs[req[q].key].by
      BY <3>1, MakerStays
    <3> QED
      BY <1>2, <2>1, <3>2 DEF Checkers, Independent
  <2>2. CASE \E u \in Actors : LoadedBy(q, u)
    BY <1>2, <2>2, MakerStays DEF LoadedBy
  <2>3. CASE \E verdict \in Verdicts : DecideCount(q, verdict)
    BY <1>2, <2>3 DEF DecideCount, Inv, TypeOK
  <2> QED
    BY <1>2, <2>1, <2>2, <2>3, RequestSteps
<1> QED
  BY <1>1, <1>2 DEF Checkers, VerifierIsIndependent, Attempted, Independent

-----------------------------------------------------------------------------
(* A verification under way was begun while the action waited for it, and    *)
(* checks an attempt that succeeded.                                         *)
Waited(q) ==
  req[q].op = "verify" => /\ req[q].snap.status = "VERIFYING"
                          /\ execs[req[q].key].status = "EXECUTED"

Evidence ==
  /\ Checkers /\ VerifiedHasEvidence
  /\ \A q \in Requests : req[q] # Idle => Waited(q)

LEMMA LoadsWait ==
  ASSUME Inv, NEW r \in Requests, NEW u \in Actors, Loads(r, u), req'[r].op = "verify"
  PROVE  /\ req'[r].snap.status = "VERIFYING" /\ UNCHANGED execs
         /\ req'[r].key \in Keys /\ execs[req'[r].key].status = "EXECUTED"
<1>1. ASSUME NEW x, Load(r, x)
      PROVE  req'[r] = x /\ UNCHANGED execs
  BY <1>1 DEF Load, Inv, TypeOK
<1>2. PICK k \in Keys : VerifyLoad(r, u, k)
  <2>1. ASSUME NEW op, NEW a, op # "verify", Load(r, Loaded(op, u, a, Nobody))
        PROVE  FALSE
    BY <1>1, <2>1 DEF Loaded
  <2> QED
    BY <2>1 DEF Loads, EditLoad, SubmitLoad, RetryLoad, CancelLoad, DecideLoad, DelegateLoad
<1>3. /\ action.status = "VERIFYING" /\ execs[k].status = "EXECUTED"
      /\ Load(r, Loaded("verify", u, 0, k))
  BY <1>2 DEF VerifyLoad, Latest, Executed
<1>4. req'[r] = Loaded("verify", u, 0, k) /\ UNCHANGED execs
  BY <1>1, <1>3
<1> QED
  BY <1>3, <1>4 DEF Loaded

(* Only a verification makes an action verified. *)
LEMMA VerifiedSteps ==
  ASSUME Inv, [Next]_vars, action'.status = "VERIFIED"
  PROVE  action.status = "VERIFIED" \/ \E r \in Requests : VerifyCommit(r, TRUE)
<1> SUFFICES ASSUME action.status # "VERIFIED",
                    \A r \in Requests : ~VerifyCommit(r, TRUE)
             PROVE  FALSE
  OBVIOUS
<1>1. ASSUME NEW r \in Requests, NEW new, action' = WriteStatus(r, new), new # "VERIFIED"
      PROVE  FALSE
  BY <1>1 DEF WriteStatus, WithStatus, Flushed
<1>2. ASSUME NEW seen, NEW u, NEW k, Run(seen, u, k)
      PROVE  FALSE
  BY <1>2 DEF Run, WithStatus, Ran
<1>3. ASSUME NEW r \in Requests, Commits(r)
      PROVE  FALSE
  <2>1. CASE \E p \in Payloads : EditCommit(r, p)
    BY <2>1 DEF EditCommit, Flushed
  <2>2. CASE \E a \in Approvals, u \in Assignees : SubmitCommit(r, a, u)
    BY <1>1, <2>2 DEF SubmitCommit
  <2>3. CASE ExpireCommit(r) \/ CancelCommit(r)
    BY <1>1, <2>3 DEF ExpireCommit, CancelCommit
  <2>4. CASE DecideCommit(r)
    <3>1. req[r].pc = "counted" /\ action' = WriteStatus(r, Outcome(r))
      BY <2>4 DEF DecideCommit
    <3>2. req[r].decision \in Verdicts
      <4>1. req[r] # Idle
        BY <3>1 DEF Idle
      <4> QED
        BY <3>1, <4>1, InFlightFacts DEF InFlight
    <3>3. Outcome(r) # "VERIFIED"
      BY <3>2 DEF Outcome, Verdicts
    <3> QED
      BY <1>1, <3>1, <3>3
  <2>5. CASE \E k \in Keys : RetryCommit(r, k)
    BY <1>2, <2>5 DEF RetryCommit
  <2>6. CASE VerifyCommit(r, FALSE)
    BY <1>1, <2>6 DEF VerifyCommit, Found
  <2>7. CASE \/ SupersedeCommit(r) \/ Abort(r)
             \/ \E verdict \in Verdicts : DecideCount(r, verdict)
             \/ \E u \in Assignees \ {Nobody} : DelegateCommit(r, u)
    BY <2>7 DEF SupersedeCommit, Abort, DecideCount, DelegateCommit
  <2> QED
    BY <1>3, <2>1, <2>2, <2>3, <2>4, <2>5, <2>6, <2>7 DEF Commits
<1>4. ASSUME NEW r \in Requests, NEW u \in Actors, Loads(r, u)
      PROVE  FALSE
  BY <1>4 DEF Loads, EditLoad, SubmitLoad, RetryLoad, CancelLoad, DecideLoad, DelegateLoad,
     VerifyLoad, Load
<1>5. CASE \E u \in Actors, k \in Keys : Execute(u, k)
  BY <1>2, <1>5 DEF Execute
<1>6. CASE Expire \/ UNCHANGED vars
  BY <1>6 DEF Expire, vars
<1> QED
  BY <1>3, <1>4, <1>5, <1>6 DEF Next

(* An attempt is not changed by a step that does not verify it. *)
LEMMA EvidenceStays ==
  ASSUME Inv, [Next]_vars, NEW j \in Keys, execs[j] # Absent
  PROVE  \/ execs'[j] = execs[j]
         \/ \E r \in Requests, found \in BOOLEAN :
              /\ VerifyCommit(r, found) /\ req[r] # Idle /\ req[r].op = "verify"
              /\ req[r].key = j /\ execs'[j] = Verified(j, Found(found), req[r].actor)
<1>1. ASSUME NEW seen, NEW u, NEW k \in Keys, Run(seen, u, k)
      PROVE  execs'[j] = execs[j]
  <2>1. execs[k] = Absent /\ execs \in [Keys -> Attempts \cup {Absent}]
    BY <1>1, Kept DEF Run
  <2> QED
    BY <1>1, <2>1 DEF Run
<1>2. ASSUME NEW r \in Requests, NEW found \in BOOLEAN, VerifyCommit(r, found)
      PROVE  \/ execs'[j] = execs[j]
             \/ /\ req[r] # Idle /\ req[r].op = "verify" /\ req[r].key = j
                /\ execs'[j] = Verified(j, Found(found), req[r].actor)
  <2>1. req[r] # Idle /\ req[r].op = "verify"
    BY <1>2, DoingFacts DEF VerifyCommit
  <2>2. /\ execs' = [execs EXCEPT ![req[r].key] =
                       Verified(req[r].key, Found(found), req[r].actor)]
        /\ execs \in [Keys -> Attempts \cup {Absent}]
    BY <1>2, Kept DEF VerifyCommit
  <2> QED
    BY <2>1, <2>2
<1>3. ASSUME NEW r \in Requests, Commits(r)
      PROVE  \/ execs'[j] = execs[j]
             \/ \E k \in Keys : Run(Reapproved(req[r].snap), req[r].actor, k)
             \/ \E found \in BOOLEAN : VerifyCommit(r, found)
  BY <1>3 DEF Commits, EditCommit, SubmitCommit, ExpireCommit, SupersedeCommit, DecideCount,
     DecideCommit, DelegateCommit, RetryCommit, CancelCommit, Abort
<1>4. ASSUME NEW r \in Requests, NEW u \in Actors, Loads(r, u)
      PROVE  execs'[j] = execs[j]
  BY <1>4 DEF Loads, EditLoad, SubmitLoad, RetryLoad, CancelLoad, DecideLoad, DelegateLoad,
     VerifyLoad, Load
<1>5. CASE Expire \/ UNCHANGED vars
  BY <1>5 DEF Expire, vars
<1>6. CASE \E u \in Actors, k \in Keys : Execute(u, k)
  BY <1>1, <1>6 DEF Execute
<1> QED
  BY <1>1, <1>2, <1>3, <1>4, <1>5, <1>6 DEF Next

LEMMA StatusStays ==
  ASSUME Inv, [Next]_vars, NEW j \in Keys, execs[j] # Absent
  PROVE  execs'[j].status = execs[j].status
<1>1. \A result, u : Verified(j, result, u).status = execs[j].status
  BY DEF Verified
<1> QED
  BY <1>1, EvidenceStays

LEMMA WaitedStays ==
  ASSUME Inv, Evidence, [Next]_vars, NEW q \in Requests, req'[q] # Idle,
         req'[q].op = "verify"
  PROVE  req'[q].snap.status = "VERIFYING" /\ execs'[req'[q].key].status = "EXECUTED"
<1>1. CASE req'[q] = req[q] /\ req[q] # Idle
  <2>1. /\ req[q].key \in Keys /\ execs[req[q].key] # Absent
        /\ req[q].snap.status = "VERIFYING" /\ execs[req[q].key].status = "EXECUTED"
    BY <1>1, InFlightFacts DEF Sound, Evidence, Waited
  <2>2. execs'[req[q].key].status = execs[req[q].key].status
    BY <2>1, StatusStays
  <2> QED
    BY <1>1, <2>1, <2>2
<1>2. CASE \E r \in Requests, u \in Actors : Loads(r, u)
  <2>1. PICK r \in Requests, u \in Actors : Loads(r, u)
    BY <1>2
  <2>2. CASE q = r
    BY <2>1, <2>2, LoadsWait
  <2>3. CASE q # r
    BY <1>1, <2>1, <2>3, LoadsLoad
  <2> QED
    BY <2>2, <2>3
<1>3. CASE ~(\E r \in Requests, u \in Actors : Loads(r, u))
  <2>1. ASSUME NEW r \in Requests, Commits(r) PROVE req'[q] = req[q] \/ req'[q].op = "decide"
    <3>1. ASSUME NEW S, Written(r, S) PROVE req'[q] = req[q]
      BY <3>1 DEF Written
    <3>2. ASSUME NEW verdict, DecideCount(r, verdict)
          PROVE  req'[q] = req[q] \/ req'[q].op = "decide"
      BY <3>2 DEF DecideCount, Inv, TypeOK
    <3>3. Abort(r) => req'[q] = req[q]
      BY DEF Abort, Inv, TypeOK
    <3>4. \/ \E S : Written(r, S)
          \/ \E verdict \in Verdicts : DecideCount(r, verdict)
          \/ Abort(r)
      BY <2>1 DEF Commits, EditCommit, SubmitCommit, ExpireCommit, SupersedeCommit,
         DecideCommit, DelegateCommit, RetryCommit, VerifyCommit, CancelCommit
    <3> QED
      BY <3>1, <3>2, <3>3, <3>4
  <2>2. req'[q] = req[q] \/ req'[q].op = "decide"
    BY <1>3, <2>1 DEF Next, Expire, Execute, vars
  <2> QED
    BY <1>1, <2>2
<1> QED
  BY <1>2, <1>3

(* An action that reads as verified was found to be done, by another person  *)
(* than the one who did it.                                                  *)
THEOREM VerifiedByAnother == Spec => []VerifiedHasEvidence
<1>1. Init => Evidence
  <2>1. Init => Checkers
    BY DEF Init, Checkers, VerifierIsIndependent, Attempted
  <2> QED
    BY <2>1 DEF Init, Evidence, VerifiedHasEvidence
<1>2. Inv /\ Evidence /\ [Next]_vars => Evidence'
  <2> SUFFICES ASSUME Inv, Evidence, [Next]_vars PROVE Evidence'
    OBVIOUS
  <2>1. Checkers'
    BY CheckersStep DEF Evidence
  <2>2. VerifiedHasEvidence'
    <3>1. ASSUME action'.status = "VERIFIED"
          PROVE  \E k \in Executed' : /\ execs'[k].check = "VERIFIED"
                                      /\ execs'[k].verifier \notin {Nobody, execs'[k].by}
      <4>1. CASE \E r \in Requests : VerifyCommit(r, TRUE)
        <5>1. PICK r \in Requests : VerifyCommit(r, TRUE)
          BY <4>1
        <5>2. /\ req[r] # Idle /\ req[r].op = "verify" /\ req[r].key \in Keys
              /\ execs[req[r].key] # Absent /\ req[r].actor \in Actors
          BY <5>1, DoingFacts, InFlightFacts DEF VerifyCommit, Sound
        <5>3. /\ execs[req[r].key].status = "EXECUTED"
              /\ execs[req[r].key].by # req[r].actor
          BY <5>2 DEF Evidence, Waited, Checkers, Independent
        <5>4. execs'[req[r].key] = Verified(req[r].key, "VERIFIED", req[r].actor)
          BY <5>1, <5>2, Kept DEF VerifyCommit, Found
        <5>5. execs'[req[r].key] # Absent
          BY <5>2, MakerStays
        <5>6. req[r].key \in Executed'
          BY <5>2, <5>3, <5>4, <5>5 DEF Executed, Verified
        <5> QED
          BY <5>2, <5>3, <5>4, <5>6, ActorAssumption DEF Verified
      <4>2. CASE ~(\E r \in Requests : VerifyCommit(r, TRUE))
        <5>1. action.status = "VERIFIED"
          BY <3>1, <4>2, VerifiedSteps
        <5>2. PICK k \in Executed : /\ execs[k].check = "VERIFIED"
                                    /\ execs[k].verifier \notin {Nobody, execs[k].by}
          BY <5>1 DEF Evidence, VerifiedHasEvidence
        <5>3. execs[k] # Absent /\ k \in Keys
          BY DEF Executed
        <5>4. ASSUME NEW r \in Requests, VerifyCommit(r, FALSE), req[r] # Idle,
                     req[r].op = "verify"
              PROVE  FALSE
          <6>1. req[r].snap.status = "VERIFYING"
            BY <5>4 DEF Evidence, Waited
          <6>2. action' = WriteStatus(r, "VERIFICATION_FAILED")
            BY <5>4 DEF VerifyCommit, Found
          <6> QED
            BY <3>1, <6>1, <6>2 DEF WriteStatus, WithStatus, Flushed
        <5>5. execs'[k] = execs[k]
          BY <4>2, <5>3, <5>4, EvidenceStays
        <5> QED
          BY <5>2, <5>3, <5>5 DEF Executed
      <4> QED
        BY <4>1, <4>2
    <3> QED
      BY <3>1 DEF VerifiedHasEvidence
  <2>3. \A q \in Requests : req'[q] # Idle => Waited(q)'
    BY WaitedStays DEF Waited
  <2> QED
    BY <2>1, <2>2, <2>3 DEF Evidence
<1>3. Evidence => VerifiedHasEvidence
  BY DEF Evidence
<1> QED
  BY <1>1, <1>2, <1>3, AlwaysInv, PTL DEF Spec
-----------------------------------------------------------------------------
(* A decision under way is about the version it loaded, is not stored yet,   *)
(* and counted no more approving decisions than there are.                   *)
Counted(q) ==
  /\ req[q].op = "decide" => approvals[req[q].on].version = req[q].snap.version
  /\ req[q].pc = "counted" =>
       /\ \A d \in decisions : ~Decided(d, req[q].on, req[q].snap.version, req[q].actor)
       /\ req[q].decision = "APPROVED" /\ req[q].enough => Enough(q)

Counts ==
  /\ IsFiniteSet(decisions)
  /\ \A q \in Requests : req[q] # Idle => Counted(q)
  /\ ApprovedHasDecisions

(* The approving decisions of a version among those in S. *)
Behind(S, v) == {d \in S : d.version = v /\ d.decision = "APPROVED"}

LEMMA DecisionSteps ==
  ASSUME Inv, [Next]_vars
  PROVE  decisions' = decisions \/ \E r \in Requests : DecideCommit(r)
<1>1. ASSUME NEW r \in Requests, Commits(r), ~DecideCommit(r)
      PROVE  decisions' = decisions
  BY <1>1 DEF Commits, EditCommit, SubmitCommit, ExpireCommit, SupersedeCommit, DecideCount,
     DelegateCommit, RetryCommit, Run, VerifyCommit, CancelCommit, Abort
<1>2. ASSUME NEW r \in Requests, NEW u \in Actors, Loads(r, u)
      PROVE  decisions' = decisions
  BY <1>2 DEF Loads, EditLoad, SubmitLoad, RetryLoad, CancelLoad, DecideLoad, DelegateLoad,
     VerifyLoad, Load
<1>3. ASSUME NEW u \in Actors, NEW k \in Keys, Execute(u, k)
      PROVE  decisions' = decisions
  BY <1>3 DEF Execute, Run
<1>4. Expire \/ UNCHANGED vars => decisions' = decisions
  BY DEF Expire, vars
<1> QED
  BY <1>1, <1>2, <1>3, <1>4 DEF Next

(* Decisions are only added, so a count never goes down. *)
LEMMA DecisionsGrow ==
  ASSUME Inv, IsFiniteSet(decisions), [Next]_vars, NEW v
  PROVE  /\ IsFiniteSet(decisions') /\ IsFiniteSet(Behind(decisions, v))
         /\ Cardinality(Behind(decisions, v)) \in Nat
         /\ Cardinality(Behind(decisions', v)) \in Nat
         /\ Cardinality(Behind(decisions, v)) <= Cardinality(Behind(decisions', v))
<1>1. decisions \subseteq decisions' /\ IsFiniteSet(decisions')
  <2>1. CASE decisions' = decisions
    BY <2>1
  <2>2. ASSUME NEW r \in Requests, DecideCommit(r)
        PROVE  decisions \subseteq decisions' /\ IsFiniteSet(decisions')
    <3>1. decisions' = decisions \cup {Mine(r, req[r].decision)}
      BY <2>2 DEF DecideCommit
    <3> QED
      BY <3>1, FS_AddElement
  <2> QED
    BY <2>1, <2>2, DecisionSteps
<1>2. /\ Behind(decisions, v) \subseteq decisions /\ Behind(decisions', v) \subseteq decisions'
      /\ Behind(decisions, v) \subseteq Behind(decisions', v)
  BY <1>1 DEF Behind
<1>3. IsFiniteSet(Behind(decisions, v)) /\ IsFiniteSet(Behind(decisions', v))
  BY <1>1, <1>2, FS_Subset
<1> QED
  BY <1>1, <1>2, <1>3, FS_Subset, FS_CardinalityType

(* The decision that fills the quorum is one more than those counted. *)
LEMMA ApprovesFills ==
  ASSUME Inv, Counts, [Next]_vars, NEW r \in Requests, NEW a \in Approvals, Approves(r, a)
  PROVE  Cardinality(Behind(decisions', approvals[a].version)) >= Required(approvals[a].payload)
<1> DEFINE v == approvals[a].version
           mine == Mine(r, "APPROVED")
<1>1. /\ req[r] # Idle /\ req[r].pc = "counted" /\ req[r].op = "decide"
      /\ req[r].on = a /\ req[r].decision = "APPROVED" /\ req[r].enough
  <2>1. /\ req[r].pc = "counted" /\ req[r].on = a
        /\ req[r].decision = "APPROVED" /\ req[r].enough
    BY DEF Approves, DecideCommit
  <2> QED
    BY <2>1, CountedFacts
<1>2. /\ v = req[r].snap.version /\ Enough(r)
      /\ \A d \in decisions : ~Decided(d, a, v, req[r].actor)
  BY <1>1 DEF Counts, Counted
<1>3. Cardinality(Behind(decisions, v)) + 1 >= Required(approvals[a].payload)
  BY <1>1, <1>2 DEF Enough, Approving, Behind
<1>4. decisions' = decisions \cup {mine}
  BY <1>1 DEF Approves, DecideCommit
<1>5. Decided(mine, a, v, req[r].actor) /\ mine.decision = "APPROVED" /\ mine.version = v
  BY <1>1, <1>2 DEF Mine, Decided
<1>6. mine \notin decisions
  BY <1>2, <1>5
<1>7. /\ Behind(decisions', v) = Behind(decisions, v) \cup {mine}
      /\ mine \notin Behind(decisions, v)
  <2> HIDE DEF v, mine
  <2> QED
    BY <1>4, <1>5, <1>6 DEF Behind
<1>8. IsFiniteSet(Behind(decisions, v)) /\ Cardinality(Behind(decisions, v)) \in Nat
  BY DecisionsGrow DEF Counts
<1>9. Cardinality(Behind(decisions', v)) = Cardinality(Behind(decisions, v)) + 1
  BY <1>7, <1>8, FS_AddElement
<1> QED
  BY <1>3, <1>9

LEMMA CountedStays ==
  ASSUME Inv, Counts, [Next]_vars, NEW q \in Requests,
         req[q] # Idle, req'[q] = req[q]
  PROVE  Counted(q)'
<1>1. CASE req[q].op # "decide"
  <2>1. req[q].pc # "counted"
    BY <1>1 DEF Inv, TypeOK, InFlight
  <2> QED
    BY <1>1, <2>1 DEF Counted
<1>2. CASE req[q].op = "decide"
  <2> DEFINE b == req[q].on
  <2>1. b \in Approvals /\ approvals[b].status = "PENDING"
    BY <1>2, InFlightFacts DEF Sound, Deciding
  <2>2. approvals'[b].version = approvals[b].version
        /\ approvals'[b].payload = approvals[b].payload
    BY <2>1, ApprovalSteps DEF Carried, Absent
  <2>3. Counted(q)
    BY DEF Counts
  <2>4. ASSUME req[q].pc = "counted", NEW d \in decisions'
        PROVE  ~Decided(d, b, req[q].snap.version, req[q].actor)
    <3>1. CASE d \in decisions
      BY <2>3, <2>4, <3>1 DEF Counted
    <3>2. ASSUME NEW r \in Requests, DecideCommit(r), d \notin decisions
          PROVE  d.approval # b
      <4>1. d = Mine(r, req[r].decision) /\ Written(r, {req[r].on})
        BY <2>4, <3>2 DEF DecideCommit
      <4>2. req[r].on # b
        BY <4>1 DEF Written
      <4> QED
        BY <4>1, <4>2 DEF Mine
    <3> QED
      BY <2>4, <3>1, <3>2, DecisionSteps DEF Decided
  <2>5. ASSUME Enough(q)
        PROVE  Enough(q)'
    <3> DEFINE v == req[q].snap.version
    <3>1. /\ Cardinality(Behind(decisions, v)) \in Nat
          /\ Cardinality(Behind(decisions', v)) \in Nat
          /\ Cardinality(Behind(decisions, v)) <= Cardinality(Behind(decisions', v))
      BY DecisionsGrow DEF Counts
    <3>2. Required(approvals[b].payload) \in Nat
          /\ Required(approvals[b].payload)' = Required(approvals[b].payload)
      BY <2>2 DEF Required
    <3> QED
      BY <2>5, <3>1, <3>2 DEF Enough, Approving, Behind
  <2> QED
    BY <1>2, <2>2, <2>3, <2>4, <2>5 DEF Counted
<1> QED
  BY <1>1, <1>2

LEMMA AlwaysCounts == Spec => []Counts
<1>1. Init => Counts
  <2> SUFFICES ASSUME Init PROVE Counts
    OBVIOUS
  <2>1. IsFiniteSet(decisions)
    BY FS_EmptySet DEF Init
  <2>2. ApprovedHasDecisions
    BY DEF Init, ApprovedHasDecisions, Absent
  <2> QED
    BY <2>1, <2>2 DEF Init, Counts
<1>2. Inv /\ Counts /\ [Next]_vars => Counts'
  <2> SUFFICES ASSUME Inv, Counts, [Next]_vars PROVE Counts'
    OBVIOUS
  <2>1. IsFiniteSet(decisions')
    BY DecisionsGrow DEF Counts
  <2>2. ASSUME NEW q \in Requests, req'[q] # Idle
        PROVE  Counted(q)'
    <3>1. CASE req'[q] = req[q] /\ req[q] # Idle
      BY <3>1, CountedStays
    <3>2. CASE \E u \in Actors : LoadedBy(q, u)
      BY <3>2 DEF LoadedBy, Counted
    <3>3. ASSUME NEW verdict \in Verdicts, DecideCount(q, verdict)
          PROVE  Counted(q)'
      <4>1. req[q] # Idle /\ req[q].op = "decide" /\ Counted(q)
        BY <3>3, DoingFacts DEF DecideCount, Counts
      <4>2. /\ req'[q].on = req[q].on /\ req'[q].snap = req[q].snap
            /\ req'[q].actor = req[q].actor
            /\ req'[q].enough = Enough(q)
        BY <3>3 DEF DecideCount, Inv, TypeOK
      <4>3. UNCHANGED <<approvals, decisions>>
        BY <3>3 DEF DecideCount
      <4>4. Enough(q)' = Enough(q)
        BY <4>2, <4>3 DEF Enough, Approving, Required
      <4> QED
        BY <3>3, <4>1, <4>2, <4>3, <4>4 DEF Counted, DecideCount
    <3> QED
      BY <2>2, <3>1, <3>2, <3>3, RequestSteps
  <2>3. ASSUME NEW a \in Approvals, approvals'[a].status = "APPROVED"
        PROVE  Cardinality(Behind(decisions', approvals'[a].version))
                 >= Required(approvals'[a].payload)
    <3>1. CASE approvals'[a] = approvals[a]
      <4>1. Cardinality(Behind(decisions, approvals[a].version))
              >= Required(approvals[a].payload)
        BY <2>3, <3>1 DEF Counts, ApprovedHasDecisions, Approving, Behind
      <4>2. Required(approvals[a].payload) \in Nat
        BY DEF Required
      <4> QED
        BY <3>1, <4>1, <4>2, DecisionsGrow DEF Counts
    <3>2. ASSUME NEW r \in Requests, Approves(r, a),
                 approvals'[a].version = approvals[a].version,
                 approvals'[a].payload = approvals[a].payload
          PROVE  Cardinality(Behind(decisions', approvals'[a].version))
                   >= Required(approvals'[a].payload)
      BY <3>2, ApprovesFills
    <3> QED
      BY <2>3, <3>1, <3>2, ApprovalSteps DEF Carried, Absent
  <2> QED
    BY <2>1, <2>2, <2>3 DEF Counts, ApprovedHasDecisions, Required, Approving, Behind
<1> QED
  BY <1>1, <1>2, AlwaysInv, PTL DEF Spec

(* Two decisions on one approval cannot both be counted and stored: what a   *)
(* request counted is still there, with its own, when the approval turns     *)
(* APPROVED.                                                                 *)
THEOREM ApprovalHasQuorum == Spec => []ApprovedHasDecisions
<1>1. Counts => ApprovedHasDecisions
  BY DEF Counts
<1> QED
  BY <1>1, AlwaysCounts, PTL
=============================================================================
