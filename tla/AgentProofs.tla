------------------------------ MODULE AgentProofs ------------------------------
(***************************************************************************)
(* Theorems about AgentExecution, for any users, approvers, requests in    *)
(* flight and number of questions.                                         *)
(***************************************************************************)
EXTENDS AgentExecution, SequenceTheorems, TLAPS

USE UsersAssumption, BoundAssumption

Profiles == [vague : BOOLEAN, gated : BOOLEAN, parent : BOOLEAN]
Responses  == {"answer", "deny"}

(* A request that holds a continuation took it from the execution; one that  *)
(* answers may do so, and while the question waits there is room for the     *)
(* next one.  One that is about to end the execution has an outcome.         *)
Held(q) ==
  /\ q.cont <= Len(conts)
  /\ q.op \in Responses \cup {"expire"} /\ q.at = "none" => q.cont # 0
  /\ q.op \in Responses /\ q.at = "none" =>
       /\ MayAnswer(q.by, conts[q.cont].kind)
       /\ q.op = "deny" => conts[q.cont].kind = "approval"
       /\ IsPending(q.cont) => Len(conts) < MaxContinuations
  /\ q.at \in {"check", "write"} => q.target \in Ended
  /\ q.op = "run" => Len(conts) < MaxContinuations
  /\ q.op \in {"idle", "answer", "cancel", "expire"} => q.at = "none"
  /\ q.op = "run" \/ q.at # "none" => q.cont = 0

Requested == \A r \in Requests : Held(req[r])

IInv == TypeOK /\ OneRun /\ Requested

LEMMA Counted ==
  ASSUME TypeOK
  PROVE  /\ conts \in Seq(Continuations) /\ Len(conts) \in Nat /\ DOMAIN conts = 1 .. Len(conts)
         /\ \A c \in DOMAIN conts : conts[c] \in Continuations /\ c \in 0 .. MaxContinuations
         /\ \A r \in Requests : req[r] \in Handlers
<1>1. conts \in Seq(Continuations) /\ Len(conts) <= MaxContinuations /\ Len(conts) \in Nat
  BY DEF TypeOK
<1>2. DOMAIN conts = 1 .. Len(conts) /\ \A c \in DOMAIN conts : conts[c] \in Continuations
  BY <1>1
<1>3. QED
  BY <1>1, <1>2 DEF TypeOK

LEMMA PendingIs ==
  /\ Pending # 0 => Pending \in DOMAIN conts /\ IsPending(Pending)
  /\ Pending = 0 => (\A c \in DOMAIN conts : ~IsPending(c)) \/ 0 \in DOMAIN conts
<1>1. CASE \E c \in DOMAIN conts : IsPending(c)
  <2>1. Pending = CHOOSE c \in DOMAIN conts : IsPending(c)
    BY <1>1 DEF Pending
  <2>2. Pending \in DOMAIN conts /\ IsPending(Pending)
    BY <1>1, <2>1
  <2>3. QED
    BY <2>2
<1>2. CASE ~ \E c \in DOMAIN conts : IsPending(c)
  BY <1>2 DEF Pending
<1>3. QED
  BY <1>1, <1>2

(* What the constructors of requests make.                                   *)
LEMMA Rows ==
  /\ Idle \in Handlers /\ Idle.op = "idle" /\ Idle.at = "none" /\ Idle.cont = 0
  /\ \A g, c, a \in BOOLEAN :
       /\ Run(g, c, a) \in Handlers /\ Run(g, c, a).op = "run" /\ Run(g, c, a).at = "plan"
       /\ Run(g, c, a).cont = 0 /\ Run(g, c, a).given = g /\ Run(g, c, a).clarified = c
       /\ Run(g, c, a).approved = a
  /\ \A op \in {"run", "deny"}, t \in Outcomes :
       /\ Ending(op, t) \in Handlers /\ Ending(op, t).op = op /\ Ending(op, t).at = "check"
       /\ Ending(op, t).cont = 0 /\ Ending(op, t).target = t
<1>1. Idle \in Handlers
  BY DEF Idle, Handlers, Ops, Places, Outcomes
<1>2. \A g, c, a \in BOOLEAN : Run(g, c, a) \in Handlers
  BY DEF Run, Handlers, Ops, Places, Outcomes
<1>3. \A op \in {"run", "deny"}, t \in Outcomes : Ending(op, t) \in Handlers
  BY DEF Ending, Handlers, Ops, Places
<1>4. QED
  BY <1>1, <1>2, <1>3 DEF Idle, Run, Ending

LEMMA HoldingRow ==
  ASSUME NEW op \in Ops, NEW c \in 0 .. MaxContinuations, NEW u \in Users \cup {Nobody}
  PROVE  /\ Holding(op, c, u) \in Handlers /\ Holding(op, c, u).op = op
         /\ Holding(op, c, u).at = "none" /\ Holding(op, c, u).cont = c
         /\ Holding(op, c, u).by = u
         /\ Stopping(c) \in Handlers /\ Stopping(c).op = "run" /\ Stopping(c).at = "stop"
         /\ Stopping(c).cont = c
BY DEF Holding, Stopping, Handlers, Places, Ops, Outcomes
-----------------------------------------------------------------------------
(* The continuations after one of them was answered, cancelled or expired.   *)
Settles(cs) ==
  /\ cs \in Seq(Continuations) /\ Len(cs) = Len(conts) /\ DOMAIN cs = DOMAIN conts
  /\ \A c \in DOMAIN conts : cs[c].kind = conts[c].kind
  /\ \A c \in DOMAIN conts : cs[c].status = "pending" => conts[c].status = "pending"
  /\ \A c \in DOMAIN conts : conts[c].status # "pending" =>
       cs[c].by = conts[c].by /\ cs[c].denied = conts[c].denied

LEMMA MarkedSettles ==
  ASSUME TypeOK, NEW c \in 0 .. Len(conts), NEW s \in {"cancelled", "expired"}
  PROVE  /\ Settles(Marked(c, s))
         /\ c # 0 => Marked(c, s)[c].status = s
         /\ \A d \in DOMAIN conts : d # c => Marked(c, s)[d] = conts[d]
<1>1. CASE c = 0
  BY <1>1, Counted DEF Marked, Settles
<1>2. CASE c # 0
  <2> DEFINE e == [conts[c] EXCEPT !.status = s]
  <2>1. c \in 1 .. Len(conts) /\ conts[c] \in Continuations
    BY <1>2, Counted
  <2>2. /\ e \in Continuations /\ e.kind = conts[c].kind /\ e.status = s
        /\ e.by = conts[c].by /\ e.denied = conts[c].denied
    BY <2>1 DEF Continuations
  <2>3. Marked(c, s) = [conts EXCEPT ![c] = e]
    BY <1>2 DEF Marked
  <2> HIDE DEF e
  <2> DEFINE cs == [conts EXCEPT ![c] = e]
  <2>4. /\ cs \in Seq(Continuations) /\ Len(cs) = Len(conts) /\ DOMAIN cs = DOMAIN conts
        /\ cs[c] = e /\ \A d \in DOMAIN conts : d # c => cs[d] = conts[d]
    BY <2>1, <2>2, Counted, ExceptSeq
  <2> HIDE DEF cs
  <2>5. Settles(cs)
    BY <2>2, <2>4 DEF Settles
  <2>6. QED
    BY <2>2, <2>3, <2>4, <2>5 DEF cs
<1>3. QED
  BY <1>1, <1>2

LEMMA ConsumedSettles ==
  ASSUME TypeOK, NEW r \in Requests, IsPending(req[r].cont), NEW denied \in BOOLEAN
  PROVE  /\ Settles(Consumed(r, denied))
         /\ req[r].cont \in DOMAIN conts
         /\ Consumed(r, denied)[req[r].cont].status = "consumed"
         /\ Consumed(r, denied)[req[r].cont].by = req[r].by
         /\ Consumed(r, denied)[req[r].cont].denied = denied
         /\ \A d \in DOMAIN conts : d # req[r].cont => Consumed(r, denied)[d] = conts[d]
<1> DEFINE c == req[r].cont
           e == [kind |-> conts[c].kind, status |-> "consumed", by |-> req[r].by,
                 denied |-> denied]
           cs == [conts EXCEPT ![c] = e]
<1>1. c \in DOMAIN conts /\ c \in 1 .. Len(conts) /\ conts[c] \in Continuations
      /\ req[r].by \in Users \cup {Nobody} /\ conts[c].status = "pending"
  BY Counted DEF IsPending, Handlers
<1>2. Consumed(r, denied) = cs
  BY DEF Consumed
<1>3. /\ e \in Continuations /\ e.kind = conts[c].kind /\ e.status = "consumed"
      /\ e.by = req[r].by /\ e.denied = denied
  BY <1>1 DEF Continuations
<1> HIDE DEF e, c
<1>4. /\ cs \in Seq(Continuations) /\ Len(cs) = Len(conts) /\ DOMAIN cs = DOMAIN conts
      /\ cs[c] = e /\ \A d \in DOMAIN conts : d # c => cs[d] = conts[d]
  BY <1>1, <1>3, Counted, ExceptSeq
<1> HIDE DEF cs
<1>5. Settles(cs)
  BY <1>1, <1>3, <1>4 DEF Settles
<1>6. QED
  BY <1>1, <1>2, <1>3, <1>4, <1>5 DEF c

LEMMA SameSettles ==
  ASSUME TypeOK, conts' = conts
  PROVE  Settles(conts')
BY Counted DEF Settles

(* A request that waits keeps what it holds.                                 *)
LEMMA HeldKept ==
  ASSUME TypeOK, Settles(conts'), NEW q \in Handlers, Held(q)
  PROVE  Held(q)'
<1>1. Len(conts') = Len(conts) /\ Len(conts) \in Nat /\ DOMAIN conts = 1 .. Len(conts)
  BY Counted DEF Settles
<1>2. q.cont \in Nat
  BY DEF Handlers
<1>3. q.cont # 0 => conts'[q.cont].kind = conts[q.cont].kind
  BY <1>1, <1>2 DEF Settles, Held
<1>4. IsPending(q.cont)' => IsPending(q.cont)
  BY DEF Settles, IsPending
<1>5. QED
  BY <1>1, <1>3, <1>4 DEF Held, MayAnswer

(* A step of one request that asks nothing.                                  *)
LEMMA Handled ==
  ASSUME IInv, NEW r \in Requests, NEW q \in Handlers, Becomes(r, q),
         UNCHANGED <<profile, lapsed>>, chosen' \in BOOLEAN,
         carried' \in BOOLEAN, lost' \in BOOLEAN,
         status' \in {"running"} \cup Kinds \cup Ended,
         tool' \in {"none", "running", "succeeded", "failed", "cancelled", "timed_out"},
         Settles(conts'), Held(q)',
         q.op = "run" => req[r].op = "run" \/ (Open # {} /\ Open' = {})
  PROVE  IInv'
<1>1. /\ req' \in [Requests -> Handlers] /\ req'[r] = q
      /\ \A s \in Requests : s # r => req'[s] = req[s]
  BY DEF Becomes, IInv, TypeOK
<1>2. TypeOK'
  BY <1>1 DEF IInv, TypeOK, Settles
<1>3. Requested'
  <2>1. ASSUME NEW s \in Requests PROVE Held(req[s])'
    <3>1. CASE s = r
      BY <1>1, <3>1 DEF Held, MayAnswer, IsPending
    <3>2. CASE s # r
      <4>1. Held(req[s])
        BY DEF IInv, Requested
      <4>2. \A k \in Handlers : Held(k) => Held(k)'
        BY HeldKept DEF IInv
      <4>3. req[s] \in Handlers /\ req'[s] = req[s]
        BY <1>1, <3>2, Counted DEF IInv
      <4>4. QED
        BY <4>1, <4>2, <4>3 DEF Held, MayAnswer, IsPending
    <3>3. QED
      BY <3>1, <3>2
  <2>2. QED
    BY <2>1 DEF Requested
<1>4. OneRun'
  <2>1. Open' \subseteq Open
    BY DEF Open, Settles
  <2>2. Running' \subseteq Running \/ (Running' = {r} /\ Open' = {})
    <3>1. CASE q.op = "run" /\ req[r].op # "run"
      <4>1. Running = {} /\ Open' = {}
        BY <3>1 DEF IInv, OneRun
      <4>2. Running' = {r}
        BY <1>1, <3>1, <4>1 DEF Running
      <4>3. QED
        BY <4>1, <4>2
    <3>2. CASE q.op # "run" \/ req[r].op = "run"
      BY <1>1, <3>2 DEF Running
    <3>3. QED
      BY <3>1, <3>2
  <2>3. \A s \in Running', u \in Running' : s = u
    BY <2>2 DEF IInv, OneRun
  <2>4. \A c \in Open', d \in Open' : c = d
    BY <2>1 DEF IInv, OneRun
  <2>5. Running' # {} => Open' = {}
    BY <2>1, <2>2 DEF IInv, OneRun
  <2>6. QED
    BY <2>3, <2>4, <2>5 DEF OneRun
<1>5. QED
  BY <1>2, <1>3, <1>4 DEF IInv

LEMMA Moved ==
  ASSUME NEW q \in Handlers, NEW p \in Places
  PROVE  LET m == [q EXCEPT !.at = p] IN
         /\ m \in Handlers /\ m.at = p /\ m.op = q.op /\ m.cont = q.cont /\ m.by = q.by
         /\ m.target = q.target /\ m.given = q.given /\ m.clarified = q.clarified
         /\ m.approved = q.approved
BY DEF Handlers

LEMMA IdleHeld ==
  ASSUME TypeOK, Settles(conts')
  PROVE  Held(Idle)'
<1>1. Len(conts') \in Nat
  BY Counted DEF Settles
<1>2. QED
  BY <1>1, Rows DEF Held, Responses, Idle

LEMMA EndingHeld ==
  ASSUME TypeOK, Settles(conts'), NEW op \in {"run", "deny"}, NEW t \in Ended,
         op = "run" => Len(conts) < MaxContinuations
  PROVE  Held(Ending(op, t))'
<1>1. Len(conts') \in Nat /\ Len(conts') = Len(conts)
  BY Counted DEF Settles
<1>2. QED
  BY <1>1 DEF Held, Responses, Ending

(* A run that only moves on.                                                 *)
LEMMA MovedHeld ==
  ASSUME IInv, NEW r \in Requests, req[r].op = "run", Settles(conts'),
         NEW p \in Places \ {"none"}, NEW m, m = [req[r] EXCEPT !.at = p],
         p \in {"check", "write"} => req[r].target \in Ended
  PROVE  Held(m)' /\ m \in Handlers /\ m.op = req[r].op
<1>1. /\ Held(req[r]) /\ req[r] \in Handlers /\ Len(conts') = Len(conts)
      /\ Len(conts) \in Nat
  BY Counted DEF IInv, Requested, Settles
<1>2. /\ m.at = p /\ m.op = req[r].op /\ m.cont = req[r].cont /\ m.target = req[r].target
      /\ m \in Handlers
  BY <1>1, Moved
<1>3. QED
  BY <1>1, <1>2 DEF Held, Responses

LEMMA Failing ==
  /\ "failed" \in Ended /\ "timed_out" \in Ended /\ "succeeded" \in Ended
  /\ "cancelled" \in Ended /\ "expired" \in Ended
  /\ Ended \subseteq Outcomes
  /\ Interrupted \in {tool, "cancelled"}
BY DEF Ended, Outcomes, Interrupted

LEMMA RunsHaveRoom ==
  ASSUME IInv, NEW r \in Requests, req[r].op = "run"
  PROVE  Len(conts) < MaxContinuations /\ r \in Running
BY DEF IInv, Requested, Held, Running

LEMMA CallToolInv ==
  ASSUME IInv, NEW r \in Requests, CallTool(r)
  PROVE  IInv'
<1>1. Settles(conts') /\ req[r] \in Handlers /\ req[r].op = "run"
  BY SameSettles, Counted DEF IInv, CallTool, At
<1>2. PICK m : m = [req[r] EXCEPT !.at = "tool"]
  OBVIOUS
<1>3. Held(m)' /\ m \in Handlers /\ m.op = "run"
  BY <1>1, <1>2, MovedHeld DEF Places
<1>4. Becomes(r, m) /\ UNCHANGED <<profile, lapsed, chosen, status, carried, lost>>
  BY <1>2 DEF CallTool
<1>5. QED
  BY <1>1, <1>3, <1>4, Handled DEF CallTool, IInv, TypeOK

LEMMA CallModelInv ==
  ASSUME IInv, NEW r \in Requests, CallModel(r)
  PROVE  IInv'
<1>1. Settles(conts') /\ req[r] \in Handlers /\ req[r].op = "run"
  BY SameSettles, Counted DEF IInv, CallModel, At
<1>2. PICK m : m = [req[r] EXCEPT !.at = "model"]
  OBVIOUS
<1>3. Held(m)' /\ m \in Handlers /\ m.op = "run"
  BY <1>1, <1>2, MovedHeld DEF Places
<1>4. Becomes(r, m) /\ UNCHANGED <<profile, lapsed, chosen, status, carried, lost>>
  BY <1>2 DEF CallModel
<1>5. QED
  BY <1>1, <1>3, <1>4, Handled DEF CallModel, IInv, TypeOK

(* A run that moves on to write its outcome.                                 *)
LEMMA RunEnds ==
  ASSUME IInv, NEW r \in Requests, req[r].op = "run", NEW t \in Ended,
         Becomes(r, Ending("run", t)), UNCHANGED <<profile, lapsed, chosen, status, conts, carried, lost>>,
         tool' \in {"none", "running", "succeeded", "failed", "cancelled", "timed_out"}
  PROVE  IInv'
<1>1. Settles(conts')
  BY SameSettles DEF IInv
<1>2. /\ Held(Ending("run", t))' /\ Ending("run", t) \in Handlers
      /\ Ending("run", t).op = "run"
  BY <1>1, EndingHeld, Rows, RunsHaveRoom, Failing DEF IInv
<1>3. QED
  BY <1>1, <1>2, Handled DEF IInv, TypeOK

LEMMA RaiseInv ==
  ASSUME IInv, NEW r \in Requests, Raise(r)
  PROVE  IInv'
BY RunEnds, Failing DEF Raise, At, IInv, TypeOK

LEMMA ToolReturnsInv ==
  ASSUME IInv, NEW r \in Requests, ToolReturns(r)
  PROVE  IInv'
<1>1. PICK outcome \in {"succeeded", "failed", "timed_out"} :
        tool' = Finished(outcome) /\ Becomes(r, Ending("run", Reported(outcome)))
  BY DEF ToolReturns
<1>2. Reported(outcome) \in Ended
  BY Failing DEF Reported
<1>3. tool' \in {"none", "running", "succeeded", "failed", "cancelled", "timed_out"}
  BY <1>1 DEF Finished, IInv, TypeOK
<1>4. QED
  BY <1>1, <1>2, <1>3, RunEnds DEF ToolReturns, At

LEMMA ModelReturnsInv ==
  ASSUME IInv, NEW r \in Requests, ModelReturns(r)
  PROVE  IInv'
<1>1. PICK outcome \in {"succeeded", "failed"} : Becomes(r, Ending("run", outcome))
  BY DEF ModelReturns
<1>2. QED
  BY <1>1, RunEnds, Failing DEF ModelReturns, At, IInv, TypeOK

LEMMA TimesOutInv ==
  ASSUME IInv, NEW r \in Requests, TimesOut(r)
  PROVE  IInv'
<1>1. tool' \in {"none", "running", "succeeded", "failed", "cancelled", "timed_out"}
  BY Failing DEF TimesOut, IInv, TypeOK
<1>2. QED
  BY <1>1, RunEnds, Failing DEF TimesOut, At

(* A step that leaves the request idle.                                      *)
LEMMA GoesIdle ==
  ASSUME IInv, NEW r \in Requests, Becomes(r, Idle), UNCHANGED <<profile, lapsed, chosen, carried>>,
         Settles(conts'), lost' \in BOOLEAN, status' \in {"running"} \cup Kinds \cup Ended,
         tool' \in {"none", "running", "succeeded", "failed", "cancelled", "timed_out"}
  PROVE  IInv'
<1>1. Held(Idle)' /\ Idle \in Handlers /\ Idle.op # "run"
  BY IdleHeld, Rows DEF IInv
<1>2. QED
  BY <1>1, Handled DEF IInv, TypeOK

LEMMA TaskCancelledInv ==
  ASSUME IInv, NEW r \in Requests, TaskCancelled(r)
  PROVE  IInv'
<1>1. tool' \in {"none", "running", "succeeded", "failed", "cancelled", "timed_out"}
  BY Failing DEF TaskCancelled, IInv, TypeOK
<1>2. Settles(conts') /\ req[r].op = "run"
  BY SameSettles DEF IInv, TaskCancelled, At
<1>3. CASE status \in Ended
  BY <1>1, <1>2, <1>3, GoesIdle DEF TaskCancelled, IInv, TypeOK
<1>4. CASE status \notin Ended
  <2> DEFINE c == Pending
  <2>1. c \in 0 .. Len(conts) /\ c \in 0 .. MaxContinuations
    BY PendingIs, Counted DEF IInv, TypeOK
  <2> HIDE DEF c
  <2>2. /\ Stopping(c) \in Handlers /\ Stopping(c).op = "run" /\ Stopping(c).at = "stop"
        /\ Stopping(c).cont = c
    BY <2>1, HoldingRow DEF Ops
  <2>3. Held(Stopping(c))'
    <3>1. Len(conts') = Len(conts) /\ Len(conts) \in Nat /\ Len(conts) < MaxContinuations
      BY <1>2, Counted, RunsHaveRoom DEF Settles, IInv
    <3>2. c' = c
      BY DEF c, Pending, IsPending, TaskCancelled
    <3>3. Open = {}
      BY <1>2, RunsHaveRoom DEF IInv, OneRun
    <3>4. c = 0
      BY <3>3, PendingIs DEF c, Open, IsPending
    <3>5. QED
      BY <2>1, <3>1, <3>2, <3>4 DEF Held, Responses, Stopping
  <2>4. Becomes(r, Stopping(c))
    BY <1>4 DEF c, TaskCancelled
  <2>5. c' = c
    BY DEF c, Pending, IsPending, TaskCancelled
  <2>6. QED
    BY <1>1, <1>2, <2>2, <2>3, <2>4, <2>5, Handled DEF TaskCancelled, IInv, TypeOK
<1>5. QED
  BY <1>3, <1>4

LEMMA CheckInv ==
  ASSUME IInv, NEW r \in Requests, Check(r)
  PROVE  IInv'
<1>1. /\ Settles(conts') /\ req[r] \in Handlers /\ Held(req[r])
      /\ req[r].at = "check" /\ UNCHANGED <<profile, chosen, status, conts, lapsed, tool, carried, lost>>
  BY SameSettles, Counted DEF IInv, Requested, Check
<1>2. CASE status \in Ended
  BY <1>1, <1>2, GoesIdle DEF Check, IInv, TypeOK
<1>3. CASE status \notin Ended
  <2>1. PICK m : m = [req[r] EXCEPT !.at = "write"]
    OBVIOUS
  <2>2. Becomes(r, m) /\ req[r].target \in Ended
    BY <1>1, <1>3, <2>1 DEF Check, Held
  <2>3. /\ m \in Handlers /\ m.at = "write" /\ m.op = req[r].op /\ m.cont = req[r].cont
        /\ m.target = req[r].target
    BY <1>1, <2>1, Moved DEF Places
  <2>4. Held(m)'
    <3>1. Len(conts') = Len(conts)
      BY <1>1
    <3>2. QED
      BY <1>1, <2>2, <2>3, <3>1 DEF Held, Responses
  <2>5. QED
    BY <1>1, <2>2, <2>3, <2>4, Handled DEF IInv, TypeOK
<1>4. QED
  BY <1>2, <1>3

LEMMA WriteInv ==
  ASSUME IInv, NEW r \in Requests, Write(r)
  PROVE  IInv'
<1>1. Settles(conts') /\ status' \in Ended
  BY SameSettles DEF IInv, Requested, Held, Write
<1>2. QED
  BY <1>1, GoesIdle DEF Write, IInv, TypeOK

LEMMA CancelLoadInv ==
  ASSUME IInv, NEW r \in Requests, CancelLoad(r)
  PROVE  IInv'
<1> DEFINE c == Pending
<1>1. c \in 0 .. Len(conts) /\ c \in 0 .. MaxContinuations
  BY PendingIs, Counted DEF IInv, TypeOK
<1>2. PICK d : d = c
  OBVIOUS
<1> HIDE DEF c
<1>3. PICK q : q = Holding("cancel", d, Nobody)
  OBVIOUS
<1>4. q \in Handlers /\ q.op = "cancel" /\ q.at = "none" /\ q.cont = d
  BY <1>1, <1>2, <1>3 DEF Holding, Handlers, Ops, Places, Outcomes
<1>5. Settles(conts') /\ conts' = conts /\ Becomes(r, q)
  BY <1>2, <1>3, SameSettles DEF c, CancelLoad, IInv
<1>6. Held(q)'
  BY <1>1, <1>2, <1>4, <1>5, Counted DEF Held, Responses, IInv
<1>7. QED
  BY <1>4, <1>5, <1>6, Handled DEF CancelLoad, IInv, TypeOK

(* A request whose continuation exists settles it.                           *)
LEMMA HeldSettles ==
  ASSUME IInv, NEW r \in Requests, NEW s \in {"cancelled", "expired"}
  PROVE  Settles(Marked(req[r].cont, s))
<1>1. req[r].cont \in 0 .. Len(conts)
  BY Counted DEF IInv, Requested, Held, Handlers
<1>2. QED
  BY <1>1, MarkedSettles DEF IInv

LEMMA CancelCommitInv ==
  ASSUME IInv, NEW r \in Requests, CancelCommit(r)
  PROVE  IInv'
BY HeldSettles, GoesIdle, Failing DEF CancelCommit, IInv, TypeOK

LEMMA ExpireCommitInv ==
  ASSUME IInv, NEW r \in Requests, ExpireCommit(r)
  PROVE  IInv'
BY HeldSettles, GoesIdle, Failing DEF ExpireCommit, IInv, TypeOK

LEMMA AlreadyUsedInv ==
  ASSUME IInv, NEW r \in Requests, AlreadyUsed(r)
  PROVE  IInv'
BY SameSettles, GoesIdle DEF AlreadyUsed, IInv, TypeOK

LEMMA ConflictInv ==
  ASSUME IInv, NEW r \in Requests, Conflict(r)
  PROVE  IInv'
BY SameSettles, GoesIdle DEF Conflict, IInv, TypeOK

LEMMA AbortInv ==
  ASSUME IInv, NEW r \in Requests, Abort(r)
  PROVE  IInv'
BY SameSettles, GoesIdle DEF Abort, IInv, TypeOK

LEMMA AnswerLoadInv ==
  ASSUME IInv, NEW r \in Requests, AnswerLoad(r)
  PROVE  IInv'
<1>1. PICK c : c = Pending
  OBVIOUS
<1>2. c \in DOMAIN conts /\ IsPending(c) /\ c \in 1 .. Len(conts) /\ c \in 0 .. MaxContinuations
      /\ Len(conts) < MaxContinuations /\ Len(conts) \in Nat
  BY <1>1, PendingIs, Counted DEF AnswerLoad, IInv
<1>3. /\ Settles(conts') /\ conts' = conts
      /\ UNCHANGED <<profile, chosen, status, lapsed, tool, carried, lost>>
  BY SameSettles DEF AnswerLoad, IInv
<1>4. PICK u \in Users :
        \/ Becomes(r, Holding("expire", c, Nobody))
        \/ /\ MayAnswer(u, conts[c].kind)
           /\ \/ Becomes(r, Holding("answer", c, u))
              \/ /\ conts[c].kind = "approval"
                 /\ Becomes(r, Holding("deny", c, u))
  BY <1>1 DEF AnswerLoad
<1>5. ASSUME NEW q, Becomes(r, q), q \in Handlers, q.op # "run", q.at = "none", q.cont = c,
             q.op \in Responses => MayAnswer(q.by, conts[c].kind),
             q.op = "deny" => conts[c].kind = "approval"
      PROVE  IInv'
  <2>1. Held(q)'
    BY <1>2, <1>3, <1>5 DEF Held, MayAnswer
  <2>2. QED
    BY <1>3, <1>5, <2>1, Handled DEF IInv, TypeOK
<1>6. CASE Becomes(r, Holding("expire", c, Nobody))
  <2>1. PICK q : q = Holding("expire", c, Nobody)
    OBVIOUS
  <2>2. q \in Handlers /\ q.op = "expire" /\ q.at = "none" /\ q.cont = c
    BY <1>2, <2>1 DEF Holding, Handlers, Ops, Places, Outcomes
  <2>3. QED
    BY <1>5, <1>6, <2>1, <2>2 DEF Responses
<1>7. CASE MayAnswer(u, conts[c].kind) /\ Becomes(r, Holding("answer", c, u))
  <2>1. PICK q : q = Holding("answer", c, u)
    OBVIOUS
  <2>2. q \in Handlers /\ q.op = "answer" /\ q.at = "none" /\ q.cont = c /\ q.by = u
    BY <1>2, <2>1 DEF Holding, Handlers, Ops, Places, Outcomes
  <2>3. QED
    BY <1>5, <1>7, <2>1, <2>2 DEF Responses
<1>8. CASE /\ MayAnswer(u, conts[c].kind) /\ conts[c].kind = "approval"
           /\ Becomes(r, Holding("deny", c, u))
  <2>1. PICK q : q = Holding("deny", c, u)
    OBVIOUS
  <2>2. q \in Handlers /\ q.op = "deny" /\ q.at = "none" /\ q.cont = c /\ q.by = u
    BY <1>2, <2>1 DEF Holding, Handlers, Ops, Places, Outcomes
  <2>3. QED
    BY <1>5, <1>8, <2>1, <2>2 DEF Responses
<1>9. QED
  BY <1>4, <1>6, <1>7, <1>8

(* The claim settles the only question that waits.                           *)
LEMMA ClaimedIsOpen ==
  ASSUME IInv, NEW r \in Requests, Claimed(req[r].cont), NEW denied \in BOOLEAN
  PROVE  /\ Settles(Consumed(r, denied)) /\ Open = {req[r].cont}
         /\ \A c \in DOMAIN conts : Consumed(r, denied)[c].status # "pending"
<1>1. IsPending(req[r].cont)
  BY DEF Claimed
<1>2. Open = {req[r].cont}
  BY <1>1 DEF Open, IsPending, IInv, OneRun
<1>3. Settles(Consumed(r, denied))
  BY <1>1, ConsumedSettles DEF IInv
<1>4. \A c \in DOMAIN conts : Consumed(r, denied)[c].status # "pending"
  <2>1. ASSUME NEW c \in DOMAIN conts PROVE Consumed(r, denied)[c].status # "pending"
    <3>1. CASE c = req[r].cont
      BY <1>1, <3>1, ConsumedSettles DEF IInv
    <3>2. CASE c # req[r].cont
      <4>1. conts[c].status # "pending"
        BY <1>2, <3>2 DEF Open
      <4>2. QED
        BY <1>1, <3>2, <4>1, ConsumedSettles DEF IInv
    <3>3. QED
      BY <3>1, <3>2
  <2>2. QED
    BY <2>1
<1>5. QED
  BY <1>2, <1>3, <1>4

(* The run that an answer starts: its flags are those of its kind, or the      *)
(* caller's, and then carried says so.                                       *)
LEMMA ClaimRuns ==
  ASSUME NEW r \in Requests, Claim(r)
  PROVE  \E g \in BOOLEAN, c \in BOOLEAN, a \in BOOLEAN :
           /\ Becomes(r, Run(g, c, a))
           /\ a = TRUE => carried' = TRUE \/ conts[req[r].cont].kind = "approval"
<1> DEFINE kind == conts[req[r].cont].kind
<1>1. PICK values \in Answers :
        /\ Becomes(r, Resumed(r, values))
        /\ carried' = (carried \/ (kind # "approval" /\ values.approved))
  BY DEF Claim
<1>2. values.given \in BOOLEAN /\ values.clarified \in BOOLEAN /\ values.approved \in BOOLEAN
  BY DEF Answers
<1> HIDE DEF kind
<1>3. PICK g \in BOOLEAN : g = (kind # "clarification" \/ values.given)
  BY <1>2
<1>4. PICK c \in BOOLEAN : c = (kind = "clarification" \/ (kind = "input" /\ values.clarified))
  BY <1>2
<1>5. PICK a \in BOOLEAN : a = (kind = "approval" \/ values.approved)
  BY <1>2
<1>6. Resumed(r, values) = Run(g, c, a)
  BY <1>3, <1>4, <1>5 DEF Resumed, kind
<1>7. a = TRUE => carried' = TRUE \/ kind = "approval"
  BY <1>1, <1>2, <1>5
<1>8. QED
  BY <1>1, <1>6, <1>7 DEF kind

LEMMA ClaimInv ==
  ASSUME IInv, NEW r \in Requests, Claim(r)
  PROVE  IInv'
<1>1. /\ Settles(conts') /\ Open # {} /\ req[r].op = "answer" /\ req[r] \in Handlers
      /\ Len(conts') = Len(conts) /\ DOMAIN conts' = DOMAIN conts
      /\ \A c \in DOMAIN conts' : conts'[c].status # "pending"
  BY ClaimedIsOpen, Counted DEF Claim, IInv, Settles
<1>2. Open' = {}
  BY <1>1 DEF Open
<1>3. PICK g \in BOOLEAN, c \in BOOLEAN, a \in BOOLEAN : Becomes(r, Run(g, c, a))
  BY ClaimRuns
<1>4. PICK q : q = Run(g, c, a)
  OBVIOUS
<1>5. q \in Handlers /\ q.op = "run" /\ q.at = "plan" /\ q.cont = 0
  BY <1>4, Rows
<1>6. Becomes(r, q)
  BY <1>3, <1>4
<1>7. Held(q)'
  <2>1. Len(conts) < MaxContinuations /\ Len(conts) \in Nat
    BY <1>1, Counted DEF Claim, Claimed, IInv, Requested, Held, Responses
  <2>2. QED
    BY <1>1, <1>5, <2>1 DEF Held, Responses
<1>8. chosen' \in BOOLEAN /\ carried' \in BOOLEAN
  BY DEF Claim, IInv, TypeOK
<1>9. QED
  BY <1>1, <1>2, <1>5, <1>6, <1>7, <1>8, Handled DEF Claim, IInv, TypeOK

LEMMA DenyInv ==
  ASSUME IInv, NEW r \in Requests, Deny(r)
  PROVE  IInv'
<1>1. Settles(conts') /\ req[r].op = "deny"
  BY ClaimedIsOpen DEF Deny
<1>2. PICK q : q = Ending("deny", "failed")
  OBVIOUS
<1>3. q \in Handlers /\ q.op = "deny" /\ q.at = "check"
  BY <1>2, Rows, Failing
<1>4. Held(q)'
  BY <1>1, <1>2, EndingHeld, Failing DEF IInv, Held, MayAnswer, IsPending
<1>5. QED
  BY <1>1, <1>2, <1>3, <1>4, Handled DEF Deny, IInv, TypeOK
-----------------------------------------------------------------------------
(* The question that a run asks is the only one, and ends the run.           *)
LEMMA AskIs ==
  ASSUME IInv, NEW r \in Requests, Ask(r)
  PROVE  /\ conts' \in Seq(Continuations) /\ Len(conts') = Len(conts) + 1
         /\ Len(conts) \in Nat /\ Len(conts) < MaxContinuations
         /\ DOMAIN conts' = 1 .. (Len(conts) + 1) /\ DOMAIN conts = 1 .. Len(conts)
         /\ \A c \in DOMAIN conts : conts'[c] = conts[c] /\ conts[c].status # "pending"
         /\ conts'[Len(conts) + 1].status = "pending"
         /\ conts'[Len(conts) + 1].kind = status'
         /\ status' \in Kinds
         /\ req' \in [Requests -> Handlers] /\ req'[r] = Idle
         /\ \A s \in Requests : s # r => req'[s] = req[s] /\ req[s].op # "run"
         /\ req[r].op = "run"
<1> DEFINE e == [kind |-> Question(req[r]), status |-> "pending", by |-> Nobody,
                 denied |-> FALSE]
<1>1. req[r] \in Handlers /\ req[r].op = "run"
  BY Counted DEF IInv, Ask, At
<1>2. Question(req[r]) \in Kinds
  BY DEF Question, Kinds, Ask
<1>3. e \in Continuations /\ e.status = "pending" /\ e.kind = Question(req[r])
  BY <1>1, <1>2 DEF Continuations, Handlers
<1>4. conts' = Append(conts, e) /\ status' = Question(req[r]) /\ Becomes(r, Idle)
  BY DEF Ask
<1> HIDE DEF e
<1>5. conts \in Seq(Continuations) /\ Len(conts) \in Nat /\ DOMAIN conts = 1 .. Len(conts)
  BY Counted DEF IInv
<1>6. /\ conts' \in Seq(Continuations) /\ Len(conts') = Len(conts) + 1
      /\ conts'[Len(conts) + 1] = e
      /\ \A c \in 1 .. Len(conts) : conts'[c] = conts[c]
  BY <1>3, <1>4, <1>5, AppendProperties
<1>7. DOMAIN conts' = 1 .. (Len(conts) + 1)
  BY <1>6
<1>8. \A c \in DOMAIN conts : conts[c].status # "pending"
  BY <1>1, RunsHaveRoom DEF IInv, OneRun, Open
<1>9. \A s \in Requests : s # r => req[s].op # "run"
  BY <1>1 DEF IInv, OneRun, Running
<1>10. Len(conts) < MaxContinuations
  BY <1>1, RunsHaveRoom
<1>11. /\ req' \in [Requests -> Handlers] /\ req'[r] = Idle
       /\ \A s \in Requests : s # r => req'[s] = req[s]
  BY <1>4, Rows DEF Becomes, IInv, TypeOK
<1>12. QED
  BY <1>1, <1>2, <1>3, <1>4, <1>5, <1>6, <1>7, <1>8, <1>9, <1>10, <1>11

LEMMA AskInv ==
  ASSUME IInv, NEW r \in Requests, Ask(r)
  PROVE  IInv'
<1> DEFINE n == Len(conts) + 1
<1>1. n \in 1 .. MaxContinuations /\ n \in Nat
  BY AskIs, BoundAssumption
<1>2. TypeOK'
  <2>1. UNCHANGED <<profile, chosen, lapsed, tool, carried, lost>>
    BY DEF Ask
  <2>2. QED
    BY <1>1, <2>1, AskIs DEF IInv, TypeOK
<1>3. Requested'
  <2>1. ASSUME NEW s \in Requests PROVE Held(req[s])'
    <3>1. CASE s = r
      BY <3>1, AskIs, Rows DEF Held, Responses, Idle
    <3>2. CASE s # r
      <4>1. PICK q : q = req[s]
        OBVIOUS
      <4>2. /\ Held(q) /\ q \in Handlers /\ q.op # "run" /\ req'[s] = q /\ q.cont \in Nat
        BY <3>2, <4>1, AskIs, Counted DEF IInv, Requested, Handlers
      <4>3. /\ q.cont # 0 => q.cont \in DOMAIN conts
            /\ q.cont # 0 => conts'[q.cont] = conts[q.cont]
            /\ q.cont # 0 => ~IsPending(q.cont)'
        BY <4>2, AskIs DEF Held, IsPending
      <4>4. Held(q)'
        BY <4>2, <4>3, AskIs DEF Held, MayAnswer, Responses
      <4>5. QED
        BY <4>2, <4>4 DEF Held, MayAnswer, IsPending
    <3>3. QED
      BY <3>1, <3>2
  <2>2. QED
    BY <2>1 DEF Requested
<1>4. OneRun'
  <2>1. Running' = {}
    BY AskIs, Rows DEF Running
  <2>2. Open' \subseteq {n}
    <3>1. ASSUME NEW c \in Open' PROVE c = n
      <4>1. c \in 1 .. n /\ conts'[c].status = "pending"
        BY AskIs DEF Open
      <4>2. c \notin DOMAIN conts
        BY <4>1, AskIs
      <4>3. QED
        BY <4>1, <4>2, AskIs
    <3>2. QED
      BY <3>1
  <2>3. QED
    BY <2>1, <2>2 DEF OneRun
<1>5. QED
  BY <1>2, <1>3, <1>4 DEF IInv

LEMMA ReconcileInv ==
  ASSUME IInv, NEW t \in {"failed", "cancelled", "timed_out"}, Reconcile(t)
  PROVE  IInv'
<1>1. PICK c : c = Pending
  OBVIOUS
<1>2. c \in 0 .. Len(conts)
  BY <1>1, PendingIs, Counted DEF IInv
<1>3. Settles(conts') /\ UNCHANGED <<chosen, lapsed, req, carried, lost>>
  BY <1>1, <1>2, MarkedSettles DEF Reconcile, IInv
<1>4. TypeOK'
  <2>1. profile' \in Profiles /\ status' \in {"running"} \cup Kinds \cup Ended
    BY DEF Reconcile, IInv, TypeOK, Profiles, Ended
  <2>2. tool' \in {"none", "running", "succeeded", "failed", "cancelled", "timed_out"}
    BY DEF Reconcile, IInv, TypeOK
  <2>3. QED
    BY <1>3, <2>1, <2>2 DEF IInv, TypeOK, Settles, Profiles
<1>5. Requested'
  <2>1. ASSUME NEW r \in Requests PROVE Held(req[r])'
    <3>1. PICK q : q = req[r]
      OBVIOUS
    <3>2. q \in Handlers /\ Held(q) /\ req'[r] = q
      BY <1>3, <3>1, Counted DEF IInv, Requested
    <3>3. Held(q)'
      BY <1>3, <3>2, HeldKept DEF IInv
    <3>4. QED
      BY <3>2, <3>3 DEF Held, MayAnswer, IsPending
  <2>2. QED
    BY <2>1 DEF Requested
<1>6. OneRun'
  <2>1. Open' \subseteq Open /\ Running' = Running
    BY <1>3 DEF Open, Settles, Running
  <2>2. QED
    BY <2>1 DEF IInv, OneRun
<1>7. QED
  BY <1>4, <1>5, <1>6 DEF IInv

LEMMA QuietInv ==
  ASSUME IInv, UNCHANGED <<profile, chosen, status, conts, tool, req, carried, lost>>,
         lapsed' \in 0 .. Len(conts)
  PROVE  IInv'
<1>1. TypeOK'
  BY DEF IInv, TypeOK
<1>2. Requested' /\ OneRun'
  BY DEF IInv, Requested, Held, MayAnswer, IsPending, OneRun, Running, Open
<1>3. QED
  BY <1>1, <1>2 DEF IInv

LEMMA LapseInv ==
  ASSUME IInv, Lapse \/ UNCHANGED vars
  PROVE  IInv'
<1>1. lapsed' \in 0 .. Len(conts)
  BY Counted DEF Lapse, vars, IInv, TypeOK
<1>2. QED
  BY <1>1, QuietInv DEF Lapse, vars

LEMMA InitInv == Init => IInv
<1> SUFFICES ASSUME Init PROVE IInv
  OBVIOUS
<1>1. PICK r \in Requests, given \in BOOLEAN, clarified \in BOOLEAN :
        req = [x \in Requests |-> IF x = r THEN Run(given, clarified, carried) ELSE Idle]
  BY DEF Init
<1>2. PICK q : q = Run(given, clarified, carried)
  OBVIOUS
<1>3. q \in Handlers /\ q.op = "run" /\ q.at = "plan" /\ q.cont = 0
  BY <1>2 DEF Init, Run, Handlers, Ops, Places, Outcomes
<1>4. \A x \in Requests : req[x] = IF x = r THEN q ELSE Idle
  BY <1>1, <1>2
<1>5. Len(conts) = 0 /\ conts \in Seq(Continuations) /\ DOMAIN conts = {}
  BY DEF Init
<1>6. TypeOK
  <2>1. req \in [Requests -> Handlers]
    BY <1>1, <1>2, <1>3, Rows
  <2>2. conts \in Seq(Continuations) /\ Len(conts) <= MaxContinuations
    BY <1>5
  <2>3. lapsed \in 0 .. Len(conts)
    BY <1>5 DEF Init
  <2>4. /\ profile \in Profiles /\ chosen \in BOOLEAN /\ status = "running" /\ tool = "none"
        /\ carried \in BOOLEAN /\ lost \in BOOLEAN
    BY DEF Init, Profiles
  <2>5. QED
    BY <2>1, <2>2, <2>3, <2>4 DEF TypeOK, Profiles
<1>7. Requested
  BY <1>3, <1>4, <1>5, Rows, BoundAssumption DEF Requested, Held, Responses
<1>8. OneRun
  BY <1>3, <1>4, <1>5, Rows DEF OneRun, Running, Open
<1>9. QED
  BY <1>6, <1>7, <1>8 DEF IInv

LEMMA NextInv == IInv /\ [Next]_vars => IInv'
<1> SUFFICES ASSUME IInv, [Next]_vars PROVE IInv'
  OBVIOUS
<1>1. ASSUME NEW r \in Requests, Step(r) PROVE IInv'
  BY <1>1, AskInv, CallToolInv, CallModelInv, TimesOutInv, CheckInv, WriteInv,
     CancelCommitInv, ExpireCommitInv, ClaimInv, DenyInv, AlreadyUsedInv,
     ConflictInv DEF Step
<1>2. ASSUME NEW r \in Requests, Outside(r) PROVE IInv'
  BY <1>2, RaiseInv, ToolReturnsInv, ModelReturnsInv, TaskCancelledInv, CancelLoadInv,
     AnswerLoadInv, AbortInv DEF Outside
<1>3. ASSUME NEW t \in {"failed", "cancelled", "timed_out"}, Reconcile(t) PROVE IInv'
  BY <1>3, ReconcileInv
<1>4. CASE Lapse \/ UNCHANGED vars
  BY <1>4, LapseInv
<1>5. QED
  BY <1>1, <1>2, <1>3, <1>4 DEF Next

LEMMA Invariance == Spec => []IInv
<1>1. QED
  BY InitInv, NextInv, PTL DEF Spec

(* Every row, request and history variable keeps its type.                   *)
THEOREM TypeCorrect == Spec => []TypeOK
<1>1. IInv => TypeOK
  BY DEF IInv
<1>2. QED
  BY <1>1, Invariance, PTL

(* At most one request runs the execution, none does while a question waits, *)
(* and at most one question waits, for any number of requests.               *)
THEOREM RunsAlone == Spec => []OneRun
<1>1. IInv => OneRun
  BY DEF IInv
<1>2. QED
  BY <1>1, Invariance, PTL
-----------------------------------------------------------------------------
(* An approval that somebody who may approve, and did not ask, has given.    *)
Approval(c) ==
  /\ conts[c].kind = "approval" /\ conts[c].status # "pending"
  /\ conts[c].denied = FALSE /\ conts[c].by \in Approvers \ {Owner}

Approved == \E c \in DOMAIN conts : Approval(c)

(* A run is told that it is approved only when it is, or by its caller, and   *)
(* has called the tool when it waits for it.                                 *)
Entitled(q) ==
  /\ q.op = "run" /\ q.approved = TRUE => Approved \/ carried = TRUE
  /\ q.op = "run" /\ q.at = "tool" => tool # "none"

Gate ==
  /\ profile.gated = TRUE /\ tool # "none" => Approved \/ carried = TRUE
  /\ \A r \in Requests : Entitled(req[r])

LEMMA SettlesKeepsApproval ==
  ASSUME Settles(conts'), Approved
  PROVE  Approved'
<1>1. PICK c \in DOMAIN conts : Approval(c)
  BY DEF Approved
<1>2. /\ conts'[c].kind = "approval" /\ conts'[c].status # "pending"
      /\ conts'[c].denied = FALSE /\ conts'[c].by \in Approvers \ {Owner}
      /\ c \in DOMAIN conts'
  BY <1>1 DEF Settles, Approval
<1>3. QED
  BY <1>2 DEF Approved, Approval

(* Every step but a question settles continuations, if it touches them.      *)
LEMMA StepSettles ==
  ASSUME IInv, NEW r \in Requests, Step(r) \/ Outside(r), ~Ask(r)
  PROVE  Settles(conts')
<1>1. conts' = conts => Settles(conts')
  BY SameSettles DEF IInv
<1>2. CASE CancelCommit(r)
  BY <1>2, HeldSettles DEF CancelCommit
<1>3. CASE ExpireCommit(r)
  BY <1>3, HeldSettles DEF ExpireCommit
<1>4. CASE Claim(r)
  BY <1>4, ClaimedIsOpen DEF Claim
<1>5. CASE Deny(r)
  BY <1>5, ClaimedIsOpen DEF Deny
<1>6. CASE CallTool(r) \/ CallModel(r) \/ TimesOut(r) \/ Check(r) \/ Write(r) \/ AlreadyUsed(r)
           \/ Conflict(r)
  BY <1>1, <1>6 DEF CallTool, CallModel, TimesOut, Check, Write, AlreadyUsed, Conflict
<1>7. CASE Outside(r)
  BY <1>1, <1>7 DEF Outside, Raise, ToolReturns, ModelReturns, TaskCancelled, CancelLoad,
     AnswerLoad, Abort
<1>8. QED
  BY <1>2, <1>3, <1>4, <1>5, <1>6, <1>7 DEF Step

(* A step of one request that calls no tool.                                 *)
LEMMA GateKept ==
  ASSUME IInv, Gate, NEW r \in Requests, NEW q, Becomes(r, q),
         UNCHANGED profile, tool' = "none" <=> tool = "none",
         Approved => Approved', carried = TRUE => carried' = TRUE,
         q.op = "run" /\ q.approved = TRUE => Approved' \/ carried' = TRUE,
         q.op = "run" /\ q.at = "tool" => tool # "none"
  PROVE  Gate'
<1>1. req'[r] = q /\ \A s \in Requests : s # r => req'[s] = req[s]
  BY DEF Becomes, IInv, TypeOK
<1>2. ASSUME NEW s \in Requests PROVE Entitled(req[s])'
  <2>1. CASE s = r
    BY <1>1, <2>1 DEF Entitled
  <2>2. CASE s # r
    BY <1>1, <2>2 DEF Entitled, Gate
  <2>3. QED
    BY <2>1, <2>2
<1>3. QED
  BY <1>2 DEF Gate

LEMMA AskGate ==
  ASSUME IInv, Gate, NEW r \in Requests, Ask(r)
  PROVE  Gate'
<1>1. ASSUME Approved PROVE Approved'
  <2>1. PICK c \in DOMAIN conts : Approval(c)
    BY <1>1 DEF Approved
  <2>2. conts'[c] = conts[c] /\ c \in DOMAIN conts'
    BY AskIs
  <2>3. QED
    BY <2>1, <2>2 DEF Approved, Approval
<1>2. Becomes(r, Idle) /\ UNCHANGED <<profile, tool, carried>> /\ Idle.op = "idle"
  BY Rows DEF Ask
<1>3. QED
  BY <1>1, <1>2, GateKept

LEMMA CallToolGate ==
  ASSUME IInv, Gate, NEW r \in Requests, CallTool(r)
  PROVE  Gate'
<1>1. /\ req[r] \in Handlers /\ req[r].op = "run" /\ Entitled(req[r])
      /\ profile \in Profiles
  BY Counted DEF IInv, TypeOK, Profiles, Gate, CallTool, At
<1>2. profile.gated = TRUE => req[r].approved = TRUE
  BY <1>1 DEF CallTool, Question, Profiles, Handlers
<1>3. /\ conts' = conts /\ profile' = profile /\ tool' = "running" /\ carried' = carried
      /\ Becomes(r, [req[r] EXCEPT !.at = "tool"])
  BY DEF CallTool
<1>4. PICK m : m = [req[r] EXCEPT !.at = "tool"]
  OBVIOUS
<1>5. m.op = "run" /\ m.approved = req[r].approved
  BY <1>1, <1>4, Moved DEF Places
<1>6. req'[r] = m /\ \A s \in Requests : s # r => req'[s] = req[s]
  BY <1>3, <1>4 DEF Becomes, IInv, TypeOK
<1>7. Approved' = Approved
  BY <1>3 DEF Approved, Approval
<1>8. ASSUME NEW s \in Requests PROVE Entitled(req[s])'
  <2>1. CASE s = r
    BY <1>1, <1>3, <1>5, <1>6, <1>7, <2>1 DEF Entitled
  <2>2. CASE s # r
    BY <1>3, <1>6, <1>7, <2>2 DEF Entitled, Gate
  <2>3. QED
    BY <2>1, <2>2
<1>9. profile.gated = TRUE => Approved' \/ carried' = TRUE
  BY <1>1, <1>2, <1>3, <1>7 DEF Entitled
<1>10. QED
  BY <1>3, <1>8, <1>9 DEF Gate

LEMMA ClaimGate ==
  ASSUME IInv, Gate, NEW r \in Requests, Claim(r)
  PROVE  Gate'
<1>1. Settles(conts')
  BY ClaimedIsOpen DEF Claim
<1>2. PICK g \in BOOLEAN, c \in BOOLEAN, a \in BOOLEAN :
        /\ Becomes(r, Run(g, c, a))
        /\ a = TRUE => carried' = TRUE \/ conts[req[r].cont].kind = "approval"
  BY ClaimRuns
<1>3. ASSUME a = TRUE, carried' # TRUE PROVE Approved'
  <2> DEFINE d == req[r].cont
  <2>1. IsPending(d) /\ req[r].op = "answer" /\ req[r].at = "none"
    BY DEF Claim, Claimed, IInv, Requested, Held
  <2>2. MayAnswer(req[r].by, "approval")
    BY <1>2, <1>3, <2>1 DEF IInv, Requested, Held, Responses
  <2>3. conts' = Consumed(r, FALSE)
    BY DEF Claim
  <2>4. d \in DOMAIN conts /\ d \in DOMAIN conts' /\ conts'[d].kind = "approval"
    BY <1>1, <1>2, <1>3, <2>1 DEF Settles, IsPending
  <2>5. \A x \in BOOLEAN : /\ Consumed(r, x)[d].status = "consumed"
                           /\ Consumed(r, x)[d].by = req[r].by
                           /\ Consumed(r, x)[d].denied = x
    BY <2>1, ConsumedSettles DEF IInv
  <2>6. conts'[d].status = "consumed" /\ conts'[d].by = req[r].by /\ conts'[d].denied = FALSE
    BY <2>3, <2>5
  <2>7. req[r].by \in Approvers \ {Owner}
    BY <2>2 DEF MayAnswer
  <2> HIDE DEF d
  <2>8. PICK e : e = d
    OBVIOUS
  <2>9. Approval(e)'
    BY <2>4, <2>6, <2>7, <2>8 DEF Approval
  <2>10. QED
    BY <2>4, <2>8, <2>9 DEF Approved
<1>4. PICK q : q = Run(g, c, a)
  OBVIOUS
<1>5. q.op = "run" /\ q.at = "plan" /\ q.approved = a
  BY <1>4, Rows
<1>6. Becomes(r, q) /\ UNCHANGED <<profile, tool>> /\ (carried = TRUE => carried' = TRUE)
  BY <1>2, <1>4 DEF Claim
<1>7. QED
  BY <1>1, <1>3, <1>5, <1>6, SettlesKeepsApproval, GateKept

LEMMA MovesGate ==
  ASSUME IInv, Gate, NEW r \in Requests, Step(r) \/ Outside(r),
         ~Ask(r), ~CallTool(r), ~Claim(r)
  PROVE  Gate'
<1>1. Approved => Approved'
  BY StepSettles, SettlesKeepsApproval
<1>2. req[r] \in Handlers /\ Entitled(req[r])
  BY Counted DEF IInv, Gate
<1>3. tool' = "none" <=> tool = "none"
  BY <1>2 DEF Step, Outside, CallModel, TimesOut, Check, Write, CancelCommit, ExpireCommit,
     Deny, AlreadyUsed, Conflict, Raise, ToolReturns, ModelReturns, TaskCancelled, CancelLoad,
     AnswerLoad, Abort, Interrupted, Finished, Entitled, At
<1>4. UNCHANGED <<profile, carried>>
  BY DEF Step, Outside, CallModel, TimesOut, Check, Write, CancelCommit, ExpireCommit,
     Deny, AlreadyUsed, Conflict, Raise, ToolReturns, ModelReturns, TaskCancelled, CancelLoad,
     AnswerLoad, Abort
<1>5. PICK q : /\ Becomes(r, q)
               /\ \/ q.op # "run"
                  \/ q.at # "tool" /\ q.approved = FALSE
                  \/ q.at # "tool" /\ q.approved = req[r].approved /\ q.op = req[r].op
  <2>1. /\ Idle.op # "run" /\ \A op, t : Ending(op, t).at # "tool" /\ Ending(op, t).approved = FALSE
        /\ \A c : Stopping(c).at # "tool" /\ Stopping(c).approved = FALSE
        /\ \A op, c, u : Holding(op, c, u).op = op
    BY DEF Idle, Ending, Stopping, Holding
  <2>2. \A p \in {"model", "write"} :
          /\ [req[r] EXCEPT !.at = p].at # "tool"
          /\ [req[r] EXCEPT !.at = p].approved = req[r].approved
          /\ [req[r] EXCEPT !.at = p].op = req[r].op
    BY <1>2, Moved DEF Places
  <2>3. CASE CallModel(r) \/ Check(r)
    BY <2>1, <2>2, <2>3 DEF CallModel, Check
  <2>4. CASE \/ Write(r) \/ CancelCommit(r) \/ ExpireCommit(r) \/ AlreadyUsed(r)
             \/ Conflict(r) \/ Abort(r)
    BY <2>1, <2>4 DEF Write, CancelCommit, ExpireCommit, AlreadyUsed, Conflict, Abort
  <2>5. CASE \/ TimesOut(r) \/ Deny(r) \/ Raise(r) \/ ToolReturns(r) \/ ModelReturns(r)
    <3>1. PICK op, t : Becomes(r, Ending(op, t))
      BY <2>5 DEF TimesOut, Deny, Raise, ToolReturns, ModelReturns
    <3>2. QED
      BY <2>1, <3>1
  <2>6. CASE TaskCancelled(r)
    <3>1. PICK c : Becomes(r, Idle) \/ Becomes(r, Stopping(c))
      BY <2>6 DEF TaskCancelled
    <3>2. QED
      BY <2>1, <3>1
  <2>7. CASE CancelLoad(r)
    BY <2>7 DEF CancelLoad, Holding
  <2>8. CASE AnswerLoad(r)
    BY <2>8 DEF AnswerLoad, Holding
  <2>9. QED
    BY <2>3, <2>4, <2>5, <2>6, <2>7, <2>8 DEF Step, Outside
<1>6. q.op = "run" /\ q.approved = TRUE => Approved' \/ carried' = TRUE
  BY <1>1, <1>2, <1>4, <1>5 DEF Entitled
<1>7. QED
  BY <1>1, <1>3, <1>4, <1>5, <1>6, GateKept

LEMMA GateInv == IInv /\ Gate /\ [Next]_vars => Gate'
<1> SUFFICES ASSUME IInv, Gate, [Next]_vars PROVE Gate'
  OBVIOUS
<1>1. ASSUME NEW r \in Requests, Step(r) \/ Outside(r) PROVE Gate'
  BY <1>1, AskGate, CallToolGate, ClaimGate, MovesGate
<1>2. ASSUME NEW t \in {"failed", "cancelled", "timed_out"}, Reconcile(t) PROVE Gate'
  <2>1. PICK c : c = Pending
    OBVIOUS
  <2>2. c \in 0 .. Len(conts)
    BY <2>1, PendingIs, Counted DEF IInv
  <2>3. Settles(conts')
    BY <1>2, <2>1, <2>2, MarkedSettles DEF Reconcile, IInv
  <2>4. Approved => Approved'
    BY <2>3, SettlesKeepsApproval
  <2>5. profile'.gated = profile.gated /\ (tool' = "none" <=> tool = "none") /\ req' = req
        /\ carried' = carried
    BY <1>2 DEF Reconcile
  <2>6. QED
    BY <2>4, <2>5 DEF Gate, Entitled
<1>3. CASE Lapse \/ UNCHANGED vars
  BY <1>3 DEF Lapse, vars, Gate, Entitled, Approved, Approval
<1>4. QED
  BY <1>1, <1>2, <1>3 DEF Next

LEMMA InitGate == Init => Gate
<1> SUFFICES ASSUME Init PROVE Gate
  OBVIOUS
<1>1. PICK r \in Requests, given \in BOOLEAN, clarified \in BOOLEAN :
        req = [x \in Requests |-> IF x = r THEN Run(given, clarified, carried) ELSE Idle]
  BY DEF Init
<1>2. PICK q : q = Run(given, clarified, carried)
  OBVIOUS
<1>3. q.approved = carried /\ q.at = "plan"
  BY <1>2 DEF Run
<1>4. \A x \in Requests : req[x] = IF x = r THEN q ELSE Idle
  BY <1>1, <1>2
<1>5. tool = "none"
  BY DEF Init
<1>6. QED
  BY <1>3, <1>4, <1>5, Rows DEF Gate, Entitled

(* A tool behind the gate is called only after an approval by somebody other *)
(* than the requester, unless the caller's values held the approval's key.   *)
THEOREM GateHolds == Spec => []ToolApproved
<1>1. IInv /\ Gate => ToolApproved
  <2> SUFFICES ASSUME IInv, Gate, profile.gated, tool # "none", ~carried
               PROVE  \E c \in DOMAIN conts :
                        /\ conts[c].kind = "approval" /\ ~conts[c].denied
                        /\ conts[c].by \in Approvers \ {Owner}
    BY DEF ToolApproved
  <2>1. profile.gated = TRUE /\ carried # TRUE
    BY DEF IInv, TypeOK
  <2>2. Approved
    BY <2>1 DEF Gate
  <2>3. QED
    BY <2>2 DEF Approved, Approval
<1>2. QED
  BY <1>1, Invariance, InitGate, GateInv, PTL DEF Spec
-----------------------------------------------------------------------------
(* A step that leaves the status and the questions alone.                    *)
LEMMA ActsKept ==
  ASSUME IInv, SomebodyActs, NEW r \in Requests, NEW q, Becomes(r, q),
         UNCHANGED <<status, conts>>, lost => lost',
         \/ lost'
         \/ status \in Ended
         \/ /\ req[r].op = "run" => q.op = "run"
            /\ req[r].op = "deny" /\ req[r].at # "none" => q.op = "deny" /\ q.at # "none"
  PROVE  SomebodyActs'
<1>1. req'[r] = q /\ \A s \in Requests : s # r => req'[s] = req[s]
  BY DEF Becomes, IInv, TypeOK
<1>2. CASE lost' \/ status \in Ended
  BY <1>2 DEF SomebodyActs
<1>3. CASE \E c \in Open : conts[c].kind = status
  BY <1>3 DEF SomebodyActs, Open
<1>4. CASE /\ status = "running" /\ Running # {}
           /\ req[r].op = "run" => q.op = "run"
  <2>1. PICK s \in Requests : req[s].op = "run"
    BY <1>4 DEF Running
  <2>2. s \in Running'
    BY <1>1, <1>4, <2>1 DEF Running
  <2>3. QED
    BY <1>4, <2>2 DEF SomebodyActs
<1>5. CASE /\ \E s \in Requests : req[s].op = "deny" /\ req[s].at # "none"
           /\ req[r].op = "deny" /\ req[r].at # "none" => q.op = "deny" /\ q.at # "none"
  BY <1>1, <1>5 DEF SomebodyActs
<1>6. QED
  BY <1>2, <1>3, <1>4, <1>5 DEF SomebodyActs

LEMMA StepActs ==
  ASSUME IInv, SomebodyActs, NEW r \in Requests, Step(r) \/ Outside(r)
  PROVE  SomebodyActs'
<1>1. req[r] \in Handlers /\ Held(req[r])
  BY Counted DEF IInv, Requested
<1>2. CASE Ask(r)
  <2>1. PICK c : c = Len(conts) + 1
    OBVIOUS
  <2>2. c \in DOMAIN conts' /\ conts'[c].status = "pending" /\ conts'[c].kind = status'
    BY <1>2, <2>1, AskIs
  <2>3. QED
    BY <2>2 DEF SomebodyActs, Open
<1>3. CASE Write(r) \/ CancelCommit(r) \/ ExpireCommit(r)
  <2>1. status' \in Ended
    BY <1>1, <1>3, Failing DEF Write, CancelCommit, ExpireCommit, Held
  <2>2. QED
    BY <2>1 DEF SomebodyActs
<1>4. CASE Claim(r)
  <2>1. PICK g \in BOOLEAN, c \in BOOLEAN, a \in BOOLEAN : Becomes(r, Run(g, c, a))
    BY <1>4, ClaimRuns
  <2>2. req'[r] = Run(g, c, a) /\ status' = "running"
    BY <1>4, <2>1 DEF Claim, Becomes, IInv, TypeOK
  <2>3. req'[r].op = "run"
    BY <2>1, <2>2 DEF Run
  <2>4. QED
    BY <2>2, <2>3 DEF SomebodyActs, Running
<1>5. CASE Deny(r)
  <2>1. req'[r] = Ending("deny", "failed")
    BY <1>5 DEF Deny, Becomes, IInv, TypeOK
  <2>2. req'[r].op = "deny" /\ req'[r].at # "none"
    BY <2>1 DEF Ending
  <2>3. QED
    BY <2>2 DEF SomebodyActs
<1>6. CASE CallTool(r) \/ CallModel(r) \/ Check(r)
  <2>1. \A p \in {"tool", "model", "write"} :
          /\ [req[r] EXCEPT !.at = p].op = req[r].op
          /\ [req[r] EXCEPT !.at = p].at # "none"
    BY <1>1, Moved DEF Places
  <2>2. PICK p \in {"tool", "model", "write"} :
          /\ \/ Becomes(r, Idle) /\ status \in Ended
             \/ Becomes(r, [req[r] EXCEPT !.at = p])
          /\ UNCHANGED <<status, conts, lost>>
    BY <1>6 DEF CallTool, CallModel, Check
  <2>3. CASE Becomes(r, Idle) /\ status \in Ended
    BY <2>2, <2>3, ActsKept
  <2>4. CASE Becomes(r, [req[r] EXCEPT !.at = p])
    BY <2>1, <2>2, <2>4, ActsKept
  <2>5. QED
    BY <2>2, <2>3, <2>4
<1>7. CASE TimesOut(r) \/ Raise(r) \/ ToolReturns(r) \/ ModelReturns(r)
  <2>1. PICK t : Becomes(r, Ending("run", t))
    BY <1>7 DEF TimesOut, Raise, ToolReturns, ModelReturns
  <2>2. req[r].op = "run" /\ Ending("run", t).op = "run" /\ UNCHANGED <<status, conts, lost>>
    BY <1>7 DEF TimesOut, Raise, ToolReturns, ModelReturns, At, Ending
  <2>3. QED
    BY <2>1, <2>2, ActsKept
<1>8. CASE TaskCancelled(r)
  <2>1. PICK c : \/ Becomes(r, Idle) /\ status \in Ended
                 \/ Becomes(r, Stopping(c))
    BY <1>8 DEF TaskCancelled
  <2>2. req[r].op = "run" /\ Stopping(c).op = "run" /\ UNCHANGED <<status, conts, lost>>
    BY <1>8 DEF TaskCancelled, At, Stopping
  <2>3. CASE Becomes(r, Idle) /\ status \in Ended
    BY <2>2, <2>3, ActsKept
  <2>4. CASE Becomes(r, Stopping(c))
    BY <2>2, <2>4, ActsKept
  <2>5. QED
    BY <2>1, <2>3, <2>4
<1>9. CASE CancelLoad(r) \/ AnswerLoad(r)
  <2>1. req[r].op = "idle" /\ UNCHANGED <<status, conts, lost>>
    BY <1>9, Rows DEF CancelLoad, AnswerLoad
  <2>2. PICK op, c, u : Becomes(r, Holding(op, c, u))
    BY <1>9 DEF CancelLoad, AnswerLoad
  <2>3. PICK q : Becomes(r, q)
    BY <2>2
  <2>4. QED
    BY <2>1, <2>3, ActsKept
<1>10. CASE AlreadyUsed(r) \/ Conflict(r)
  <2>1. req[r].op # "run" /\ req[r].at = "none" /\ Becomes(r, Idle)
        /\ UNCHANGED <<status, conts, lost>>
    <3>1. CASE AlreadyUsed(r)
      BY <3>1 DEF AlreadyUsed
    <3>2. CASE Conflict(r)
      <4>1. req[r].cont # 0
        BY <3>2 DEF Conflict, Fits
      <4>2. req[r].op # "run" /\ req[r].at = "none"
        BY <1>1, <4>1 DEF Held
      <4>3. QED
        BY <3>2, <4>2 DEF Conflict
    <3>3. QED
      BY <1>10, <3>1, <3>2
  <2>2. QED
    BY <2>1, ActsKept
<1>11. CASE Abort(r)
  <2>1. Becomes(r, Idle) /\ UNCHANGED <<status, conts>>
    BY <1>11 DEF Abort
  <2>2. CASE req[r].op \in {"run", "deny"}
    <3>1. lost'
      BY <1>11, <2>2 DEF Abort
    <3>2. QED
      BY <3>1 DEF SomebodyActs
  <2>3. CASE req[r].op \notin {"run", "deny"}
    <3>1. lost' = lost
      BY <1>11, <2>3 DEF Abort, IInv, TypeOK
    <3>2. QED
      BY <2>1, <2>3, <3>1, ActsKept
  <2>4. QED
    BY <2>2, <2>3
<1>12. QED
  BY <1>2, <1>3, <1>4, <1>5, <1>6, <1>7, <1>8, <1>9, <1>10, <1>11 DEF Step, Outside

LEMMA ActsInv == IInv /\ SomebodyActs /\ [Next]_vars => SomebodyActs'
<1> SUFFICES ASSUME IInv, SomebodyActs, [Next]_vars PROVE SomebodyActs'
  OBVIOUS
<1>1. ASSUME NEW r \in Requests, Step(r) \/ Outside(r) PROVE SomebodyActs'
  BY <1>1, StepActs
<1>2. ASSUME NEW t \in {"failed", "cancelled", "timed_out"}, Reconcile(t) PROVE SomebodyActs'
  <2>1. status' \in Ended
    BY <1>2 DEF Reconcile, Ended
  <2>2. QED
    BY <2>1 DEF SomebodyActs
<1>3. CASE Lapse \/ UNCHANGED vars
  <2>1. UNCHANGED <<status, conts, req>> /\ lost' = lost
    BY <1>3 DEF Lapse, vars
  <2>2. Running' = Running /\ Open' = Open
    BY <2>1 DEF Running, Open
  <2>3. QED
    BY <2>1, <2>2 DEF SomebodyActs
<1>4. QED
  BY <1>1, <1>2, <1>3 DEF Next

LEMMA InitActs == Init => SomebodyActs
<1> SUFFICES ASSUME Init PROVE SomebodyActs
  OBVIOUS
<1>1. PICK r \in Requests, given \in BOOLEAN, clarified \in BOOLEAN :
        req = [x \in Requests |-> IF x = r THEN Run(given, clarified, carried) ELSE Idle]
  BY DEF Init
<1>2. req[r].op = "run"
  BY <1>1 DEF Run
<1>3. status = "running"
  BY DEF Init
<1>4. QED
  BY <1>2, <1>3 DEF SomebodyActs, Running

(* Unless a process died, an execution that has not ended is being run or    *)
(* denied, or waits with a question of the kind that its status names.       *)
THEOREM ActorExists == Spec => []SomebodyActs
<1>1. QED
  BY Invariance, InitActs, ActsInv, PTL DEF Spec
-----------------------------------------------------------------------------
(* What the tool's row says of the result that a run is about to write.      *)
HasResult == tool = IF chosen THEN "succeeded" ELSE "none"

Owed(q) ==
  /\ q.op = "run" /\ q.at = "tool" => chosen /\ tool # "none"
  /\ q.op = "run" /\ q.at = "model" => ~chosen
  /\ q.op = "run" /\ q.at \in {"check", "write"} /\ q.target = "succeeded" => HasResult
  /\ q.op = "deny" /\ q.at \in {"check", "write"} => q.target = "failed"

Results ==
  /\ tool # "none" => chosen
  /\ \A r \in Requests : Owed(req[r])
  /\ status = "succeeded" => HasResult /\ Running = {} /\ Open = {}

(* A step of one request, whose run is the only one if it touches the tool.  *)
LEMMA ResultKept ==
  ASSUME IInv, Results, NEW r \in Requests, NEW q, Becomes(r, q), Owed(q)',
         tool' # "none" => chosen',
         (chosen' = chosen /\ tool' = tool) \/ Running \subseteq {r},
         status' = "succeeded" => HasResult' /\ Running' = {} /\ Open' = {}
  PROVE  Results'
<1>1. req'[r] = q /\ \A s \in Requests : s # r => req'[s] = req[s]
  BY DEF Becomes, IInv, TypeOK
<1>2. ASSUME NEW s \in Requests PROVE Owed(req[s])'
  <2>1. CASE s = r
    BY <1>1, <2>1 DEF Owed, HasResult
  <2>2. CASE s # r /\ chosen' = chosen /\ tool' = tool
    BY <1>1, <2>2 DEF Owed, HasResult, Results
  <2>3. CASE s # r /\ Running \subseteq {r}
    <3>1. req[s].op # "run"
      BY <2>3 DEF Running
    <3>2. QED
      BY <1>1, <2>3, <3>1 DEF Owed, Results
  <2>4. QED
    BY <2>1, <2>2, <2>3
<1>3. QED
  BY <1>2 DEF Results

(* A run of an execution has not ended it, so its status is no success.      *)
LEMMA RunNotDone ==
  ASSUME IInv, Results, NEW r \in Requests, req[r].op = "run"
  PROVE  status # "succeeded" /\ Running = {r} /\ Open = {}
BY DEF Results, Running, IInv, OneRun

LEMMA SuccessKept ==
  ASSUME Results, status = "succeeded", UNCHANGED <<chosen, tool>>,
         Running' \subseteq Running, Open' \subseteq Open
  PROVE  HasResult' /\ Running' = {} /\ Open' = {}
BY DEF Results, HasResult

LEMMA OpenShrinks ==
  ASSUME Settles(conts')
  PROVE  Open' \subseteq Open
BY DEF Settles, Open

LEMMA RunningShrinks ==
  ASSUME IInv, NEW r \in Requests, NEW q, Becomes(r, q), q.op = "run" => req[r].op = "run"
  PROVE  Running' \subseteq Running
<1>1. req'[r] = q /\ \A s \in Requests : s # r => req'[s] = req[s]
  BY DEF Becomes, IInv, TypeOK
<1>2. QED
  BY <1>1 DEF Running

(* A step that neither touches the result nor ends with a success.           *)
LEMMA ResultSame ==
  ASSUME IInv, Results, NEW r \in Requests, NEW q, Becomes(r, q), Owed(q)',
         q.op = "run" => req[r].op = "run", UNCHANGED <<chosen, tool>>,
         status' = "succeeded" => status = "succeeded", Settles(conts')
  PROVE  Results'
<1>1. tool' # "none" => chosen'
  BY DEF Results
<1>2. Running' \subseteq Running /\ Open' \subseteq Open
  BY RunningShrinks, OpenShrinks
<1>3. status' = "succeeded" => HasResult' /\ Running' = {} /\ Open' = {}
  BY <1>2, SuccessKept
<1>4. QED
  BY <1>1, <1>3, ResultKept

LEMMA IdleOwed == Owed(Idle)'
BY Rows DEF Owed

LEMMA StepResult ==
  ASSUME IInv, IInv', Results, NEW r \in Requests, Step(r) \/ Outside(r)
  PROVE  Results'
<1>1. req[r] \in Handlers /\ Held(req[r]) /\ Owed(req[r])
  BY Counted DEF IInv, Requested, Results
<1>2. CASE Ask(r)
  <2>1. Becomes(r, Idle) /\ UNCHANGED <<chosen, tool>> /\ status' # "succeeded"
    BY <1>2, AskIs DEF Ask, Kinds
  <2>2. tool' # "none" => chosen'
    BY <2>1 DEF Results
  <2>3. QED
    BY <2>1, <2>2, IdleOwed, ResultKept
<1>3. CASE CallTool(r)
  <2>1. PICK m : m = [req[r] EXCEPT !.at = "tool"]
    OBVIOUS
  <2>2. m.op = "run" /\ m.at = "tool" /\ req[r].op = "run"
    BY <1>1, <1>3, <2>1, Moved DEF Places, CallTool, At
  <2>3. /\ Becomes(r, m) /\ chosen' = chosen /\ tool' = "running" /\ status' = status
        /\ chosen
    BY <1>3, <2>1 DEF CallTool
  <2>4. Owed(m)' /\ Running \subseteq {r} /\ status' # "succeeded"
    BY <2>2, <2>3, RunNotDone DEF Owed
  <2>5. QED
    BY <2>3, <2>4, ResultKept
<1>4. CASE CallModel(r)
  <2>1. PICK m : m = [req[r] EXCEPT !.at = "model"]
    OBVIOUS
  <2>2. m.op = "run" /\ m.at = "model" /\ req[r].op = "run"
    BY <1>1, <1>4, <2>1, Moved DEF Places, CallModel, At
  <2>3. Becomes(r, m) /\ UNCHANGED <<chosen, tool, status, conts>> /\ ~chosen
    BY <1>4, <2>1 DEF CallModel
  <2>4. Owed(m)' /\ Settles(conts')
    BY <2>2, <2>3, SameSettles DEF Owed, IInv
  <2>5. QED
    BY <2>2, <2>3, <2>4, ResultSame
<1>5. CASE ToolReturns(r)
  <2>1. req[r].op = "run" /\ req[r].at = "tool" /\ chosen' = chosen /\ status' = status /\ chosen
    BY <1>1, <1>5 DEF ToolReturns, At, Owed
  <2>2. PICK outcome \in {"succeeded", "failed", "timed_out"} :
          tool' = Finished(outcome) /\ Becomes(r, Ending("run", Reported(outcome)))
    BY <1>5 DEF ToolReturns
  <2>3. PICK t : t = Reported(outcome)
    OBVIOUS
  <2>4. PICK q : q = Ending("run", t)
    OBVIOUS
  <2>5. q.op = "run" /\ q.at = "check" /\ q.target = t
    BY <2>4 DEF Ending
  <2>6. t = "succeeded" => tool' = "succeeded"
    BY <2>2, <2>3 DEF Reported
  <2>7. Owed(q)' /\ tool' # "none"
    BY <2>1, <2>2, <2>5, <2>6 DEF Owed, HasResult, Finished
  <2>8. Becomes(r, q) /\ Running \subseteq {r} /\ status' # "succeeded"
    BY <2>1, <2>2, <2>3, <2>4, RunNotDone
  <2>9. QED
    BY <2>1, <2>7, <2>8, ResultKept
<1>6. CASE ModelReturns(r)
  <2>1. /\ req[r].op = "run" /\ ~chosen /\ UNCHANGED <<chosen, tool, status, conts>>
        /\ tool = "none"
    BY <1>1, <1>6 DEF ModelReturns, At, Owed, Results
  <2>2. PICK t : Becomes(r, Ending("run", t))
    BY <1>6 DEF ModelReturns
  <2>3. PICK q : q = Ending("run", t)
    OBVIOUS
  <2>4. q.op = "run" /\ q.at = "check"
    BY <2>3 DEF Ending
  <2>5. Owed(q)' /\ Settles(conts')
    BY <2>1, <2>4, SameSettles DEF Owed, HasResult, IInv
  <2>6. QED
    BY <2>1, <2>2, <2>3, <2>5, ResultSame
<1>7. CASE TimesOut(r) \/ Raise(r)
  <2>1. PICK t \in {"timed_out", "failed"} : Becomes(r, Ending("run", t))
    BY <1>7 DEF TimesOut, Raise
  <2>2. PICK q : q = Ending("run", t)
    OBVIOUS
  <2>3. q.op = "run" /\ q.at = "check" /\ q.target # "succeeded"
    BY <2>1, <2>2 DEF Ending
  <2>4. req[r].op = "run" /\ chosen' = chosen /\ status' = status /\ tool' \in {tool, Interrupted}
    BY <1>7 DEF TimesOut, Raise, At
  <2>5. tool' # "none" => chosen'
    BY <2>4 DEF Interrupted, Results
  <2>6. Owed(q)' /\ Running \subseteq {r} /\ status' # "succeeded"
    BY <2>3, <2>4, RunNotDone DEF Owed
  <2>7. QED
    BY <2>1, <2>2, <2>5, <2>6, ResultKept
<1>8. CASE TaskCancelled(r)
  <2>1. PICK c : Becomes(r, Idle) \/ Becomes(r, Stopping(c))
    BY <1>8 DEF TaskCancelled
  <2>2. \A x : Stopping(x).op = "run" /\ Stopping(x).at = "stop"
    BY DEF Stopping
  <2>3. PICK q : Becomes(r, q) /\ Owed(q)'
    BY <2>1, <2>2, IdleOwed DEF Owed
  <2>4. req[r].op = "run" /\ chosen' = chosen /\ status' = status /\ tool' = Interrupted
    BY <1>8 DEF TaskCancelled, At
  <2>5. tool' # "none" => chosen'
    BY <2>4 DEF Interrupted, Results
  <2>6. Running \subseteq {r} /\ status' # "succeeded"
    BY <2>4, RunNotDone
  <2>7. QED
    BY <2>3, <2>5, <2>6, ResultKept
<1>9. CASE Check(r)
  <2>1. UNCHANGED <<chosen, tool, status, conts>> /\ Settles(conts') /\ req[r].at = "check"
    BY <1>9, SameSettles DEF Check, IInv
  <2>2. CASE Becomes(r, Idle)
    BY <2>1, <2>2, IdleOwed, Rows, ResultSame
  <2>3. CASE Becomes(r, [req[r] EXCEPT !.at = "write"])
    <3>1. PICK m : m = [req[r] EXCEPT !.at = "write"]
      OBVIOUS
    <3>2. m.op = req[r].op /\ m.at = "write" /\ m.target = req[r].target
      BY <1>1, <3>1, Moved DEF Places
    <3>3. Owed(m)'
      BY <1>1, <2>1, <3>2 DEF Owed, HasResult
    <3>4. QED
      BY <2>1, <2>3, <3>1, <3>2, <3>3, ResultSame
  <2>4. QED
    BY <1>9, <2>2, <2>3 DEF Check
<1>10. CASE Write(r)
  <2>1. /\ UNCHANGED <<chosen, tool, conts>> /\ status' = req[r].target
        /\ req[r].at = "write" /\ Becomes(r, Idle) /\ req[r].op \in {"run", "deny"}
    BY <1>1, <1>10 DEF Write, Held, Handlers, Ops
  <2>2. Running' \subseteq Running /\ Open' = Open /\ r \notin Running'
    <3>1. req'[r].op # "run"
      <4>1. req'[r] = Idle
        BY <2>1 DEF Becomes, IInv, TypeOK
      <4>2. QED
        BY <4>1 DEF Idle
    <3>2. QED
      BY <2>1, <3>1, Rows, RunningShrinks DEF Running, Open
  <2>3. ASSUME status' = "succeeded" PROVE HasResult' /\ Running' = {} /\ Open' = {}
    <3>1. req[r].op = "run" /\ HasResult
      BY <1>1, <2>1, <2>3 DEF Owed
    <3>2. Running = {r} /\ Open = {}
      BY <3>1, RunNotDone
    <3>3. QED
      BY <2>1, <2>2, <3>1, <3>2 DEF HasResult
  <2>4. tool' # "none" => chosen'
    BY <2>1 DEF Results
  <2>5. QED
    BY <2>1, <2>3, <2>4, IdleOwed, ResultKept
<1>11. CASE \/ CancelCommit(r) \/ ExpireCommit(r) \/ AlreadyUsed(r) \/ Conflict(r)
            \/ Abort(r)
  <2>1. /\ UNCHANGED <<chosen, tool>> /\ Becomes(r, Idle)
        /\ status' = "succeeded" => status = "succeeded"
    BY <1>11 DEF CancelCommit, ExpireCommit, AlreadyUsed, Conflict, Abort
  <2>2. Settles(conts')
    BY <1>11, HeldSettles, SameSettles DEF CancelCommit, ExpireCommit, AlreadyUsed, Conflict,
       Abort, IInv
  <2>3. QED
    BY <2>1, <2>2, IdleOwed, Rows, ResultSame
<1>12. CASE CancelLoad(r) \/ AnswerLoad(r)
  <2>1. UNCHANGED <<chosen, tool, status, conts>> /\ Settles(conts')
    BY <1>12, SameSettles DEF CancelLoad, AnswerLoad, IInv
  <2>2. PICK op, c, u : op # "run" /\ Becomes(r, Holding(op, c, u))
    <3>1. CASE CancelLoad(r)
      BY <3>1 DEF CancelLoad
    <3>2. CASE AnswerLoad(r)
      BY <3>2 DEF AnswerLoad
    <3>3. QED
      BY <1>12, <3>1, <3>2
  <2>3. PICK q : q = Holding(op, c, u)
    OBVIOUS
  <2>4. q.op # "run" /\ q.at = "none"
    BY <2>2, <2>3 DEF Holding
  <2>5. Owed(q)'
    BY <2>4 DEF Owed
  <2>6. QED
    BY <2>1, <2>2, <2>3, <2>4, <2>5, ResultSame
<1>13. CASE Claim(r)
  <2>1. Open # {} /\ Settles(conts') /\ UNCHANGED tool /\ status' = "running"
    BY <1>13, ClaimedIsOpen DEF Claim
  <2>2. Running = {}
    BY <2>1 DEF IInv, OneRun
  <2>3. chosen => chosen'
    BY <1>13 DEF Claim
  <2>4. tool' # "none" => chosen'
    BY <2>1, <2>3 DEF Results
  <2>5. PICK g \in BOOLEAN, c \in BOOLEAN, a \in BOOLEAN : Becomes(r, Run(g, c, a))
    BY <1>13, ClaimRuns
  <2>6. PICK q : Becomes(r, q) /\ q.op = "run" /\ q.at = "plan"
    BY <2>5 DEF Run
  <2>7. Owed(q)'
    BY <2>6 DEF Owed
  <2>8. QED
    BY <2>1, <2>2, <2>4, <2>6, <2>7, ResultKept
<1>14. CASE Deny(r)
  <2>1. UNCHANGED <<chosen, tool, status>> /\ Settles(conts')
    BY <1>14, ClaimedIsOpen DEF Deny
  <2>2. PICK q : q = Ending("deny", "failed")
    OBVIOUS
  <2>3. Becomes(r, q) /\ q.op = "deny" /\ q.target = "failed"
    BY <1>14, <2>2 DEF Deny, Ending
  <2>4. Owed(q)'
    BY <2>3 DEF Owed
  <2>5. QED
    BY <2>1, <2>3, <2>4, ResultSame
<1>15. QED
  BY <1>2, <1>3, <1>4, <1>5, <1>6, <1>7, <1>8, <1>9, <1>10, <1>11, <1>12, <1>13, <1>14
  DEF Step, Outside

LEMMA ResultInv == IInv /\ Results /\ [Next]_vars => Results'
<1> SUFFICES ASSUME IInv, Results, [Next]_vars PROVE Results'
  OBVIOUS
<1>1. ASSUME NEW r \in Requests, Step(r) \/ Outside(r) PROVE Results'
  BY <1>1, StepResult, NextInv
<1>2. ASSUME NEW t \in {"failed", "cancelled", "timed_out"}, Reconcile(t) PROVE Results'
  <2>1. PICK c : c = Pending
    OBVIOUS
  <2>2. c \in 0 .. Len(conts)
    BY <2>1, PendingIs, Counted DEF IInv
  <2>3. Open' \subseteq Open /\ Running' = Running
    BY <1>2, <2>1, <2>2, MarkedSettles, OpenShrinks DEF Reconcile, IInv, Running
  <2>4. /\ chosen' = chosen /\ req' = req /\ tool' = IF tool = "running" THEN t ELSE tool
        /\ status' = "succeeded" => status = "succeeded"
    BY <1>2 DEF Reconcile, Ended
  <2>5. HasResult => HasResult'
    BY <2>4 DEF HasResult
  <2>6. tool # "none" => tool' # "none"
    BY <2>4
  <2>7. tool' # "none" => tool # "none"
    BY <2>4
  <2>8. \A r \in Requests : Owed(req[r])'
    BY <2>4, <2>5, <2>6 DEF Results, Owed
  <2>9. QED
    BY <2>3, <2>4, <2>5, <2>7, <2>8 DEF Results
<1>3. CASE Lapse \/ UNCHANGED vars
  BY <1>3 DEF Lapse, vars, Results, Owed, HasResult, Running, Open
<1>4. QED
  BY <1>1, <1>2, <1>3 DEF Next

LEMMA InitResult == Init => Results
<1> SUFFICES ASSUME Init PROVE Results
  OBVIOUS
<1>1. PICK r \in Requests, given \in BOOLEAN, clarified \in BOOLEAN :
        req = [x \in Requests |-> IF x = r THEN Run(given, clarified, carried) ELSE Idle]
  BY DEF Init
<1>2. PICK q : q = Run(given, clarified, carried)
  OBVIOUS
<1>3. q.op = "run" /\ q.at = "plan"
  BY <1>2 DEF Run
<1>4. \A x \in Requests : req[x] = IF x = r THEN q ELSE Idle
  BY <1>1, <1>2
<1>5. tool = "none" /\ status = "running"
  BY DEF Init
<1>6. QED
  BY <1>3, <1>4, <1>5, Rows DEF Results, Owed

(* An execution that succeeded has the result of its tool, or of the model   *)
(* when it selected none.                                                    *)
THEOREM ResultExists == Spec => []SucceededHasResult
<1>1. Results => SucceededHasResult
  BY DEF Results, HasResult, SucceededHasResult
<1>2. QED
  BY <1>1, Invariance, InitResult, ResultInv, PTL DEF Spec
===============================================================================
