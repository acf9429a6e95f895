--------------------------- MODULE BudgetEnforcement ---------------------------
(***************************************************************************)
(* The budget gate in front of a model call, for one tenant: reserve,      *)
(* settle and release, as the runtime, the agents and the chat call them,  *)
(* and the override that lets a request pass a hard limit.                 *)
(*                                                                         *)
(* A caller is one such call, on a thread or process of its own, in a      *)
(* READ COMMITTED transaction: each of its statements sees what the others *)
(* have committed by then.  The version bumps of reserve lock the budget   *)
(* rows until the transaction ends; settle and release lock the            *)
(* reservations they change but no budget.  Amounts are natural numbers of *)
(* the smallest unit.  Left out: the choice of a model version, price and  *)
(* currency, periods, and the alert rows, which nothing reads.             *)
(***************************************************************************)
EXTENDS Integers, FiniteSets, Functions

CONSTANTS
  Established,  \* the budgets that exist from the start
  Budgets,      \* the tenant's budgets, numbered in the order reserve lists them
  Models,       \* governed models
  Applies,      \* the budgets whose scope covers a call of a model
  Cost,         \* the estimate of a call of a model
  Cheaper,      \* the lower-cost model a policy allows instead, or NoModel
  NoModel,
  Limit,        \* the hard limit of each budget
  Keys,         \* idempotency keys: one per runtime execution or agent execution
  Callers,      \* calls in flight at once
  Carries,      \* the callers whose request names the override
  Nobody,       \* a lock nobody holds
  Actors,       \* the users who may ask for an override or approve one
  Granted,      \* requested_amount of the override
  Uses,         \* its uses_remaining when requested
  SingleUse,    \* its single_use
  Usages,       \* bound: what a call may turn out to cost
  MaxSegments   \* bound: calls made under each key

ASSUME BudgetAssumption == Budgets \subseteq Nat /\ IsFiniteSet(Budgets)
                           /\ Established \subseteq Budgets
                           /\ Limit \in [Budgets -> Nat \ {0}]
ASSUME ModelAssumption  == /\ Applies \in [Models -> SUBSET Budgets] /\ Cost \in [Models -> Nat]
                           /\ Cheaper \in [Models -> Models \cup {NoModel}]
                           /\ NoModel \notin Models
ASSUME CallerAssumption == Nobody \notin Callers \cup Keys /\ Carries \subseteq Callers
ASSUME KeyAssumption    == IsFiniteSet(Keys)  \* a key is a string of at most 160 characters
ASSUME GrantAssumption  == Granted \in Nat /\ Uses \in Nat \ {0} /\ SingleUse \in BOOLEAN
ASSUME BoundAssumption  == Usages \subseteq Nat /\ MaxSegments \in [Keys -> Nat]

VARIABLES
  active,    \* the budgets that have been created
  rows,      \* the budget_reservations row of each budget and key
  override,  \* the budget_overrides row
  lock,      \* the caller that holds each budget's row lock
  keeper,    \* the caller that holds the override's row lock
  pc,        \* where each caller is
  call,      \* its key, model, budgets, and what it has counted
  segments   \* how many calls were begun under each key

vars == <<active, rows, override, lock, keeper, pc, call, segments>>
-----------------------------------------------------------------------------
NoRow    == [status |-> "NONE", estimate |-> 0, settled |-> 0]
Ended    == {"SETTLED", "RELEASED", "RECONCILIATION_REQUIRED"}
Statuses == {"NONE", "RESERVED"} \cup Ended
Rows     == [status : Statuses, estimate : Nat, settled : Nat]
Places   == {"idle", "lock", "settled", "reserved", "override", "route", "admit", "calling"}
Requests == [key : Keys \cup {Nobody}, model : Models \cup {NoModel}, scope : SUBSET Budgets, todo : SUBSET Budgets,
             seen : Nat, over : BOOLEAN, routed : BOOLEAN]

Request(k, m, scope, todo, seen, over, routed) ==
  [key |-> k, model |-> m, scope |-> scope, todo |-> todo, seen |-> seen,
   over |-> over, routed |-> routed]

NoCall == Request(Nobody, NoModel, {}, {}, 0, FALSE, FALSE)

First(S) == CHOOSE b \in S : \A d \in S : b <= d

Existing(k) == {b \in Budgets : rows[b][k].status # "NONE"}
Open(k)     == {b \in Budgets : rows[b][k].status = "RESERVED"}
Held(c)     == {b \in Budgets : lock[b] = c}

(* The transaction of a caller ends: its row locks are released. *)
Unlocked(c) ==
  /\ lock' = [b \in Budgets |-> IF lock[b] = c THEN Nobody ELSE lock[b]]
  /\ keeper' = IF keeper = c THEN Nobody ELSE keeper

Goto(c, place) == pc' = [pc EXCEPT ![c] = place]
Return(c)      == Goto(c, "idle") /\ call' = [call EXCEPT ![c] = NoCall]
-----------------------------------------------------------------------------
Init ==
  /\ active = Established
  /\ rows = [b \in Budgets |-> [k \in Keys |-> NoRow]]
  /\ override = [status |-> "NONE", by |-> Nobody, left |-> 0, uses |-> 0]
  /\ lock = [b \in Budgets |-> Nobody] /\ keeper = Nobody
  /\ pc = [c \in Callers |-> "idle"]
  /\ call = [c \in Callers |-> NoCall]
  /\ segments = [k \in Keys |-> 0]

(* create_budget: a new budget is ACTIVE and stays so. *)
CreateBudget(b) ==
  /\ b \notin active /\ active' = active \cup {b}
  /\ UNCHANGED <<rows, override, lock, keeper, pc, call, segments>>

(* The first reads of reserve: the budgets in scope and the reservations the *)
(* key already has.  A key that has any is let through again; a call that no *)
(* budget covers is let through without a reservation.                       *)
Looked(c, k, m, routed) ==
  LET scope == Applies[m] \cap active
      due   == scope \ Held(c) IN
  /\ call' = [call EXCEPT ![c] = Request(k, m, scope,
                 IF due # {} THEN due ELSE scope, 0, FALSE, routed)]
  /\ IF Existing(k) # {} \/ scope = {}
     THEN Goto(c, "calling") /\ Unlocked(c)
     ELSE /\ Goto(c, IF due # {} THEN "lock" ELSE "settled")
          /\ UNCHANGED <<lock, keeper>>

Begin(c, k, m) ==
  /\ pc[c] = "idle" /\ segments[k] < MaxSegments[k]
  /\ segments' = [segments EXCEPT ![k] = @ + 1]
  /\ Looked(c, k, m, FALSE)
  /\ UNCHANGED <<active, rows, override>>

\* wrong on purpose: the budgets are read without a lock.
LockNothing(c) ==
  LET r == call[c]  due == r.todo \ {First(r.todo)} IN
  /\ pc[c] = "lock"
  /\ call' = [call EXCEPT ![c] = Request(r.key, r.model, r.scope,
                 IF due # {} THEN due ELSE r.scope, 0, FALSE, r.routed)]
  /\ Goto(c, IF due # {} THEN "lock" ELSE "settled")
  /\ UNCHANGED <<active, rows, override, lock, keeper, segments>>

(* UPDATE ... SET state_version, one budget after the other. *)
Lock(c) ==
  LET r == call[c]  b == First(r.todo)  due == r.todo \ {b} IN
  /\ pc[c] = "lock" /\ lock[b] = Nobody
  /\ lock' = [lock EXCEPT ![b] = c]
  /\ call' = [call EXCEPT ![c] = Request(r.key, r.model, r.scope,
                 IF due # {} THEN due ELSE r.scope, 0, FALSE, r.routed)]
  /\ Goto(c, IF due # {} THEN "lock" ELSE "settled")
  /\ UNCHANGED <<active, rows, override, keeper, segments>>

(* The two sums that _spend queries, of the rows r of one budget. *)
SettledSum(r)  == SumFunctionOnSet([k \in Keys |-> r[k].settled],
                                   {k \in Keys : r[k].status = "SETTLED"})
ReservedSum(r) == SumFunctionOnSet([k \in Keys |-> r[k].estimate],
                                   {k \in Keys : r[k].status = "RESERVED"})

(* The first of them, of the next budget to count. *)
SumSettled(c) ==
  LET r == call[c] IN
  /\ pc[c] = "settled"
  /\ call' = [call EXCEPT ![c] = Request(r.key, r.model, r.scope, r.todo,
                 SettledSum(rows[First(r.todo)]), r.over, r.routed)]
  /\ Goto(c, "reserved")
  /\ UNCHANGED <<active, rows, override, lock, keeper, segments>>

Exceeds(c, b) == call[c].seen + ReservedSum(rows[b]) + Cost[call[c].model] >= Limit[b]

(* The second, a statement later, and the comparison with the hard limit. *)
SumReserved(c) ==
  LET r == call[c]  b == First(r.todo)  due == r.todo \ {b}
      over == r.over \/ Exceeds(c, b) IN
  /\ pc[c] = "reserved"
  /\ call' = [call EXCEPT ![c] = Request(r.key, r.model, r.scope, due, 0, over, r.routed)]
  /\ Goto(c, IF due # {} THEN "settled"
             ELSE IF ~over THEN "admit"
             ELSE IF c \in Carries THEN "override" ELSE "route")
  /\ UNCHANGED <<active, rows, override, lock, keeper, segments>>

Usable(m) == override.status = "APPROVED" /\ override.uses > 0 /\ Cost[m] <= override.left

(* _override locks the row of the override the request names, if it exists. *)
ReadOverride(c) ==
  /\ pc[c] = "override" /\ keeper \in {Nobody, c}
  /\ keeper' = IF override.status = "NONE" THEN keeper ELSE c
  /\ Goto(c, IF Usable(call[c].model) THEN "admit" ELSE "route")
  /\ UNCHANGED <<active, rows, override, lock, call, segments>>

(* _fallback finds a cheaper model: reserve again, in the same transaction. *)
Reroute(c) ==
  LET r == call[c] IN
  /\ pc[c] = "route" /\ Cheaper[r.model] # NoModel
  /\ Looked(c, r.key, Cheaper[r.model], TRUE)
  /\ UNCHANGED <<active, rows, override, segments>>

\* wrong on purpose: the refusal leaves its transaction open.
BlockHolding(c) ==
  /\ pc[c] = "route" /\ Cheaper[call[c].model] = NoModel
  /\ Return(c)
  /\ UNCHANGED <<active, rows, override, lock, keeper, segments>>

(* HARD_LIMIT_REACHED: the refusal is audited and the call is not made. *)
Block(c) ==
  /\ pc[c] = "route" /\ Cheaper[call[c].model] = NoModel
  /\ Return(c) /\ Unlocked(c)
  /\ UNCHANGED <<active, rows, override, segments>>

Consumed(cost) ==
  [status |-> IF SingleUse \/ override.uses = 1 THEN "CONSUMED" ELSE override.status,
   by |-> override.by, left |-> override.left - cost, uses |-> override.uses - 1]

\* wrong on purpose: only the first budget of the request gets a reservation.
ReservedOnFirst(scope, k, cost) ==
  rows' = [b \in Budgets |-> [q \in Keys |->
             IF b = First(scope) /\ q = k
             THEN [status |-> "RESERVED", estimate |-> cost, settled |-> 0] ELSE rows[b][q]]]

Reserved(scope, k, cost) ==
  rows' = [b \in Budgets |-> [q \in Keys |->
             IF b \in scope /\ q = k
             THEN [status |-> "RESERVED", estimate |-> cost, settled |-> 0] ELSE rows[b][q]]]

(* One reservation for each budget, and the use of the override, committed   *)
(* together.                                                                 *)
Admit(c) ==
  LET r == call[c] IN
  /\ pc[c] = "admit" /\ Existing(r.key) \cap r.scope = {}
  /\ Reserved(r.scope, r.key, Cost[r.model])
  /\ override' = IF r.over THEN Consumed(Cost[r.model]) ELSE override
  /\ Goto(c, "calling") /\ Unlocked(c)
  /\ UNCHANGED <<active, call, segments>>

(* The unique key of a reservation another caller committed first: roll back *)
(* and go on with that one.                                                  *)
Collide(c) ==
  /\ pc[c] = "admit" /\ Existing(call[c].key) \cap call[c].scope # {}
  /\ Goto(c, "calling") /\ Unlocked(c)
  /\ UNCHANGED <<active, rows, override, call, segments>>
-----------------------------------------------------------------------------
\* wrong on purpose: every row of the key ends, whatever its status.
CloseAny(k, status, paid) ==
  rows' = [b \in Budgets |-> [q \in Keys |->
             IF q = k /\ rows[b][q].status # "NONE"
             THEN [status |-> status, estimate |-> rows[b][q].estimate, settled |-> paid]
             ELSE rows[b][q]]]

(* Every row of the key that is still RESERVED ends. *)
Close(k, status, paid) ==
  rows' = [b \in Budgets |-> [q \in Keys |->
             IF q = k /\ rows[b][q].status = "RESERVED"
             THEN [status |-> status, estimate |-> rows[b][q].estimate, settled |-> paid]
             ELSE rows[b][q]]]

Finish(c, status, paid) ==
  /\ pc[c] = "calling" /\ Return(c)
  /\ Close(call[c].key, status, paid)
  /\ UNCHANGED <<active, override, lock, keeper, segments>>

(* settle with the usage the provider reported. *)
Settle(c, paid) == Finish(c, "SETTLED", paid)

(* settle without a usage (agents and chat). *)
Reconcile(c) == Finish(c, "RECONCILIATION_REQUIRED", 0)

(* release: the provider failed, or the runtime saw no usage. *)
Release(c) == Finish(c, "RELEASED", 0)

(* The task is cancelled or its process dies: CancelledError is no Exception, *)
(* so nothing settles or releases; the database drops the transaction.        *)
Abandon(c) ==
  /\ pc[c] # "idle" /\ Return(c) /\ Unlocked(c)
  /\ UNCHANGED <<active, rows, override, segments>>
-----------------------------------------------------------------------------
RequestOverride(u) ==
  /\ override.status = "NONE"
  /\ override' = [status |-> "PENDING", by |-> u, left |-> Granted, uses |-> Uses]
  /\ UNCHANGED <<active, rows, lock, keeper, pc, call, segments>>

WithStatus(status) ==
  [status |-> status, by |-> override.by, left |-> override.left, uses |-> override.uses]

ApproveOverride(u) ==
  /\ keeper = Nobody /\ override.status = "PENDING" /\ u # override.by
  /\ override' = WithStatus("APPROVED")
  /\ UNCHANGED <<active, rows, lock, keeper, pc, call, segments>>

(* expires_at passes: from then on the row is not used.  A caller that has    *)
(* already read it (it holds the lock) uses it once more.                     *)
LapseOverride ==
  /\ keeper = Nobody /\ override.status \in {"PENDING", "APPROVED"}
  /\ override' = WithStatus("LAPSED")
  /\ UNCHANGED <<active, rows, lock, keeper, pc, call, segments>>
-----------------------------------------------------------------------------
(* c cannot go on before d ends its transaction. *)
WaitsFor(c, d) ==
  /\ c # d /\ d \in Callers
  /\ \/ pc[c] = "lock" /\ lock[First(call[c].todo)] = d
     \/ pc[c] = "override" /\ keeper = d

(* Callers that wait for each other. *)
Cycle(S) ==
  /\ S # {}
  /\ \A c \in S : \E d \in S : WaitsFor(c, d)
  /\ \A d \in S : \E c \in S : WaitsFor(c, d)

(* The database finds the cycle and aborts one of the transactions. *)
DeadlockAbort(c) ==
  /\ \E S \in SUBSET Callers : c \in S /\ Cycle(S)
  /\ Return(c) /\ Unlocked(c)
  /\ UNCHANGED <<active, rows, override, segments>>
-----------------------------------------------------------------------------
(* The steps of reserve once it has begun. *)
Reserve(c) ==
  \/ Lock(c) \/ SumSettled(c) \/ SumReserved(c) \/ ReadOverride(c) \/ Reroute(c)
  \/ Block(c) \/ Admit(c) \/ Collide(c) \/ DeadlockAbort(c)

Next ==
  \/ \E b \in Budgets : CreateBudget(b)
  \/ \E c \in Callers : \E k \in Keys, m \in Models : Begin(c, k, m)
  \/ \E c \in Callers : Reserve(c)
  \/ \E c \in Callers : Reconcile(c) \/ Release(c) \/ Abandon(c)
  \/ \E c \in Callers, paid \in Usages : Settle(c, paid)
  \/ \E u \in Actors : RequestOverride(u) \/ ApproveOverride(u)
  \/ LapseOverride

Spec == Init /\ [][Next]_vars

(* The database runs the statements of a live transaction, grants a lock      *)
(* that is free and breaks a deadlock.                                        *)
FairSpec == Spec /\ \A c \in Callers : WF_vars(Reserve(c))
-----------------------------------------------------------------------------
(* Every column and every caller's state has a value the schema and reserve   *)
(* can produce (database/models/governance.py:146-240).                       *)
TypeOK ==
  /\ active \subseteq Budgets
  /\ rows \in [Budgets -> [Keys -> Rows]]
  /\ override \in [status : {"NONE", "PENDING", "APPROVED", "CONSUMED", "LAPSED"},
                   by : Actors \cup {Nobody}, left : 0 .. Granted, uses : 0 .. Uses]
  /\ lock \in [Budgets -> Callers \cup {Nobody}] /\ keeper \in Callers \cup {Nobody}
  /\ pc \in [Callers -> Places] /\ call \in [Callers -> Requests]
  /\ segments \in [Keys -> Nat] /\ \A k \in Keys : segments[k] <= MaxSegments[k]

(* What the override has let through so far. *)
Overridden == IF override.status = "NONE" THEN 0 ELSE Granted - override.left

(* What is reserved on a budget at any moment stays below its hard limit, but *)
(* for what an override let through, although requests are admitted at the    *)
(* same time and a request counts in several statements: the locks on the     *)
(* budgets hold off every other admission (budget_enforcement.py:247-256).    *)
OutstandingWithinLimit ==
  \A b \in Budgets : ReservedSum(rows[b]) < Limit[b] + Overridden

(* The same of everything that is reserved or was spent.                      *)
SpendWithinLimit ==
  \A b \in Budgets : SettledSum(rows[b]) + ReservedSum(rows[b]) < Limit[b] + Overridden

(* A request that has not been rerouted waits only for a budget that comes    *)
(* after all those it holds ("in stable order", budget_enforcement.py:248).   *)
LocksInOrder ==
  \A c \in Callers : pc[c] = "lock" /\ ~call[c].routed =>
    \A b \in Held(c) : b < First(call[c].todo)

(* No two requests wait for each other's locks. *)
NoLockCycle == \A S \in SUBSET Callers : ~Cycle(S)

(* The first call made under a key holds a reservation on each of its budgets *)
(* until it ends, whichever model it was routed to.                           *)
FirstCallReserved ==
  \A c \in Callers : pc[c] = "calling" /\ segments[call[c].key] = 1 =>
    call[c].scope \subseteq Open(call[c].key)

(* Every call does so, not only the first one. *)
EveryCallReserved ==
  \A c \in Callers : pc[c] = "calling" => call[c].scope \subseteq Open(call[c].key)

(* A reservation is outstanding only while a call is made under its key.      *)
ReservationHasCall ==
  \A k \in Keys : Open(k) # {} => \E c \in Callers : pc[c] = "calling" /\ call[c].key = k

(* A reservation that was settled, released or sent to reconciliation never   *)
(* changes again, although two callers may end the same key.                  *)
EndsOnce ==
  [][\A b \in Budgets, k \in Keys :
       rows[b][k].status \in Ended => rows'[b][k] = rows[b][k]]_vars

(* Under the fairness of the database a request is admitted or refused,       *)
(* whatever it waits for and whoever is cancelled meanwhile.                  *)
RequestAnswered ==
  \A c \in Callers : pc[c] \notin {"idle", "calling"} ~> pc[c] \in {"idle", "calling"}

Ledger == INSTANCE BudgetLedger WITH
  held        <- {p \in Budgets \X Keys : rows[p[1]][p[2]].status = "RESERVED"},
  outstanding <- [b \in Budgets |-> ReservedSum(rows[b])],
  allowance   <- IF override.status = "APPROVED" THEN override.left ELSE 0,
  Costs       <- {Cost[m] : m \in Models}

(* A reserve that takes many statements, with other requests between them,    *)
(* looks like one that counts and commits at once.                            *)
RefinesLedger == Ledger!Spec
=============================================================================
