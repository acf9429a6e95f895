------------------------------- MODULE AuditChain -------------------------------
(***************************************************************************)
(* The hash chain of one tenant's audit events.                            *)
(*                                                                         *)
(* append_audit_event reads the last event FOR UPDATE, adds a row that     *)
(* names it, and leaves the rest to its caller: the row gets its id when   *)
(* the session is flushed and is seen by others when the transaction       *)
(* commits.  Sessions do not flush before a query (autoflush=False).  The  *)
(* query chooses the last row it can see before it waits for that row's    *)
(* lock, and returns the same row once it has it.  An event is told by the *)
(* id of its row, and a hash by the event it was computed for.  Rows       *)
(* without a hash (written before the chain existed) are not modelled.     *)
(***************************************************************************)
EXTENDS Naturals, Sequences

CONSTANTS
  Writers,     \* sessions that append events
  Nobody,
  MaxRows,     \* bound: appends in all
  MaxPending   \* bound: appends of a session between two flushes

ASSUME RowAssumption == MaxRows \in Nat
ASSUME WriterAssumption == Nobody \notin Writers

VARIABLES
  open,      \* the sessions with a transaction open
  row,       \* the audit_logs row of each id: its state, session and predecessor
  next,      \* the next id of the table's sequence
  pending,   \* the predecessors of the events each session has not yet flushed
  want,      \* the row whose lock a session waits for, or 0
  lock,      \* the session that holds each row's lock
  appended   \* how many appends were begun

vars == <<open, row, next, pending, want, lock, appended>>
-----------------------------------------------------------------------------
Ids  == 1 .. MaxRows
Rows == [state : {"NONE", "OPEN", "COMMITTED"}, by : Writers \cup {Nobody}, previous : 0 .. MaxRows]

NoRow == [state |-> "NONE", by |-> Nobody, previous |-> 0]

Committed   == {i \in Ids : row[i].state = "COMMITTED"}
Own(w)      == {i \in Ids : row[i].state = "OPEN" /\ row[i].by = w}

\* wrong on purpose: a session sees what others have not committed
VisibleAll(w) == {i \in Ids : row[i].state # "NONE"}

Visible(w) == Committed \cup Own(w)

(* ORDER BY id DESC ... FIRST, or 0 for an empty chain. *)
IsLast(S, last) == last \in S \cup {0} /\ \A i \in S : i <= last

Last(S) == CHOOSE last \in S \cup {0} : IsLast(S, last)

Init ==
  /\ open = {} /\ row = [i \in Ids |-> NoRow] /\ next = 1
  /\ pending = [w \in Writers |-> <<>>] /\ want = [w \in Writers |-> 0]
  /\ lock = [i \in Ids |-> Nobody]
  /\ appended = 0

Free(w, last) == last = 0 \/ lock[last] \in {Nobody, w}

(* The event is added with the hash of the row the query returned. *)
Chained(w, last) ==
  /\ pending' = [pending EXCEPT ![w] = Append(@, last)]
  /\ lock' = [i \in Ids |-> IF i = last THEN w ELSE lock[i]]

(* append_audit_event, up to the lock. *)
AppendEvent(w) ==
  LET last == Last(Visible(w)) IN
  /\ want[w] = 0 /\ appended < MaxRows /\ Len(pending[w]) < MaxPending
  /\ appended' = appended + 1 /\ open' = open \cup {w}
  /\ IF Free(w, last)
     THEN Chained(w, last) /\ UNCHANGED want
     ELSE want' = [want EXCEPT ![w] = last] /\ UNCHANGED <<pending, lock>>
  /\ UNCHANGED <<row, next>>

(* The transaction that held the row has ended. *)
Granted(w) ==
  /\ want[w] # 0 /\ lock[want[w]] = Nobody
  /\ Chained(w, want[w]) /\ want' = [want EXCEPT ![w] = 0]
  /\ UNCHANGED <<open, row, next, appended>>

(* The pending rows of a session, as the insert numbers them. *)
Inserted(w, state) ==
  /\ row' = [i \in Ids |->
               IF i \in next .. next + Len(pending[w]) - 1
               THEN [state |-> state, by |-> w, previous |-> pending[w][i - next + 1]]
               ELSE IF row[i].state = "OPEN" /\ row[i].by = w
               THEN [state |-> state, by |-> w, previous |-> row[i].previous]
               ELSE row[i]]
  /\ next' = next + Len(pending[w])
  /\ pending' = [pending EXCEPT ![w] = <<>>]

Flush(w) ==
  /\ want[w] = 0 /\ pending[w] # <<>>
  /\ Inserted(w, "OPEN")
  /\ UNCHANGED <<open, want, lock, appended>>

\* wrong on purpose: the row lock outlives the transaction that took it
UnlockedNever(w) == UNCHANGED lock

Unlocked(w) == lock' = [i \in Ids |-> IF lock[i] = w THEN Nobody ELSE lock[i]]

(* commit flushes what is pending. *)
Commit(w) ==
  /\ want[w] = 0 /\ w \in open /\ open' = open \ {w}
  /\ Inserted(w, "COMMITTED") /\ Unlocked(w)
  /\ UNCHANGED <<want, appended>>

(* The caller rolls back, or its process dies: the ids it used stay unused. *)
Rollback(w) ==
  /\ w \in open /\ open' = open \ {w}
  /\ row' = [i \in Ids |-> IF i \in Own(w) THEN NoRow ELSE row[i]]
  /\ pending' = [pending EXCEPT ![w] = <<>>] /\ want' = [want EXCEPT ![w] = 0]
  /\ Unlocked(w)
  /\ UNCHANGED <<next, appended>>

Next == \E w \in Writers : AppendEvent(w) \/ Granted(w) \/ Flush(w) \/ Commit(w) \/ Rollback(w)

Spec == Init /\ [][Next]_vars

(* A session's owner commits, rolls back or closes it in the end, and the     *)
(* database grants a row lock that is free to the one that keeps asking.      *)
FairSpec == Spec /\ \A w \in Writers : WF_vars(Commit(w)) /\ SF_vars(Granted(w))
-----------------------------------------------------------------------------
(* Ids, predecessors and lock holders have the values the columns can have,   *)
(* and the next id is above all that are in use (database/models/audit.py:9). *)
TypeOK ==
  /\ open \subseteq Writers /\ row \in [Ids -> Rows] /\ next \in Nat \ {0}
  /\ \A i \in Ids : row[i].state # "NONE" => i < next
  /\ pending \in [Writers -> Seq(0 .. MaxRows)] /\ want \in [Writers -> 0 .. MaxRows]
  /\ lock \in [Ids -> Writers \cup {Nobody}]
  /\ appended \in 0 .. MaxRows

(* What verify finds: each row names the committed row just before it.        *)
Verifies ==
  \A i \in Committed : IsLast({j \in Committed : j < i}, row[i].previous)

(* Whatever overlaps and whatever is rolled back, the predecessor of a        *)
(* committed event is a committed event with a lower id: the chain may fork,  *)
(* but it has no dangling link (audit/events.py:56-63).                       *)
LinksCommitted == \A i \in Committed : row[i].previous \in (Committed \cup {0}) /\ row[i].previous < i

(* Appends lock rows in the order of their ids, so that no two sessions can   *)
(* wait for each other however often a transaction appends.                   *)
LocksAscend ==
  \A w \in Writers : want[w] # 0 => \A i \in Ids : lock[i] = w => i < want[w]

(* An append that waits for the last row gets it in the end, if every         *)
(* transaction ends.                                                          *)
AppendAnswered == \A w \in Writers : want[w] # 0 ~> want[w] = 0
=============================================================================
