---------------------------- MODULE RuntimeEvents ----------------------------
(***************************************************************************)
(* The durable event journal of one execution and the streams that read    *)
(* it.                                                                     *)
(*                                                                         *)
(* A writer is a transaction of any process: it locks the execution row,   *)
(* takes the next sequence number from the row's counter and inserts the   *)
(* event, or ends the execution and inserts its terminal event.  A stream  *)
(* (GET /runtime/events) polls: each poll is three queries that see what   *)
(* was committed before each of them, and the client that loses its        *)
(* connection returns with the last sequence number it received.           *)
(***************************************************************************)
EXTENDS Integers, FiniteSets, FiniteSetsExt

CONSTANTS
  Writers,    \* transactions at once
  Clients,    \* readers of the stream
  BatchSize,  \* RUNTIME_EVENT_BATCH_SIZE
  Imported,   \* bound: events of an imported history
  MaxEvents   \* bound: sequence numbers

ASSUME BatchAssumption == BatchSize \in Nat \ {0}
ASSUME BoundAssumption == Imported \in Nat /\ MaxEvents \in Nat /\ Imported < MaxEvents

VARIABLES
  row,      \* the runtime_executions row: terminal or not, last_event_sequence
  journal,  \* the kind of the committed event with each sequence number
  tx,       \* the writers
  stream,   \* the server's side of each client's stream
  received  \* the sequence numbers each client was sent

vars == <<row, journal, tx, stream, received>>
-----------------------------------------------------------------------------
Sequences == 1 .. MaxEvents
Kinds     == {"none", "step", "final"}
Committed == {n \in Sequences : journal[n] # "none"}
Finals    == {n \in Sequences : journal[n] = "final"}
MaxOf(S)  == IF S = {} THEN 0 ELSE Max(S)

Free       == [pc |-> "idle"]
Locked(op) == [pc |-> "locked", op |-> op]
Written(n, kind, ended) == [pc |-> "written", seq |-> n, kind |-> kind, ended |-> ended]

Off == [pc |-> "off"]
At(pc, last, batch, full, ended, terminal) ==
  [pc |-> pc, last |-> last, batch |-> batch, full |-> full, ended |-> ended,
   terminal |-> terminal]

(* An execution has any history the migration imported, and a counter that   *)
(* may have drifted below it; an imported terminal execution may lack its    *)
(* terminal event.                                                           *)
Init ==
  \E old \in 0 .. Imported, counter \in 0 .. Imported, ended, final \in BOOLEAN :
    /\ counter <= old /\ (final => ended /\ old > 0)
    /\ row = [ended |-> ended, counter |-> counter]
    /\ journal = [n \in Sequences |-> IF n > old THEN "none"
                                      ELSE IF final /\ n = old THEN "final" ELSE "step"]
    /\ tx = [w \in Writers |-> Free]
    /\ stream = [c \in Clients |-> Off]
    /\ received = [c \in Clients |-> {}]

Reads  == UNCHANGED <<row, journal, tx>>
Writes == UNCHANGED <<stream, received>>
-----------------------------------------------------------------------------
(* SELECT ... FOR UPDATE of the execution row, which every writer starts     *)
(* with: append_runtime_event and transition_execution.                      *)
Lock(w) ==
  /\ tx[w] = Free /\ \A v \in Writers : tx[v] = Free
  /\ \E op \in {"append", "end"} : tx' = [tx EXCEPT ![w] = Locked(op)]
  /\ UNCHANGED <<row, journal>> /\ Writes

\* wrong on purpose: the counter is trusted
AllocatedBlindly == row.counter + 1

(* The counter's UPDATE, which heals a counter below the history.            *)
Allocated ==
  IF row.counter < MaxOf(Committed) THEN MaxOf(Committed) + 1 ELSE row.counter + 1

(* _append_runtime_event_locked.                                             *)
Insert(w, kind, ended) ==
  /\ Allocated \in Sequences
  /\ tx' = [tx EXCEPT ![w] = Written(Allocated, kind, ended)]
  /\ UNCHANGED <<row, journal>> /\ Writes

(* append_runtime_event: nothing is added to an execution that has its       *)
(* terminal event.                                                           *)
Append(w) ==
  /\ tx[w] = Locked("append")
  /\ ~(row.ended /\ Finals # {})
  /\ Insert(w, "step", row.ended)

(* transition_execution to a terminal status, with its event; the same       *)
(* request on a terminal execution only repairs a missing event.             *)
End(w) ==
  /\ tx[w] = Locked("end")
  /\ ~row.ended \/ Finals = {}
  /\ Insert(w, "final", TRUE)

Commit(w) ==
  /\ tx[w].pc = "written"
  /\ row' = [ended |-> tx[w].ended, counter |-> tx[w].seq]
  /\ journal' = [journal EXCEPT ![tx[w].seq] = tx[w].kind]
  /\ tx' = [tx EXCEPT ![w] = Free]
  /\ Writes

(* The transaction has nothing to add, its writer no longer holds the lease, *)
(* or it fails: event and counter are rolled back together.                  *)
Rollback(w) ==
  /\ tx[w] # Free
  /\ tx' = [tx EXCEPT ![w] = Free]
  /\ UNCHANGED <<row, journal>> /\ Writes
-----------------------------------------------------------------------------
Goto(c, at) == stream' = [stream EXCEPT ![c] = at]
Cursor(c)   == MaxOf(received[c])

(* A client connects, the first time or with its cursor.                     *)
Connect(c) ==
  /\ stream[c] = Off
  /\ Goto(c, At("read", Cursor(c), {}, FALSE, FALSE, 0))
  /\ Reads /\ UNCHANGED received

(* The connection breaks: what was read and not sent is lost with it.        *)
Disconnect(c) ==
  /\ stream[c].pc \in {"read", "status", "terminal", "send"}
  /\ Goto(c, Off)
  /\ Reads /\ UNCHANGED received

Unread(c) == {n \in Committed : n > stream[c].last}

\* wrong on purpose: LIMIT without ORDER BY
FirstUnordered(S, k) ==
  {T \in SUBSET S : Cardinality(T) = IF k < Cardinality(S) THEN k ELSE Cardinality(S)}

(* The first k of S in order.                                                *)
First(S, k) ==
  {T \in SUBSET S : /\ Cardinality(T) = IF k < Cardinality(S) THEN k ELSE Cardinality(S)
                    /\ \A m \in T, n \in S \ T : m < n}

(* _read_durable_events: the batch, then in later statements the status and  *)
(* the sequence number of the terminal event.                                *)
ReadBatch(c) ==
  /\ stream[c].pc = "read"
  /\ \E batch \in First(Unread(c), BatchSize) :
       Goto(c, At("status", stream[c].last, batch, Cardinality(batch) = BatchSize, FALSE, 0))
  /\ Reads /\ UNCHANGED received

ReadStatus(c) ==
  /\ stream[c].pc = "status"
  /\ Goto(c, At("terminal", stream[c].last, stream[c].batch, stream[c].full, row.ended, 0))
  /\ Reads /\ UNCHANGED received

ReadTerminal(c) ==
  /\ stream[c].pc = "terminal"
  /\ Goto(c, At("send", stream[c].last, stream[c].batch, stream[c].full, stream[c].ended,
                MaxOf(Finals)))
  /\ Reads /\ UNCHANGED received

(* stream: the events of the batch one by one; a final one ends the stream.  *)
Send(c) ==
  /\ stream[c].pc = "send" /\ stream[c].batch # {}
  /\ LET n == Min(stream[c].batch) IN
       /\ received' = [received EXCEPT ![c] = received[c] \cup {n}]
       /\ Goto(c, At(IF journal[n] = "final" THEN "closed" ELSE "send", n,
                     stream[c].batch \ {n}, stream[c].full, stream[c].ended,
                     stream[c].terminal))
  /\ Reads

Passed(c) == stream[c].terminal # 0 /\ stream[c].terminal <= stream[c].last

\* wrong on purpose: a terminal status closes the stream
AfterStatus(c) == IF stream[c].ended THEN "closed" ELSE "read"

\* wrong on purpose: an execution without a terminal event is polled again
AfterNoFallback(c) ==
  IF stream[c].full THEN "read"
  ELSE IF stream[c].ended /\ Passed(c) THEN "closed"
  ELSE "read"

(* After the batch: a full one is followed by the next; a terminal execution *)
(* whose terminal event was sent ends the stream, one that has none is       *)
(* answered with _terminal_stream_fallback; otherwise poll again.            *)
After(c) ==
  IF stream[c].full THEN "read"
  ELSE IF stream[c].ended /\ Passed(c) THEN "closed"
  ELSE IF stream[c].ended /\ stream[c].terminal = 0 THEN "fallback"
  ELSE "read"

Poll(c) ==
  /\ stream[c].pc = "send" /\ stream[c].batch = {}
  /\ Goto(c, At(After(c), stream[c].last, {}, FALSE, FALSE, 0))
  /\ Reads /\ UNCHANGED received

Serve(c) == ReadBatch(c) \/ ReadStatus(c) \/ ReadTerminal(c) \/ Send(c) \/ Poll(c)
Write(w) == Lock(w) \/ Append(w) \/ End(w) \/ Commit(w) \/ Rollback(w)

Next == \/ \E w \in Writers : Write(w)
        \/ \E c \in Clients : Connect(c) \/ Disconnect(c) \/ Serve(c)

Spec == Init /\ [][Next]_vars

(* A stream whose client stays goes on polling.                              *)
FairSpec == Spec /\ \A c \in Clients : WF_vars(Serve(c))
-----------------------------------------------------------------------------
Transactions ==
  {Free} \cup {Locked(op) : op \in {"append", "end"}} \cup
  [pc : {"written"}, seq : Sequences, kind : {"step", "final"}, ended : BOOLEAN]
Streams ==
  {Off} \cup [pc : {"read", "status", "terminal", "send", "closed", "fallback"},
              last : 0 .. MaxEvents, batch : SUBSET Sequences, full : BOOLEAN,
              ended : BOOLEAN, terminal : 0 .. MaxEvents]

(* Types, and the row lock: one writer at a time.                            *)
TypeOK ==
  /\ row \in [ended : BOOLEAN, counter : 0 .. MaxEvents]
  /\ journal \in [Sequences -> Kinds]
  /\ tx \in [Writers -> Transactions]
  /\ stream \in [Clients -> Streams]
  /\ received \in [Clients -> SUBSET Sequences]
  /\ \A v, w \in Writers : tx[v] # Free /\ tx[w] # Free => v = w

(* Every append is new: no writer meets the unique key of a sequence number  *)
(* (so append_runtime_event never retries), whatever drift it found, and the *)
(* number is above everything committed.                                     *)
NoConflict ==
  \A w \in Writers : tx[w].pc = "written" => \A n \in Committed : n < tx[w].seq

(* A client has received exactly the committed events up to its cursor:      *)
(* nothing is skipped for ever because it was committed late, and none of    *)
(* them is out of order, across batches and reconnections.                   *)
PrefixReceived ==
  \A c \in Clients : received[c] = {n \in Committed : n <= Cursor(c)}

(* A stream that closes has sent everything there is, the terminal event     *)
(* last, and nothing is added to the journal after it.                       *)
ClosedIsComplete ==
  \A c \in Clients : stream[c].pc = "closed" =>
    received[c] = Committed /\ Finals = {MaxOf(Committed)}

(* When the execution has ended every stream ends, unless its client left:   *)
(* no stream polls a finished execution for ever.                            *)
StreamEnds ==
  \A c \in Clients :
    row.ended ~> stream[c].pc \in {"closed", "fallback", "off"}
===============================================================================
