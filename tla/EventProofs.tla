------------------------------ MODULE EventProofs ------------------------------
(***************************************************************************)
(* Theorems about RuntimeEvents, for any number of writers, clients and    *)
(* events, any batch size and any imported history.                        *)
(***************************************************************************)
EXTENDS RuntimeEvents, WellFoundedInduction, TLAPS

LEMMA LeastNat ==
  ASSUME NEW S \in SUBSET Nat, S # {}
  PROVE  \E b \in S : \A d \in S : b <= d
<1> DEFINE Less == OpToRel(<, Nat)
<1>1. IsWellFoundedOn(Less, Nat)
  BY NatLessThanWellFounded, Zenon
<1>2. Less = {p \in Nat \X Nat : p[1] < p[2]}
  BY DEF OpToRel
<1> HIDE DEF Less
<1>3. PICK b \in S : \A d \in S : <<d, b>> \notin Less
  BY <1>1, WFMin
<1>4. \A d \in S : <<d, b>> \in Nat \X Nat /\ <<d, b>>[1] = d /\ <<d, b>>[2] = b
  OBVIOUS
<1>5. \A d \in S : ~(d < b)
  BY <1>2, <1>3, <1>4
<1>6. QED
  BY <1>5

USE BoundAssumption, BatchAssumption

(* The least and the greatest of a set of sequence numbers.                  *)
LEMMA MinIs ==
  ASSUME NEW S \in SUBSET Sequences, S # {}
  PROVE  Min(S) \in S /\ \A n \in S : Min(S) <= n
<1>1. S \in SUBSET Nat
  BY DEF Sequences
<1>2. \E b \in S : \A d \in S : b <= d
  BY <1>1, LeastNat
<1>3. QED
  BY <1>2 DEF Min

LEMMA MaxIs ==
  ASSUME NEW S \in SUBSET Sequences
  PROVE  /\ MaxOf(S) \in 0 .. MaxEvents
         /\ S # {} => MaxOf(S) \in S
         /\ \A n \in S : n <= MaxOf(S)
<1>1. CASE S = {}
  BY <1>1 DEF MaxOf
<1>2. CASE S # {}
  <2> DEFINE Bounds == {n \in Nat : \A i \in S : i <= n}
  <2>1. MaxEvents \in Bounds
    BY DEF Sequences
  <2>2. PICK b \in Bounds : \A d \in Bounds : b <= d
    BY <2>1, LeastNat
  <2>3. b \in S
    <3>1. SUFFICES ASSUME b \notin S PROVE FALSE
      OBVIOUS
    <3>2. b # 0
      <4>1. PICK i \in S : TRUE
        BY <1>2
      <4>2. i \in Nat /\ i >= 1 /\ i <= b /\ b \in Nat
        BY <2>2, <4>1 DEF Sequences
      <4>3. QED
        BY <4>2
    <3>3. b - 1 \in Nat /\ \A i \in S : i \in Nat /\ i <= b /\ i # b
      BY <2>2, <3>1, <3>2 DEF Sequences
    <3>4. b - 1 \in Bounds
      BY <3>3
    <3>5. QED
      BY <2>2, <3>4
  <2>4. \A i \in S : i \in Nat /\ b >= i
    BY <2>2 DEF Sequences
  <2>5. Max(S) \in S /\ \A i \in S : Max(S) >= i
    BY <2>3, <2>4 DEF Max
  <2>6. MaxOf(S) \in S /\ \A i \in S : MaxOf(S) >= i
    BY <1>2, <2>5 DEF MaxOf
  <2> DEFINE m == MaxOf(S)
  <2> HIDE DEF m
  <2>7. m \in S /\ \A i \in S : m >= i
    BY <2>6 DEF m
  <2>8. m \in 0 .. MaxEvents /\ \A i \in S : i <= m
    BY <2>7 DEF Sequences
  <2>9. QED
    BY <2>7, <2>8 DEF m
<1>3. QED
  BY <1>1, <1>2
-----------------------------------------------------------------------------
(* The terminal event, once there, is the last one and nobody is about to    *)
(* add another.                                                              *)
Settled ==
  /\ Finals # {} => row.ended
  /\ \A m \in Finals, n \in Committed : n <= m
  /\ \A w \in Writers : tx[w].pc = "written" =>
       Finals = {} /\ (tx[w].kind = "final" => tx[w].ended)

(* The server's cursor is the client's, and what it has read and not sent    *)
(* follows without a gap.                                                    *)
Follows(s, sent) == s.pc \in {"read", "status", "terminal", "send"} =>
  /\ s.last \in sent \cup {0}
  /\ sent = {n \in Committed : n <= s.last}
  /\ s.batch \subseteq Committed
  /\ \A m \in s.batch : s.last < m
  /\ \A m \in s.batch, n \in Committed : s.last < n /\ n <= m => n \in s.batch
  /\ s.terminal # 0 => s.terminal \in Finals

(* What a client has received has no gap, whether its stream is open or not. *)
Gapless(sent) == sent \subseteq Committed /\
  \A n \in sent, m \in Committed : m <= n => m \in sent

Complete(s, sent) == s.pc = "closed" => sent = Committed /\ Finals # {}

Served == \A c \in Clients :
  Follows(stream[c], received[c]) /\ Gapless(received[c]) /\ Complete(stream[c], received[c])

IInv == TypeOK /\ NoConflict /\ Settled /\ Served

LEMMA Values ==
  /\ Committed \in SUBSET Sequences /\ Finals \in SUBSET Committed
  /\ Free \in Transactions
  /\ \A op \in {"append", "end"} : Locked(op) \in Transactions /\ Locked(op) # Free
  /\ Off \in Streams
<1>1. Committed \in SUBSET Sequences /\ Finals \in SUBSET Committed
  BY DEF Committed, Finals
<1>2. Free.pc = "idle" /\ \A op : Locked(op).pc = "locked"
  BY DEF Free, Locked
<1>3. QED
  BY <1>1, <1>2 DEF Transactions, Streams

LEMMA Record ==
  ASSUME NEW n \in Sequences, NEW kind \in {"step", "final"}, NEW ended \in BOOLEAN
  PROVE  /\ Written(n, kind, ended) \in Transactions /\ Written(n, kind, ended) # Free
         /\ Written(n, kind, ended).pc = "written" /\ Written(n, kind, ended).seq = n
         /\ Written(n, kind, ended).kind = kind /\ Written(n, kind, ended).ended = ended
BY DEF Written, Free, Transactions

LEMMA Server ==
  ASSUME NEW pc \in {"read", "status", "terminal", "send", "closed", "fallback"},
         NEW last \in 0 .. MaxEvents, NEW batch \in SUBSET Sequences, NEW full \in BOOLEAN,
         NEW ended \in BOOLEAN, NEW terminal \in 0 .. MaxEvents
  PROVE  /\ At(pc, last, batch, full, ended, terminal) \in Streams
         /\ At(pc, last, batch, full, ended, terminal).pc = pc
         /\ At(pc, last, batch, full, ended, terminal).last = last
         /\ At(pc, last, batch, full, ended, terminal).batch = batch
         /\ At(pc, last, batch, full, ended, terminal).terminal = terminal
BY DEF At, Streams

LEMMA StreamFields ==
  ASSUME TypeOK, NEW c \in Clients, stream[c] # Off
  PROVE  /\ stream[c].pc \in {"read", "status", "terminal", "send", "closed", "fallback"}
         /\ stream[c].last \in 0 .. MaxEvents /\ stream[c].batch \in SUBSET Sequences
         /\ stream[c].full \in BOOLEAN /\ stream[c].ended \in BOOLEAN
         /\ stream[c].terminal \in 0 .. MaxEvents
<1>1. stream[c] \in Streams
  BY DEF TypeOK
<1>2. QED
  BY <1>1 DEF Streams

LEMMA OffPlace == Off.pc = "off"
BY DEF Off

LEMMA InitInv == Init => IInv
<1> SUFFICES ASSUME Init PROVE IInv
  OBVIOUS
<1>1. PICK old \in 0 .. Imported, counter \in 0 .. Imported, ended \in BOOLEAN, final \in BOOLEAN :
        /\ counter <= old /\ (final => ended /\ old > 0)
        /\ row = [ended |-> ended, counter |-> counter]
        /\ journal = [n \in Sequences |-> IF n > old THEN "none"
                                          ELSE IF final /\ n = old THEN "final" ELSE "step"]
  BY DEF Init
<1>2. /\ tx = [w \in Writers |-> Free] /\ stream = [c \in Clients |-> Off]
      /\ received = [c \in Clients |-> {}]
  BY DEF Init
<1>3. Committed = {n \in Sequences : n <= old}
  BY <1>1 DEF Committed, Sequences
<1>4. \A n \in Finals : final /\ n = old
  BY <1>1 DEF Finals
<1>5. TypeOK
  <2>1. row \in [ended : BOOLEAN, counter : 0 .. MaxEvents]
    BY <1>1
  <2>2. journal \in [Sequences -> Kinds]
    BY <1>1 DEF Kinds
  <2>3. QED
    BY <1>2, <2>1, <2>2, Values DEF TypeOK
<1>6. \A w \in Writers : tx[w].pc = "idle"
  BY <1>2 DEF Free
<1>7. \A c \in Clients : stream[c].pc = "off" /\ received[c] = {}
  BY <1>2 DEF Off
<1>8. Settled
  BY <1>1, <1>3, <1>4, <1>6 DEF Settled, Sequences
<1>9. QED
  BY <1>5, <1>6, <1>7, <1>8 DEF IInv, NoConflict, Served, Follows, Gapless, Complete
-----------------------------------------------------------------------------
(* A step of one writer that commits nothing.                                *)
LEMMA Writing ==
  ASSUME IInv, NEW w \in Writers, NEW v \in Transactions, tx' = [tx EXCEPT ![w] = v],
         UNCHANGED <<row, journal, stream, received>>,
         v # Free => \A u \in Writers : u # w => tx[u] = Free,
         v.pc = "written" => /\ Finals = {} /\ (v.kind = "final" => v.ended)
                             /\ \A n \in Committed : n < v.seq
  PROVE  IInv'
<1>1. Committed' = Committed /\ Finals' = Finals
  BY DEF Committed, Finals
<1>2. tx' \in [Writers -> Transactions] /\ tx'[w] = v /\ \A u \in Writers : u # w => tx'[u] = tx[u]
  BY DEF IInv, TypeOK
<1>3. TypeOK'
  BY <1>2 DEF IInv, TypeOK
<1>4. NoConflict'
  BY <1>1, <1>2 DEF IInv, NoConflict
<1>5. Settled'
  BY <1>1, <1>2 DEF IInv, Settled
<1>6. Served'
  BY <1>1 DEF IInv, Served, Follows, Gapless, Complete
<1>7. QED
  BY <1>3, <1>4, <1>5, <1>6 DEF IInv

(* A step of one stream.                                                     *)
LEMMA Serving ==
  ASSUME IInv, NEW c \in Clients, NEW s \in Streams, NEW sent \in SUBSET Sequences,
         stream' = [stream EXCEPT ![c] = s], received' = [received EXCEPT ![c] = sent],
         Reads, Follows(s, sent), Gapless(sent), Complete(s, sent)
  PROVE  IInv'
<1>1. Committed' = Committed /\ Finals' = Finals
  BY DEF Committed, Finals, Reads
<1>2. /\ stream' \in [Clients -> Streams] /\ received' \in [Clients -> SUBSET Sequences]
      /\ stream'[c] = s /\ received'[c] = sent
      /\ \A d \in Clients : d # c => stream'[d] = stream[d] /\ received'[d] = received[d]
  BY DEF IInv, TypeOK
<1>3. TypeOK'
  BY <1>2 DEF IInv, TypeOK, Reads
<1>4. NoConflict' /\ Settled'
  BY <1>1 DEF IInv, NoConflict, Settled, Reads
<1>5. ASSUME NEW d \in Clients
      PROVE  Follows(stream[d], received[d])' /\ Gapless(received[d])'
               /\ Complete(stream[d], received[d])'
  <2>1. CASE d = c
    BY <1>1, <1>2, <2>1 DEF Follows, Gapless, Complete
  <2>2. CASE d # c
    BY <1>1, <1>2, <2>2 DEF IInv, Served, Follows, Gapless, Complete
  <2>3. QED
    BY <2>1, <2>2
<1>6. QED
  BY <1>3, <1>4, <1>5 DEF IInv, Served

LEMMA Kept ==
  ASSUME TypeOK, NEW c \in Clients
  PROVE  /\ received = [received EXCEPT ![c] = received[c]]
         /\ received[c] \in SUBSET Sequences
BY DEF TypeOK

LEMMA AllocatedNew ==
  ASSUME TypeOK
  PROVE  Allocated \in Nat /\ \A n \in Committed : n < Allocated
<1> DEFINE top == MaxOf(Committed)
<1>1. top \in 0 .. MaxEvents /\ \A n \in Committed : n <= top /\ n \in Nat
  BY Values, MaxIs DEF Sequences
<1>2. row.counter \in Nat
  BY DEF TypeOK
<1>3. Allocated = IF row.counter < top THEN top + 1 ELSE row.counter + 1
  BY DEF Allocated
<1> HIDE DEF top
<1>4. QED
  BY <1>1, <1>2, <1>3

LEMMA InsertKept ==
  ASSUME IInv, NEW w \in Writers, tx[w] # Free, NEW kind \in {"step", "final"},
         NEW ended \in BOOLEAN, Insert(w, kind, ended), Finals = {}, kind = "final" => ended
  PROVE  IInv'
<1>1. Allocated \in Sequences /\ \A n \in Committed : n < Allocated
  BY AllocatedNew DEF Insert, IInv
<1> DEFINE v == Written(Allocated, kind, ended)
<1>2. /\ v \in Transactions /\ v.seq = Allocated /\ v.kind = kind /\ v.ended = ended
  BY <1>1, Record
<1>3. \A u \in Writers : u # w => tx[u] = Free
  BY DEF IInv, TypeOK
<1>4. tx' = [tx EXCEPT ![w] = v] /\ UNCHANGED <<row, journal, stream, received>>
  BY DEF Insert, Writes
<1> HIDE DEF v
<1>5. QED
  BY <1>1, <1>2, <1>3, <1>4, Writing

LEMMA CommitKept ==
  ASSUME IInv, NEW w \in Writers, Commit(w)
  PROVE  IInv'
<1> DEFINE n == tx[w].seq  kind == tx[w].kind
<1>1. tx[w] \in Transactions /\ tx[w].pc = "written" /\ tx[w] # Free
  BY DEF Commit, IInv, TypeOK, Free
<1>2. /\ tx[w] \in [pc : {"written"}, seq : Sequences, kind : {"step", "final"}, ended : BOOLEAN]
  BY <1>1 DEF Transactions, Free, Locked
<1>3. n \in Sequences /\ kind \in {"step", "final"} /\ tx[w].ended \in BOOLEAN
  BY <1>2
<1>4. Finals = {} /\ (kind = "final" => tx[w].ended) /\ \A m \in Committed : m < n
  BY <1>1 DEF IInv, Settled, NoConflict
<1>5. /\ journal' = [journal EXCEPT ![n] = kind] /\ journal \in [Sequences -> Kinds]
      /\ row' = [ended |-> tx[w].ended, counter |-> n]
      /\ tx' = [tx EXCEPT ![w] = Free] /\ stream' = stream /\ received' = received
  BY DEF Commit, IInv, TypeOK, Writes
<1> HIDE DEF n, kind
<1>6. Committed' = Committed \cup {n} /\ Finals' = IF kind = "final" THEN {n} ELSE {}
  BY <1>3, <1>4, <1>5 DEF Committed, Finals
<1>7. \A u \in Writers : tx'[u] = Free
  BY <1>1, <1>5 DEF IInv, TypeOK
<1>8. \A u \in Writers : tx'[u].pc = "idle"
  BY <1>7 DEF Free
<1>9. TypeOK'
  <2>1. row' \in [ended : BOOLEAN, counter : 0 .. MaxEvents]
    BY <1>3, <1>5 DEF Sequences
  <2>2. journal' \in [Sequences -> Kinds]
    BY <1>3, <1>5 DEF Kinds
  <2>3. tx' \in [Writers -> Transactions]
    BY <1>5, Values DEF IInv, TypeOK
  <2>4. QED
    BY <1>5, <1>7, <2>1, <2>2, <2>3 DEF IInv, TypeOK
<1>10. NoConflict' /\ Settled'
  <2>1. row'.ended = tx[w].ended
    BY <1>5
  <2>2. \A m \in Committed \cup {n} : m \in Nat /\ m <= n
    BY <1>3, <1>4, Values DEF Sequences
  <2>3. QED
    BY <1>4, <1>6, <1>8, <2>1, <2>2 DEF NoConflict, Settled
<1>11. ASSUME NEW c \in Clients
       PROVE  Follows(stream[c], received[c])' /\ Gapless(received[c])'
               /\ Complete(stream[c], received[c])'
  <2>1. Follows(stream[c], received[c]) /\ Gapless(received[c]) /\ Complete(stream[c], received[c])
    BY DEF IInv, Served
  <2>2. n \in Nat /\ \A m \in Committed : m \in Nat /\ m < n
    BY <1>3, <1>4, Values DEF Sequences
  <2>3. Gapless(received[c])'
    BY <1>5, <1>6, <2>1, <2>2 DEF Gapless
  <2>4. Complete(stream[c], received[c])'
    BY <1>4, <1>5, <2>1 DEF Complete
  <2>5. Follows(stream[c], received[c])'
    <3>1. SUFFICES ASSUME stream[c].pc \in {"read", "status", "terminal", "send"}
                   PROVE  Follows(stream[c], received[c])'
      BY <1>5 DEF Follows
    <3> DEFINE last == stream[c].last  batch == stream[c].batch
    <3>2. /\ last \in received[c] \cup {0} /\ received[c] = {m \in Committed : m <= last}
          /\ batch \subseteq Committed /\ (\A m \in batch : last < m)
          /\ (\A m \in batch, k \in Committed : last < k /\ k <= m => k \in batch)
          /\ stream[c].terminal # 0 => stream[c].terminal \in Finals
      BY <2>1, <3>1 DEF Follows
    <3>3. stream[c].last' = last /\ stream[c].batch' = batch
      BY <1>5
    <3>4. n > last /\ last \in Nat /\ \A m \in batch : m \in Nat /\ m < n
      BY <2>2, <3>2, <1>3 DEF Sequences
    <3>5. stream[c].terminal' # 0 => stream[c].terminal' \in Finals'
      BY <1>4, <1>5, <3>2
    <3> HIDE DEF last, batch
    <3>6. received[c] = {m \in Committed \cup {n} : m <= last}
      BY <2>2, <3>2, <3>4
    <3>7. \A m \in batch, k \in Committed \cup {n} : last < k /\ k <= m => k \in batch
      BY <2>2, <3>2, <3>4
    <3>8. QED
      BY <1>5, <1>6, <3>2, <3>3, <3>5, <3>6, <3>7 DEF Follows
  <2>6. QED
    BY <2>3, <2>4, <2>5
<1>12. QED
  BY <1>9, <1>10, <1>11 DEF IInv, Served

LEMMA WriteKept ==
  ASSUME IInv, NEW w \in Writers, Write(w)
  PROVE  IInv'
<1>1. CASE Lock(w)
  <2>1. PICK op \in {"append", "end"} : tx' = [tx EXCEPT ![w] = Locked(op)]
    BY <1>1 DEF Lock
  <2>2. Locked(op) \in Transactions /\ Locked(op).pc = "locked"
    BY Values DEF Locked
  <2>3. UNCHANGED <<row, journal, stream, received>> /\ \A u \in Writers : tx[u] = Free
    BY <1>1 DEF Lock, Writes
  <2>4. QED
    BY <2>1, <2>2, <2>3, Writing
<1>2. CASE Append(w)
  <2>1. tx[w] # Free /\ Finals = {} /\ Insert(w, "step", row.ended) /\ row.ended \in BOOLEAN
    BY <1>2, Values DEF Append, IInv, Settled, TypeOK
  <2>2. QED
    BY <2>1, InsertKept
<1>3. CASE End(w)
  <2>1. tx[w] # Free /\ Finals = {} /\ Insert(w, "final", TRUE)
    BY <1>3, Values DEF End, IInv, Settled
  <2>2. QED
    BY <2>1, InsertKept
<1>4. CASE Commit(w)
  BY <1>4, CommitKept
<1>5. CASE Rollback(w)
  <2>1. tx' = [tx EXCEPT ![w] = Free] /\ UNCHANGED <<row, journal, stream, received>>
    BY <1>5 DEF Rollback, Writes
  <2>2. Free \in Transactions /\ Free.pc = "idle"
    BY Values DEF Free
  <2>3. QED
    BY <2>1, <2>2, Writing
<1>6. QED
  BY <1>1, <1>2, <1>3, <1>4, <1>5 DEF Write
-----------------------------------------------------------------------------
LEMMA CursorIs ==
  ASSUME IInv, NEW c \in Clients
  PROVE  /\ Cursor(c) \in 0 .. MaxEvents /\ Cursor(c) \in received[c] \cup {0}
         /\ received[c] = {n \in Committed : n <= Cursor(c)}
<1>1. received[c] \in SUBSET Sequences /\ Gapless(received[c])
  BY DEF IInv, TypeOK, Served
<1> DEFINE top == MaxOf(received[c])
<1>2. /\ top \in 0 .. MaxEvents /\ (received[c] # {} => top \in received[c])
      /\ \A n \in received[c] : n <= top
  BY <1>1, MaxIs
<1>3. received[c] = {} => top = 0
  BY DEF MaxOf
<1>4. \A n \in Committed : n \in Nat /\ n > 0
  BY Values DEF Sequences
<1>5. Cursor(c) = top
  BY DEF Cursor
<1> HIDE DEF top
<1>6. received[c] = {n \in Committed : n <= top}
  BY <1>1, <1>2, <1>3, <1>4 DEF Gapless
<1>7. QED
  BY <1>2, <1>3, <1>5, <1>6

LEMMA ConnectKept ==
  ASSUME IInv, NEW c \in Clients, Connect(c)
  PROVE  IInv'
<1> DEFINE s == At("read", Cursor(c), {}, FALSE, FALSE, 0)
<1>a. Cursor(c) \in 0 .. MaxEvents /\ 0 \in 0 .. MaxEvents /\ {} \in SUBSET Sequences
  BY CursorIs
<1>1. /\ s \in Streams /\ s.pc = "read" /\ s.last = Cursor(c) /\ s.batch = {} /\ s.terminal = 0
  BY <1>a DEF At, Streams
<1>2. stream' = [stream EXCEPT ![c] = s] /\ Reads /\ received' = received
  BY DEF Connect, Goto
<1> HIDE DEF s
<1>3. Follows(s, received[c])
  BY <1>1, CursorIs DEF Follows
<1>4. Complete(s, received[c])
  BY <1>1 DEF Complete
<1>5. QED
  BY <1>1, <1>2, <1>3, <1>4, Kept, Serving DEF IInv, Served

LEMMA DisconnectKept ==
  ASSUME IInv, NEW c \in Clients, Disconnect(c)
  PROVE  IInv'
<1>1. Off \in Streams /\ Off.pc = "off"
  BY Values, OffPlace
<1>2. Follows(Off, received[c]) /\ Complete(Off, received[c])
  BY <1>1 DEF Follows, Complete
<1>3. stream' = [stream EXCEPT ![c] = Off] /\ Reads /\ received' = received
  BY DEF Disconnect, Goto
<1>4. QED
  BY <1>1, <1>2, <1>3, Kept, Serving DEF IInv, Served

(* Where a stream that is served stands.                                     *)
LEMMA Standing ==
  ASSUME IInv, NEW c \in Clients, stream[c].pc \in {"read", "status", "terminal", "send"}
  PROVE  /\ stream[c].last \in 0 .. MaxEvents /\ stream[c].batch \in SUBSET Sequences
         /\ stream[c].full \in BOOLEAN /\ stream[c].ended \in BOOLEAN
         /\ stream[c].terminal \in 0 .. MaxEvents
         /\ stream[c].last \in received[c] \cup {0}
         /\ received[c] = {n \in Committed : n <= stream[c].last}
         /\ stream[c].batch \subseteq Committed
         /\ \A m \in stream[c].batch : stream[c].last < m
         /\ \A m \in stream[c].batch, n \in Committed :
              stream[c].last < n /\ n <= m => n \in stream[c].batch
         /\ stream[c].terminal # 0 => stream[c].terminal \in Finals
<1>1. stream[c] # Off
  BY OffPlace
<1>2. Follows(stream[c], received[c])
  BY DEF IInv, Served
<1>3. TypeOK
  BY DEF IInv
<1>4. QED
  BY <1>1, <1>2, <1>3, StreamFields DEF Follows

LEMMA ReadBatchKept ==
  ASSUME IInv, NEW c \in Clients, ReadBatch(c)
  PROVE  IInv'
<1>1. stream[c].pc = "read" /\ Reads /\ received' = received
  BY DEF ReadBatch
<1> DEFINE last == stream[c].last
<1>2. PICK batch \in First(Unread(c), BatchSize) :
        Goto(c, At("status", last, batch, Cardinality(batch) = BatchSize, FALSE, 0))
  BY DEF ReadBatch
<1>3. batch \subseteq Unread(c) /\ \A m \in batch, n \in Unread(c) \ batch : m < n
  BY DEF First
<1>4. Unread(c) = {n \in Committed : n > last}
  BY DEF Unread
<1>5. batch \in SUBSET Sequences
  BY <1>3, <1>4, Values
<1> DEFINE s == At("status", last, batch, Cardinality(batch) = BatchSize, FALSE, 0)
<1>6. /\ last \in 0 .. MaxEvents /\ 0 \in 0 .. MaxEvents /\ last \in received[c] \cup {0}
      /\ received[c] = {n \in Committed : n <= last}
  BY <1>1, Standing
<1> HIDE DEF last
<1>7. /\ s \in Streams /\ s.pc = "status" /\ s.last = last /\ s.batch = batch /\ s.terminal = 0
  <2> DEFINE full == Cardinality(batch) = BatchSize
  <2>1. full \in BOOLEAN
    OBVIOUS
  <2> HIDE DEF full
  <2>2. s = At("status", last, batch, full, FALSE, 0)
    BY DEF full
  <2>3. QED
    BY <1>5, <1>6, <2>1, <2>2 DEF At, Streams
<1>8. stream' = [stream EXCEPT ![c] = s]
  BY <1>2 DEF Goto
<1> HIDE DEF s
<1>9. \A n \in Committed : n \in Nat
  BY Values DEF Sequences
<1>10. \A m \in batch : m \in Committed /\ last < m
  BY <1>3, <1>4, <1>6, <1>9
<1>11. \A m \in batch, n \in Committed : last < n /\ n <= m => n \in batch
  BY <1>3, <1>4, <1>6, <1>9, <1>10
<1>12. Follows(s, received[c])
  BY <1>6, <1>7, <1>10, <1>11 DEF Follows
<1>13. Complete(s, received[c])
  BY <1>7 DEF Complete
<1>14. QED
  BY <1>1, <1>7, <1>8, <1>12, <1>13, Kept, Serving DEF IInv, Served

(* The status and the terminal event are read after the batch.               *)
LEMMA ReadMore ==
  ASSUME IInv, NEW c \in Clients, stream[c].pc \in {"status", "terminal"},
         NEW pc \in {"terminal", "send"}, NEW ended \in BOOLEAN, NEW terminal \in 0 .. MaxEvents,
         terminal # 0 => terminal \in Finals,
         Goto(c, At(pc, stream[c].last, stream[c].batch, stream[c].full, ended, terminal)),
         Reads, received' = received
  PROVE  IInv'
<1> DEFINE s == At(pc, stream[c].last, stream[c].batch, stream[c].full, ended, terminal)
<1>1. /\ stream[c].last \in 0 .. MaxEvents /\ stream[c].batch \in SUBSET Sequences
      /\ stream[c].full \in BOOLEAN
  BY Standing
<1>2. /\ s \in Streams /\ s.pc = pc /\ s.last = stream[c].last /\ s.batch = stream[c].batch
      /\ s.terminal = terminal
  BY <1>1, Server
<1>3. stream' = [stream EXCEPT ![c] = s]
  BY DEF Goto
<1> HIDE DEF s
<1>4. Follows(s, received[c])
  BY <1>2, Standing DEF Follows
<1>5. Complete(s, received[c])
  BY <1>2 DEF Complete
<1>6. QED
  BY <1>2, <1>3, <1>4, <1>5, Kept, Serving DEF IInv, Served

LEMMA ReadKept ==
  ASSUME IInv, NEW c \in Clients, ReadStatus(c) \/ ReadTerminal(c)
  PROVE  IInv'
<1>1. CASE ReadStatus(c)
  <2>1. row.ended \in BOOLEAN
    BY DEF IInv, TypeOK
  <2>2. QED
    BY <1>1, <2>1, ReadMore DEF ReadStatus
<1>2. CASE ReadTerminal(c)
  <2> DEFINE m == MaxOf(Finals)
  <2>1. m \in 0 .. MaxEvents /\ (Finals # {} => m \in Finals) /\ (Finals = {} => m = 0)
    BY Values, MaxIs DEF MaxOf
  <2>2. /\ Goto(c, At("send", stream[c].last, stream[c].batch, stream[c].full, stream[c].ended, m))
        /\ stream[c].pc = "terminal" /\ Reads /\ received' = received
    BY <1>2 DEF ReadTerminal
  <2>3. stream[c].ended \in BOOLEAN
    BY <2>2, Standing
  <2> HIDE DEF m
  <2>4. QED
    BY <2>1, <2>2, <2>3, ReadMore
<1>3. QED
  BY <1>1, <1>2
LEMMA SendKept ==
  ASSUME IInv, NEW c \in Clients, Send(c)
  PROVE  IInv'
<1> DEFINE n == Min(stream[c].batch)  sent == received[c] \cup {n}
           pc == IF journal[n] = "final" THEN "closed" ELSE "send"
           rest == stream[c].batch \ {n}
           s == At(pc, n, rest, stream[c].full, stream[c].ended, stream[c].terminal)
<1>1. stream[c].pc = "send" /\ stream[c].batch # {} /\ Reads
  BY DEF Send
<1>2. received' = [received EXCEPT ![c] = sent] /\ stream' = [stream EXCEPT ![c] = s]
  BY DEF Send, Goto
<1>3. /\ stream[c].batch \in SUBSET Sequences /\ stream[c].full \in BOOLEAN
      /\ stream[c].ended \in BOOLEAN /\ stream[c].terminal \in 0 .. MaxEvents
      /\ stream[c].last \in 0 .. MaxEvents
      /\ received[c] = {m \in Committed : m <= stream[c].last}
      /\ stream[c].batch \subseteq Committed
      /\ \A m \in stream[c].batch : stream[c].last < m
      /\ \A m \in stream[c].batch, k \in Committed :
           stream[c].last < k /\ k <= m => k \in stream[c].batch
      /\ stream[c].terminal # 0 => stream[c].terminal \in Finals
  BY <1>1, Standing
<1>4. n \in stream[c].batch /\ \A m \in stream[c].batch : n <= m
  BY <1>1, <1>3, MinIs
<1>5. n \in Committed /\ n \in Sequences /\ n \in 0 .. MaxEvents /\ \A m \in Committed : m \in Nat
  BY <1>3, <1>4, Values DEF Sequences
<1>6. pc \in {"closed", "send"} /\ (pc = "closed" => n \in Finals)
  BY <1>5 DEF Finals
<1>7. rest \in SUBSET Sequences /\ sent \in SUBSET Sequences
  BY <1>3, <1>5, Values
<1> HIDE DEF n, pc
<1>8. /\ s \in Streams /\ s.pc = pc /\ s.last = n /\ s.batch = rest
      /\ s.terminal = stream[c].terminal
  BY <1>3, <1>5, <1>6, <1>7 DEF At, Streams
<1> HIDE DEF s
<1> DEFINE last == stream[c].last  batch == stream[c].batch
<1>a. /\ received[c] = {m \in Committed : m <= last} /\ batch \subseteq Committed
      /\ last \in Nat /\ n \in Nat /\ n \in batch /\ last < n
      /\ \A m \in Committed : m \in Nat
  BY <1>3, <1>4, <1>5
<1>b. /\ \A m \in batch : n <= m
      /\ \A m \in batch, k \in Committed : last < k /\ k <= m => k \in batch
  BY <1>3, <1>4
<1>c. sent = received[c] \cup {n} /\ rest = batch \ {n}
  OBVIOUS
<1> HIDE DEF sent, rest, last, batch
<1>9. sent = {m \in Committed : m <= n}
  <2>1. ASSUME NEW m \in Committed PROVE m <= n <=> m <= last \/ m = n
    <3>1. CASE last < m
      <4>1. m <= n => m \in batch
        BY <1>a, <1>b, <3>1
      <4>2. QED
        BY <1>a, <1>b, <3>1, <4>1
    <3>2. CASE ~(last < m)
      BY <1>a, <3>2
    <3>3. QED
      BY <3>1, <3>2
  <2>2. QED
    BY <1>a, <1>c, <2>1
<1>10. Follows(s, sent)
  <2>1. \A m \in rest : m \in Committed /\ n < m
    BY <1>a, <1>b, <1>c
  <2>2. ASSUME NEW m \in rest, NEW k \in Committed, n < k, k <= m PROVE k \in rest
    <3>1. last < k /\ k # n
      BY <1>a, <2>2
    <3>2. k \in batch
      BY <1>b, <1>c, <2>2, <3>1
    <3>3. QED
      BY <1>c, <3>1, <3>2
  <2>3. n \in sent
    BY <1>c
  <2>4. QED
    BY <1>3, <1>8, <1>9, <2>1, <2>2, <2>3 DEF Follows
<1>11. Gapless(sent)
  <2>1. ASSUME NEW k \in sent, NEW m \in Committed, m <= k PROVE m \in sent
    <3>1. m \in Nat /\ k \in Nat /\ n \in Nat /\ k <= n
      BY <1>5, <1>9
    <3>2. m <= n
      BY <2>1, <3>1
    <3>3. QED
      BY <1>9, <3>2
  <2>2. sent \subseteq Committed
    BY <1>9
  <2>3. QED
    BY <2>1, <2>2 DEF Gapless
<1>12. Complete(s, sent)
  BY <1>6, <1>8, <1>9 DEF Complete, IInv, Settled
<1>13. QED
  BY <1>1, <1>2, <1>7, <1>8, <1>10, <1>11, <1>12, Serving

LEMMA PollKept ==
  ASSUME IInv, NEW c \in Clients, Poll(c)
  PROVE  IInv'
<1> DEFINE s == At(After(c), stream[c].last, {}, FALSE, FALSE, 0)
<1>1. stream[c].pc = "send" /\ stream[c].batch = {} /\ Reads /\ received' = received
  BY DEF Poll
<1>2. /\ stream[c].last \in 0 .. MaxEvents /\ stream[c].last \in received[c] \cup {0}
      /\ received[c] = {n \in Committed : n <= stream[c].last}
      /\ stream[c].terminal # 0 => stream[c].terminal \in Finals
  BY <1>1, Standing
<1>3. After(c) \in {"read", "closed", "fallback"}
  BY DEF After
<1>4. After(c) = "closed" => Passed(c)
  BY DEF After
<1>5. stream' = [stream EXCEPT ![c] = s]
  BY DEF Poll, Goto
<1>6. s \in Streams /\ s.pc = After(c) /\ s.last = stream[c].last /\ s.batch = {} /\ s.terminal = 0
  BY <1>2, <1>3 DEF At, Streams
<1> HIDE DEF s
<1>7. Follows(s, received[c])
  BY <1>2, <1>6 DEF Follows
<1>8. Complete(s, received[c])
  <2>1. SUFFICES ASSUME Passed(c) PROVE received[c] = Committed /\ Finals # {}
    BY <1>4, <1>6 DEF Complete
  <2>2. stream[c].terminal \in Finals /\ stream[c].terminal <= stream[c].last
    BY <1>2, <2>1 DEF Passed
  <2> DEFINE m == stream[c].terminal  last == stream[c].last
  <2>3. \A n \in Committed : n <= m
    BY <2>2 DEF IInv, Settled
  <2>4. m \in Committed /\ m <= last /\ last \in Nat /\ received[c] = {n \in Committed : n <= last}
    BY <1>2, <2>2, Values
  <2>5. \A n \in Committed : n \in Nat
    BY Values DEF Sequences
  <2> HIDE DEF m, last
  <2>6. \A n \in Committed : n <= last
    BY <2>3, <2>4, <2>5
  <2>7. QED
    BY <2>2, <2>4, <2>6
<1>9. QED
  BY <1>1, <1>5, <1>6, <1>7, <1>8, Kept, Serving DEF IInv, Served

LEMMA NextInv == IInv /\ [Next]_vars => IInv'
<1>1. SUFFICES ASSUME IInv, [Next]_vars PROVE IInv'
  OBVIOUS
<1>2. CASE UNCHANGED vars
  <2>1. UNCHANGED <<row, journal, tx, stream, received>>
    BY <1>2 DEF vars
  <2>2. Committed' = Committed /\ Finals' = Finals
    BY <2>1 DEF Committed, Finals
  <2>3. QED
    BY <1>1, <2>1, <2>2 DEF IInv, TypeOK, NoConflict, Settled, Served, Follows, Gapless, Complete
<1>3. ASSUME NEW w \in Writers, Write(w) PROVE IInv'
  BY <1>1, <1>3, WriteKept
<1>4. ASSUME NEW c \in Clients, Connect(c) \/ Disconnect(c) \/ Serve(c) PROVE IInv'
  BY <1>1, <1>4, ConnectKept, DisconnectKept, ReadBatchKept, ReadKept, SendKept, PollKept
     DEF Serve
<1>5. QED
  BY <1>1, <1>2, <1>3, <1>4 DEF Next

LEMMA Invariance == Spec => []IInv
<1>1. Init => IInv
  BY InitInv
<1>2. IInv /\ [Next]_vars => IInv'
  BY NextInv
<1>3. QED
  BY <1>1, <1>2, PTL DEF Spec
-----------------------------------------------------------------------------
(* Every row, event, transaction, stream and client keeps its type, and one  *)
(* writer at a time holds the row.                                           *)
THEOREM TypeCorrect == Spec => []TypeOK
<1>1. IInv => TypeOK
  BY DEF IInv
<1>2. QED
  BY <1>1, Invariance, PTL

(* No writer meets the unique key of a sequence number, whatever drift of    *)
(* the counter it found (_append_runtime_event_locked).                      *)
THEOREM NumbersFresh == Spec => []NoConflict
<1>1. IInv => NoConflict
  BY DEF IInv
<1>2. QED
  BY <1>1, Invariance, PTL

(* Across batches, polls and reconnections, a client has received exactly    *)
(* the committed events up to its cursor (api/runtime.py).                   *)
THEOREM PrefixHolds == Spec => []PrefixReceived
<1>1. IInv => PrefixReceived
  BY CursorIs DEF PrefixReceived
<1>2. QED
  BY <1>1, Invariance, PTL

(* A stream that closed has sent every event, the terminal one last.         *)
THEOREM ClosedHolds == Spec => []ClosedIsComplete
<1>1. IInv => ClosedIsComplete
  <2>1. SUFFICES ASSUME IInv, NEW c \in Clients, stream[c].pc = "closed"
                 PROVE  received[c] = Committed /\ Finals = {MaxOf(Committed)}
    BY DEF ClosedIsComplete
  <2> DEFINE top == MaxOf(Committed)
  <2>2. received[c] = Committed /\ Finals # {}
    BY <2>1 DEF IInv, Served, Complete
  <2>3. PICK m \in Finals : TRUE
    BY <2>2
  <2>4. top \in Committed /\ \A n \in Committed : n <= top /\ n \in Nat
    BY <2>3, Values, MaxIs DEF Sequences
  <2>5. \A k \in Finals, n \in Committed : n <= k
    BY <2>1 DEF IInv, Settled
  <2> HIDE DEF top
  <2>6. \A k \in Finals : k = top
    BY <2>4, <2>5, Values
  <2>7. Finals = {top}
    BY <2>3, <2>6
  <2>8. QED
    BY <2>2, <2>7 DEF top
<1>2. QED
  BY <1>1, Invariance, PTL
===============================================================================
