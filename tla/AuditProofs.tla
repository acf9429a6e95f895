------------------------------- MODULE AuditProofs -------------------------------
(***************************************************************************)
(* Theorems about AuditChain, for any number of sessions and appends.      *)
(***************************************************************************)
EXTENDS AuditChain, WellFoundedInduction, TLAPS

LEMMA LeastNat ==
  ASSUME NEW S \in SUBSET Nat, S # {}
  PROVE  \E b \in S : \A d \in S : b <= d
<1> DEFINE Less == OpToRel(<, Nat)
<1>1. IsWellFoundedOn(Less, Nat)
  BY NatLessThanWellFounded, Zenon
<1>2. Less = {p \in Nat \X Nat : p[1] < p[2]}
  BY DEF OpToRel
<1> HIDE DEF Less
<1>3. PICK b \in S : \A d \in S : <<d, b>> \notin Less
  BY <1>1, WFMin
<1>4. \A d \in S : <<d, b>> \in Nat \X Nat /\ <<d, b>>[1] = d /\ <<d, b>>[2] = b
  OBVIOUS
<1>5. \A d \in S : ~(d < b)
  BY <1>2, <1>3, <1>4
<1>6. QED
  BY <1>5

USE RowAssumption, WriterAssumption

(* The query returns the last row it sees. *)
LEMMA LastIs ==
  ASSUME NEW S \in SUBSET Ids
  PROVE  IsLast(S, Last(S))
<1> DEFINE Bounds == {n \in Nat : \A i \in S : i <= n}
<1>1. MaxRows \in Bounds
  BY DEF Ids
<1>2. PICK b \in Bounds : \A d \in Bounds : b <= d
  BY <1>1, LeastNat
<1>3. b \in S \cup {0}
  <2>1. SUFFICES ASSUME b \notin S, b # 0 PROVE FALSE
    OBVIOUS
  <2>2. b - 1 \in Nat /\ \A i \in S : i \in Nat /\ i <= b /\ i # b
    BY <1>2, <2>1 DEF Ids
  <2>3. b - 1 \in Bounds
    BY <2>2
  <2>4. QED
    BY <1>2, <2>3
<1>4. IsLast(S, b)
  BY <1>2, <1>3 DEF IsLast
<1>5. QED
  BY <1>3, <1>4 DEF Last
-----------------------------------------------------------------------------
(* A session that has no transaction open holds nothing. *)
Closed == \A w \in Writers :
  w \notin open => pending[w] = <<>> /\ want[w] = 0 /\ Own(w) = {} /\ \A i \in Ids : lock[i] # w

(* Each row names one that its session could see, and a lower one. *)
Linked == \A i \in Ids : row[i].state # "NONE" =>
  /\ row[i].by \in Writers /\ row[i].previous < i
  /\ \A w \in Writers : row[i].by = w => row[i].previous \in Visible(w) \cup {0}
  /\ row[i].state = "COMMITTED" => row[i].previous \in Committed \cup {0}

(* So do the events that are not flushed yet. *)
Remembered == \A w \in Writers : \A n \in DOMAIN pending[w] : pending[w][n] \in Visible(w) \cup {0}

(* A session waits for rows that others committed and locks what it sees. *)
Locked == /\ \A w \in Writers : want[w] # 0 => want[w] \in Committed
          /\ \A i \in Ids : \A w \in Writers : lock[i] = w => i \in Visible(w)

IInv == TypeOK /\ Closed /\ Linked /\ Remembered /\ Locked

LEMMA InitInv == Init => IInv
<1> SUFFICES ASSUME Init PROVE IInv
  OBVIOUS
<1>1. \A w \in Writers : \A n \in DOMAIN pending[w] : FALSE
  <2>1. \A n \in DOMAIN <<>> : FALSE
    OBVIOUS
  <2>2. QED
    BY <2>1 DEF Init
<1>2. \A i \in Ids : row[i].state = "NONE" /\ lock[i] \notin Writers
  BY DEF Init, NoRow
<1>3. TypeOK
  BY DEF Init, TypeOK, Rows, NoRow, Ids
<1>4. Remembered
  BY <1>1 DEF Remembered
<1>5. QED
  BY <1>2, <1>3, <1>4 DEF Init, IInv, Closed, Linked, Locked, Own

LEMMA VisibleIds == \A w : Visible(w) \in SUBSET Ids
BY DEF Visible, Committed, Own

(* An event is added with the hash of a row its session sees. *)
LEMMA ChainedKept ==
  ASSUME IInv, NEW w \in Writers, w \in open', open \subseteq open', open' \subseteq open \cup {w},
         NEW last \in Visible(w) \cup {0}, Free(w, last), Chained(w, last), UNCHANGED row
  PROVE  /\ pending' \in [Writers -> Seq(0 .. MaxRows)] /\ lock' \in [Ids -> Writers \cup {Nobody}]
         /\ Remembered'
         /\ \A i \in Ids : \A v \in Writers : lock'[i] = v => i \in Visible(v)'
         /\ \A v \in Writers : v # w => pending'[v] = pending[v] /\ \A i \in Ids : lock'[i] = v => lock[i] = v
<1>1. last \in 0 .. MaxRows /\ pending[w] \in Seq(0 .. MaxRows)
  BY VisibleIds DEF IInv, TypeOK, Ids
<1>2. Append(pending[w], last) \in Seq(0 .. MaxRows)
  BY <1>1
<1>3. pending' = [pending EXCEPT ![w] = Append(pending[w], last)]
  BY DEF Chained
<1>4. pending' \in [Writers -> Seq(0 .. MaxRows)]
  BY <1>2, <1>3 DEF IInv, TypeOK
<1>5. lock' \in [Ids -> Writers \cup {Nobody}]
  BY DEF Chained, IInv, TypeOK
<1>6. \A v \in Writers : Visible(v)' = Visible(v)
  BY DEF Visible, Committed, Own
<1>7. \A v \in Writers : v # w => pending'[v] = pending[v]
  BY <1>3 DEF IInv, TypeOK
<1>8. \A n \in DOMAIN pending'[w] : pending'[w][n] \in Visible(w) \cup {0}
  <2>1. pending'[w] = Append(pending[w], last)
    BY <1>3 DEF IInv, TypeOK
  <2>2. SUFFICES ASSUME NEW n \in DOMAIN Append(pending[w], last)
                 PROVE  Append(pending[w], last)[n] \in Visible(w) \cup {0}
    BY <2>1
  <2>3. CASE n = Len(pending[w]) + 1
    BY <1>1, <2>3
  <2>4. CASE n # Len(pending[w]) + 1
    <3>1. n \in DOMAIN pending[w] /\ Append(pending[w], last)[n] = pending[w][n]
      BY <1>1, <2>2, <2>4
    <3>2. QED
      BY <3>1 DEF IInv, Remembered
  <2>5. QED
    BY <2>3, <2>4
<1>9. Remembered'
  BY <1>6, <1>7, <1>8 DEF IInv, Remembered
<1>10. \A i \in Ids : \A v \in Writers : lock'[i] = v => i \in Visible(v)'
  BY <1>6 DEF Chained, IInv, Locked
<1>11. \A v \in Writers : v # w => \A i \in Ids : lock'[i] = v => lock[i] = v
  BY DEF Chained
<1>12. QED
  BY <1>4, <1>5, <1>7, <1>9, <1>10, <1>11

LEMMA AppendInv == ASSUME IInv, NEW w \in Writers, AppendEvent(w) PROVE IInv'
<1> DEFINE last == Last(Visible(w))
<1>1. last \in Visible(w) \cup {0}
  BY VisibleIds, LastIs DEF IsLast
<1>2. /\ UNCHANGED <<row, next>> /\ open' = open \cup {w} /\ want[w] = 0
      /\ appended' \in 0 .. MaxRows
  BY DEF AppendEvent, IInv, TypeOK
<1>3. Committed' = Committed /\ \A v \in Writers : Visible(v)' = Visible(v) /\ Own(v)' = Own(v)
  BY <1>2 DEF Visible, Committed, Own
<1> HIDE DEF last
<1>5. CASE Free(w, last)
  <2>1. Chained(w, last) /\ UNCHANGED want
    BY <1>5 DEF AppendEvent, last
  <2>2. /\ pending' \in [Writers -> Seq(0 .. MaxRows)] /\ lock' \in [Ids -> Writers \cup {Nobody}]
        /\ Remembered'
        /\ \A i \in Ids : \A v \in Writers : lock'[i] = v => i \in Visible(v)'
        /\ \A v \in Writers : v # w => pending'[v] = pending[v] /\ \A i \in Ids : lock'[i] = v => lock[i] = v
    BY <1>1, <1>2, <1>5, <2>1, ChainedKept
  <2>3. TypeOK'
    BY <1>2, <2>1, <2>2 DEF IInv, TypeOK
  <2>4. Closed'
    BY <1>2, <1>3, <2>1, <2>2 DEF IInv, Closed
  <2>5. Linked'
    BY <1>2, <1>3 DEF IInv, Linked
  <2>6. Locked'
    BY <1>3, <2>1, <2>2 DEF IInv, Locked
  <2>7. QED
    BY <2>2, <2>3, <2>4, <2>5, <2>6 DEF IInv
<1>6. CASE ~Free(w, last)
  <2>1. want' = [want EXCEPT ![w] = last] /\ UNCHANGED <<pending, lock>>
    BY <1>6 DEF AppendEvent, last
  <2>2. last \in Ids /\ last \in Committed
    <3>1. last # 0 /\ lock[last] \notin {Nobody, w} /\ last \in Ids
      BY <1>1, <1>6, VisibleIds DEF Free
    <3>2. lock[last] \in Writers /\ last \in Visible(lock[last])
      BY <3>1 DEF IInv, TypeOK, Locked
    <3>3. QED
      BY <1>1, <3>1, <3>2 DEF Visible, Own
  <2>3. TypeOK'
    BY <1>2, <2>1, <2>2 DEF IInv, TypeOK, Ids
  <2>4. \A v \in Writers : v # w => want'[v] = want[v]
    BY <2>1 DEF IInv, TypeOK
  <2>5. want'[w] = last
    BY <2>1 DEF IInv, TypeOK
  <2>6. Closed'
    BY <1>2, <1>3, <2>1, <2>4 DEF IInv, Closed
  <2>7. Linked'
    BY <1>2, <1>3 DEF IInv, Linked
  <2>8. Remembered'
    BY <1>3, <2>1 DEF IInv, Remembered
  <2>9. Locked'
    BY <1>3, <2>1, <2>2, <2>4, <2>5 DEF IInv, Locked
  <2>10. QED
    BY <2>3, <2>6, <2>7, <2>8, <2>9 DEF IInv
<1>7. QED
  BY <1>5, <1>6

LEMMA GrantedInv == ASSUME IInv, NEW w \in Writers, Granted(w) PROVE IInv'
<1>1. /\ want[w] # 0 /\ want[w] \in Committed /\ lock[want[w]] = Nobody /\ w \in open
      /\ Chained(w, want[w]) /\ want' = [want EXCEPT ![w] = 0]
      /\ UNCHANGED <<open, row, next, appended>>
  BY DEF Granted, IInv, Locked, Closed
<1>2. want[w] \in Visible(w) \cup {0} /\ Free(w, want[w])
  BY <1>1 DEF Visible, Free
<1>3. Committed' = Committed /\ \A v \in Writers : Visible(v)' = Visible(v) /\ Own(v)' = Own(v)
  BY <1>1 DEF Visible, Committed, Own
<1>4. /\ pending' \in [Writers -> Seq(0 .. MaxRows)] /\ lock' \in [Ids -> Writers \cup {Nobody}]
      /\ Remembered'
      /\ \A i \in Ids : \A v \in Writers : lock'[i] = v => i \in Visible(v)'
      /\ \A v \in Writers : v # w => pending'[v] = pending[v] /\ \A i \in Ids : lock'[i] = v => lock[i] = v
  BY <1>1, <1>2, ChainedKept
<1>5. want' \in [Writers -> 0 .. MaxRows] /\ \A v \in Writers : want'[v] # 0 => want'[v] = want[v]
  BY <1>1 DEF IInv, TypeOK
<1>6. TypeOK'
  BY <1>1, <1>4, <1>5 DEF IInv, TypeOK
<1>7. Closed'
  BY <1>1, <1>3, <1>4, <1>5 DEF IInv, Closed
<1>8. Linked' /\ Locked'
  BY <1>1, <1>3, <1>4, <1>5 DEF IInv, Linked, Locked
<1>9. QED
  BY <1>4, <1>6, <1>7, <1>8 DEF IInv
-----------------------------------------------------------------------------
New(w) == {i \in Ids : i \in next .. next + Len(pending[w]) - 1}

(* The rows after an insert, in terms of those before. *)
LEMMA InsertedRows ==
  ASSUME IInv, NEW w \in Writers, NEW st \in {"OPEN", "COMMITTED"}, Inserted(w, st)
  PROVE  /\ row' \in [Ids -> Rows] /\ next' \in Nat \ {0} /\ next <= next'
         /\ \A i \in Ids : row'[i].state # "NONE" => i < next'
         /\ pending' \in [Writers -> Seq(0 .. MaxRows)]
         /\ pending'[w] = <<>> /\ \A v \in Writers : v # w => pending'[v] = pending[v]
         /\ \A i \in New(w) : /\ row[i].state = "NONE" /\ row'[i].state = st /\ row'[i].by = w
                              /\ i - next + 1 \in DOMAIN pending[w] /\ row'[i].previous = pending[w][i - next + 1]
         /\ \A i \in Own(w) : /\ row'[i].state = st /\ row'[i].by = w
                              /\ row'[i].previous = row[i].previous
         /\ \A i \in Ids : i \notin Own(w) /\ i \notin New(w) => row'[i] = row[i]
<1>1. /\ next \in Nat \ {0} /\ pending[w] \in Seq(0 .. MaxRows) /\ Len(pending[w]) \in Nat
      /\ DOMAIN pending[w] = 1 .. Len(pending[w])
  BY DEF IInv, TypeOK
<1>2. next' = next + Len(pending[w])
  BY DEF Inserted
<1>3. next' \in Nat \ {0} /\ next <= next'
  BY <1>1, <1>2
<1>4. pending' \in [Writers -> Seq(0 .. MaxRows)] /\ pending'[w] = <<>>
      /\ \A v \in Writers : v # w => pending'[v] = pending[v]
  BY DEF Inserted, IInv, TypeOK
<1>5. ASSUME NEW i \in New(w)
      PROVE  /\ i \in Ids /\ row[i].state = "NONE"
             /\ row'[i] = [state |-> st, by |-> w, previous |-> pending[w][i - next + 1]]
             /\ i - next + 1 \in DOMAIN pending[w] /\ i < next'
             /\ row'[i].state = st /\ row'[i].by = w /\ row'[i].previous = pending[w][i - next + 1]
  <2>1. i \in Ids /\ i \in next .. next + Len(pending[w]) - 1
    BY DEF New
  <2>2. i - next + 1 \in 1 .. Len(pending[w]) /\ ~(i < next) /\ i < next'
    BY <1>1, <1>2, <2>1 DEF Ids
  <2>3. row[i].state = "NONE"
    BY <2>1, <2>2 DEF IInv, TypeOK
  <2>4. row'[i] = [state |-> st, by |-> w, previous |-> pending[w][i - next + 1]]
    BY <2>1 DEF Inserted
  <2>5. QED
    BY <1>1, <2>1, <2>2, <2>3, <2>4
<1>6. ASSUME NEW i \in Own(w)
      PROVE  /\ row'[i] = [state |-> st, by |-> w, previous |-> row[i].previous]
             /\ row'[i].state = st /\ row'[i].by = w /\ row'[i].previous = row[i].previous
  <2>1. i \notin New(w) /\ i \in Ids
    BY <1>5 DEF Own
  <2>2. row'[i] = [state |-> st, by |-> w, previous |-> row[i].previous]
    BY <2>1 DEF Inserted, Own, New
  <2>3. QED
    BY <2>2
<1>7. ASSUME NEW i \in Ids, i \notin Own(w), i \notin New(w)
      PROVE  row'[i] = row[i]
  BY <1>7 DEF Inserted, Own, New
<1>8. \A i \in Ids : row'[i] \in Rows
  <2>1. TAKE i \in Ids
  <2>2. row[i] \in Rows
    BY DEF IInv, TypeOK
  <2>3. CASE i \in New(w)
    <3> DEFINE n == i - next + 1
    <3>0. n \in DOMAIN pending[w]
      BY <1>5, <2>3
    <3> HIDE DEF n
    <3>a. pending[w][n] \in 0 .. MaxRows
      BY <1>1, <3>0
    <3>1. pending[w][i - next + 1] \in 0 .. MaxRows
      BY <3>a DEF n
    <3>2. st \in {"NONE", "OPEN", "COMMITTED"} /\ w \in Writers \cup {Nobody}
      OBVIOUS
    <3>3. [state |-> st, by |-> w, previous |-> pending[w][i - next + 1]] \in Rows
      BY <3>1, <3>2 DEF Rows
    <3>4. QED
      BY <1>5, <2>3, <3>3
  <2>4. CASE i \in Own(w)
    <3>1. row[i].previous \in 0 .. MaxRows
      BY <2>2 DEF Rows
    <3>2. st \in {"NONE", "OPEN", "COMMITTED"} /\ w \in Writers \cup {Nobody}
      OBVIOUS
    <3>3. [state |-> st, by |-> w, previous |-> row[i].previous] \in Rows
      BY <3>1, <3>2 DEF Rows
    <3>4. QED
      BY <1>6, <2>4, <3>3
  <2>5. QED
    BY <1>7, <2>2, <2>3, <2>4
<1>9. row' \in [Ids -> Rows]
  BY <1>8 DEF Inserted
<1>10. \A i \in Ids : row'[i].state # "NONE" => i < next'
  <2>1. ASSUME NEW i \in Ids, row'[i].state # "NONE" PROVE i < next'
    <3>1. CASE i \in New(w)
      BY <1>5, <3>1
    <3>2. CASE i \notin New(w)
      <4>1. row[i].state # "NONE"
        BY <1>7, <2>1, <3>2 DEF Own
      <4>2. i < next
        BY <4>1 DEF IInv, TypeOK
      <4>3. QED
        BY <1>1, <1>3, <4>2 DEF Ids
    <3>3. QED
      BY <3>1, <3>2
  <2>2. QED
    BY <2>1
<1>11. \A i \in New(w) : /\ row[i].state = "NONE" /\ row'[i].state = st /\ row'[i].by = w
                         /\ i - next + 1 \in DOMAIN pending[w] /\ row'[i].previous = pending[w][i - next + 1]
  BY <1>5
<1>12. \A i \in Own(w) : /\ row'[i].state = st /\ row'[i].by = w
                         /\ row'[i].previous = row[i].previous
  BY <1>6
<1>13. QED
  BY <1>3, <1>4, <1>7, <1>9, <1>10, <1>11, <1>12

(* An insert takes nothing from what a session sees. *)
LEMMA InsertedVisible ==
  ASSUME IInv, NEW w \in Writers, NEW st \in {"OPEN", "COMMITTED"}, Inserted(w, st)
  PROVE  /\ Committed \subseteq Committed'
         /\ \A v \in Writers : Visible(v) \subseteq Visible(v)' /\ (v # w => Own(v)' = Own(v))
         /\ Own(w)' = IF st = "OPEN" THEN Own(w) \cup New(w) ELSE {}
         /\ Committed' = IF st = "OPEN" THEN Committed ELSE Committed \cup Own(w) \cup New(w)
<1>1. /\ \A i \in New(w) : row[i].state = "NONE" /\ row'[i].state = st /\ row'[i].by = w
      /\ \A i \in Own(w) : row'[i].state = st /\ row'[i].by = w
      /\ \A i \in Ids : i \notin Own(w) /\ i \notin New(w) => row'[i] = row[i]
  BY InsertedRows
<1>2. Own(w)' = IF st = "OPEN" THEN Own(w) \cup New(w) ELSE {}
  BY <1>1 DEF Own, New
<1>3. Committed' = IF st = "OPEN" THEN Committed ELSE Committed \cup Own(w) \cup New(w)
  BY <1>1 DEF Own, New, Committed
<1>4. \A v \in Writers : v # w => Own(v)' = Own(v)
  BY <1>1 DEF Own, New
<1>5. QED
  BY <1>2, <1>3, <1>4 DEF Visible

LEMMA InsertedLinked ==
  ASSUME IInv, NEW w \in Writers, NEW st \in {"OPEN", "COMMITTED"}, Inserted(w, st)
  PROVE  Linked' /\ Remembered'
<1>1. /\ \A i \in New(w) : /\ row[i].state = "NONE" /\ row'[i].state = st /\ row'[i].by = w
                           /\ i - next + 1 \in DOMAIN pending[w] /\ row'[i].previous = pending[w][i - next + 1]
      /\ \A i \in Own(w) : /\ row'[i].state = st /\ row'[i].by = w
                           /\ row'[i].previous = row[i].previous
      /\ \A i \in Ids : i \notin Own(w) /\ i \notin New(w) => row'[i] = row[i]
      /\ pending'[w] = <<>> /\ \A v \in Writers : v # w => pending'[v] = pending[v]
  BY InsertedRows
<1>2. /\ Committed \subseteq Committed'
      /\ \A v \in Writers : Visible(v) \subseteq Visible(v)'
      /\ st = "COMMITTED" => Visible(w) \subseteq Committed'
  BY InsertedVisible DEF Visible
<1>3. ASSUME NEW i \in New(w)
      PROVE  row'[i].previous < i /\ row'[i].previous \in Visible(w) \cup {0} /\ i \in Ids
  <2>1. PICK n \in DOMAIN pending[w] : row'[i].previous = pending[w][n]
    BY <1>1
  <2>2. row'[i].previous \in Visible(w) \cup {0}
    BY <2>1 DEF IInv, Remembered
  <2>3. i \in Ids /\ next <= i /\ next \in Nat \ {0}
    BY DEF New, Ids, IInv, TypeOK
  <2>4. \A j \in Visible(w) : j \in Nat /\ j < next
    BY DEF Visible, Committed, Own, IInv, TypeOK, Ids
  <2>5. QED
    BY <2>2, <2>3, <2>4 DEF Ids
<1>4. Linked'
  <2>1. SUFFICES ASSUME NEW i \in Ids, row'[i].state # "NONE"
                 PROVE  /\ row'[i].by \in Writers /\ row'[i].previous < i
                        /\ \A v \in Writers : row'[i].by = v => row'[i].previous \in Visible(v)' \cup {0}
                        /\ row'[i].state = "COMMITTED" => row'[i].previous \in Committed' \cup {0}
    BY DEF Linked
  <2>2. CASE i \in New(w)
    BY <1>1, <1>2, <1>3, <2>2
  <2>3. CASE i \in Own(w)
    <3>1. row[i].state = "OPEN" /\ row[i].by = w
      BY <2>3 DEF Own
    <3>2. row[i].previous < i /\ row[i].previous \in Visible(w) \cup {0}
      BY <3>1 DEF IInv, Linked
    <3>3. QED
      BY <1>1, <1>2, <2>3, <3>2
  <2>4. CASE i \notin New(w) /\ i \notin Own(w)
    <3>1. row'[i] = row[i]
      BY <1>1, <2>4
    <3>2. QED
      BY <1>2, <2>1, <3>1 DEF IInv, Linked
  <2>5. QED
    BY <2>2, <2>3, <2>4
<1>5. Remembered'
  BY <1>1, <1>2 DEF IInv, Remembered
<1>6. QED
  BY <1>4, <1>5

LEMMA FlushInv == ASSUME IInv, NEW w \in Writers, Flush(w) PROVE IInv'
<1>1. Inserted(w, "OPEN") /\ w \in open /\ UNCHANGED <<open, want, lock, appended>>
  BY DEF Flush, IInv, Closed
<1>2. TypeOK'
  BY <1>1, InsertedRows DEF IInv, TypeOK
<1>3. Linked' /\ Remembered'
  BY <1>1, InsertedLinked
<1>4. Closed'
  BY <1>1, InsertedRows, InsertedVisible DEF IInv, Closed
<1>5. Locked'
  BY <1>1, InsertedVisible DEF IInv, Locked
<1>6. QED
  BY <1>2, <1>3, <1>4, <1>5 DEF IInv

LEMMA UnlockedKept ==
  ASSUME IInv, NEW w \in Writers, Unlocked(w)
  PROVE  /\ lock' \in [Ids -> Writers \cup {Nobody}]
         /\ \A i \in Ids : lock'[i] # w /\ (lock'[i] # Nobody => lock'[i] = lock[i])
BY DEF Unlocked, IInv, TypeOK

LEMMA CommitInv == ASSUME IInv, NEW w \in Writers, Commit(w) PROVE IInv'
<1>1. /\ Inserted(w, "COMMITTED") /\ Unlocked(w) /\ open' = open \ {w} /\ want[w] = 0
      /\ UNCHANGED <<want, appended>>
  BY DEF Commit
<1>2. TypeOK'
  BY <1>1, InsertedRows, UnlockedKept DEF IInv, TypeOK
<1>3. Linked' /\ Remembered'
  BY <1>1, InsertedLinked
<1>4. /\ pending'[w] = <<>> /\ Own(w)' = {}
      /\ \A v \in Writers : v # w => pending'[v] = pending[v] /\ Own(v)' = Own(v)
  BY <1>1, InsertedRows, InsertedVisible
<1>5. Closed'
  BY <1>1, <1>4, UnlockedKept DEF IInv, Closed
<1>6. /\ Committed \subseteq Committed' /\ \A v \in Writers : Visible(v) \subseteq Visible(v)'
  BY <1>1, InsertedVisible
<1>7. Locked'
  BY <1>1, <1>6, UnlockedKept DEF IInv, Locked
<1>8. QED
  BY <1>2, <1>3, <1>5, <1>7 DEF IInv

LEMMA RollbackInv == ASSUME IInv, NEW w \in Writers, Rollback(w) PROVE IInv'
<1>1. /\ row' = [i \in Ids |-> IF i \in Own(w) THEN NoRow ELSE row[i]]
      /\ pending' = [pending EXCEPT ![w] = <<>>] /\ want' = [want EXCEPT ![w] = 0]
      /\ open' = open \ {w} /\ Unlocked(w) /\ UNCHANGED <<next, appended>>
  BY DEF Rollback
<1>2. /\ pending' \in [Writers -> Seq(0 .. MaxRows)] /\ want' \in [Writers -> 0 .. MaxRows]
      /\ pending'[w] = <<>> /\ want'[w] = 0
      /\ \A v \in Writers : v # w => pending'[v] = pending[v] /\ want'[v] = want[v]
  BY <1>1 DEF IInv, TypeOK
<1>3. /\ row' \in [Ids -> Rows] /\ \A i \in Ids : row'[i].state # "NONE" => row'[i] = row[i]
  BY <1>1 DEF IInv, TypeOK, Rows, NoRow
<1>4. TypeOK'
  BY <1>1, <1>2, <1>3, UnlockedKept DEF IInv, TypeOK
<1>5. Committed' = Committed /\ Own(w)' = {} /\ \A v \in Writers : v # w => Own(v)' = Own(v)
  BY <1>1 DEF Committed, Own, NoRow
<1>6. \A v \in Writers : v # w => Visible(v)' = Visible(v)
  BY <1>5 DEF Visible
<1>7. Closed'
  <2>1. ASSUME NEW v \in Writers, v \notin open'
        PROVE  pending'[v] = <<>> /\ want'[v] = 0 /\ Own(v)' = {} /\ \A i \in Ids : lock'[i] # v
    <3>1. CASE v = w
      BY <1>1, <1>2, <1>5, <3>1, UnlockedKept
    <3>2. CASE v # w
      <4>1. v \notin open
        BY <1>1, <2>1, <3>2
      <4>2. pending[v] = <<>> /\ want[v] = 0 /\ Own(v) = {} /\ \A i \in Ids : lock[i] # v
        BY <4>1 DEF IInv, Closed
      <4>3. \A i \in Ids : lock'[i] # v
        BY <1>1, <4>2, UnlockedKept
      <4>4. QED
        BY <1>2, <1>5, <3>2, <4>2, <4>3
    <3>3. QED
      BY <3>1, <3>2
  <2>2. QED
    BY <2>1 DEF Closed
<1>8. Linked'
  <2>1. SUFFICES ASSUME NEW i \in Ids, row'[i].state # "NONE"
                 PROVE  /\ row[i].by \in Writers /\ row[i].previous < i
                        /\ \A v \in Writers : row[i].by = v => row[i].previous \in Visible(v)' \cup {0}
                        /\ row[i].state = "COMMITTED" => row[i].previous \in Committed' \cup {0}
    BY <1>3 DEF Linked
  <2>2. row[i].state # "NONE" /\ i \notin Own(w)
    BY <1>1, <1>3, <2>1 DEF NoRow
  <2>3. row[i].state \in {"OPEN", "COMMITTED"}
    BY <2>2 DEF IInv, TypeOK, Rows
  <2>4. CASE row[i].state = "COMMITTED"
    BY <1>5, <2>2, <2>4 DEF IInv, Linked, Visible
  <2>5. CASE row[i].state = "OPEN"
    <3>1. row[i].by # w /\ row[i].by \in Writers
      BY <2>2, <2>5 DEF Own, IInv, Linked
    <3>2. QED
      BY <1>6, <2>2, <2>5, <3>1 DEF IInv, Linked
  <2>6. QED
    BY <2>3, <2>4, <2>5
<1>9. Remembered'
  <2>1. DOMAIN <<>> = {}
    OBVIOUS
  <2>2. QED
    BY <1>2, <1>6, <2>1 DEF IInv, Remembered
<1>10. Locked'
  BY <1>2, <1>5, <1>6, UnlockedKept, <1>1 DEF IInv, Locked
<1>11. QED
  BY <1>4, <1>7, <1>8, <1>9, <1>10 DEF IInv

LEMMA NextInv == IInv /\ [Next]_vars => IInv'
<1>1. ASSUME IInv, UNCHANGED vars PROVE IInv'
  BY <1>1 DEF IInv, TypeOK, Closed, Linked, Remembered, Locked, Visible, Committed, Own, vars
<1>2. QED
  BY <1>1, AppendInv, GrantedInv, FlushInv, CommitInv, RollbackInv DEF Next

LEMMA InvHolds == Spec => []IInv
BY InitInv, NextInv, PTL DEF Spec

(* Ids, predecessors and lock holders keep their types, and the next id is    *)
(* above all that are in use.                                                 *)
THEOREM TypeCorrect == Spec => []TypeOK
<1>1. IInv => TypeOK
  BY DEF IInv
<1>2. QED
  BY <1>1, InvHolds, PTL

(* The predecessor of a committed event is a committed event with a lower id, *)
(* whatever overlaps and whatever is rolled back.                             *)
THEOREM LinksHold == Spec => []LinksCommitted
<1>1. IInv => LinksCommitted
  BY DEF IInv, Linked, LinksCommitted, Committed
<1>2. QED
  BY <1>1, InvHolds, PTL
-----------------------------------------------------------------------------
(* Appends lock rows in ascending order, so that no two sessions wait for     *)
(* each other.                                                                *)
THEOREM LocksAscending == Spec => []LocksAscend
<1>1. Init => LocksAscend
  BY DEF Init, LocksAscend
<1>2. IInv /\ LocksAscend /\ [Next]_vars => LocksAscend'
  <2>1. ASSUME IInv, LocksAscend, NEW w \in Writers, AppendEvent(w) PROVE LocksAscend'
    <3> DEFINE last == Last(Visible(w))
    <3>1. IsLast(Visible(w), last)
      BY VisibleIds, LastIs
    <3>2. \A i \in Ids : lock[i] = w => i <= last
      BY <2>1, <3>1 DEF IsLast, IInv, Locked
    <3>3. want[w] = 0
      BY <2>1 DEF AppendEvent
    <3> HIDE DEF last
    <3>4. CASE Free(w, last)
      <4>1. UNCHANGED want /\ \A i \in Ids : lock'[i] = IF i = last THEN w ELSE lock[i]
        BY <2>1, <3>4 DEF AppendEvent, Chained, last
      <4>2. QED
        BY <2>1, <3>3, <4>1 DEF LocksAscend
    <3>5. CASE ~Free(w, last)
      <4>1. UNCHANGED lock /\ want' = [want EXCEPT ![w] = last]
        BY <2>1, <3>5 DEF AppendEvent, last
      <4>2. last \in Ids /\ lock[last] # w
        BY <3>1, <3>5, VisibleIds DEF Free, IsLast
      <4>3. \A i \in Ids : lock[i] = w => i < last
        BY <3>2, <4>2 DEF Ids
      <4>4. QED
        BY <2>1, <4>1, <4>3 DEF LocksAscend, IInv, TypeOK
    <3>6. QED
      BY <3>4, <3>5
  <2>2. ASSUME IInv, LocksAscend, NEW w \in Writers, Granted(w) PROVE LocksAscend'
    <3>1. /\ want' = [want EXCEPT ![w] = 0]
          /\ \A i \in Ids : lock'[i] = IF i = want[w] THEN w ELSE lock[i]
      BY <2>2 DEF Granted, Chained
    <3>2. QED
      BY <2>2, <3>1 DEF LocksAscend, IInv, TypeOK
  <2>3. ASSUME IInv, LocksAscend, NEW w \in Writers, Flush(w) PROVE LocksAscend'
    BY <2>3 DEF LocksAscend, Flush
  <2>4. ASSUME IInv, LocksAscend, NEW w \in Writers, Unlocked(w), UNCHANGED want PROVE LocksAscend'
    BY <2>4, UnlockedKept DEF LocksAscend
  <2>5. ASSUME IInv, LocksAscend, NEW w \in Writers, Rollback(w) PROVE LocksAscend'
    <3>1. want' = [want EXCEPT ![w] = 0] /\ \A i \in Ids : lock'[i] # w /\ (lock'[i] # Nobody => lock'[i] = lock[i])
      BY <2>5, UnlockedKept DEF Rollback
    <3>2. QED
      BY <2>5, <3>1 DEF LocksAscend, IInv, TypeOK
  <2>6. ASSUME LocksAscend, UNCHANGED vars PROVE LocksAscend'
    BY <2>6 DEF LocksAscend, vars
  <2>7. QED
    BY <2>1, <2>2, <2>3, <2>4, <2>5, <2>6 DEF Next, Commit
<1>3. QED
  BY <1>1, <1>2, InvHolds, PTL DEF Spec
=============================================================================
