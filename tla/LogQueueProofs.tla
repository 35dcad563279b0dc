--------------------------- MODULE LogQueueProofs ---------------------------
(***************************************************************************)
(* Theorems about LogQueue, for every number of threads and lines and every   *)
(* size of the buffers.                                                       *)
(***************************************************************************)
EXTENDS LogQueue, FiniteSetTheorems, SequenceTheorems, TLAPS

Slots == 0 .. Size - 1

\* The producer has reserved a slot: it is still to be counted; still to be stored.
Busy(p) == pc[p] \in {"load", "store", "count"}
Unstored(p) == pc[p] \in {"load", "store"}

\* The producer changes the buffer; the new one is there, and not open yet.
Changing(p) == pc[p] \in {"setup", "publish", "reset"}
Opening(p) == pc[p] \in {"publish", "reset"}

Full(b) == \A i \in Slots : slot[b][i] # NoLine

\* The slots of the current buffer that were reserved and counted.
Counted == {i \in Slots : i < windex /\ \A p \in Producers : Busy(p) => idx[p] # i}

\* The slots the popping thread has read.
Read(b, i) ==
  \/ b \in freed
  \/ rpc = "free" /\ b = queue[1]
  \/ rbuf # Null /\ b = rbuf /\ i < rindex

Types ==
  /\ windex \in Nat /\ wbuf \in Buffers /\ queue \in Seq(Buffers)
  /\ slot \in [Buffers -> [Slots -> LogLines \cup {NoLine}]]
  /\ count \in [Buffers -> Nat] /\ made \in Buffers /\ freed \subseteq Buffers
  /\ pc \in [Producers -> {"idle", "reserve", "spin", "load", "store", "count",
                           "setup", "publish", "reset"}]
  /\ seq \in [Producers -> 0 .. Lines] /\ idx \in [Producers -> Nat]
  /\ target \in [Producers -> Buffers \cup {Null}]
  /\ rbuf \in Buffers \cup {Null} /\ rindex \in Slots
  /\ file \in Seq(LogLines)

\* Slots are reserved once, and filled in the current buffer.
ReserveInv ==
  /\ wbuf = made
  /\ \A p \in Producers : Busy(p) => idx[p] \in Slots /\ idx[p] < windex
  /\ \A p, q \in Producers : Busy(p) /\ Busy(q) /\ idx[p] = idx[q] => p = q
  /\ \A p \in Producers : pc[p] \in {"store", "count"} => target[p] = wbuf
  /\ \A p \in Producers : pc[p] # "idle" => seq[p] >= 1

\* One producer changes the buffer, when all slots of it are counted and nobody can reserve one.
ChangeInv ==
  /\ \A p, q \in Producers : Changing(p) /\ Changing(q) => p = q
  /\ \A p \in Producers : Changing(p) => windex >= Size /\ \A q \in Producers : ~Busy(q)
  /\ (\A p \in Producers : ~Changing(p)) /\ wbuf \notin freed => count[wbuf] = Cardinality(Counted)
  /\ \A p \in Producers : Opening(p) => count[wbuf] = 0 /\ \A i \in Slots : slot[wbuf][i] = NoLine
  /\ \A b \in Buffers : b > made => count[b] = 0 /\ \A i \in Slots : slot[b][i] = NoLine

\* Which slots are filled.
SlotInv ==
  /\ \A i \in Slots : i >= windex => slot[wbuf][i] = NoLine
  /\ \A p \in Producers : Unstored(p) => slot[wbuf][idx[p]] = NoLine
  /\ (\A p \in Producers : ~Opening(p)) =>
       \A i \in Slots : i < windex =>
         slot[wbuf][i] # NoLine \/ \E p \in Producers : Unstored(p) /\ idx[p] = i
  /\ \A b \in Buffers : b < made => Full(b)

\* The buffers are queued, read and deleted in the order in which they are made.
QueueInv ==
  /\ \A i, j \in 1 .. Len(queue) : i < j => queue[i] < queue[j]
  /\ \A i \in 1 .. Len(queue) :
       /\ queue[i] <= made
       /\ queue[i] = made => \A p \in Producers : pc[p] # "publish"
       /\ \A b \in freed : b < queue[i]
  /\ \A b \in Buffers : b <= made =>
       \/ b \in freed \/ \E i \in 1 .. Len(queue) : b = queue[i]
       \/ b = made /\ \E p \in Producers : pc[p] = "publish"
  /\ \A b \in freed : b <= made /\ Full(b)

\* What the popping thread reads.
ReadInv ==
  /\ rbuf # Null => queue # <<>> /\ rbuf = queue[1] /\ rpc # "free"
                    /\ \A i \in Slots : i < rindex => slot[rbuf][i] # NoLine
  /\ rbuf = Null => rindex = 0
  /\ rpc = "free" => queue # <<>> /\ Full(queue[1])

\* What is stored is unread or in the file, and what is in the file was read.
FileInv ==
  /\ \A p \in Producers : \A n \in 1 .. Stored(p) :
       InFile(<<p, n>>) \/ \E b \in Buffers, i \in Slots : ~Read(b, i) /\ slot[b][i] = <<p, n>>
  /\ \A k \in 1 .. Len(file) : \E b \in Buffers, i \in Slots : Read(b, i) /\ slot[b][i] = file[k]

\* A thread's lines are in the slots in the order in which it logged them.
OrderInv ==
  /\ \A b \in Buffers, i \in Slots : slot[b][i] # NoLine => slot[b][i][2] <= Stored(slot[b][i][1])
  /\ \A b, c \in Buffers : \A i, j \in Slots :
       slot[b][i] # NoLine /\ slot[c][j] # NoLine /\ slot[b][i][1] = slot[c][j][1]
         /\ (b < c \/ (b = c /\ i < j))
         => slot[b][i][2] < slot[c][j][2]
  /\ \A p \in Producers : Unstored(p) =>
       \A i \in Slots : slot[wbuf][i] # NoLine /\ slot[wbuf][i][1] = p => i < idx[p]

\* The popping thread stops when there is nothing left.
DrainInv ==
  /\ draining => state = "SHUTDOWN"
  /\ rpc = "done" => draining
  /\ state = "SHUTDOWN" => \A p \in Producers : pc[p] = "idle" /\ seq[p] = Lines
  /\ rpc = "done" => \A b \in Buffers, i \in Slots : ~Read(b, i) => slot[b][i] = NoLine

LogInv ==
  /\ Types /\ ReserveInv /\ ChangeInv /\ SlotInv /\ QueueInv /\ ReadInv
  /\ FileInv /\ OrderInv /\ ThreadOrder /\ DrainInv

-----------------------------------------------------------------------------
(* Facts about the constants, and what each part of the invariant depends on. *)

\* The constants.
LEMMA LogConstants ==
  /\ Size \in Nat /\ Size >= 1 /\ 0 \in Slots /\ \A i \in Slots : i \in Nat /\ i < Size
  /\ \A b \in Buffers : b \in Nat /\ b # Null
  /\ 1 \in Buffers
BY LogQueueAssumption DEF Slots, Buffers, Null

\* A line is a pair of a thread and a number, and no empty slot.
LEMMA LineFacts ==
  /\ \A p \in Producers : \A n \in 1 .. Lines :
       <<p, n>> \in LogLines /\ <<p, n>> # NoLine /\ <<p, n>>[1] = p /\ <<p, n>>[2] = n
  /\ \A l \in LogLines : /\ l # NoLine /\ l[1] \in Producers /\ l[2] \in 1 .. Lines
                         /\ l = <<l[1], l[2]>>
<1>1. \A p, n : <<p, n>> # NoLine
  BY DEF NoLine
<1>2. \A l \in LogLines : l[1] \in Producers /\ l[2] \in 1 .. Lines /\ l = <<l[1], l[2]>>
  BY DEF LogLines
<1> QED
  BY <1>1, <1>2 DEF LogLines

\* The counted slots are finitely many.
LEMMA CountedFinite ==
  /\ IsFiniteSet(Slots) /\ Cardinality(Slots) = Size
  /\ Counted \subseteq Slots /\ IsFiniteSet(Counted) /\ Cardinality(Counted) \in Nat
<1>1. IsFiniteSet(Slots) /\ Cardinality(Slots) = Size
  <2>1. 0 \in Int /\ Size - 1 \in Int /\ ~(0 > Size - 1) /\ (Size - 1) - 0 + 1 = Size
    BY LogConstants
  <2> DEFINE n == Size - 1
  <2>2. IsFiniteSet(0 .. n) /\ Cardinality(0 .. n) = IF 0 > n THEN 0 ELSE n - 0 + 1
    <3> HIDE DEF n
    <3> QED
      BY <2>1, FS_Interval DEF n
  <2> QED
    BY <2>1, <2>2 DEF Slots
<1>2. Counted \subseteq Slots
  BY DEF Counted
<1> QED
  BY <1>1, <1>2, FS_Subset, FS_CardinalityType

\* Reserved slots, when no slot is reserved or counted.
LEMMA ReserveSame ==
  ASSUME ReserveInv, UNCHANGED <<wbuf, made, windex, idx>>,
         \A q \in Producers : /\ Busy(q)' => Busy(q)
                              /\ pc'[q] \in {"store", "count"} => target'[q] = wbuf
                              /\ pc'[q] # "idle" => seq'[q] >= 1
  PROVE  ReserveInv'
BY DEF ReserveInv

\* The change of buffers, when nothing is reserved, counted or changed.
LEMMA ChangeSame ==
  ASSUME ChangeInv, UNCHANGED <<windex, wbuf, count, slot, made, idx>>, freed \subseteq freed',
         \A q \in Producers : (Busy(q)' <=> Busy(q)) /\ (Changing(q)' <=> Changing(q))
                              /\ (Opening(q)' => Opening(q))
  PROVE  ChangeInv'
<1>1. Counted' = Counted
  BY DEF Counted
<1> QED
  BY <1>1 DEF ChangeInv

\* Filled slots, when nothing is reserved or stored and the buffer stays.
LEMMA SlotSame ==
  ASSUME SlotInv, UNCHANGED <<windex, wbuf, slot, made, idx>>,
         \A q \in Producers : (Unstored(q)' <=> Unstored(q)) /\ (Opening(q)' <=> Opening(q))
  PROVE  SlotInv'
BY DEF SlotInv, Full

\* The queue, when no buffer is made, queued or deleted.
LEMMA QueueSame ==
  ASSUME QueueInv, UNCHANGED <<queue, made, freed, slot>>,
         \A q \in Producers : pc'[q] = "publish" <=> pc[q] = "publish"
  PROVE  QueueInv'
BY DEF QueueInv, Full

\* The popping thread, while it does nothing and no slot changes.
LEMMA ReadSame ==
  ASSUME ReadInv, UNCHANGED <<rbuf, queue, rpc, rindex, slot>> PROVE ReadInv'
BY DEF ReadInv, Full

\* The file, when nothing is stored or read.
LEMMA FileSame ==
  ASSUME FileInv, UNCHANGED <<file, slot>>,
         \A b \in Buffers, i \in Slots : Read(b, i)' <=> Read(b, i),
         \A q \in Producers : Stored(q)' = Stored(q)
  PROVE  FileInv'
BY DEF FileInv, InFile

\* The order of the lines, when nothing is stored or reserved.
LEMMA OrderSame ==
  ASSUME Types, OrderInv, UNCHANGED <<slot, wbuf, idx>>,
         \A q \in Producers : Stored(q)' = Stored(q) /\ (Unstored(q)' => Unstored(q))
  PROVE  OrderInv'
<1>1. \A b \in Buffers, i \in Slots : slot[b][i] # NoLine => slot[b][i][1] \in Producers
  BY LineFacts DEF Types
<1> QED
  BY <1>1 DEF OrderInv

\* While a producer is in push, the logger is not shut down.
LEMMA DrainBusy ==
  ASSUME DrainInv, NEW p \in Producers, pc[p] # "idle", UNCHANGED <<draining, rpc, state>> PROVE DrainInv'
BY DEF DrainInv

\* What the popping thread has read, while it does nothing.
LEMMA ReadStays ==
  ASSUME UNCHANGED <<freed, rpc, queue, rbuf, rindex>>
  PROVE  \A b \in Buffers, i \in Slots : Read(b, i)' <=> Read(b, i)
BY DEF Read

\* A producer moves on; the others stay.
LEMMA GoMoves ==
  ASSUME Types, NEW p \in Producers, NEW from, NEW to, Go(p, from, to)
  PROVE  pc[p] = from /\ pc'[p] = to /\ \A q \in Producers \ {p} : pc'[q] = pc[q]
BY DEF Go, Types

\* Nothing is logged at the start.
LEMMA InitLog == Init => LogInv
<1> SUFFICES ASSUME Init PROVE LogInv
  OBVIOUS
<1>1. Types
  <2>1. NewBuffer \in [Slots -> LogLines \cup {NoLine}]
    BY DEF NewBuffer, Slots
  <2> QED
    BY <2>1, LogConstants, LogQueueAssumption DEF Init, Types
<1>2. ReserveInv
  BY DEF Init, ReserveInv, Busy
<1>3. \A b \in Buffers, i \in Slots : slot[b][i] = NoLine
  BY DEF Init, NewBuffer, Slots
<1>4. ChangeInv
  <2>1. Counted = {}
    BY LogConstants DEF Counted, Init
  <2> QED
    BY <1>3, <2>1, FS_EmptySet, LogConstants DEF Init, ChangeInv, Changing, Opening
<1>5. SlotInv
  <2>1. \A b \in Buffers : ~(b < made)
    BY DEF Init, Buffers
  <2> QED
    BY <1>3, <2>1, LogConstants DEF Init, SlotInv, Unstored
<1>6. QueueInv
  <2>1. queue = <<1>> /\ Len(queue) = 1 /\ queue[1] = 1 /\ made = 1 /\ freed = {}
    BY DEF Init
  <2>2. \A b \in Buffers : b <= made => b = 1
    BY <2>1 DEF Buffers
  <2>3. \A p \in Producers : pc[p] # "publish"
    BY DEF Init
  <2> QED
    BY <2>1, <2>2, <2>3 DEF QueueInv
<1>7. ReadInv
  BY DEF Init, ReadInv
<1>8. FileInv /\ ThreadOrder
  BY DEF Init, FileInv, ThreadOrder, Stored
<1>9. OrderInv
  BY <1>3, LogConstants DEF OrderInv, Init
<1>10. DrainInv
  BY DEF Init, DrainInv
<1> QED
  BY <1>1, <1>2, <1>4, <1>5, <1>6, <1>7, <1>8, <1>9, <1>10 DEF LogInv

-----------------------------------------------------------------------------
(* The producers.                                                            *)

\* A line is given to push.
LEMMA LogKeeps ==
  ASSUME LogInv, NEW p \in Producers, Log(p) PROVE LogInv'
<1>1. /\ Go(p, "idle", "reserve") /\ state = "READY" /\ seq[p] < Lines /\ seq' = [seq EXCEPT ![p] = seq[p] + 1]
      /\ UNCHANGED <<windex, wbuf, queue, slot, count, made, freed, idx, target, state, rpc, draining, rbuf, rindex, file>>
  BY DEF Log, sharedVars, readerVars
<1>2. Types /\ ReserveInv /\ ChangeInv /\ SlotInv /\ QueueInv /\ ReadInv /\ FileInv /\ OrderInv /\ ThreadOrder /\ DrainInv
  BY DEF LogInv
<1>3. pc[p] = "idle" /\ pc'[p] = "reserve" /\ \A q \in Producers \ {p} : pc'[q] = pc[q]
  BY <1>1, <1>2, GoMoves
<1>4. seq[p] \in 0 .. Lines /\ seq'[p] = seq[p] + 1 /\ \A q \in Producers \ {p} : seq'[q] = seq[q]
  BY <1>1, <1>2 DEF Types
<1>5. Types'
  <2>1. seq[p] + 1 \in 0 .. Lines
    BY <1>1, <1>4, LogQueueAssumption
  <2>2. seq' \in [Producers -> 0 .. Lines]
    BY <1>1, <1>2, <2>1 DEF Types
  <2> QED
    BY <1>1, <1>2, <2>2 DEF Types, Go
<1>6. \A q \in Producers : /\ (Busy(q)' <=> Busy(q)) /\ (Unstored(q)' <=> Unstored(q))
                           /\ (Changing(q)' <=> Changing(q)) /\ (Opening(q)' <=> Opening(q))
                           /\ (pc'[q] = "publish" <=> pc[q] = "publish")
                           /\ (pc'[q] \in {"store", "count"} <=> pc[q] \in {"store", "count"})
  BY <1>3 DEF Busy, Unstored, Changing, Opening
<1>7. Stored(p)' = Stored(p)
  <2>1. Stored(p) = seq[p] /\ Stored(p)' = seq'[p] - 1
    BY <1>3 DEF Stored
  <2> QED
    BY <1>4, <2>1
<1>8. \A q \in Producers : Stored(q)' = Stored(q)
  BY <1>3, <1>4, <1>7 DEF Stored
<1>9. ReserveInv'
  <2>1. \A q \in Producers : pc'[q] # "idle" => seq'[q] >= 1
    BY <1>2, <1>3, <1>4 DEF ReserveInv
  <2> QED
    BY <1>1, <1>2, <1>6, <2>1 DEF ReserveInv
<1>10. ChangeInv' /\ SlotInv' /\ QueueInv' /\ ReadInv' /\ OrderInv'
  BY <1>1, <1>2, <1>6, <1>8, ChangeSame, SlotSame, QueueSame, ReadSame, OrderSame
<1>11. FileInv'
  BY <1>1, <1>2, <1>8, ReadStays, FileSame
<1>12. ThreadOrder' /\ DrainInv'
  BY <1>1, <1>2 DEF ThreadOrder, DrainInv
<1> QED
  BY <1>5, <1>9, <1>10, <1>11, <1>12 DEF LogInv

\* The index is taken: a slot of the current buffer, or none.
LEMMA ReserveKeeps ==
  ASSUME LogInv, NEW p \in Producers, Reserve(p) PROVE LogInv'
<1>1. /\ Go(p, "reserve", IF windex < Size THEN "load" ELSE "spin")
      /\ idx' = [idx EXCEPT ![p] = windex] /\ windex' = windex + 1
      /\ UNCHANGED <<wbuf, queue, slot, count, made, freed, seq, target, state, rpc, draining, rbuf, rindex, file>>
  BY DEF Reserve, readerVars
<1>2. Types /\ ReserveInv /\ ChangeInv /\ SlotInv /\ QueueInv /\ ReadInv /\ FileInv /\ OrderInv /\ ThreadOrder /\ DrainInv
  BY DEF LogInv
<1>3. /\ pc[p] = "reserve" /\ pc'[p] = (IF windex < Size THEN "load" ELSE "spin")
      /\ \A q \in Producers \ {p} : pc'[q] = pc[q]
  BY <1>1, <1>2, GoMoves
<1>4. idx'[p] = windex /\ \A q \in Producers \ {p} : idx'[q] = idx[q]
  BY <1>1, <1>2 DEF Types
<1>5. windex \in Nat /\ windex' \in Nat /\ Size \in Nat
  BY <1>1, <1>2, LogConstants DEF Types
<1>6. Types'
  BY <1>1, <1>2, <1>5 DEF Types, Go
<1>7. \A q \in Producers : /\ (Changing(q)' <=> Changing(q)) /\ (Opening(q)' <=> Opening(q))
                           /\ (pc'[q] = "publish" <=> pc[q] = "publish")
                           /\ (pc'[q] \in {"store", "count"} <=> pc[q] \in {"store", "count"})
                           /\ (pc'[q] # "idle" => pc[q] # "idle")
                           /\ Stored(q)' = Stored(q)
  BY <1>1, <1>3 DEF Changing, Opening, Stored
<1>8. \A q \in Producers \ {p} : (Busy(q)' <=> Busy(q)) /\ (Unstored(q)' <=> Unstored(q))
  BY <1>3 DEF Busy, Unstored
<1>9. (Busy(p)' <=> windex < Size) /\ (Unstored(p)' <=> windex < Size) /\ ~Busy(p) /\ ~Unstored(p)
  BY <1>3 DEF Busy, Unstored
<1>10. windex < Size => windex \in Slots
  BY <1>5 DEF Slots
<1>11. ReserveInv'
  <2>1. \A q \in Producers : Busy(q)' => idx'[q] \in Slots /\ idx'[q] < windex'
    <3> SUFFICES ASSUME NEW q \in Producers, Busy(q)' PROVE idx'[q] \in Slots /\ idx'[q] < windex'
      OBVIOUS
    <3>1. CASE q = p
      BY <1>1, <1>4, <1>5, <1>9, <1>10, <3>1
    <3>2. CASE q # p
      <4>1. idx'[q] \in Slots /\ idx'[q] < windex
        BY <1>2, <1>4, <1>8, <3>2 DEF ReserveInv
      <4> QED
        BY <1>1, <1>5, <4>1, LogConstants
    <3> QED
      BY <3>1, <3>2
  <2>2. ASSUME NEW q \in Producers, NEW r \in Producers, Busy(q)', Busy(r)', idx'[q] = idx'[r] PROVE q = r
    <3>1. \A s \in Producers \ {p} : Busy(s)' => idx'[s] < windex /\ idx'[s] \in Nat
      BY <1>2, <1>4, <1>8, LogConstants DEF ReserveInv
    <3>2. CASE q # p /\ r # p
      BY <1>2, <1>4, <1>8, <2>2, <3>2 DEF ReserveInv
    <3>3. CASE q = p \/ r = p
      BY <1>4, <1>5, <2>2, <3>1, <3>3
    <3> QED
      BY <3>2, <3>3
  <2> QED
    BY <1>1, <1>2, <1>7, <2>1, <2>2 DEF ReserveInv
<1>12. Counted' = Counted
  <2>1. ASSUME NEW i \in Slots, i < windex', \A q \in Producers : Busy(q)' => idx'[q] # i
        PROVE  i < windex /\ \A q \in Producers : Busy(q) => idx[q] # i
    <3>1. i \in Nat /\ i < Size
      BY LogConstants
    <3>2. i # windex
      BY <1>4, <1>9, <2>1, <3>1
    <3>3. i < windex
      BY <1>1, <1>5, <2>1, <3>1, <3>2
    <3> QED
      BY <1>4, <1>8, <1>9, <2>1, <3>3
  <2>2. ASSUME NEW i \in Slots, i < windex, \A q \in Producers : Busy(q) => idx[q] # i
        PROVE  i < windex' /\ \A q \in Producers : Busy(q)' => idx'[q] # i
    <3>1. i \in Nat /\ i < windex' /\ i # windex
      BY <1>1, <1>5, <2>2, LogConstants
    <3> QED
      BY <1>4, <1>8, <2>2, <3>1
  <2> QED
    BY <2>1, <2>2 DEF Counted
<1>13. ChangeInv'
  <2>1. ASSUME NEW q \in Producers, Changing(q)' PROVE windex' >= Size /\ \A r \in Producers : ~Busy(r)'
    <3>1. windex >= Size /\ \A r \in Producers : ~Busy(r)
      BY <1>2, <1>7, <2>1 DEF ChangeInv
    <3>2. ~(windex < Size) /\ windex' >= Size
      BY <1>1, <1>5, <3>1
    <3> QED
      BY <1>8, <1>9, <3>1, <3>2
  <2> QED
    BY <1>1, <1>2, <1>7, <1>12, <2>1 DEF ChangeInv
<1>14. \A i \in Slots : i < windex' => i < windex \/ (i = windex /\ windex < Size)
  BY <1>1, <1>5, LogConstants
<1>15. SlotInv'
  <2>1. \A i \in Slots : i >= windex' => slot[wbuf][i] = NoLine
    <3>1. \A i \in Slots : i >= windex' => i >= windex
      BY <1>1, <1>5, LogConstants
    <3> QED
      BY <1>2, <3>1 DEF SlotInv
  <2>2. \A q \in Producers : Unstored(q)' => slot[wbuf][idx'[q]] = NoLine
    <3>1. windex < Size => slot[wbuf][windex] = NoLine
      BY <1>2, <1>5, <1>10 DEF SlotInv
    <3> QED
      BY <1>2, <1>4, <1>8, <1>9, <3>1 DEF SlotInv
  <2>3. ASSUME \A q \in Producers : ~Opening(q)', NEW i \in Slots, i < windex'
        PROVE  slot[wbuf][i] # NoLine \/ \E q \in Producers : Unstored(q)' /\ idx'[q] = i
    <3>1. CASE i < windex
      <4>1. slot[wbuf][i] # NoLine \/ \E q \in Producers : Unstored(q) /\ idx[q] = i
        BY <1>2, <1>7, <2>3, <3>1 DEF SlotInv
      <4> QED
        BY <1>4, <1>8, <1>9, <4>1
    <3>2. CASE i = windex /\ windex < Size
      BY <1>4, <1>9, <3>2
    <3> QED
      BY <1>14, <2>3, <3>1, <3>2
  <2> QED
    BY <1>1, <1>2, <2>1, <2>2, <2>3 DEF SlotInv, Full
<1>16. QueueInv' /\ ReadInv'
  BY <1>1, <1>2, <1>7, QueueSame, ReadSame
<1>17. FileInv'
  BY <1>1, <1>2, <1>7, ReadStays, FileSame
<1>18. OrderInv'
  <2>1. \A i \in Slots : slot[wbuf][i] # NoLine => i < windex
    BY <1>2, <1>5, LogConstants DEF SlotInv
  <2>2. \A q \in Producers : Unstored(q)' =>
           \A i \in Slots : slot[wbuf][i] # NoLine /\ slot[wbuf][i][1] = q => i < idx'[q]
    BY <1>2, <1>4, <1>8, <2>1 DEF OrderInv
  <2>3. \A b \in Buffers, i \in Slots : slot[b][i] # NoLine => slot[b][i][1] \in Producers
    BY <1>2, LineFacts DEF Types
  <2> QED
    BY <1>1, <1>2, <1>7, <2>2, <2>3 DEF OrderInv
<1>19. ThreadOrder' /\ DrainInv'
  BY <1>1, <1>2, <1>3, DrainBusy DEF ThreadOrder
<1> QED
  BY <1>6, <1>11, <1>13, <1>15, <1>16, <1>17, <1>18, <1>19 DEF LogInv

\* The index has been reset; and the current buffer is read.
LEMMA SpinLoadKeeps ==
  ASSUME LogInv, NEW p \in Producers, Spin(p) \/ Load(p) PROVE LogInv'
<1>1. /\ Go(p, "spin", "reserve") \/ Go(p, "load", "store")
      /\ pc[p] = "load" => target' = [target EXCEPT ![p] = wbuf]
      /\ pc[p] = "spin" => target' = target
      /\ target' = target \/ target' = [target EXCEPT ![p] = wbuf]
      /\ UNCHANGED <<windex, wbuf, queue, slot, count, made, freed, seq, idx, state, rpc, draining, rbuf, rindex, file>>
  BY DEF Spin, Load, Go, sharedVars, readerVars
<1>2. Types /\ ReserveInv /\ ChangeInv /\ SlotInv /\ QueueInv /\ ReadInv /\ FileInv /\ OrderInv /\ ThreadOrder /\ DrainInv
  BY DEF LogInv
<1>3. /\ (pc[p] = "spin" /\ pc'[p] = "reserve") \/ (pc[p] = "load" /\ pc'[p] = "store")
      /\ \A q \in Producers \ {p} : pc'[q] = pc[q]
  BY <1>1, <1>2, GoMoves
<1>4. Types'
  <2>1. target' \in [Producers -> Buffers \cup {Null}]
    BY <1>1, <1>2 DEF Types
  <2> QED
    BY <1>1, <1>2, <2>1 DEF Types, Go
<1>5. \A q \in Producers : /\ (Busy(q)' <=> Busy(q)) /\ (Unstored(q)' <=> Unstored(q))
                           /\ (Changing(q)' <=> Changing(q)) /\ (Opening(q)' <=> Opening(q))
                           /\ (pc'[q] = "publish" <=> pc[q] = "publish")
                           /\ (pc'[q] # "idle" => pc[q] # "idle")
  BY <1>3 DEF Busy, Unstored, Changing, Opening
<1>6. \A q \in Producers : Stored(q)' = Stored(q)
  BY <1>1, <1>3 DEF Stored
<1>7. \A q \in Producers : pc'[q] \in {"store", "count"} => target'[q] = wbuf
  BY <1>1, <1>2, <1>3 DEF ReserveInv, Types
<1>8. ReserveInv'
  BY <1>1, <1>2, <1>5, <1>7 DEF ReserveInv
<1>9. ChangeInv' /\ SlotInv' /\ QueueInv' /\ ReadInv' /\ OrderInv'
  BY <1>1, <1>2, <1>5, <1>6, ChangeSame, SlotSame, QueueSame, ReadSame, OrderSame
<1>10. FileInv'
  BY <1>1, <1>2, <1>6, ReadStays, FileSame
<1>11. ThreadOrder' /\ DrainInv'
  BY <1>1, <1>2, <1>3, DrainBusy DEF ThreadOrder
<1> QED
  BY <1>4, <1>8, <1>9, <1>10, <1>11 DEF LogInv

\* The slot a producer is about to fill is empty, in the current buffer, and unread.
LEMMA SlotEmpty ==
  ASSUME LogInv, NEW p \in Producers, Unstored(p)
  PROVE  /\ idx[p] \in Slots /\ slot[wbuf][idx[p]] = NoLine /\ wbuf \notin freed
         /\ ~Full(wbuf) /\ ~Read(wbuf, idx[p])
<1>1. Types /\ ReserveInv /\ SlotInv /\ QueueInv /\ ReadInv
  BY DEF LogInv
<1>2. idx[p] \in Slots /\ slot[wbuf][idx[p]] = NoLine
  BY <1>1 DEF ReserveInv, SlotInv, Busy, Unstored
<1>3. ~Full(wbuf)
  BY <1>2 DEF Full
<1>4. wbuf \notin freed
  BY <1>1, <1>3 DEF QueueInv
<1>5. ~(rpc = "free" /\ wbuf = queue[1])
  BY <1>1, <1>3 DEF ReadInv
<1>6. ~(rbuf # Null /\ wbuf = rbuf /\ idx[p] < rindex)
  BY <1>1, <1>2 DEF ReadInv
<1> QED
  BY <1>2, <1>3, <1>4, <1>5, <1>6 DEF Read

\* The line is put into the reserved slot.
LEMMA StoreKeeps ==
  ASSUME LogInv, NEW p \in Producers, Store(p) PROVE LogInv'
<1> DEFINE line == <<p, seq[p]>>
           k == idx[p]
<1>1. /\ Go(p, "store", "count") /\ slot' = [slot EXCEPT ![target[p]][k] = line]
      /\ UNCHANGED <<windex, wbuf, queue, count, made, freed, seq, idx, target, state, rpc, draining, rbuf, rindex, file>>
  BY DEF Store, readerVars
<1>2. Types /\ ReserveInv /\ ChangeInv /\ SlotInv /\ QueueInv /\ ReadInv /\ FileInv /\ OrderInv /\ ThreadOrder /\ DrainInv
  BY DEF LogInv
<1>3. pc[p] = "store" /\ pc'[p] = "count" /\ \A q \in Producers \ {p} : pc'[q] = pc[q]
  BY <1>1, <1>2, GoMoves
<1>4. /\ k \in Slots /\ slot[wbuf][k] = NoLine /\ wbuf \notin freed /\ ~Full(wbuf) /\ ~Read(wbuf, k)
  BY <1>3, SlotEmpty DEF Unstored
<1>5. target[p] = wbuf /\ wbuf = made /\ wbuf \in Buffers /\ k < windex /\ Busy(p) /\ Unstored(p) /\ k \in Nat
  BY <1>2, <1>3, <1>4, LogConstants DEF ReserveInv, Types, Busy, Unstored
<1>6. seq[p] \in 1 .. Lines
  BY <1>2, <1>3 DEF ReserveInv, Types
<1>7. line \in LogLines /\ line # NoLine /\ line[1] = p /\ line[2] = seq[p]
  BY <1>6, LineFacts
<1>8. \A q \in Producers : Busy(q) /\ q # p => idx[q] # k
  BY <1>2, <1>5 DEF ReserveInv
<1>9. idx[p] = k
  OBVIOUS
<1> HIDE DEF line, k
<1>10. /\ slot'[wbuf][k] = line
       /\ \A b \in Buffers, i \in Slots : ~(b = wbuf /\ i = k) => slot'[b][i] = slot[b][i]
  BY <1>1, <1>2, <1>4, <1>5 DEF Types
<1>11. \A b \in Buffers, i \in Slots : slot[b][i] # NoLine => slot'[b][i] = slot[b][i]
  BY <1>4, <1>10
<1>12. \A b \in Buffers, i \in Slots : slot'[b][i] # NoLine => (b = wbuf /\ i = k) \/ slot[b][i] # NoLine
  BY <1>10
<1>13. Types'
  <2>1. slot' \in [Buffers -> [Slots -> LogLines \cup {NoLine}]]
    BY <1>1, <1>2, <1>4, <1>5, <1>7 DEF Types
  <2> QED
    BY <1>1, <1>2, <2>1 DEF Types, Go
<1>14. \A q \in Producers : /\ (Busy(q)' <=> Busy(q)) /\ (Unstored(q)' <=> Unstored(q) /\ q # p)
                            /\ (Changing(q)' <=> Changing(q)) /\ (Opening(q)' <=> Opening(q))
                            /\ (pc'[q] = "publish" <=> pc[q] = "publish")
                            /\ (pc'[q] \in {"store", "count"} => pc[q] \in {"store", "count"})
                            /\ (pc'[q] # "idle" => pc[q] # "idle")
  BY <1>3 DEF Busy, Unstored, Changing, Opening
<1>15. ReserveInv'
  BY <1>1, <1>2, <1>14 DEF ReserveInv
<1>16. ChangeInv'
  <2>1. Counted' = Counted
    BY <1>1, <1>14 DEF Counted
  <2>2. \A q \in Producers : ~Changing(q) /\ ~Opening(q)
    BY <1>2, <1>5 DEF ChangeInv, Changing, Opening
  <2>3. \A b \in Buffers : b > made => b # wbuf
    BY <1>5, LogConstants
  <2>4. \A b \in Buffers : b > made => \A i \in Slots : slot'[b][i] = NoLine
    BY <1>2, <1>10, <2>3 DEF ChangeInv
  <2> QED
    BY <1>1, <1>2, <1>14, <2>1, <2>2, <2>4 DEF ChangeInv
<1>17. \A b \in Buffers : Full(b) => Full(b)'
  BY <1>11 DEF Full
<1>18. SlotInv'
  <2>1. \A i \in Slots : i >= windex => slot'[wbuf][i] = NoLine
    <3>1. \A i \in Slots : i >= windex => i # k
      BY <1>2, <1>5, LogConstants DEF Types
    <3> QED
      BY <1>2, <1>5, <1>10, <3>1 DEF SlotInv
  <2>2. ASSUME NEW q \in Producers, Unstored(q)' PROVE slot'[wbuf][idx[q]] = NoLine
    <3>1. Unstored(q) /\ q # p /\ Busy(q)
      BY <1>14, <2>2 DEF Unstored, Busy
    <3>2. idx[q] \in Slots /\ idx[q] # k /\ slot[wbuf][idx[q]] = NoLine
      BY <1>2, <1>8, <3>1 DEF ReserveInv, SlotInv
    <3> QED
      BY <1>5, <1>10, <3>2
  <2>3. ASSUME \A q \in Producers : ~Opening(q)', NEW i \in Slots, i < windex
        PROVE  slot'[wbuf][i] # NoLine \/ \E q \in Producers : Unstored(q)' /\ idx[q] = i
    <3>1. CASE i = k
      BY <1>7, <1>10, <3>1
    <3>2. CASE i # k
      <4>1. slot[wbuf][i] # NoLine \/ \E q \in Producers : Unstored(q) /\ idx[q] = i
        BY <1>2, <1>14, <2>3 DEF SlotInv
      <4> QED
        BY <1>5, <1>9, <1>10, <1>14, <3>2, <4>1
    <3> QED
      BY <3>1, <3>2
  <2> QED
    BY <1>1, <1>2, <1>17, <2>1, <2>2, <2>3 DEF SlotInv
<1>19. QueueInv'
  <2>1. \A b \in freed : b \in Buffers
    BY <1>2 DEF Types
  <2> QED
    BY <1>1, <1>2, <1>14, <1>17, <2>1 DEF QueueInv
<1>20. ReadInv'
  <2>1. rbuf # Null => rbuf \in Buffers
    BY <1>2 DEF Types
  <2>2. queue # <<>> => queue[1] \in Buffers
    BY <1>2 DEF Types
  <2>3. rbuf # Null => \A i \in Slots : i < rindex => slot'[rbuf][i] # NoLine
    BY <1>2, <1>11, <2>1 DEF ReadInv
  <2>4. rpc = "free" => Full(queue[1])'
    <3>1. rpc = "free" => Full(queue[1])
      BY <1>2 DEF ReadInv
    <3>2. rpc = "free" => \A i \in Slots : slot'[queue[1]][i] # NoLine
      BY <1>2, <1>11, <2>2, <3>1 DEF ReadInv, Full
    <3> QED
      BY <1>1, <3>2 DEF Full
  <2> QED
    BY <1>1, <1>2, <2>3, <2>4 DEF ReadInv
<1>21. seq[p] \in Nat /\ Stored(p) = seq[p] - 1 /\ Stored(p)' = seq[p] /\ \A q \in Producers \ {p} : Stored(q)' = Stored(q)
  BY <1>1, <1>3, <1>6 DEF Stored
<1>22. \A b \in Buffers, i \in Slots : Read(b, i)' <=> Read(b, i)
  BY <1>1, ReadStays
<1>23. FileInv'
  <2>1. ASSUME NEW q \in Producers, NEW n \in 1 .. Stored(q)'
        PROVE  InFile(<<q, n>>) \/ \E b \in Buffers, i \in Slots : ~Read(b, i) /\ slot'[b][i] = <<q, n>>
    <3>1. CASE q = p /\ n = seq[p]
      BY <1>4, <1>5, <1>10, <3>1 DEF line
    <3>2. CASE n \in 1 .. Stored(q)
      <4>1. InFile(<<q, n>>) \/ \E b \in Buffers, i \in Slots : ~Read(b, i) /\ slot[b][i] = <<q, n>>
        BY <1>2, <3>2 DEF FileInv
      <4>2. <<q, n>> # NoLine
        BY DEF NoLine
      <4> QED
        BY <1>11, <4>1, <4>2
    <3>3. n = seq[p] \/ n \in 1 .. Stored(q) \/ q # p
      BY <1>21, <2>1
    <3> QED
      BY <1>21, <2>1, <3>1, <3>2, <3>3
  <2>2. ASSUME NEW j \in 1 .. Len(file) PROVE \E b \in Buffers, i \in Slots : Read(b, i) /\ slot'[b][i] = file[j]
    <3>1. file[j] # NoLine
      BY <1>2, LineFacts DEF Types
    <3> QED
      BY <1>2, <1>11, <3>1 DEF FileInv
  <2>3. \A q \in Producers : \A n \in 1 .. Stored(q)' :
           InFile(<<q, n>>)' \/ \E b \in Buffers, i \in Slots : ~Read(b, i)' /\ slot'[b][i] = <<q, n>>
    <3>1. \A q, n : InFile(<<q, n>>)' <=> InFile(<<q, n>>)
      BY <1>1 DEF InFile
    <3> QED
      BY <1>22, <2>1, <3>1
  <2>4. \A j \in 1 .. Len(file') : \E b \in Buffers, i \in Slots : Read(b, i)' /\ slot'[b][i] = file'[j]
    BY <1>1, <1>22, <2>2
  <2> QED
    BY <2>3, <2>4 DEF FileInv
<1>24. OrderInv'
  <2>1. \A b \in Buffers, i \in Slots : slot[b][i] # NoLine =>
          /\ slot[b][i][1] \in Producers /\ slot[b][i][2] \in Nat
          /\ slot[b][i][2] <= Stored(slot[b][i][1])
    <3>1. \A b \in Buffers, i \in Slots : slot[b][i] # NoLine => slot[b][i] \in LogLines
      BY <1>2 DEF Types
    <3>2. \A l \in LogLines : l[1] \in Producers /\ l[2] \in Nat
      BY LineFacts, LogQueueAssumption
    <3> QED
      BY <1>2, <3>1, <3>2 DEF OrderInv
  <2>2. ASSUME NEW b \in Buffers, NEW i \in Slots, slot[b][i] # NoLine, slot[b][i][1] = p
        PROVE  slot[b][i][2] < seq[p] /\ ~(wbuf < b \/ (b = wbuf /\ k < i)) /\ ~(b = wbuf /\ i = k)
    <3>1. slot[b][i][2] \in Nat /\ slot[b][i][2] <= seq[p] - 1
      BY <1>21, <2>1, <2>2
    <3>2. slot[b][i][2] < seq[p]
      BY <1>21, <3>1
    <3>3. ~(b > made)
      BY <1>2, <2>2 DEF ChangeInv
    <3>4. b = wbuf => i < k
      BY <1>2, <1>5, <1>9, <2>2 DEF OrderInv
    <3>5. i \in Nat /\ b \in Nat
      BY LogConstants
    <3>6. b = wbuf => ~(k < i) /\ i # k
      BY <1>5, <3>4, <3>5
    <3>7. ~(wbuf < b)
      BY <1>5, <3>3, <3>5, LogConstants
    <3> QED
      BY <3>2, <3>6, <3>7
  <2>3. ASSUME NEW b \in Buffers, NEW i \in Slots, slot'[b][i] # NoLine
        PROVE  slot'[b][i][2] <= Stored(slot[b][i][1])'
    <3>1. CASE b = wbuf /\ i = k
      <4>1. slot'[b][i][2] = seq[p] /\ slot'[b][i][1] = p
        BY <1>7, <1>10, <3>1
      <4>2. Stored(slot[b][i][1])' = seq[p]
        BY <1>1, <1>3, <4>1 DEF Stored
      <4> QED
        BY <1>21, <4>1, <4>2
    <3>2. CASE slot[b][i] # NoLine
      <4>1. slot'[b][i] = slot[b][i] /\ slot[b][i][1] \in Producers /\ slot[b][i][2] \in Nat
            /\ slot[b][i][2] <= Stored(slot[b][i][1])
        BY <1>11, <2>1, <3>2
      <4>2. CASE slot[b][i][1] = p
        <5>1. slot[b][i][2] < seq[p]
          BY <2>2, <3>2, <4>2
        <5>2. Stored(slot[b][i][1])' = seq[p]
          BY <1>1, <1>3, <4>1, <4>2 DEF Stored
        <5> QED
          BY <1>21, <4>1, <5>1, <5>2
      <4>3. CASE slot[b][i][1] # p
        <5>1. Stored(slot[b][i][1])' = Stored(slot[b][i][1])
          BY <1>1, <1>3, <4>1, <4>3 DEF Stored
        <5> QED
          BY <4>1, <5>1
      <4> QED
        BY <4>2, <4>3
    <3> QED
      BY <1>12, <2>3, <3>1, <3>2
  <2>4. ASSUME NEW b \in Buffers, NEW c \in Buffers, NEW i \in Slots, NEW j \in Slots,
               slot'[b][i] # NoLine, slot'[c][j] # NoLine, slot'[b][i][1] = slot'[c][j][1],
               b < c \/ (b = c /\ i < j)
        PROVE  slot'[b][i][2] < slot'[c][j][2]
    <3>1. CASE b = wbuf /\ i = k
      <4>1. ~(c = wbuf /\ j = k)
        BY <1>5, <2>4, <3>1, LogConstants
      <4>2. slot[c][j] # NoLine /\ slot[c][j][1] = p
        BY <1>7, <1>10, <1>12, <2>4, <3>1, <4>1
      <4> QED
        BY <2>2, <2>4, <3>1, <4>2
    <3>2. CASE c = wbuf /\ j = k /\ ~(b = wbuf /\ i = k)
      <4>1. slot[b][i] # NoLine /\ slot'[b][i] = slot[b][i] /\ slot[b][i][1] = p
        BY <1>7, <1>10, <2>4, <3>2
      <4>2. slot[b][i][2] < seq[p]
        BY <2>2, <4>1
      <4> QED
        BY <1>7, <1>10, <3>2, <4>1, <4>2
    <3>3. CASE ~(b = wbuf /\ i = k) /\ ~(c = wbuf /\ j = k)
      <4>1. slot'[b][i] = slot[b][i] /\ slot'[c][j] = slot[c][j]
        BY <1>10, <3>3
      <4> QED
        BY <1>2, <2>4, <4>1 DEF OrderInv
    <3> QED
      BY <3>1, <3>2, <3>3
  <2>5. ASSUME NEW q \in Producers, Unstored(q)', NEW i \in Slots, slot'[wbuf][i] # NoLine, slot'[wbuf][i][1] = q
        PROVE  i < idx[q]
    <3>1. Unstored(q) /\ q # p
      BY <1>14, <2>5
    <3>2. i # k
      BY <1>7, <1>10, <2>5, <3>1
    <3>3. slot'[wbuf][i] = slot[wbuf][i]
      BY <1>5, <1>10, <3>2
    <3> QED
      BY <1>2, <2>5, <3>1, <3>3 DEF OrderInv
  <2> QED
    BY <1>1, <2>3, <2>4, <2>5 DEF OrderInv
<1>25. ThreadOrder' /\ DrainInv'
  BY <1>1, <1>2, <1>3, DrainBusy DEF ThreadOrder
<1> QED
  BY <1>13, <1>15, <1>16, <1>18, <1>19, <1>20, <1>23, <1>24, <1>25 DEF LogInv

\* The slot is counted; the producer that counts the last one changes the buffer.
LEMMA CountKeeps ==
  ASSUME LogInv, NEW p \in Producers, Count(p) PROVE LogInv'
<1>1. /\ Go(p, "count", IF target[p] \notin freed /\ count[target[p]] + 1 = Size THEN "setup" ELSE "idle")
      /\ count' = IF target[p] \in freed THEN count ELSE [count EXCEPT ![target[p]] = count[target[p]] + 1]
      /\ UNCHANGED <<windex, wbuf, queue, slot, made, freed, seq, idx, target, state, rpc, draining, rbuf, rindex, file>>
  BY DEF Count, readerVars
<1>2. Types /\ ReserveInv /\ ChangeInv /\ SlotInv /\ QueueInv /\ ReadInv /\ FileInv /\ OrderInv /\ ThreadOrder /\ DrainInv
  BY DEF LogInv
<1> DEFINE last == target[p] \notin freed /\ count[target[p]] + 1 = Size
<1>3. /\ pc[p] = "count" /\ pc'[p] = (IF last THEN "setup" ELSE "idle")
      /\ \A q \in Producers \ {p} : pc'[q] = pc[q]
  BY <1>1, <1>2, GoMoves
<1>4. /\ target[p] = wbuf /\ wbuf = made /\ wbuf \in Buffers /\ Busy(p) /\ idx[p] \in Slots /\ idx[p] < windex
      /\ \A q \in Producers : Busy(q) /\ q # p => idx[q] # idx[p]
  BY <1>2, <1>3 DEF ReserveInv, Types, Busy
<1>5. last <=> wbuf \notin freed /\ count[wbuf] + 1 = Size
  BY <1>4
<1> HIDE DEF last
<1>6. \A q \in Producers : ~Changing(q) /\ ~Opening(q)
  BY <1>2, <1>4 DEF ChangeInv, Changing, Opening
<1>7. /\ \A q \in Producers \ {p} : (Busy(q)' <=> Busy(q)) /\ ~Changing(q)'
      /\ ~Busy(p)' /\ (Changing(p)' <=> last)
      /\ \A q \in Producers : /\ (Unstored(q)' <=> Unstored(q)) /\ ~Opening(q)'
                              /\ (pc'[q] = "publish" <=> pc[q] = "publish")
                              /\ (pc'[q] \in {"store", "count"} => pc[q] \in {"store", "count"})
                              /\ (pc'[q] # "idle" => pc[q] # "idle")
  BY <1>3, <1>6 DEF Busy, Unstored, Changing, Opening
<1>8. Types'
  <2>1. count' \in [Buffers -> Nat]
    BY <1>1, <1>2, <1>4 DEF Types
  <2>2. pc' \in [Producers -> {"idle", "reserve", "spin", "load", "store", "count", "setup", "publish", "reset"}]
    BY <1>1, <1>2 DEF Types, Go
  <2> QED
    BY <1>1, <1>2, <2>1, <2>2 DEF Types
<1>9. \A q \in Producers : Stored(q)' = Stored(q)
  BY <1>1, <1>3 DEF Stored
<1>10. ReserveInv'
  BY <1>1, <1>2, <1>7 DEF ReserveInv
<1>11. Counted' = Counted \cup {idx[p]} /\ idx[p] \notin Counted
  <2>1. idx[p] \notin Counted
    BY <1>4 DEF Counted
  <2>2. ASSUME NEW i \in Slots PROVE i \in Counted' <=> i \in Counted \/ i = idx[p]
    BY <1>1, <1>4, <1>7 DEF Counted
  <2>3. Counted \subseteq Slots /\ Counted' \subseteq Slots
    BY DEF Counted
  <2> QED
    BY <1>4, <2>1, <2>2, <2>3
<1>12. Cardinality(Counted') = Cardinality(Counted) + 1 /\ IsFiniteSet(Counted')
  BY <1>11, CountedFinite, FS_AddElement
<1>13. wbuf \notin freed => /\ count[wbuf] = Cardinality(Counted) /\ count'[wbuf] = Cardinality(Counted')
  <2>1. wbuf \notin freed => count[wbuf] = Cardinality(Counted)
    BY <1>2, <1>6 DEF ChangeInv
  <2>2. wbuf \notin freed => count'[wbuf] = count[wbuf] + 1
    BY <1>1, <1>2, <1>4 DEF Types
  <2> QED
    BY <1>12, <2>1, <2>2
<1>14. last => windex >= Size /\ \A q \in Producers : ~Busy(q)'
  <2> SUFFICES ASSUME last PROVE windex >= Size /\ \A q \in Producers : ~Busy(q)'
    OBVIOUS
  <2>1. Cardinality(Counted') = Size
    BY <1>5, <1>12, <1>13
  <2>2. Counted' \subseteq Slots
    BY DEF Counted
  <2>3. Counted' = Slots
    BY <2>1, <2>2, CountedFinite, FS_Subset
  <2>4. Size - 1 \in Slots
    BY LogConstants DEF Slots
  <2>5. Size - 1 < windex
    BY <1>1, <2>3, <2>4 DEF Counted
  <2>6. \A i \in Slots : \A q \in Producers : Busy(q)' => idx[q] # i
    BY <1>1, <2>3 DEF Counted
  <2>7. \A q \in Producers : Busy(q)' => idx[q] \in Slots
    BY <1>2, <1>7 DEF ReserveInv
  <2>8. windex >= Size
    BY <1>2, <2>5, LogConstants DEF Types
  <2> QED
    BY <2>6, <2>7, <2>8
<1>15. ChangeInv'
  <2>1. \A b \in Buffers : b > made => count'[b] = 0 /\ \A i \in Slots : slot[b][i] = NoLine
    <3>1. \A b \in Buffers : b > made => b # wbuf
      BY <1>4, LogConstants
    <3>2. \A b \in Buffers \ {wbuf} : count'[b] = count[b]
      BY <1>1, <1>2, <1>4 DEF Types
    <3> QED
      BY <1>2, <3>1, <3>2 DEF ChangeInv
  <2>2. \A q, r \in Producers : Changing(q)' /\ Changing(r)' => q = r
    BY <1>7
  <2>3. \A q \in Producers : Changing(q)' => windex >= Size /\ \A r \in Producers : ~Busy(r)'
    BY <1>7, <1>14
  <2> QED
    BY <1>1, <1>7, <1>13, <2>1, <2>2, <2>3 DEF ChangeInv
<1>16. SlotInv'
  BY <1>1, <1>2, <1>6, <1>7, SlotSame
<1>17. QueueInv' /\ ReadInv' /\ OrderInv'
  BY <1>1, <1>2, <1>7, <1>9, QueueSame, ReadSame, OrderSame
<1>18. FileInv'
  BY <1>1, <1>2, <1>9, ReadStays, FileSame
<1>19. ThreadOrder' /\ DrainInv'
  BY <1>1, <1>2, <1>3, DrainBusy DEF ThreadOrder
<1> QED
  BY <1>8, <1>10, <1>15, <1>16, <1>17, <1>18, <1>19 DEF LogInv

\* A new buffer is made: the current one is full then.
LEMMA SetupStoreKeeps ==
  ASSUME LogInv, NEW p \in Producers, SetupStore(p) PROVE LogInv'
<1>1. /\ made < MaxBuffers /\ Go(p, "setup", "publish") /\ made' = made + 1 /\ wbuf' = made + 1
      /\ UNCHANGED <<windex, queue, slot, count, freed, seq, idx, target, state, rpc, draining, rbuf, rindex, file>>
  BY DEF SetupStore, readerVars
<1>2. Types /\ ReserveInv /\ ChangeInv /\ SlotInv /\ QueueInv /\ ReadInv /\ FileInv /\ OrderInv /\ ThreadOrder /\ DrainInv
  BY DEF LogInv
<1>3. pc[p] = "setup" /\ pc'[p] = "publish" /\ \A q \in Producers \ {p} : pc'[q] = pc[q]
  BY <1>1, <1>2, GoMoves
<1>4. /\ windex >= Size /\ \A q \in Producers : ~Busy(q) /\ (q # p => ~Changing(q)) /\ Changing(p)
      /\ wbuf = made
  BY <1>2, <1>3 DEF ChangeInv, Changing, ReserveInv
<1>5. \A q \in Producers : /\ ~Busy(q)' /\ ~Unstored(q) /\ ~Unstored(q)' /\ (Changing(q)' <=> q = p)
                           /\ (Opening(q)' => q = p) /\ Opening(p)' /\ ~Opening(q)
                           /\ pc'[q] \notin {"store", "count"} /\ pc[q] # "publish"
                           /\ (pc'[q] # "idle" => pc[q] # "idle")
  BY <1>3, <1>4 DEF Busy, Unstored, Changing, Opening
<1>6. made' \in Buffers /\ made \in Nat /\ made' > made /\ wbuf' = made' /\ \A b \in Buffers : b \in Nat
  BY <1>1, <1>2, LogQueueAssumption DEF Types, Buffers
<1>7. Types'
  BY <1>1, <1>2, <1>6 DEF Types, Go
<1>8. \A q \in Producers : Stored(q)' = Stored(q)
  BY <1>1, <1>3 DEF Stored
<1>9. ReserveInv'
  BY <1>1, <1>2, <1>5, <1>6 DEF ReserveInv
<1>10. count[made'] = 0 /\ \A i \in Slots : slot[made'][i] = NoLine
  BY <1>2, <1>6 DEF ChangeInv
<1>11. ChangeInv'
  <2>1. \A b \in Buffers : b > made' => b > made
    BY <1>1, <1>6
  <2> QED
    BY <1>1, <1>2, <1>4, <1>5, <1>6, <1>10, <2>1 DEF ChangeInv
<1>12. Full(made)
  <2>1. \A i \in Slots : i < windex
    BY <1>2, <1>4, LogConstants DEF Types
  <2> QED
    BY <1>2, <1>4, <1>5, <2>1 DEF SlotInv, Full
<1>13. SlotInv'
  <2>1. \A b \in Buffers : b < made' => b < made \/ b = made
    BY <1>1, <1>6
  <2>2. \A b \in Buffers : b < made' => Full(b)
    BY <1>2, <1>12, <2>1 DEF SlotInv
  <2>3. \A b \in Buffers : Full(b)' <=> Full(b)
    BY <1>1 DEF Full
  <2> QED
    BY <1>1, <1>5, <1>6, <1>10, <2>2, <2>3 DEF SlotInv
<1>14. QueueInv'
  <2>1. \A i \in 1 .. Len(queue) : queue[i] \in Buffers
    BY <1>2 DEF Types
  <2>2. \A i \in 1 .. Len(queue) : queue[i] <= made' /\ queue[i] # made'
    <3>1. \A i \in 1 .. Len(queue) : queue[i] <= made /\ queue[i] \in Nat
      BY <1>2, <1>6, <2>1 DEF QueueInv
    <3> QED
      BY <1>1, <1>6, <3>1
  <2>3. ASSUME NEW b \in Buffers, b <= made'
        PROVE  \/ b \in freed \/ \E i \in 1 .. Len(queue) : b = queue[i]
               \/ b = made' /\ \E q \in Producers : pc'[q] = "publish"
    <3>1. b <= made \/ b = made'
      BY <1>1, <1>6, <2>3
    <3> QED
      BY <1>2, <1>3, <1>5, <2>3, <3>1 DEF QueueInv
  <2>4. \A b \in freed : b <= made' /\ Full(b)'
    <3>1. \A b \in freed : b <= made /\ Full(b) /\ b \in Nat
      BY <1>2, <1>6 DEF QueueInv, Types
    <3>2. \A b \in freed : b <= made'
      BY <1>1, <1>6, <3>1
    <3> QED
      BY <1>1, <3>1, <3>2 DEF Full
  <2> QED
    BY <1>1, <1>2, <2>2, <2>3, <2>4 DEF QueueInv
<1>15. ReadInv'
  BY <1>1, <1>2, ReadSame
<1>16. FileInv'
  BY <1>1, <1>2, <1>8, ReadStays, FileSame
<1>17. OrderInv'
  <2>1. \A b \in Buffers, i \in Slots : slot[b][i] # NoLine => slot[b][i][1] \in Producers
    BY <1>2, LineFacts DEF Types
  <2> QED
    BY <1>1, <1>2, <1>5, <1>8, <2>1 DEF OrderInv
<1>18. ThreadOrder' /\ DrainInv'
  BY <1>1, <1>2, <1>3, DrainBusy DEF ThreadOrder
<1> QED
  BY <1>7, <1>9, <1>11, <1>13, <1>14, <1>15, <1>16, <1>17, <1>18 DEF LogInv

\* The new buffer is queued behind all others.
LEMMA SetupPushKeeps ==
  ASSUME LogInv, NEW p \in Producers, SetupPush(p) PROVE LogInv'
<1>1. /\ Go(p, "publish", "reset") /\ queue' = Append(queue, wbuf)
      /\ UNCHANGED <<windex, wbuf, slot, count, made, freed, seq, idx, target, state, rpc, draining, rbuf, rindex, file>>
  BY DEF SetupPush, readerVars
<1>2. Types /\ ReserveInv /\ ChangeInv /\ SlotInv /\ QueueInv /\ ReadInv /\ FileInv /\ OrderInv /\ ThreadOrder /\ DrainInv
  BY DEF LogInv
<1>3. pc[p] = "publish" /\ pc'[p] = "reset" /\ \A q \in Producers \ {p} : pc'[q] = pc[q]
  BY <1>1, <1>2, GoMoves
<1>4. \A q \in Producers : /\ (Busy(q)' <=> Busy(q)) /\ (Unstored(q)' <=> Unstored(q))
                           /\ (Changing(q)' <=> Changing(q)) /\ (Opening(q)' <=> Opening(q))
                           /\ (pc'[q] # "idle" => pc[q] # "idle")
                           /\ (pc'[q] \in {"store", "count"} => pc[q] \in {"store", "count"})
  BY <1>3 DEF Busy, Unstored, Changing, Opening
<1>5. \A q \in Producers : pc'[q] # "publish"
  BY <1>2, <1>3 DEF ChangeInv, Changing
<1>6. \A q \in Producers : Stored(q)' = Stored(q)
  BY <1>1, <1>3 DEF Stored
<1>7. /\ wbuf = made /\ made \in Buffers /\ queue \in Seq(Buffers) /\ Len(queue) \in Nat
      /\ \A i \in 1 .. Len(queue) : queue[i] \in Buffers
      /\ \A b \in Buffers : b \in Nat
  BY <1>2, LogConstants DEF ReserveInv, Types
<1>8. /\ queue' \in Seq(Buffers) /\ Len(queue') = Len(queue) + 1 /\ queue'[Len(queue) + 1] = made
      /\ \A i \in 1 .. Len(queue) : queue'[i] = queue[i]
  BY <1>1, <1>7
<1>9. Types'
  BY <1>1, <1>2, <1>8 DEF Types, Go
<1>10. ReserveInv'
  BY <1>1, <1>2, <1>4, ReserveSame DEF ReserveInv
<1>11. ChangeInv' /\ SlotInv' /\ OrderInv'
  BY <1>1, <1>2, <1>4, <1>6, ChangeSame, SlotSame, OrderSame
<1>12. ~Full(made)
  BY <1>2, <1>3, <1>7, LogConstants DEF ChangeInv, Opening, Full
<1>13. /\ \A i \in 1 .. Len(queue) : queue[i] < made
       /\ \A b \in freed : b < made /\ b \in Buffers
  <2>1. \A i \in 1 .. Len(queue) : queue[i] <= made /\ queue[i] # made
    BY <1>2, <1>3 DEF QueueInv
  <2>2. \A b \in freed : b <= made /\ b # made /\ b \in Buffers
    BY <1>2, <1>12 DEF QueueInv, Types
  <2> QED
    BY <1>7, <2>1, <2>2
<1>14. QueueInv'
  <2>1. \A i \in 1 .. Len(queue') : i \in 1 .. Len(queue) \/ i = Len(queue) + 1
    BY <1>7, <1>8
  <2>2. ASSUME NEW i \in 1 .. Len(queue'), NEW j \in 1 .. Len(queue'), i < j PROVE queue'[i] < queue'[j]
    <3>1. i \in 1 .. Len(queue)
      BY <1>7, <1>8, <2>2
    <3>2. CASE j \in 1 .. Len(queue)
      BY <1>2, <1>8, <2>2, <3>1, <3>2 DEF QueueInv
    <3>3. CASE j = Len(queue) + 1
      BY <1>8, <1>13, <3>1, <3>3
    <3> QED
      BY <2>1, <3>2, <3>3
  <2>3. ASSUME NEW i \in 1 .. Len(queue') PROVE queue'[i] <= made /\ \A b \in freed : b < queue'[i]
    <3>1. CASE i \in 1 .. Len(queue)
      BY <1>2, <1>8, <3>1 DEF QueueInv
    <3>2. CASE i = Len(queue) + 1
      BY <1>7, <1>8, <1>13, <3>2
    <3> QED
      BY <2>1, <3>1, <3>2
  <2>4. ASSUME NEW b \in Buffers, b <= made PROVE b \in freed \/ \E i \in 1 .. Len(queue') : b = queue'[i]
    <3>1. b \in freed \/ (\E i \in 1 .. Len(queue) : b = queue[i]) \/ b = made
      BY <1>2, <2>4 DEF QueueInv
    <3>2. Len(queue) + 1 \in 1 .. Len(queue') /\ \A i \in 1 .. Len(queue) : i \in 1 .. Len(queue')
      BY <1>7, <1>8
    <3> QED
      BY <1>8, <3>1, <3>2
  <2> QED
    BY <1>1, <1>2, <1>5, <2>2, <2>3, <2>4 DEF QueueInv, Full
<1>15. queue # <<>> => queue' # <<>> /\ queue'[1] = queue[1]
  <2>1. queue # <<>> => 1 \in 1 .. Len(queue)
    BY <1>7
  <2>2. queue' # <<>>
    BY <1>7, <1>8
  <2> QED
    BY <1>8, <2>1, <2>2
<1>16. ReadInv'
  BY <1>1, <1>2, <1>15 DEF ReadInv, Full
<1>17. \A b \in Buffers, i \in Slots : Read(b, i)' <=> Read(b, i)
  BY <1>1, <1>2, <1>15 DEF Read, ReadInv
<1>18. FileInv'
  BY <1>1, <1>2, <1>6, <1>17, FileSame
<1>19. ThreadOrder' /\ DrainInv'
  BY <1>1, <1>2, <1>3, DrainBusy DEF ThreadOrder
<1> QED
  BY <1>9, <1>10, <1>11, <1>14, <1>16, <1>18, <1>19 DEF LogInv

\* The index is reset, for the empty buffer.
LEMMA SetupResetKeeps ==
  ASSUME LogInv, NEW p \in Producers, SetupReset(p) PROVE LogInv'
<1>1. /\ Go(p, "reset", "idle") /\ windex' = 0
      /\ UNCHANGED <<wbuf, queue, slot, count, made, freed, seq, idx, target, state, rpc, draining, rbuf, rindex, file>>
  BY DEF SetupReset, readerVars
<1>2. Types /\ ReserveInv /\ ChangeInv /\ SlotInv /\ QueueInv /\ ReadInv /\ FileInv /\ OrderInv /\ ThreadOrder /\ DrainInv
  BY DEF LogInv
<1>3. pc[p] = "reset" /\ pc'[p] = "idle" /\ \A q \in Producers \ {p} : pc'[q] = pc[q]
  BY <1>1, <1>2, GoMoves
<1>4. /\ \A q \in Producers : ~Busy(q) /\ (q # p => ~Changing(q))
      /\ count[wbuf] = 0 /\ \A i \in Slots : slot[wbuf][i] = NoLine
  BY <1>2, <1>3 DEF ChangeInv, Changing, Opening
<1>5. \A q \in Producers : /\ ~Busy(q)' /\ ~Unstored(q)' /\ ~Unstored(q) /\ ~Changing(q)' /\ ~Opening(q)'
                           /\ pc'[q] # "publish" /\ pc[q] # "publish"
                           /\ pc'[q] \notin {"store", "count"} /\ (pc'[q] # "idle" => pc[q] # "idle")
  BY <1>3, <1>4 DEF Busy, Unstored, Changing, Opening
<1>6. \A q \in Producers : Stored(q)' = Stored(q)
  BY <1>1, <1>3 DEF Stored
<1>7. Types'
  BY <1>1, <1>2 DEF Types, Go
<1>8. ReserveInv'
  BY <1>1, <1>2, <1>5 DEF ReserveInv
<1>9. \A i \in Slots : ~(i < windex')
  BY <1>1, LogConstants
<1>10. ChangeInv'
  <2>1. Counted' = {}
    BY <1>9 DEF Counted
  <2> QED
    BY <1>1, <1>2, <1>4, <1>5, <2>1, FS_EmptySet DEF ChangeInv
<1>11. SlotInv'
  BY <1>1, <1>2, <1>4, <1>5, <1>9 DEF SlotInv, Full
<1>12. QueueInv' /\ ReadInv'
  BY <1>1, <1>2, <1>5, QueueSame, ReadSame
<1>13. FileInv'
  BY <1>1, <1>2, <1>6, ReadStays, FileSame
<1>14. OrderInv'
  BY <1>1, <1>2, <1>5, <1>6, OrderSame
<1>15. ThreadOrder' /\ DrainInv'
  BY <1>1, <1>2, <1>3, DrainBusy DEF ThreadOrder
<1> QED
  BY <1>7, <1>8, <1>10, <1>11, <1>12, <1>13, <1>14, <1>15 DEF LogInv

-----------------------------------------------------------------------------
(* The logger and its popping thread.                                        *)

\* What a step of the popping thread leaves as it is.
LEMMA PopSame ==
  ASSUME LogInv, UNCHANGED <<windex, wbuf, slot, count, made, pc, seq, idx, target>>, freed \subseteq freed'
  PROVE  /\ ReserveInv' /\ ChangeInv' /\ SlotInv' /\ OrderInv'
         /\ \A q \in Producers : Stored(q)' = Stored(q)
         /\ \A b \in Buffers : Full(b)' <=> Full(b)
<1>1. \A q \in Producers : /\ (Busy(q)' <=> Busy(q)) /\ (Unstored(q)' <=> Unstored(q))
                           /\ (Changing(q)' <=> Changing(q)) /\ (Opening(q)' <=> Opening(q))
                           /\ Stored(q)' = Stored(q)
  BY DEF Busy, Unstored, Changing, Opening, Stored
<1>2. ReserveInv'
  BY <1>1 DEF LogInv, ReserveInv
<1>3. ChangeInv' /\ SlotInv' /\ OrderInv'
  BY <1>1, ChangeSame, SlotSame, OrderSame DEF LogInv
<1> QED
  BY <1>1, <1>2, <1>3 DEF Full

\* The logger is constructed and destroyed.
LEMMA StateKeeps ==
  ASSUME LogInv, Construct \/ Shutdown PROVE LogInv'
<1>1. /\ UNCHANGED <<windex, wbuf, queue, slot, count, made, freed, pc, seq, idx, target, rpc, draining, rbuf, rindex, file>>
      /\ state # "SHUTDOWN"
      /\ state' = "SHUTDOWN" => \A q \in Producers : pc[q] = "idle" /\ seq[q] = Lines
  BY DEF Construct, Shutdown, sharedVars, producerVars, readerVars
<1>2. Types /\ QueueInv /\ ReadInv /\ FileInv /\ ThreadOrder /\ DrainInv
  BY DEF LogInv
<1>3. Types'
  BY <1>1, <1>2 DEF Types
<1>4. ReserveInv' /\ ChangeInv' /\ SlotInv' /\ OrderInv' /\ \A q \in Producers : Stored(q)' = Stored(q)
  BY <1>1, PopSame
<1>5. QueueInv' /\ ReadInv'
  BY <1>1, <1>2, QueueSame, ReadSame
<1>6. FileInv'
  BY <1>1, <1>2, <1>4, ReadStays, FileSame
<1>7. ThreadOrder' /\ DrainInv'
  BY <1>1, <1>2 DEF ThreadOrder, DrainInv
<1> QED
  BY <1>3, <1>4, <1>5, <1>6, <1>7 DEF LogInv

\* The popping thread looks at the state; finds a buffer; or finds no line.
LEMMA LookKeeps ==
  ASSUME LogInv, rpc # "free", rpc' \in {"check", "pop", "done"},
         UNCHANGED <<windex, wbuf, queue, slot, count, made, freed, pc, seq, idx, target, state, rindex, file>>,
         rbuf' = rbuf \/ (rbuf = Null /\ queue # <<>> /\ rbuf' = queue[1]),
         draining' => state = "SHUTDOWN",
         rpc' = "done" =>
           draining' /\ \A b \in Buffers, i \in Slots : ~Read(b, i) => slot[b][i] = NoLine
  PROVE  LogInv'
<1>1. Types /\ QueueInv /\ ReadInv /\ FileInv /\ ThreadOrder /\ DrainInv
  BY DEF LogInv
<1>2. queue # <<>> => queue[1] \in Buffers
  BY <1>1 DEF Types
<1>3. Types'
  BY <1>1, <1>2 DEF Types
<1>4. ReserveInv' /\ ChangeInv' /\ SlotInv' /\ OrderInv' /\ \A q \in Producers : Stored(q)' = Stored(q)
  BY PopSame
<1>5. QueueInv'
  BY <1>1, QueueSame
<1>6. rindex \in Nat /\ (rbuf = Null => \A i \in Slots : ~(i < rindex))
  BY <1>1, LogConstants DEF Types, ReadInv
<1>7. ReadInv'
  BY <1>1, <1>2, <1>6, LogConstants DEF ReadInv
<1>8. \A b \in Buffers, i \in Slots : Read(b, i)' <=> Read(b, i)
  BY <1>6 DEF Read
<1>9. FileInv'
  BY <1>1, <1>4, <1>8, FileSame
<1>10. ThreadOrder'
  BY <1>1 DEF ThreadOrder
<1>11. DrainInv'
  BY <1>1, <1>8 DEF DrainInv
<1> QED
  BY <1>3, <1>4, <1>5, <1>7, <1>9, <1>10, <1>11 DEF LogInv

\* The check of the state, the next buffer, and a slot that is empty.
LEMMA MissKeeps ==
  ASSUME LogInv, LoopCheck \/ NextBuffer \/ TryPopMiss PROVE LogInv'
<1>1. Types /\ ReserveInv /\ ChangeInv /\ SlotInv /\ QueueInv /\ ReadInv /\ DrainInv
  BY DEF LogInv
<1>2. CASE LoopCheck
  <2>1. /\ rpc = "check" /\ rpc' = "pop" /\ draining' = (state = "SHUTDOWN") /\ rbuf' = rbuf
        /\ UNCHANGED <<windex, wbuf, queue, slot, count, made, freed, pc, seq, idx, target, state, rindex, file>>
    BY <1>2 DEF LoopCheck, sharedVars, producerVars
  <2>2. rpc # "free" /\ rpc' \in {"check", "pop", "done"} /\ rpc' # "done" /\ (draining' => state = "SHUTDOWN")
    BY <2>1
  <2> QED
    BY ONLY LogInv, <2>1, <2>2, LookKeeps
<1>3. \A b \in Buffers : b \in Nat
  BY LogConstants
<1>4. ASSUME draining, NEW b \in Buffers, b \notin freed, NEW i \in Slots, slot[b][i] # NoLine
      PROVE  \E j \in 1 .. Len(queue) : b = queue[j]
  <2>1. \A p \in Producers : pc[p] # "publish"
    BY <1>1, <1>4 DEF DrainInv
  <2>2. b <= made
    <3>1. ~(b > made)
      BY <1>1, <1>4 DEF ChangeInv
    <3> QED
      BY <1>1, <1>3, <3>1 DEF Types
  <2> QED
    BY <1>1, <1>4, <2>1, <2>2 DEF QueueInv
<1>5. CASE NextBuffer
  <2>1. /\ rpc = "pop" /\ rbuf = Null /\ draining' = draining
        /\ UNCHANGED <<windex, wbuf, queue, slot, count, made, freed, pc, seq, idx, target, state, rindex, file>>
        /\ \/ queue = <<>> /\ rpc' = (IF draining THEN "done" ELSE "check") /\ rbuf' = rbuf
           \/ queue # <<>> /\ rbuf' = queue[1] /\ rpc' = rpc
    BY <1>5 DEF NextBuffer, AfterMiss, sharedVars, producerVars
  <2>2. ASSUME rpc' = "done", NEW b \in Buffers, NEW i \in Slots, ~Read(b, i) PROVE slot[b][i] = NoLine
    <3>1. queue = <<>> /\ draining /\ Len(queue) = 0
      BY <2>1, <2>2
    <3>2. b \notin freed
      BY <2>2 DEF Read
    <3> QED
      BY <1>4, <3>1, <3>2
  <2>3. draining' => state = "SHUTDOWN"
    BY <1>1, <2>1 DEF DrainInv
  <2>4. /\ rpc # "free" /\ rpc' \in {"check", "pop", "done"} /\ (rpc' = "done" => draining')
        /\ rbuf' = rbuf \/ (rbuf = Null /\ queue # <<>> /\ rbuf' = queue[1])
    BY <2>1
  <2> QED
    BY ONLY LogInv, <2>1, <2>2, <2>3, <2>4, LookKeeps
<1>6. CASE TryPopMiss
  <2>1. /\ rpc = "pop" /\ rbuf # Null /\ draining' = draining /\ rbuf' = rbuf
        /\ slot[rbuf][rindex] = NoLine /\ rpc' = (IF draining THEN "done" ELSE "check")
        /\ UNCHANGED <<windex, wbuf, queue, slot, count, made, freed, pc, seq, idx, target, state, rindex, file>>
    BY <1>6 DEF TryPopMiss, AfterMiss, sharedVars, producerVars
  <2>2. ASSUME rpc' = "done", NEW b \in Buffers, NEW i \in Slots, ~Read(b, i), slot[b][i] # NoLine PROVE FALSE
    <3>1. draining /\ \A p \in Producers : pc[p] = "idle"
      BY <1>1, <2>1, <2>2 DEF DrainInv
    <3>2. queue # <<>> /\ rbuf = queue[1] /\ rbuf \in Buffers /\ rindex \in Slots
      BY <1>1, <2>1 DEF ReadInv, Types
    <3>3. queue \in Seq(Buffers) /\ 1 \in 1 .. Len(queue)
      BY <1>1, <3>2 DEF Types
    <3>4. rbuf = made
      <4>1. rbuf <= made
        BY <1>1, <3>2, <3>3 DEF QueueInv
      <4>2. ~(rbuf < made)
        BY <1>1, <2>1, <3>2 DEF SlotInv, Full
      <4> QED
        BY <1>1, <1>3, <3>2, <4>1, <4>2 DEF Types
    <3>5. b \notin freed
      BY <2>2 DEF Read
    <3>6. PICK j \in 1 .. Len(queue) : b = queue[j]
      BY <1>4, <2>2, <3>1, <3>5
    <3>7. b = rbuf
      <4>1. queue[j] <= made /\ (1 < j => rbuf < queue[j])
        BY <1>1, <3>2, <3>3 DEF QueueInv
      <4>2. j = 1 \/ 1 < j
        BY <3>3
      <4>3. ~(rbuf < b)
        <5>1. b \in Nat /\ rbuf \in Nat /\ b <= rbuf
          BY <1>3, <3>2, <3>4, <3>6, <4>1
        <5> QED
          BY <5>1
      <4> QED
        BY <3>2, <3>6, <4>1, <4>2, <4>3
    <3>8. ~(i < rindex)
      BY <2>1, <2>2, <3>7 DEF Read
    <3>9. wbuf = rbuf /\ \A p \in Producers : ~Opening(p) /\ ~Unstored(p)
      BY <1>1, <3>1, <3>4 DEF ReserveInv, Opening, Unstored
    <3>10. ~(rindex < windex)
      BY <1>1, <2>1, <3>2, <3>9 DEF SlotInv
    <3>11. i >= windex
      BY <1>1, <3>2, <3>8, <3>10, LogConstants DEF Types
    <3> QED
      BY <1>1, <2>2, <3>7, <3>9, <3>11 DEF SlotInv
  <2>3. draining' => state = "SHUTDOWN"
    BY <1>1, <2>1 DEF DrainInv
  <2>4. rpc # "free" /\ rpc' \in {"check", "pop", "done"} /\ (rpc' = "done" => draining')
    BY <2>1
  <2> QED
    BY ONLY LogInv, <2>1, <2>2, <2>3, <2>4, LookKeeps
<1> QED
  BY <1>2, <1>5, <1>6

\* The slots that are read come before the ones that are not.
LEMMA ReadFirst ==
  ASSUME LogInv, rbuf # Null,
         NEW b \in Buffers, NEW i \in Slots, slot[b][i] # NoLine, ~(b = rbuf /\ i = rindex)
  PROVE  IF Read(b, i) THEN b < rbuf \/ (b = rbuf /\ i < rindex)
                       ELSE rbuf < b \/ (b = rbuf /\ rindex < i)
<1>1. Types /\ ReserveInv /\ ChangeInv /\ QueueInv /\ ReadInv
  BY DEF LogInv
<1>2. /\ queue # <<>> /\ rbuf = queue[1] /\ rbuf \in Buffers /\ rindex \in Slots /\ rpc # "free"
      /\ queue \in Seq(Buffers)
  BY <1>1 DEF ReadInv, Types
<1>3. 1 \in 1 .. Len(queue) /\ i \in Nat /\ rindex \in Nat /\ b \in Nat /\ rbuf \in Nat /\ made \in Nat
  BY <1>1, <1>2, LogConstants DEF Types
<1>4. CASE Read(b, i)
  <2>1. CASE b \in freed
    BY <1>1, <1>2, <1>3, <1>4, <2>1 DEF QueueInv
  <2>2. CASE b \notin freed
    BY <1>2, <1>4, <2>2 DEF Read
  <2> QED
    BY <2>1, <2>2
<1>5. CASE ~Read(b, i)
  <2>1. b \notin freed /\ (b = rbuf => ~(i < rindex))
    BY <1>5 DEF Read
  <2>2. ~(b > made)
    BY <1>1 DEF ChangeInv
  <2>3. b <= made
    BY <1>3, <2>2
  <2>4. ~(b = made /\ \E p \in Producers : pc[p] = "publish")
    BY <1>1 DEF ChangeInv, Opening, ReserveInv
  <2>5. PICK j \in 1 .. Len(queue) : b = queue[j]
    BY <1>1, <2>1, <2>3, <2>4 DEF QueueInv
  <2>6. CASE j = 1
    BY <1>2, <1>3, <1>5, <2>1, <2>5, <2>6
  <2>7. CASE j # 1
    <3>1. 1 < j
      BY <1>2, <2>7
    <3> QED
      BY <1>1, <1>2, <1>3, <1>5, <2>5, <3>1 DEF QueueInv
  <2> QED
    BY <2>6, <2>7
<1> QED
  BY <1>4, <1>5

\* The popping thread reads one slot more, which was not read before.
LEMMA HitReads ==
  ASSUME LogInv, TryPopHit
  PROVE  /\ rbuf \in Buffers /\ rindex \in Slots /\ slot[rbuf][rindex] \in LogLines /\ ~Read(rbuf, rindex)
         /\ \A b \in Buffers, i \in Slots : Read(b, i)' <=> Read(b, i) \/ (b = rbuf /\ i = rindex)
<1>1. /\ rpc = "pop" /\ rbuf # Null /\ slot[rbuf][rindex] # NoLine
      /\ \/ rindex + 1 = Size /\ rindex' = 0 /\ rpc' = "free" /\ rbuf' = Null
         \/ rindex + 1 # Size /\ rindex' = rindex + 1 /\ rpc' \in {"pop", "check"} /\ rbuf' = rbuf
      /\ UNCHANGED <<queue, slot, freed>>
  BY DEF TryPopHit, LastSlot, AfterHit, sharedVars
<1>2. Types /\ QueueInv /\ ReadInv
  BY DEF LogInv
<1>3. rbuf \in Buffers /\ rindex \in Slots /\ queue # <<>> /\ rbuf = queue[1]
  BY <1>1, <1>2 DEF Types, ReadInv
<1>4. slot[rbuf][rindex] \in LogLines
  BY <1>1, <1>2, <1>3 DEF Types
<1>5. rindex \in Nat /\ Size \in Nat /\ rindex < Size /\ \A i \in Slots : i \in Nat /\ i < Size
  BY <1>3, LogConstants
<1>6. ~Read(rbuf, rindex)
  <2>1. 1 \in 1 .. Len(queue)
    BY <1>2, <1>3 DEF Types
  <2>2. rbuf \notin freed
    BY <1>2, <1>3, <2>1, LogConstants DEF QueueInv
  <2>3. ~(rindex < rindex)
    BY <1>5
  <2> QED
    BY <1>1, <2>2, <2>3 DEF Read
<1>7. \A b \in Buffers, i \in Slots : Read(b, i)' <=> Read(b, i) \/ (b = rbuf /\ i = rindex)
  <2>1. \A i \in Slots : i < rindex + 1 <=> i < rindex \/ i = rindex
    BY <1>5
  <2>2. CASE rindex + 1 = Size
    <3>1. \A b \in Buffers, i \in Slots : Read(b, i)' <=> b \in freed \/ b = rbuf
      BY <1>1, <1>3, <2>2 DEF Read
    <3>2. \A i \in Slots : i < rindex \/ i = rindex
      BY <1>5, <2>2
    <3>3. \A b \in Buffers, i \in Slots : Read(b, i) <=> b \in freed \/ (b = rbuf /\ i < rindex)
      BY <1>1 DEF Read
    <3> QED
      BY <3>1, <3>2, <3>3
  <2>3. CASE rindex + 1 # Size
    <3>1. \A b \in Buffers, i \in Slots : Read(b, i)' <=> b \in freed \/ (b = rbuf /\ i < rindex + 1)
      BY <1>1, <2>3 DEF Read
    <3>2. \A b \in Buffers, i \in Slots : Read(b, i) <=> b \in freed \/ (b = rbuf /\ i < rindex)
      BY <1>1 DEF Read
    <3> QED
      BY <2>1, <3>1, <3>2
  <2> QED
    BY <2>2, <2>3
<1> QED
  BY <1>3, <1>4, <1>6, <1>7

\* A line of a thread that was read is older than the one that is read now, and the others are younger.
LEMMA HitOrder ==
  ASSUME LogInv, rbuf # Null, slot[rbuf][rindex] # NoLine,
         NEW b \in Buffers, NEW i \in Slots, slot[b][i] # NoLine,
         slot[b][i][1] = slot[rbuf][rindex][1], ~(b = rbuf /\ i = rindex)
  PROVE  IF Read(b, i) THEN slot[b][i][2] < slot[rbuf][rindex][2] ELSE slot[rbuf][rindex][2] < slot[b][i][2]
<1>1. Types /\ OrderInv
  BY DEF LogInv
<1>2. rbuf \in Buffers /\ rindex \in Slots
  BY <1>1 DEF Types
<1>3. IF Read(b, i) THEN b < rbuf \/ (b = rbuf /\ i < rindex) ELSE rbuf < b \/ (b = rbuf /\ rindex < i)
  BY ReadFirst
<1> QED
  BY <1>1, <1>2, <1>3 DEF OrderInv

\* A line is read and written to the file.
LEMMA HitKeeps ==
  ASSUME LogInv, TryPopHit PROVE LogInv'
<1> DEFINE line == slot[rbuf][rindex]
<1>1. /\ rpc = "pop" /\ rbuf # Null /\ line # NoLine /\ file' = Append(file, line) /\ draining' = draining
      /\ \/ rindex + 1 = Size /\ rindex' = 0 /\ rpc' = "free" /\ rbuf' = Null
         \/ rindex + 1 # Size /\ rindex' = rindex + 1 /\ rpc' \in {"pop", "check"} /\ rbuf' = rbuf
      /\ UNCHANGED <<windex, wbuf, queue, slot, count, made, freed, pc, seq, idx, target, state>>
  BY DEF TryPopHit, LastSlot, AfterHit, sharedVars, producerVars
<1>2. Types /\ ReserveInv /\ ChangeInv /\ SlotInv /\ QueueInv /\ ReadInv /\ FileInv /\ OrderInv /\ ThreadOrder /\ DrainInv
  BY DEF LogInv
<1>3. rbuf \in Buffers /\ rindex \in Slots /\ queue # <<>> /\ rbuf = queue[1]
  BY <1>1, <1>2 DEF Types, ReadInv
<1>4. line \in LogLines
  BY <1>1, <1>2, <1>3 DEF Types
<1>5. line[1] \in Producers /\ line[2] \in 1 .. Lines /\ line = <<line[1], line[2]>>
  BY <1>4, LineFacts
<1>6. slot[rbuf][rindex] = line
  OBVIOUS
<1> HIDE DEF line
<1>7. rindex \in Nat /\ Size \in Nat /\ rindex < Size /\ \A i \in Slots : i \in Nat /\ i < Size
  BY <1>3, LogConstants
<1>8. file \in Seq(LogLines) /\ file' \in Seq(LogLines) /\ Len(file') = Len(file) + 1 /\ Len(file) \in Nat
      /\ file'[Len(file) + 1] = line /\ \A k \in 1 .. Len(file) : file'[k] = file[k]
  BY <1>1, <1>2, <1>4 DEF Types
<1>9. Types'
  <2>1. rindex' \in Slots
    <3>1. rindex + 1 # Size => rindex + 1 \in Slots
      BY <1>7 DEF Slots
    <3> QED
      BY <1>1, <3>1, LogConstants
  <2> QED
    BY <1>1, <1>2, <1>8, <2>1 DEF Types
<1>10. /\ ReserveInv' /\ ChangeInv' /\ SlotInv' /\ OrderInv'
       /\ \A q \in Producers : Stored(q)' = Stored(q)
       /\ \A b \in Buffers : Full(b)' <=> Full(b)
  BY <1>1, PopSame
<1>11. QueueInv'
  BY <1>1, <1>2, QueueSame
<1>12. ReadInv'
  <2>1. \A i \in Slots : i < rindex => slot[rbuf][i] # NoLine
    BY <1>1, <1>2 DEF ReadInv
  <2>2. \A i \in Slots : i < rindex + 1 => slot[rbuf][i] # NoLine
    <3>1. \A i \in Slots : i < rindex + 1 => i < rindex \/ i = rindex
      BY <1>7
    <3> QED
      BY <1>1, <1>6, <2>1, <3>1
  <2>3. CASE rindex + 1 = Size
    <3>1. Full(queue[1])
      BY <1>3, <1>7, <2>2, <2>3 DEF Full
    <3>2. Full(queue[1])'
      BY <1>1, <3>1 DEF Full
    <3> QED
      BY <1>1, <1>3, <2>3, <3>2 DEF ReadInv
  <2>4. CASE rindex + 1 # Size
    BY <1>1, <1>3, <2>2, <2>4 DEF ReadInv
  <2> QED
    BY <2>3, <2>4
<1>13. \A b \in Buffers, i \in Slots : Read(b, i)' <=> Read(b, i) \/ (b = rbuf /\ i = rindex)
  BY HitReads
<1>14. /\ Len(file) + 1 \in 1 .. Len(file') /\ \A k \in 1 .. Len(file) : k \in 1 .. Len(file')
       /\ \A k \in 1 .. Len(file') : k \in 1 .. Len(file) \/ k = Len(file) + 1
  BY <1>8
<1>15. \A q, n : InFile(<<q, n>>) \/ <<q, n>> = line => InFile(<<q, n>>)'
  <2>1. \A l : (l = line \/ \E k \in 1 .. Len(file) : file[k] = l) => \E k \in 1 .. Len(file') : file'[k] = l
    BY <1>8, <1>14
  <2> QED
    BY <2>1 DEF InFile
<1>16. FileInv'
  <2>1. ASSUME NEW q \in Producers, NEW n \in 1 .. Stored(q)
        PROVE  InFile(<<q, n>>)' \/ \E b \in Buffers, i \in Slots : ~Read(b, i)' /\ slot[b][i] = <<q, n>>
    <3>1. InFile(<<q, n>>) \/ \E b \in Buffers, i \in Slots : ~Read(b, i) /\ slot[b][i] = <<q, n>>
      BY <1>2 DEF FileInv
    <3> QED
      BY <1>6, <1>13, <1>15, <3>1
  <2>2. ASSUME NEW k \in 1 .. Len(file')
        PROVE  \E b \in Buffers, i \in Slots : Read(b, i)' /\ slot[b][i] = file'[k]
    <3>1. CASE k = Len(file) + 1
      BY <1>3, <1>6, <1>8, <1>13, <3>1
    <3>2. CASE k \in 1 .. Len(file)
      BY <1>2, <1>8, <1>13, <3>2 DEF FileInv
    <3> QED
      BY <1>14, <3>1, <3>2
  <2> QED
    BY <1>1, <1>10, <2>1, <2>2 DEF FileInv
<1>17. ASSUME NEW b \in Buffers, NEW i \in Slots, slot[b][i] # NoLine, slot[b][i][1] = line[1],
              ~(b = rbuf /\ i = rindex)
       PROVE  IF Read(b, i) THEN slot[b][i][2] < line[2] ELSE line[2] < slot[b][i][2]
  BY <1>1, <1>6, <1>17, HitOrder
<1>18. ASSUME NEW i \in 1 .. Len(file), file[i][1] = line[1] PROVE file[i][2] < line[2]
  <2>1. PICK b \in Buffers, j \in Slots : Read(b, j) /\ slot[b][j] = file[i]
    BY <1>2 DEF FileInv
  <2>2. file[i] # NoLine
    BY <1>8, LineFacts
  <2>3. ~Read(rbuf, rindex)
    BY HitReads
  <2> QED
    BY <1>17, <1>18, <2>1, <2>2, <2>3
<1>19. ASSUME line[2] > 1 PROVE \E i \in 1 .. Len(file) : file[i] = <<line[1], line[2] - 1>>
  <2> DEFINE n == line[2] - 1
             p == line[1]
  <2>1. line[2] <= Stored(p)
    BY <1>1, <1>2, <1>3, <1>6 DEF OrderInv
  <2>2. Stored(p) \in Int
    BY <1>2, <1>5 DEF Stored, Types
  <2>3. n \in 1 .. Stored(p) /\ n < line[2] /\ ~(line[2] < n)
    BY <1>5, <1>19, <2>1, <2>2
  <2>4. <<p, n>>[1] = p /\ <<p, n>>[2] = n /\ <<p, n>> # NoLine
    BY DEF NoLine
  <2>5. p \in Producers
    BY <1>5
  <2> HIDE DEF n, p
  <2>6. ASSUME NEW b \in Buffers, NEW i \in Slots, ~Read(b, i), slot[b][i] = <<p, n>> PROVE FALSE
    <3>1. ~(b = rbuf /\ i = rindex)
      <4>1. line[2] # n
        BY <1>5, <2>3
      <4> QED
        BY <1>6, <2>4, <2>6, <4>1
    <3>2. line[2] < slot[b][i][2]
      BY <1>17, <2>4, <2>6, <3>1 DEF p
    <3> QED
      BY <2>3, <2>4, <2>6, <3>2
  <2>7. InFile(<<p, n>>)
    BY <1>2, <2>3, <2>5, <2>6 DEF FileInv
  <2> QED
    BY <2>7 DEF InFile, p, n
<1>20. ThreadOrder'
  <2> SUFFICES ASSUME NEW j \in 1 .. Len(file')
               PROVE  /\ \A i \in 1 .. j - 1 : file'[i][1] = file'[j][1] => file'[i][2] < file'[j][2]
                      /\ file'[j][2] > 1 =>
                           \E i \in 1 .. j - 1 : file'[i] = <<file'[j][1], file'[j][2] - 1>>
    BY DEF ThreadOrder
  <2>1. CASE j \in 1 .. Len(file)
    <3>1. \A i \in 1 .. j - 1 : i \in 1 .. Len(file)
      BY <1>8, <2>1
    <3>2. file'[j] = file[j] /\ \A i \in 1 .. j - 1 : file'[i] = file[i]
      BY <1>8, <2>1, <3>1
    <3> QED
      BY <1>2, <2>1, <3>2 DEF ThreadOrder
  <2>2. CASE j = Len(file) + 1
    <3>1. \A i \in 1 .. j - 1 : i \in 1 .. Len(file)
      BY <1>8, <2>2
    <3>2. \A i \in 1 .. Len(file) : i \in 1 .. j - 1
      BY <1>8, <2>2
    <3>3. file'[j] = line /\ \A i \in 1 .. j - 1 : file'[i] = file[i]
      BY <1>8, <2>2, <3>1
    <3>4. \A i \in 1 .. j - 1 : file'[i][1] = line[1] => file'[i][2] < line[2]
      BY <1>18, <3>1, <3>3
    <3>5. line[2] > 1 => \E i \in 1 .. j - 1 : file'[i] = <<line[1], line[2] - 1>>
      BY <1>19, <3>2, <3>3
    <3> QED
      BY <3>3, <3>4, <3>5
  <2> QED
    BY <1>14, <2>1, <2>2
<1>21. DrainInv'
  BY <1>1, <1>2 DEF DrainInv
<1> QED
  BY <1>9, <1>10, <1>11, <1>12, <1>16, <1>20, <1>21 DEF LogInv

\* The buffer that has been read is deleted.
LEMMA PopBufferKeeps ==
  ASSUME LogInv, PopBuffer PROVE LogInv'
<1>1. /\ rpc = "free" /\ queue' = Tail(queue) /\ freed' = freed \cup {Head(queue)} /\ rpc' \in {"pop", "check"}
      /\ UNCHANGED <<windex, wbuf, slot, count, made, pc, seq, idx, target, state, draining, rbuf, rindex, file>>
  BY DEF PopBuffer, AfterHit, producerVars
<1>2. Types /\ ReserveInv /\ ChangeInv /\ SlotInv /\ QueueInv /\ ReadInv /\ FileInv /\ OrderInv /\ ThreadOrder /\ DrainInv
  BY DEF LogInv
<1>3. queue # <<>> /\ Full(queue[1]) /\ rbuf = Null /\ queue \in Seq(Buffers)
  BY <1>1, <1>2 DEF ReadInv, Types
<1>4. /\ Head(queue) = queue[1] /\ queue[1] \in Buffers /\ Len(queue) \in Nat /\ 1 \in 1 .. Len(queue)
      /\ queue' \in Seq(Buffers) /\ Len(queue') = Len(queue) - 1
      /\ \A i \in 1 .. Len(queue') : queue'[i] = queue[i + 1]
  BY <1>1, <1>3
<1>5. freed' = freed \cup {queue[1]}
  BY <1>1, <1>4
<1>6. Types'
  BY <1>1, <1>2, <1>4, <1>5 DEF Types
<1>7. /\ ReserveInv' /\ ChangeInv' /\ SlotInv' /\ OrderInv'
      /\ \A q \in Producers : Stored(q)' = Stored(q)
      /\ \A b \in Buffers : Full(b)' <=> Full(b)
  BY <1>1, PopSame
<1>8. \A i \in 1 .. Len(queue') : i + 1 \in 1 .. Len(queue) /\ 1 < i + 1
  BY <1>4
<1>9. QueueInv'
  <2>1. \A i, j \in 1 .. Len(queue') : i < j => queue'[i] < queue'[j]
    <3>1. \A i, j \in 1 .. Len(queue') : i < j => i + 1 < j + 1
      BY <1>4
    <3> QED
      BY <1>2, <1>4, <1>8, <3>1 DEF QueueInv
  <2>2. \A i \in 1 .. Len(queue') :
           /\ queue'[i] <= made
           /\ queue'[i] = made => \A p \in Producers : pc[p] # "publish"
           /\ \A b \in freed' : b < queue'[i]
    BY <1>2, <1>4, <1>5, <1>8 DEF QueueInv
  <2>3. ASSUME NEW b \in Buffers, b <= made
        PROVE  \/ b \in freed' \/ \E i \in 1 .. Len(queue') : b = queue'[i]
               \/ b = made /\ \E p \in Producers : pc[p] = "publish"
    <3>1. ASSUME NEW i \in 1 .. Len(queue), b = queue[i] PROVE b \in freed' \/ \E j \in 1 .. Len(queue') : b = queue'[j]
      <4>1. CASE i = 1
        BY <1>5, <3>1, <4>1
      <4>2. CASE i # 1
        <5>1. i - 1 \in 1 .. Len(queue') /\ (i - 1) + 1 = i
          BY <1>4, <4>2
        <5> QED
          BY <1>4, <3>1, <5>1
      <4> QED
        BY <4>1, <4>2
    <3> QED
      BY <1>2, <1>5, <2>3, <3>1 DEF QueueInv
  <2>4. \A b \in freed' : b <= made /\ Full(b)
    BY <1>2, <1>3, <1>4, <1>5 DEF QueueInv
  <2>5. \A b \in freed' : Full(b)'
    BY <1>6, <1>7, <2>4 DEF Types
  <2> QED
    BY <1>1, <2>1, <2>2, <2>3, <2>4, <2>5 DEF QueueInv
<1>10. ReadInv'
  BY <1>1, <1>2, <1>3 DEF ReadInv
<1>11. \A b \in Buffers, i \in Slots : Read(b, i)' <=> Read(b, i)
  BY <1>1, <1>3, <1>5 DEF Read
<1>12. FileInv'
  BY <1>1, <1>2, <1>7, <1>11, FileSame
<1>13. ThreadOrder' /\ DrainInv'
  BY <1>1, <1>2 DEF ThreadOrder, DrainInv
<1> QED
  BY <1>6, <1>7, <1>9, <1>10, <1>12, <1>13 DEF LogInv

-----------------------------------------------------------------------------
(* Every step, and the theorems.                                             *)

\* A step keeps the invariant.
LEMMA NextLog == LogInv /\ [Next]_vars => LogInv'
<1> SUFFICES ASSUME LogInv, [Next]_vars PROVE LogInv'
  OBVIOUS
<1>1. CASE Construct \/ Shutdown
  BY <1>1, StateKeeps
<1>2. CASE \E p \in Producers : Log(p) \/ Push(p)
  BY <1>2, LogKeeps, ReserveKeeps, SpinLoadKeeps, StoreKeeps, CountKeeps, SetupStoreKeeps, SetupPushKeeps,
     SetupResetKeeps DEF Push
<1>3. CASE Popper
  BY <1>3, MissKeeps, HitKeeps, PopBufferKeeps DEF Popper
<1>4. CASE Finished \/ UNCHANGED vars
  <2>1. UNCHANGED <<windex, wbuf, queue, slot, count, made, freed, pc, seq, idx, target, state, rpc, draining, rbuf,
                    rindex, file>>
    BY <1>4 DEF Finished, vars, sharedVars, producerVars, readerVars
  <2>2. Types /\ QueueInv /\ ReadInv /\ FileInv /\ ThreadOrder /\ DrainInv
    BY DEF LogInv
  <2>3. Types' /\ ThreadOrder'
    BY <2>1, <2>2 DEF Types, ThreadOrder
  <2>4. ReserveInv' /\ ChangeInv' /\ SlotInv' /\ OrderInv' /\ \A q \in Producers : Stored(q)' = Stored(q)
    BY <2>1, PopSame
  <2>5. QueueInv' /\ ReadInv'
    BY <2>1, <2>2, QueueSame, ReadSame
  <2>6. \A b \in Buffers, i \in Slots : Read(b, i)' <=> Read(b, i)
    BY <2>1, ReadStays
  <2>7. FileInv'
    BY <2>1, <2>2, <2>4, <2>6, FileSame
  <2>8. DrainInv'
    BY <2>1, <2>2, <2>6 DEF DrainInv
  <2> QED
    BY <2>3, <2>4, <2>5, <2>7, <2>8 DEF LogInv
<1> QED
  BY <1>1, <1>2, <1>3, <1>4 DEF Next

\* The invariant holds throughout.
LEMMA LogInvariant == SafeSpec => []LogInv
BY InitLog, NextLog, PTL DEF SafeSpec

\* An unread slot is one the popping thread has still to read.
LEMMA UnreadWaiting ==
  ASSUME LogInv, NEW b \in Buffers, NEW i \in Slots, ~Read(b, i) PROVE slot[b][i] \in Waiting
<1>1. Types /\ ReadInv
  BY DEF LogInv
<1>2. i \in 0 .. Size - 1 /\ rindex \in Nat /\ i \in Nat
  BY <1>1, LogConstants DEF Slots, Types
<1>3. rpc = "free" => Head(queue) = queue[1]
  BY <1>1 DEF ReadInv, Types
<1>4. CASE b = rbuf
  <2>1. rbuf # Null
    BY <1>4, LogConstants
  <2>2. i \in rindex .. Size - 1
    <3>1. ~(i < rindex)
      BY <1>4, <2>1 DEF Read
    <3> QED
      BY <1>2, <3>1, LogConstants
  <2> QED
    BY <1>4, <2>1, <2>2 DEF Waiting
<1>5. CASE b # rbuf
  <2>1. b \in {c \in Buffers \ freed : c # rbuf /\ ~(rpc = "free" /\ c = Head(queue))}
    BY <1>3, <1>5 DEF Read
  <2> QED
    BY <1>2, <2>1 DEF Waiting
<1> QED
  BY <1>4, <1>5

(* No two threads write the same slot, none writes a slot twice and none writes into a     *)
(* buffer that was deleted, however the threads in push and the popping thread interleave. *)
THEOREM SlotSafeHolds == SafeSpec => []SlotSafe
<1>1. LogInv => SlotSafe
  <2> SUFFICES ASSUME LogInv, NEW p \in Producers, pc[p] = "store"
               PROVE  /\ target[p] \notin freed /\ slot[target[p]][idx[p]] = NoLine
                      /\ \A q \in Producers \ {p} : pc[q] = "store" => target[q] # target[p] \/ idx[q] # idx[p]
    BY DEF SlotSafe
  <2>1. wbuf \notin freed /\ slot[wbuf][idx[p]] = NoLine
    BY SlotEmpty DEF Unstored
  <2>2. target[p] = wbuf /\ \A q \in Producers \ {p} : pc[q] = "store" => idx[q] # idx[p]
    BY DEF LogInv, ReserveInv, Busy
  <2> QED
    BY <2>1, <2>2
<1> QED
  BY <1>1, LogInvariant, PTL

(* A line that was stored is in the file or in a slot that is still to be read: a change   *)
(* of buffers, a reset of the index and a deleted buffer lose none.                        *)
THEOREM LineKeptHolds == SafeSpec => []LineKept
<1>1. LogInv => LineKept
  <2> SUFFICES ASSUME LogInv, NEW p \in Producers, NEW n \in 1 .. Stored(p)
               PROVE  InFile(<<p, n>>) \/ <<p, n>> \in Waiting
    BY DEF LineKept
  <2>1. InFile(<<p, n>>) \/ \E b \in Buffers, i \in Slots : ~Read(b, i) /\ slot[b][i] = <<p, n>>
    BY DEF LogInv, FileInv
  <2> QED
    BY <2>1, UnreadWaiting
<1> QED
  BY <1>1, LogInvariant, PTL

(* The lines of a thread are in the file once each and in its order, none left out,         *)
(* whatever the other threads log and wherever a buffer ends.                               *)
THEOREM ThreadOrderHolds == SafeSpec => []ThreadOrder
<1>1. LogInv => ThreadOrder
  BY DEF LogInv
<1> QED
  BY <1>1, LogInvariant, PTL

\* The destructor returns only when every line is in the file.
THEOREM DrainCompleteHolds == SafeSpec => []DrainComplete
<1>1. LogInv => DrainComplete
  <2> SUFFICES ASSUME LogInv, rpc = "done", NEW line \in LogLines PROVE InFile(line)
    BY DEF DrainComplete
  <2>1. line[1] \in Producers /\ line[2] \in 1 .. Lines /\ line = <<line[1], line[2]>> /\ line # NoLine
    BY LineFacts
  <2>2. pc[line[1]] = "idle" /\ seq[line[1]] = Lines
    BY <2>1 DEF LogInv, DrainInv
  <2>3. Stored(line[1]) = Lines
    BY <2>2 DEF Stored
  <2>4. InFile(line) \/ \E b \in Buffers, i \in Slots : ~Read(b, i) /\ slot[b][i] = line
    BY <2>1, <2>3 DEF LogInv, FileInv
  <2> QED
    BY <2>1, <2>4 DEF LogInv, DrainInv
<1> QED
  BY <1>1, LogInvariant, PTL

-----------------------------------------------------------------------------
(* The guaranteed logger implements a log without loss.                      *)

\* The lines in the slots that were not read yet.
Unread == {l \in LogLines : \E b \in Buffers, i \in Slots : ~Read(b, i) /\ slot[b][i] = l}

\* What is waiting is what was not read yet.
LEMMA WaitingUnread == LogInv => Waiting \ {NoLine} = Unread
<1> SUFFICES ASSUME LogInv PROVE Waiting \ {NoLine} = Unread
  OBVIOUS
<1>1. Types /\ QueueInv /\ ReadInv
  BY DEF LogInv
<1>2. ASSUME NEW l \in Waiting, l # NoLine PROVE l \in Unread
  <2>1. ASSUME NEW b \in Buffers, NEW i \in Slots, ~Read(b, i), slot[b][i] = l PROVE l \in Unread
    <3>1. l \in LogLines
      BY <1>1, <1>2, <2>1 DEF Types
    <3> QED
      BY <2>1, <3>1 DEF Unread
  <2>2. CASE \E b \in {c \in Buffers \ freed : c # rbuf /\ ~(rpc = "free" /\ c = Head(queue))}, i \in 0 .. Size - 1 : l = slot[b][i]
    <3>1. PICK b \in Buffers, i \in Slots :
            b \notin freed /\ b # rbuf /\ ~(rpc = "free" /\ b = Head(queue)) /\ l = slot[b][i]
      BY <2>2 DEF Slots
    <3>2. rpc = "free" => Head(queue) = queue[1]
      BY <1>1 DEF ReadInv, Types
    <3>3. ~Read(b, i)
      BY <3>1, <3>2 DEF Read
    <3> QED
      BY <2>1, <3>1, <3>3
  <2>3. CASE rbuf # Null /\ \E i \in rindex .. Size - 1 : l = slot[rbuf][i]
    <3>1. rbuf \in Buffers /\ rindex \in Nat /\ queue # <<>> /\ rbuf = queue[1] /\ rpc # "free"
      BY <1>1, <2>3, LogConstants DEF Types, ReadInv
    <3>2. PICK i \in rindex .. Size - 1 : l = slot[rbuf][i]
      BY <2>3
    <3>3. i \in Slots /\ ~(i < rindex)
      BY <3>1, <3>2, LogConstants DEF Slots
    <3>4. rbuf \notin freed
      <4>1. 1 \in 1 .. Len(queue)
        BY <1>1, <3>1 DEF Types
      <4> QED
        BY <1>1, <3>1, <4>1, LogConstants DEF QueueInv
    <3>5. ~Read(rbuf, i)
      BY <3>1, <3>3, <3>4 DEF Read
    <3> QED
      BY <2>1, <3>1, <3>2, <3>3, <3>5
  <2> QED
    BY <1>2, <2>2, <2>3 DEF Waiting
<1>3. ASSUME NEW l \in Unread PROVE l \in Waiting /\ l # NoLine
  <2>1. PICK b \in Buffers, i \in Slots : ~Read(b, i) /\ slot[b][i] = l
    BY DEF Unread
  <2>2. l \in LogLines
    BY DEF Unread
  <2> QED
    BY <2>1, <2>2, LineFacts, UnreadWaiting
<1> QED
  BY <1>2, <1>3

\* A step that stores and writes nothing changes nothing that can be seen.
LEMMA Unseen ==
  ASSUME LogInv, LogInv', UNCHANGED <<slot, file>>, rpc' = "done" <=> rpc = "done",
         \A b \in Buffers, i \in Slots : Read(b, i)' <=> Read(b, i),
         \A q \in Producers : Stored(q)' = Stored(q)
  PROVE  UNCHANGED Service!vars
<1>1. Unread' = Unread
  BY DEF Unread
<1>2. (Waiting \ {NoLine} = Unread)'
  BY WaitingUnread, PTL
<1>3. (Waiting \ {NoLine})' = Waiting \ {NoLine}
  BY <1>1, <1>2, WaitingUnread
<1>4. [p \in Producers |-> Stored(p)]' = [p \in Producers |-> Stored(p)]
  OBVIOUS
<1>5. (rpc = "done")' = (rpc = "done")
  OBVIOUS
<1> QED
  BY <1>3, <1>4, <1>5 DEF Service!vars

\* Before the logger is closed, a thread in push is about to store its next line.
LEMMA StoreTakes ==
  ASSUME LogInv, LogInv', NEW p \in Producers, Store(p) PROVE Service!Next
<1> DEFINE line == <<p, seq[p]>>
           k == idx[p]
<1>1. /\ Go(p, "store", "count") /\ slot' = [slot EXCEPT ![target[p]][k] = line]
      /\ UNCHANGED <<queue, freed, seq, rpc, rbuf, rindex, file>>
  BY DEF Store, readerVars
<1>2. Types /\ ReserveInv /\ DrainInv
  BY DEF LogInv
<1>3. pc[p] = "store" /\ pc'[p] = "count" /\ \A q \in Producers \ {p} : pc'[q] = pc[q]
  BY <1>1, <1>2, GoMoves
<1>4. k \in Slots /\ slot[wbuf][k] = NoLine /\ ~Read(wbuf, k)
  BY <1>3, SlotEmpty DEF Unstored
<1>5. target[p] = wbuf /\ wbuf \in Buffers /\ seq[p] \in 1 .. Lines
  BY <1>2, <1>3 DEF ReserveInv, Types
<1>6. line \in LogLines /\ line # NoLine
  BY <1>5, LineFacts
<1>7. /\ Stored(p) = seq[p] - 1 /\ Stored(p)' = seq[p] /\ Stored(p) + 1 = seq[p] /\ Stored(p) < Lines
      /\ \A q \in Producers \ {p} : Stored(q)' = Stored(q)
  BY <1>1, <1>3, <1>5, LogQueueAssumption DEF Stored
<1>8. [q \in Producers |-> Stored(q)]' = [[q \in Producers |-> Stored(q)] EXCEPT ![p] = @ + 1]
  BY <1>7
<1>9. line = <<p, [q \in Producers |-> Stored(q)][p] + 1>>
  BY <1>7
<1> HIDE DEF line, k
<1>10. /\ slot'[wbuf][k] = line
       /\ \A b \in Buffers, i \in Slots : ~(b = wbuf /\ i = k) => slot'[b][i] = slot[b][i]
  BY <1>1, <1>2, <1>4, <1>5 DEF Types
<1>11. \A b \in Buffers, i \in Slots : Read(b, i)' <=> Read(b, i)
  BY <1>1, ReadStays
<1>12. Unread' = Unread \cup {line}
  <2>1. \A l \in LogLines : l # NoLine
    BY LineFacts
  <2>2. ASSUME NEW l \in LogLines PROVE l \in Unread' <=> l \in Unread \/ l = line
    <3>1. ASSUME NEW b \in Buffers, NEW i \in Slots, ~Read(b, i), slot'[b][i] = l PROVE l \in Unread \/ l = line
      BY <1>10, <3>1 DEF Unread
    <3>2. ASSUME NEW b \in Buffers, NEW i \in Slots, ~Read(b, i), slot[b][i] = l PROVE l \in Unread'
      <4>1. ~(b = wbuf /\ i = k)
        BY <1>4, <2>1, <3>2
      <4> QED
        BY <1>10, <1>11, <3>2, <4>1 DEF Unread
    <3>3. line \in Unread'
      BY <1>4, <1>5, <1>6, <1>10, <1>11 DEF Unread
    <3> QED
      BY <1>11, <3>1, <3>2, <3>3 DEF Unread
  <2> QED
    BY <1>6, <2>2 DEF Unread
<1>13. (Waiting \ {NoLine} = Unread)'
  BY WaitingUnread, PTL
<1>14. (Waiting \ {NoLine})' = ((Waiting \ {NoLine}) \ {}) \cup {line}
  BY <1>12, <1>13, WaitingUnread
<1>15. rpc # "done"
  BY <1>2, <1>3 DEF DrainInv
<1>16. [q \in Producers |-> Stored(q)][p] < Lines
  BY <1>7
<1>17. Service!Take(p, {})
  BY <1>1, <1>8, <1>9, <1>14, <1>15, <1>16 DEF Service!Take
<1> QED
  BY <1>17 DEF Service!Next

\* The popping thread writes the oldest of the lines of a thread that are not written.
LEMMA HitWrites == ASSUME LogInv, LogInv', TryPopHit PROVE Service!Next
<1> DEFINE line == slot[rbuf][rindex]
<1>1. /\ rpc = "pop" /\ rpc' # "done" /\ rbuf # Null /\ line # NoLine /\ file' = Append(file, line)
      /\ UNCHANGED <<slot, pc, seq>>
  BY DEF TryPopHit, AfterHit, sharedVars, producerVars
<1>2. /\ rbuf \in Buffers /\ rindex \in Slots /\ line \in LogLines /\ ~Read(rbuf, rindex)
      /\ \A b \in Buffers, i \in Slots : Read(b, i)' <=> Read(b, i) \/ (b = rbuf /\ i = rindex)
  BY HitReads
<1>3. ASSUME NEW b \in Buffers, NEW i \in Slots, ~Read(b, i), slot[b][i] # NoLine, slot[b][i][1] = line[1],
             ~(b = rbuf /\ i = rindex)
      PROVE  line[2] < slot[b][i][2]
  BY <1>1, <1>3, HitOrder
<1>4. slot[rbuf][rindex] = line
  OBVIOUS
<1> HIDE DEF line
<1>5. \A l \in LogLines : l # NoLine /\ l[2] \in Nat
  BY LineFacts, LogQueueAssumption
<1>6. line \in Unread
  BY <1>2, <1>4 DEF Unread
<1>7. ASSUME NEW l \in Unread, l[1] = line[1] PROVE l[2] >= line[2] /\ l[2] \in Nat
  <2>1. PICK b \in Buffers, i \in Slots : ~Read(b, i) /\ slot[b][i] = l
    BY DEF Unread
  <2>2. l \in LogLines
    BY DEF Unread
  <2>3. CASE b = rbuf /\ i = rindex
    BY <1>2, <1>4, <1>5, <2>1, <2>3
  <2>4. CASE ~(b = rbuf /\ i = rindex)
    <3>1. line[2] < l[2]
      BY <1>3, <1>5, <1>7, <2>1, <2>2, <2>4
    <3> QED
      BY <1>2, <1>5, <2>2, <3>1
  <2> QED
    BY <2>3, <2>4
<1>8. Unread' = Unread \ {line}
  <2>1. ASSUME NEW l \in LogLines PROVE l \in Unread' <=> l \in Unread /\ l # line
    <3>1. ASSUME NEW b \in Buffers, NEW i \in Slots, ~Read(b, i)', slot[b][i] = l PROVE l \in Unread /\ l # line
      <4>1. ~Read(b, i) /\ ~(b = rbuf /\ i = rindex)
        BY <1>2, <3>1
      <4>2. l[1] = line[1] => line[2] < l[2]
        BY <1>3, <1>5, <3>1, <4>1
      <4>3. l # line
        BY <1>2, <1>5, <4>2
      <4> QED
        BY <3>1, <4>1, <4>3 DEF Unread
    <3>2. ASSUME l \in Unread, l # line PROVE \E b \in Buffers, i \in Slots : ~Read(b, i)' /\ slot[b][i] = l
      <4>1. PICK b \in Buffers, i \in Slots : ~Read(b, i) /\ slot[b][i] = l
        BY <3>2 DEF Unread
      <4> QED
        BY <1>2, <1>4, <3>2, <4>1
    <3> QED
      BY <1>1, <3>1, <3>2 DEF Unread
  <2> QED
    BY <2>1 DEF Unread
<1>9. (Waiting \ {NoLine} = Unread)'
  BY WaitingUnread, PTL
<1>10. Waiting \ {NoLine} = Unread /\ (Waiting \ {NoLine})' = (Waiting \ {NoLine}) \ {line}
  BY <1>8, <1>9, WaitingUnread
<1>11. [q \in Producers |-> Stored(q)]' = [q \in Producers |-> Stored(q)]
  BY <1>1 DEF Stored
<1>12. \A l \in Waiting \ {NoLine} : l[1] = line[1] => l[2] >= line[2]
  BY <1>7, <1>10
<1>13. (rpc = "done")' = (rpc = "done")
  BY <1>1
<1>14. Service!Write(line)
  BY <1>1, <1>10, <1>11, <1>12, <1>13 DEF Service!Write
<1> QED
  BY <1>6, <1>10, <1>14 DEF Service!Next

\* The popping thread stops with every line of every thread written.
LEMMA DoneCloses ==
  ASSUME LogInv, LogInv', rpc # "done", rpc' = "done", UNCHANGED <<slot, file>>,
         \A b \in Buffers, i \in Slots : Read(b, i)' <=> Read(b, i),
         \A q \in Producers : Stored(q)' = Stored(q)
  PROVE  Service!Next
<1>1. Unread' = Unread
  BY DEF Unread
<1>2. \A b \in Buffers, i \in Slots : ~Read(b, i)' => slot'[b][i] = NoLine
  BY DEF LogInv, DrainInv
<1>3. \A l \in LogLines : l # NoLine
  BY LineFacts
<1>4. Unread = {}
  BY <1>2, <1>3 DEF Unread
<1>5. (Waiting \ {NoLine} = Unread)'
  BY WaitingUnread, PTL
<1>6. Waiting \ {NoLine} = {} /\ (Waiting \ {NoLine})' = {}
  BY <1>1, <1>4, <1>5, WaitingUnread
<1>7. \A q \in Producers : pc'[q] = "idle" /\ seq'[q] = Lines
  BY DEF LogInv, DrainInv
<1>8. \A q \in Producers : Stored(q)' = Lines
  BY <1>7 DEF Stored
<1>9. \A q \in Producers : [r \in Producers |-> Stored(r)][q] = Lines
  BY <1>8
<1>10. [q \in Producers |-> Stored(q)]' = [q \in Producers |-> Stored(q)]
  OBVIOUS
<1>11. Service!Close
  BY <1>6, <1>9, <1>10 DEF Service!Close
<1> QED
  BY <1>11 DEF Service!Next

\* The steps of push but the store.
LEMMA PushUnseen ==
  ASSUME LogInv, LogInv', NEW p \in Producers, Log(p) \/ (Push(p) /\ ~Store(p))
  PROVE  UNCHANGED Service!vars
<1>1. Types /\ ReserveInv /\ ReadInv
  BY DEF LogInv
<1>2. UNCHANGED <<slot, file, freed, rpc, rbuf, rindex>> /\ (SetupPush(p) \/ UNCHANGED queue)
  BY DEF Log, Push, Reserve, Spin, Load, Count, SetupStore, SetupPush, SetupReset, sharedVars, readerVars
<1>3. \A b \in Buffers, i \in Slots : Read(b, i)' <=> Read(b, i)
  <2>1. CASE UNCHANGED queue
    BY <1>2, <2>1, ReadStays
  <2>2. CASE SetupPush(p)
    <3>1. queue' = Append(queue, wbuf) /\ queue \in Seq(Buffers) /\ wbuf \in Buffers
      BY <1>1, <2>2 DEF SetupPush, Types
    <3>2. queue # <<>> => queue'[1] = queue[1]
      BY <3>1
    <3> QED
      BY <1>1, <1>2, <3>2 DEF Read, ReadInv
  <2> QED
    BY <1>2, <2>1, <2>2
<1>4. \A q \in Producers : Stored(q)' = Stored(q)
  <2>1. CASE Log(p)
    <3>1. Go(p, "idle", "reserve") /\ seq' = [seq EXCEPT ![p] = seq[p] + 1]
      BY <2>1 DEF Log
    <3>2. pc[p] = "idle" /\ pc'[p] = "reserve" /\ \A q \in Producers \ {p} : pc'[q] = pc[q]
      BY <1>1, <3>1, GoMoves
    <3>3. seq[p] \in Int /\ seq'[p] = seq[p] + 1 /\ \A q \in Producers \ {p} : seq'[q] = seq[q]
      BY <1>1, <3>1 DEF Types
    <3> QED
      BY <3>2, <3>3 DEF Stored
  <2>2. CASE Push(p) /\ ~Store(p)
    <3>1. PICK from, to : /\ Go(p, from, to)
                          /\ from \in {"reserve", "spin", "load", "store"} <=> to \in {"reserve", "spin", "load", "store"}
                          /\ UNCHANGED seq
      <4>1. CASE Reserve(p)
        <5>1. Go(p, "reserve", IF windex < Size THEN "load" ELSE "spin") /\ UNCHANGED seq
          BY <4>1 DEF Reserve
        <5> QED
          BY <5>1
      <4>2. CASE Count(p)
        <5>1. /\ Go(p, "count", IF target[p] \notin freed /\ count[target[p]] + 1 = Size THEN "setup" ELSE "idle")
              /\ UNCHANGED seq
          BY <4>2 DEF Count
        <5> QED
          BY <5>1
      <4>3. CASE Spin(p)
        BY <4>3 DEF Spin
      <4>4. CASE Load(p)
        BY <4>4 DEF Load
      <4>5. CASE SetupStore(p) \/ SetupPush(p) \/ SetupReset(p)
        BY <4>5 DEF SetupStore, SetupPush, SetupReset
      <4> QED
        BY <2>2, <4>1, <4>2, <4>3, <4>4, <4>5 DEF Push
    <3>2. pc[p] = from /\ pc'[p] = to /\ \A q \in Producers \ {p} : pc'[q] = pc[q]
      BY <1>1, <3>1, GoMoves
    <3> QED
      BY <3>1, <3>2 DEF Stored
  <2> QED
    BY <2>1, <2>2
<1> QED
  BY <1>2, <1>3, <1>4, Unseen

\* The steps of the popping thread but the hit, and those of the logger.
LEMMA PopUnseen ==
  ASSUME LogInv, LogInv',
         \/ Construct \/ Shutdown \/ LoopCheck \/ NextBuffer \/ TryPopMiss \/ PopBuffer \/ Finished
         \/ UNCHANGED vars
  PROVE  [Service!Next]_Service!vars
<1>1. Types /\ ReadInv
  BY DEF LogInv
<1>2. UNCHANGED <<slot, file, pc, seq>> /\ (rpc = "done" => rpc' = "done")
  BY DEF Construct, Shutdown, LoopCheck, NextBuffer, TryPopMiss, PopBuffer, Finished, vars, sharedVars,
         producerVars, readerVars
<1>3. \A q \in Producers : Stored(q)' = Stored(q)
  BY <1>2 DEF Stored
<1>4. \A b \in Buffers, i \in Slots : Read(b, i)' <=> Read(b, i)
  <2>1. CASE PopBuffer
    <3>1. rpc = "free" /\ freed' = freed \cup {Head(queue)} /\ rpc' # "free" /\ UNCHANGED <<rbuf, rindex>>
      BY <2>1 DEF PopBuffer, AfterHit
    <3>2. Head(queue) = queue[1]
      BY <1>1, <3>1 DEF ReadInv, Types
    <3> QED
      BY <3>1, <3>2 DEF Read
  <2>2. CASE NextBuffer \/ TryPopMiss \/ LoopCheck
    <3>1. /\ rpc # "free" /\ rpc' # "free" /\ UNCHANGED <<freed, queue, rindex>>
          /\ UNCHANGED rbuf \/ (rbuf = Null /\ rbuf' # Null)
      <4>1. CASE NextBuffer
        <5>1. queue # <<>> => Head(queue) \in Buffers
          BY <1>1 DEF Types
        <5> QED
          BY <4>1, <5>1, LogConstants DEF NextBuffer, AfterMiss, sharedVars
      <4>2. CASE TryPopMiss \/ LoopCheck
        BY <4>2 DEF TryPopMiss, LoopCheck, AfterMiss, sharedVars
      <4> QED
        BY <2>2, <4>1, <4>2
    <3>2. rbuf = Null => \A i \in Slots : ~(i < rindex)
      BY <1>1, LogConstants DEF ReadInv
    <3> QED
      BY <3>1, <3>2 DEF Read
  <2>3. CASE Construct \/ Shutdown \/ Finished \/ UNCHANGED vars
    <3>1. UNCHANGED <<freed, rpc, queue, rbuf, rindex>>
      BY <2>3 DEF Construct, Shutdown, Finished, vars, sharedVars, readerVars
    <3> QED
      BY <3>1, ReadStays
  <2> QED
    BY <2>1, <2>2, <2>3
<1>5. CASE rpc' = "done" <=> rpc = "done"
  BY <1>2, <1>3, <1>4, <1>5, Unseen
<1>6. CASE rpc # "done" /\ rpc' = "done"
  BY <1>2, <1>3, <1>4, <1>6, DoneCloses
<1> QED
  BY <1>2, <1>5, <1>6

\* Every step is a step of the log, or unseen.
LEMMA QueueRefines == ASSUME LogInv, LogInv', [Next]_vars PROVE [Service!Next]_Service!vars
<1>1. ASSUME NEW p \in Producers, Log(p) \/ Push(p) PROVE [Service!Next]_Service!vars
  <2>1. CASE Store(p)
    BY <2>1, StoreTakes
  <2>2. CASE ~Store(p)
    BY <1>1, <2>2, PushUnseen
  <2> QED
    BY <2>1, <2>2
<1>2. CASE TryPopHit
  BY <1>2, HitWrites
<1>3. CASE \/ Construct \/ Shutdown \/ LoopCheck \/ NextBuffer \/ TryPopMiss \/ PopBuffer \/ Finished
           \/ UNCHANGED vars
  BY <1>3, PopUnseen
<1> QED
  BY <1>1, <1>2, <1>3 DEF Next, Popper

\* At the start the log is empty.
LEMMA QueueInit == Init => Service!Init
<1> SUFFICES ASSUME Init PROVE Service!Init
  OBVIOUS
<1>1. LogInv
  BY InitLog
<1>2. \A b \in Buffers, i \in Slots : slot[b][i] = NoLine
  BY DEF Init, NewBuffer, Slots
<1>3. Unread = {}
  BY <1>2, LineFacts DEF Unread
<1>4. Waiting \ {NoLine} = {}
  BY <1>1, <1>3, WaitingUnread
<1>5. [p \in Producers |-> Stored(p)] = [p \in Producers |-> 0]
  BY DEF Init, Stored
<1>6. file = <<>> /\ rpc # "done"
  BY DEF Init
<1> QED
  BY <1>4, <1>5, <1>6 DEF Service!Init

(* GuaranteedLogger is a log without loss, for every number of threads and lines and    *)
(* every size of the buffers: each line that is stored is taken after the thread's       *)
(* earlier ones, written once and before its later ones, and the log closes only when    *)
(* every line of every thread is written.  Buffers that fill, are queued, read and        *)
(* deleted while other threads store change nothing that can be seen.                     *)
THEOREM QueueImplementsLog == SafeSpec => ImplementsLog
<1>1. Init => LogInv /\ Service!Init
  BY InitLog, QueueInit
<1>2. LogInv /\ [Next]_vars => LogInv' /\ [Service!Next]_Service!vars
  BY NextLog, QueueRefines
<1> QED
  BY <1>1, <1>2, PTL DEF SafeSpec, ImplementsLog, Service!SafeSpec

-----------------------------------------------------------------------------
(* Whom a spinning thread waits for, and the type invariant.                 *)

(* while (m_write_index >= size) in QueueBuffer::push and SpinLock: unless a deleted       *)
(* Buffer was used, a full index means that some thread is still to store or count its     *)
(* line or is changing the buffer, and the spin lock is held by a thread that is about to  *)
(* release it.                                                                             *)
SpinEnds ==
  /\ ~ub /\ windex >= Size => \E q \in Producers : Busy(q) \/ Changing(q)
  /\ flag => \E q \in Producers : pc[q] = "reset"

\* What the counters of the buffers, the lock and the states are besides.
RestTypes ==
  /\ \A b \in Buffers : count[b] <= Size
  /\ flag \in BOOLEAN /\ draining \in BOOLEAN /\ ub \in BOOLEAN
  /\ state \in {"INIT", "READY", "SHUTDOWN"} /\ rpc \in {"check", "pop", "free", "done"}

\* The counter when a thread counts its slot: the number of slots counted so far.
LEMMA CountFacts ==
  ASSUME LogInv, NEW p \in Producers, Count(p), target[p] \notin freed
  PROVE  /\ count'[wbuf] = Cardinality(Counted') /\ Cardinality(Counted') \in 0 .. Size
         /\ \A b \in Buffers \ {wbuf} : count'[b] = count[b]
         /\ pc'[p] = (IF count'[wbuf] = Size THEN "setup" ELSE "idle")
<1>1. /\ Go(p, "count", IF target[p] \notin freed /\ count[target[p]] + 1 = Size THEN "setup" ELSE "idle")
      /\ count' = [count EXCEPT ![target[p]] = count[target[p]] + 1]
      /\ UNCHANGED <<windex, wbuf, freed, idx>>
  BY DEF Count
<1>2. Types /\ ReserveInv /\ ChangeInv
  BY DEF LogInv
<1>3. LogInv'
  BY CountKeeps
<1>4. /\ pc[p] = "count" /\ \A q \in Producers \ {p} : pc'[q] = pc[q]
      /\ pc'[p] = (IF target[p] \notin freed /\ count[target[p]] + 1 = Size THEN "setup" ELSE "idle")
  BY <1>1, <1>2, GoMoves
<1>5. target[p] = wbuf /\ wbuf \in Buffers /\ Busy(p) /\ idx[p] \in Slots /\ idx[p] < windex
      /\ \A q \in Producers : Busy(q) /\ q # p => idx[q] # idx[p]
  BY <1>2, <1>4 DEF ReserveInv, Types, Busy
<1>6. count[wbuf] = Cardinality(Counted) /\ count[wbuf] \in Nat /\ count'[wbuf] = count[wbuf] + 1
  BY <1>1, <1>2, <1>5 DEF ChangeInv, Types
<1>7. /\ \A q \in Producers \ {p} : Busy(q)' <=> Busy(q)
      /\ ~Busy(p)'
  BY <1>4 DEF Busy
<1>8. Counted' = Counted \cup {idx[p]} /\ idx[p] \notin Counted
  <2>1. idx[p] \notin Counted
    BY <1>5 DEF Counted
  <2>2. ASSUME NEW i \in Slots PROVE i \in Counted' <=> i \in Counted \/ i = idx[p]
    BY <1>1, <1>5, <1>7 DEF Counted
  <2>3. Counted \subseteq Slots /\ Counted' \subseteq Slots
    BY DEF Counted
  <2> QED
    BY <1>5, <2>1, <2>2, <2>3
<1>9. Cardinality(Counted') = Cardinality(Counted) + 1
  BY <1>8, CountedFinite, FS_AddElement
<1>10. Cardinality(Counted') <= Size /\ Cardinality(Counted') \in Nat
  <2>1. Counted' \subseteq Slots
    BY DEF Counted
  <2> QED
    BY <2>1, CountedFinite, FS_Subset, FS_CardinalityType
<1>11. \A b \in Buffers \ {wbuf} : count'[b] = count[b]
  BY <1>1, <1>2, <1>5 DEF Types
<1> QED
  BY <1>4, <1>5, <1>6, <1>9, <1>10, <1>11, LogConstants

\* A thread counts its slot: there is another one to be counted, or it changes the buffer.
LEMMA CountSpin ==
  ASSUME LogInv, SpinEnds, NEW p \in Producers, Count(p) PROVE SpinEnds'
<1>1. UNCHANGED <<windex, flag>> /\ (ub' <=> ub \/ target[p] \in freed)
  BY DEF Count
<1>2. pc[p] = "count" /\ \A q \in Producers \ {p} : pc'[q] = pc[q]
  BY GoMoves DEF Count, LogInv
<1>3. ASSUME ~ub', windex' >= Size PROVE \E q \in Producers : Busy(q)' \/ Changing(q)'
  <2>1. CASE \E q \in Producers : Busy(q)'
    BY <2>1
  <2>2. CASE \A q \in Producers : ~Busy(q)'
    <3>1. windex' \in Nat
      BY <1>1 DEF LogInv, Types
    <3>2. \A i \in Slots : i < windex'
      BY <1>3, <3>1, LogConstants
    <3>3. Counted' = Slots
      BY <2>2, <3>2 DEF Counted
    <3>4. count'[wbuf] = Size /\ pc'[p] = "setup"
      BY <1>1, <1>3, <3>3, CountFacts, CountedFinite
    <3> QED
      BY <3>4 DEF Changing
  <2> QED
    BY <2>1, <2>2
<1>4. flag' => \E q \in Producers : pc'[q] = "reset"
  BY <1>1, <1>2 DEF SpinEnds
<1> QED
  BY <1>3, <1>4 DEF SpinEnds

\* A step keeps it.
LEMMA NextSpin == ASSUME LogInv, SpinEnds, [Next]_vars PROVE SpinEnds'
<1>1. windex \in Nat /\ Size \in Nat /\ Size >= 1 /\ Types
  BY LogConstants DEF LogInv, Types
<1>2. ASSUME NEW p \in Producers, Log(p) \/ Push(p) PROVE SpinEnds'
  <2>1. CASE Count(p)
    BY <2>1, CountSpin
  <2>2. CASE Reserve(p)
    <3>1. /\ Go(p, "reserve", IF windex < Size THEN "load" ELSE "spin")
          /\ windex' = windex + 1 /\ UNCHANGED <<flag, ub>>
      BY <2>2 DEF Reserve
    <3>2. pc[p] = "reserve" /\ pc'[p] = (IF windex < Size THEN "load" ELSE "spin")
          /\ \A q \in Producers \ {p} : pc'[q] = pc[q]
      BY <1>1, <3>1, GoMoves
    <3>3. CASE windex < Size
      BY <3>1, <3>2, <3>3 DEF SpinEnds, Busy
    <3>4. CASE windex >= Size
      BY <3>1, <3>2, <3>4 DEF SpinEnds, Busy, Changing
    <3> QED
      BY <1>1, <3>3, <3>4
  <2>3. CASE SetupReset(p)
    <3>1. windex' = 0 /\ flag' = FALSE
      BY <2>3 DEF SetupReset
    <3> QED
      BY <1>1, <3>1 DEF SpinEnds
  <2>4. CASE SetupPush(p)
    <3>1. Go(p, "publish", "reset") /\ UNCHANGED <<windex, ub>>
      BY <2>4 DEF SetupPush
    <3>2. pc'[p] = "reset"
      BY <1>1, <3>1, GoMoves
    <3> QED
      BY <3>1, <3>2 DEF SpinEnds, Changing
  <2>5. CASE SetupStore(p)
    <3>1. Go(p, "setup", "publish") /\ UNCHANGED <<windex, ub, flag>>
      BY <2>5 DEF SetupStore
    <3>2. pc[p] = "setup" /\ pc'[p] = "publish" /\ \A q \in Producers \ {p} : pc'[q] = pc[q]
      BY <1>1, <3>1, GoMoves
    <3> QED
      BY <3>1, <3>2 DEF SpinEnds, Changing
  <2>6. CASE Log(p) \/ Spin(p) \/ Load(p) \/ Store(p)
    <3>1. PICK from, to :
            /\ Go(p, from, to)
            /\ <<from, to>> \in {<<"idle", "reserve">>, <<"spin", "reserve">>, <<"load", "store">>, <<"store", "count">>}
      BY <2>6 DEF Log, Spin, Load, Store
    <3>2. pc[p] = from /\ pc'[p] = to /\ \A q \in Producers \ {p} : pc'[q] = pc[q]
      BY <1>1, <3>1, GoMoves
    <3>4. UNCHANGED <<windex, flag>> /\ (~ub' => ~ub)
      <4>1. CASE Store(p)
        BY <4>1 DEF Store
      <4>2. CASE Log(p) \/ Spin(p) \/ Load(p)
        BY <4>2 DEF Log, Spin, Load, sharedVars
      <4> QED
        BY <2>6, <4>1, <4>2
    <3>3. \A q \in Producers : (Busy(q) => Busy(q)') /\ (Changing(q) => Changing(q)') /\ (pc[q] = "reset" => pc'[q] = "reset")
      BY <3>1, <3>2 DEF Busy, Changing
    <3> QED
      BY <3>3, <3>4 DEF SpinEnds
  <2> QED
    BY <1>2, <2>1, <2>2, <2>3, <2>4, <2>5, <2>6 DEF Push
<1>3. CASE Construct \/ Shutdown \/ Popper \/ Finished \/ UNCHANGED vars
  <2>1. UNCHANGED <<windex, flag, pc, ub>>
    BY <1>3 DEF Construct, Shutdown, Popper, LoopCheck, NextBuffer, TryPopMiss, TryPopHit, PopBuffer, Finished,
                vars, sharedVars, producerVars
  <2> QED
    BY <2>1 DEF SpinEnds, Busy, Changing
<1> QED
  BY <1>2, <1>3 DEF Next

(* A thread that finds the index full does not spin alone: unless a deleted Buffer was     *)
(* used, somebody is under way who stores, counts or changes the buffer, and the last one  *)
(* of them resets the index; nor does a thread wait for a spin lock nobody will release.   *)
(* With the late increment (log_guarantee) this is exactly what fails.                      *)
THEOREM NobodySpinsAlone == SafeSpec => []SpinEnds
<1>1. Init => SpinEnds
  BY LogConstants DEF Init, SpinEnds
<1>2. LogInv /\ SpinEnds /\ [Next]_vars => SpinEnds'
  BY NextSpin
<1> QED
  BY <1>1, <1>2, LogInvariant, PTL DEF SafeSpec

\* Counters, lock and states keep their types.
LEMMA NextRest == ASSUME LogInv, RestTypes, [Next]_vars PROVE RestTypes'
<1>1. ASSUME NEW p \in Producers, Count(p) PROVE RestTypes'
  <2>1. UNCHANGED <<flag, draining, state, rpc>> /\ (ub' <=> ub \/ target[p] \in freed) /\ ub' \in BOOLEAN
    BY <1>1 DEF Count, readerVars, RestTypes
  <2>2. \A b \in Buffers : count'[b] <= Size
    <3>1. CASE target[p] \in freed
      BY <1>1, <3>1 DEF Count, RestTypes
    <3>2. CASE target[p] \notin freed
      <4>1. count'[wbuf] <= Size
        BY <1>1, <3>2, CountFacts, LogConstants
      <4> QED
        BY <1>1, <3>2, <4>1, CountFacts DEF RestTypes
    <3> QED
      BY <3>1, <3>2
  <2> QED
    BY <2>1, <2>2 DEF RestTypes
<1>2. ASSUME NEW p \in Producers, Log(p) \/ (Push(p) /\ ~Count(p)) PROVE RestTypes'
  <2>1. UNCHANGED <<count, draining, state, rpc>> /\ flag' \in BOOLEAN /\ ub' \in BOOLEAN
    BY <1>2 DEF RestTypes, Log, Push, Reserve, Spin, Load, Store, SetupStore, SetupPush, SetupReset, sharedVars, readerVars
  <2> QED
    BY <2>1 DEF RestTypes
<1>3. CASE Construct \/ Shutdown
  BY <1>3 DEF RestTypes, Construct, Shutdown, sharedVars, readerVars
<1>4. CASE Popper
  <2>1. UNCHANGED <<count, flag, state, ub>> /\ rpc' \in {"check", "pop", "free", "done"} /\ draining' \in BOOLEAN
    BY <1>4 DEF RestTypes, Popper, LoopCheck, NextBuffer, TryPopMiss, TryPopHit, PopBuffer, AfterHit, AfterMiss, sharedVars
  <2> QED
    BY <2>1 DEF RestTypes
<1>5. CASE Finished \/ UNCHANGED vars
  <2>1. UNCHANGED <<count, flag, draining, ub, state, rpc>>
    BY <1>5 DEF Finished, vars, sharedVars, readerVars
  <2> QED
    BY <2>1 DEF RestTypes
<1> QED
  BY <1>1, <1>2, <1>3, <1>4, <1>5 DEF Next

(* The type invariant: among other things no counter of a Buffer exceeds its size, no       *)
(* index of the reader leaves the buffer and every slot holds a line or none.               *)
THEOREM TypeCorrect == SafeSpec => []TypeOK
<1>1. Init => RestTypes
  <2> SUFFICES ASSUME Init PROVE RestTypes
    OBVIOUS
  <2>1. \A b \in Buffers : count[b] = 0 /\ 0 <= Size
    BY LogConstants DEF Init
  <2> QED
    BY <2>1 DEF Init, RestTypes
<1>2. LogInv /\ RestTypes /\ [Next]_vars => RestTypes'
  BY NextRest
<1>3. LogInv /\ RestTypes => TypeOK
  <2> SUFFICES ASSUME LogInv, RestTypes PROVE TypeOK
    OBVIOUS
  <2>1. Types
    BY DEF LogInv
  <2>2. count \in [Buffers -> 0 .. Size]
    BY <2>1, LogConstants DEF Types, RestTypes
  <2> QED
    BY <2>1, <2>2 DEF TypeOK, Types, RestTypes, Slots
<1> QED
  BY <1>1, <1>2, <1>3, LogInvariant, PTL DEF SafeSpec
=============================================================================
