---------------------------- MODULE LogRingProofs ----------------------------
(***************************************************************************)
(* Theorems about LogRing, for every number of threads and lines, and every   *)
(* ring whose size divides the range of the indexes.                          *)
(***************************************************************************)
EXTENDS LogRing, FiniteSetTheorems, SequenceTheorems, TLAPS

\* Slots reserved and not popped, as the indexes tell.
Ahead == (windex - rindex) % IndexMod

\* The slot k behind the one of index r.
Behind(r, k) == (r + k) % Size

\* The last line of p that was written to its slot, where c is pc and n is seq.
Last(c, n, p) == IF c[p] = "write" THEN n[p] - 1 ELSE n[p]

Types ==
  /\ windex \in 0 .. IndexMod - 1 /\ rindex \in 0 .. IndexMod - 1
  /\ ring \in [Slots -> LogLines \cup {NoLine}]
  /\ pc \in [Producers -> {"idle", "write"}] /\ seq \in [Producers -> 0 .. Lines]
  /\ place \in [Producers -> Slots]
  /\ file \in Seq(LogLines)
  /\ \A p \in Producers : pc[p] = "write" => seq[p] >= 1

\* The reserved slots are those behind m_read_index; each has its line, or the thread to write it.
RingInv ==
  /\ Ahead \in 0 .. Size
  /\ \A k \in Slots : k >= Ahead => ring[Behind(rindex, k)] = NoLine
  /\ \A k \in Slots : k < Ahead /\ ring[Behind(rindex, k)] = NoLine =>
       \E p \in Producers : pc[p] = "write" /\ place[p] = Behind(rindex, k)
  /\ \A p \in Producers : pc[p] = "write" =>
       /\ ring[place[p]] = NoLine
       /\ \E k \in Slots : k < Ahead /\ place[p] = Behind(rindex, k)
  /\ \A p, q \in Producers : pc[p] = "write" /\ pc[q] = "write" /\ place[p] = place[q] => p = q

\* The lines of a thread are in its order, in the file, then in the ring, then the one it writes.
OrderInv ==
  /\ \A i, j \in 1 .. Len(file) : i < j /\ file[i][1] = file[j][1] => file[i][2] < file[j][2]
  /\ \A i \in 1 .. Len(file) : file[i][2] <= Last(pc, seq, file[i][1])
  /\ \A s \in Slots : ring[s] # NoLine => ring[s][2] <= Last(pc, seq, ring[s][1])
  /\ \A i \in 1 .. Len(file), s \in Slots :
       ring[s] # NoLine /\ file[i][1] = ring[s][1] => file[i][2] < ring[s][2]
  /\ \A j, k \in Slots :
       /\ j < k /\ ring[Behind(rindex, j)] # NoLine /\ ring[Behind(rindex, k)] # NoLine
       /\ ring[Behind(rindex, j)][1] = ring[Behind(rindex, k)][1]
       => ring[Behind(rindex, j)][2] < ring[Behind(rindex, k)][2]
  /\ \A p \in Producers, j, k \in Slots :
       /\ pc[p] = "write" /\ place[p] = Behind(rindex, k)
       /\ ring[Behind(rindex, j)] # NoLine /\ ring[Behind(rindex, j)][1] = p
       => j < k

\* What is written is in the file or in the ring.
KeptInv ==
  \A l \in LogLines : l[2] <= Last(pc, seq, l[1]) =>
    (\E i \in 1 .. Len(file) : file[i] = l) \/ \E s \in Slots : ring[s] = l

\* At exit the threads have logged everything.
ExitInv ==
  /\ rpc # "loop" => state = "SHUTDOWN"
  /\ state = "SHUTDOWN" => \A p \in Producers : pc[p] = "idle" /\ seq[p] = Lines

QueueInv ==
  ~lapped =>
    /\ RingInv /\ OrderInv /\ KeptInv /\ dropped = {}
    /\ (rpc = "done" => \A s \in Slots : ring[s] = NoLine)

LogRingInv == Types /\ ExitInv /\ QueueInv

\* The size of the ring divides the range of the indexes.
SizeDivides == \E c \in Nat : c >= 2 /\ IndexMod = c * Size

-----------------------------------------------------------------------------
(* Arithmetic of indexes that wrap.                                          *)

\* A product with a positive factor is no less than the other one.
LEMMA ProductGrows ==
  ASSUME NEW x \in Int, NEW n \in Nat, x >= 1 PROVE x * n >= n
<1>1. (x - 1) * n >= 0
  OBVIOUS
<1>2. (x - 1) * n = x * n - n
  OBVIOUS
<1> QED
  BY <1>1, <1>2

\* Quotient and remainder.
LEMMA Remainder ==
  ASSUME NEW a \in Int, NEW n \in Nat \ {0}
  PROVE  a % n \in 0 .. n - 1 /\ \E q \in Int : a = q * n + (a % n)
<1>1. a % n \in 0 .. n - 1
  OBVIOUS
<1> DEFINE q == a \div n
<1>2. q \in Int
  OBVIOUS
<1>3. a = n * q + (a % n)
  OBVIOUS
<1>4. n * q = q * n
  OBVIOUS
<1> HIDE DEF q
<1>5. a = q * n + (a % n)
  BY <1>3, <1>4
<1> QED
  BY <1>1, <1>2, <1>5

\* There is only one remainder.
LEMMA RemainderUnique ==
  ASSUME NEW a \in Int, NEW n \in Nat \ {0}, NEW q \in Int, NEW r \in 0 .. n - 1, a = q * n + r
  PROVE  a % n = r
<1> DEFINE e == a % n
<1>1. e \in 0 .. n - 1 /\ \E q1 \in Int : a = q1 * n + e
  BY Remainder
<1> HIDE DEF e
<1>2. e \in 0 .. n - 1
  BY <1>1
<1>3. PICK d \in Int : a = d * n + e
  BY <1>1
<1>4. (q - d) * n = e - r
  <2>1. (q - d) * n = q * n - d * n
    OBVIOUS
  <2> QED
    BY <1>2, <1>3, <2>1
<1>5. ~(q - d >= 1)
  <2>1. q - d >= 1 => (q - d) * n >= n
    BY ProductGrows
  <2> QED
    BY <1>2, <1>4, <2>1
<1>6. ~(d - q >= 1)
  <2>1. d - q >= 1 => (d - q) * n >= n
    BY ProductGrows
  <2>2. (d - q) * n = 0 - (q - d) * n
    OBVIOUS
  <2> QED
    BY <1>2, <1>4, <2>1, <2>2
<1>7. q = d
  BY <1>5, <1>6
<1>8. e = r
  BY <1>2, <1>3, <1>7
<1> QED
  BY <1>8 DEF e

\* Whole rounds do not count.
LEMMA WholeRounds ==
  ASSUME NEW a \in Int, NEW n \in Nat \ {0}, NEW q \in Int PROVE (a + q * n) % n = a % n
<1> DEFINE e == a % n
<1>1. e \in 0 .. n - 1 /\ \E q1 \in Int : a = q1 * n + e
  BY Remainder
<1> HIDE DEF e
<1>2. e \in 0 .. n - 1
  BY <1>1
<1>3. PICK d \in Int : a = d * n + e
  BY <1>1
<1>4. a + q * n = (d + q) * n + e
  <2>1. (d + q) * n = d * n + q * n
    OBVIOUS
  <2> QED
    BY <1>2, <1>3, <2>1
<1> DEFINE b == a + q * n
<1>5. b \in Int /\ d + q \in Int /\ b = (d + q) * n + e
  BY <1>4
<1> HIDE DEF b
<1>6. b % n = e
  BY <1>2, <1>5, RemainderUnique
<1> QED
  BY <1>6 DEF b, e

\* A remainder below n that differs from a by whole rounds is that of a.
LEMMA SameRound ==
  ASSUME NEW n \in Nat \ {0}, NEW a \in Int, NEW b \in Int, NEW q \in Int, b = a + q * n
  PROVE  b % n = a % n
BY WholeRounds

\* The index that wraps.
LEMMA Wrapped ==
  ASSUME NEW a \in Int PROVE a % IndexMod \in 0 .. IndexMod - 1 /\ \E q \in Int : a % IndexMod = a + q * IndexMod
<1>1. IndexMod \in Nat \ {0}
  BY LogRingAssumption
<1> DEFINE e == a % IndexMod
<1>2. e \in 0 .. IndexMod - 1 /\ \E q \in Int : a = q * IndexMod + e
  BY <1>1, Remainder
<1> HIDE DEF e
<1>3. PICK q \in Int : a = q * IndexMod + e
  BY <1>2
<1>4. (0 - q) * IndexMod = 0 - q * IndexMod
  BY <1>1
<1>5. 0 - q \in Int /\ e = a + (0 - q) * IndexMod
  BY <1>1, <1>2, <1>3, <1>4
<1> QED
  BY <1>2, <1>5 DEF e

\* It wraps by whole rounds of the ring.
LEMMA WrappedRing ==
  ASSUME SizeDivides, NEW a \in Int PROVE \E q \in Int : a % IndexMod = a + q * Size
<1>1. Size \in Nat \ {0}
  BY LogRingAssumption
<1>2. PICK c \in Nat : IndexMod = c * Size
  BY DEF SizeDivides
<1>3. PICK q \in Int : a % IndexMod = a + q * IndexMod
  BY Wrapped
<1>4. q * (c * Size) = (q * c) * Size
  BY <1>1
<1>5. q * c \in Int /\ a % IndexMod = a + (q * c) * Size
  BY <1>2, <1>3, <1>4
<1> QED
  BY <1>5

\* A slot.
LEMMA BehindSlot == ASSUME NEW r \in Int, NEW k \in Int PROVE Behind(r, k) \in Slots
<1>1. Size \in Nat \ {0}
  BY LogRingAssumption
<1>2. r + k \in Int
  OBVIOUS
<1> QED
  BY <1>1, <1>2, Remainder DEF Behind, Slots

\* When the read index moves, what was k + 1 behind is k behind.
LEMMA BehindNext ==
  ASSUME SizeDivides, NEW r \in Int, NEW k \in Int PROVE Behind((r + 1) % IndexMod, k) = Behind(r, k + 1)
<1>1. Size \in Nat \ {0}
  BY LogRingAssumption
<1> DEFINE e == (r + 1) % IndexMod
<1>2. r + 1 \in Int
  OBVIOUS
<1>3. \E q \in Int : e = (r + 1) + q * Size
  BY <1>2, WrappedRing
<1> HIDE DEF e
<1>4. PICK q \in Int : e = (r + 1) + q * Size
  BY <1>3
<1>5. q * Size \in Int
  BY <1>1
<1>6. e + k \in Int /\ r + (k + 1) \in Int /\ e + k = (r + (k + 1)) + q * Size
  BY <1>4, <1>5
<1>7. (e + k) % Size = (r + (k + 1)) % Size
  BY <1>1, <1>6, SameRound
<1> QED
  BY <1>7 DEF Behind, e

\* One round behind is the slot itself.
LEMMA BehindRound == ASSUME NEW r \in Int PROVE Behind(r, Size) = Behind(r, 0)
<1>1. Size \in Nat \ {0}
  BY LogRingAssumption
<1>2. r + Size \in Int /\ r + 0 \in Int /\ r + Size = (r + 0) + 1 * Size /\ 1 \in Int
  BY <1>1
<1>3. (r + Size) % Size = (r + 0) % Size
  BY <1>1, <1>2, SameRound
<1> QED
  BY <1>3 DEF Behind

\* The slots of one round are different
LEMMA BehindInjective ==
  ASSUME NEW r \in Int, NEW j \in Slots, NEW k \in Slots, Behind(r, j) = Behind(r, k) PROVE j = k
<1>1. Size \in Nat \ {0} /\ j \in 0 .. Size - 1 /\ k \in 0 .. Size - 1
  BY LogRingAssumption DEF Slots
<1> DEFINE e == Behind(r, j)
<1>2. (\E q \in Int : r + j = q * Size + e) /\ e \in Int
  <2>1. r + j \in Int
    BY <1>1
  <2>2. e = (r + j) % Size
    BY DEF Behind
  <2> HIDE DEF e
  <2>3. e \in 0 .. Size - 1 /\ \E q \in Int : r + j = q * Size + e
    BY <1>1, <2>1, <2>2, Remainder
  <2> QED
    BY <1>1, <2>3
<1>3. \E q \in Int : r + k = q * Size + e
  <2>1. r + k \in Int
    BY <1>1
  <2>2. e = (r + k) % Size
    BY DEF Behind
  <2> QED
    BY <1>1, <2>1, <2>2, Remainder
<1> HIDE DEF e
<1>4. PICK q1 \in Int : r + j = q1 * Size + e
  BY <1>2
<1>5. PICK q2 \in Int : r + k = q2 * Size + e
  BY <1>3
<1>6. (q1 - q2) * Size = q1 * Size - q2 * Size /\ q1 * Size \in Int /\ q2 * Size \in Int
  BY <1>1
<1>7. j = (q1 - q2) * Size + k /\ q1 - q2 \in Int
  BY <1>1, <1>2, <1>4, <1>5, <1>6
<1>8. j % Size = k
  BY <1>1, <1>7, RemainderUnique
<1>9. j = 0 * Size + j /\ 0 \in Int /\ j \in Int
  BY <1>1
<1>10. j % Size = j
  BY <1>1, <1>9, RemainderUnique
<1> QED
  BY <1>8, <1>10

\* and are all slots.
LEMMA BehindOnto == ASSUME NEW r \in Int, NEW s \in Slots PROVE \E k \in Slots : s = Behind(r, k)
<1>1. Size \in Nat \ {0} /\ s \in 0 .. Size - 1 /\ s \in Int
  BY LogRingAssumption DEF Slots
<1> DEFINE k == (s - r) % Size
<1>2. s - r \in Int
  BY <1>1
<1>3. k \in 0 .. Size - 1 /\ \E q \in Int : s - r = q * Size + k
  BY <1>1, <1>2, Remainder
<1> HIDE DEF k
<1>4. PICK q \in Int : s - r = q * Size + k
  BY <1>3
<1>5. (0 - q) * Size = 0 - q * Size /\ q * Size \in Int
  BY <1>1
<1>6. r + k = (0 - q) * Size + s /\ r + k \in Int /\ 0 - q \in Int
  BY <1>1, <1>3, <1>4, <1>5
<1>7. (r + k) % Size = s
  BY <1>1, <1>6, RemainderUnique
<1> QED
  BY <1>3, <1>7 DEF Behind, Slots

\* The slot that is reserved.
LEMMA ReservedSlot ==
  ASSUME SizeDivides, NEW w \in Int, NEW r \in Int PROVE w % Size = Behind(r, (w - r) % IndexMod)
<1>1. Size \in Nat \ {0}
  BY LogRingAssumption
<1> DEFINE e == (w - r) % IndexMod
<1>2. w - r \in Int
  OBVIOUS
<1>3. \E q \in Int : e = (w - r) + q * Size
  BY <1>2, WrappedRing
<1> HIDE DEF e
<1>4. PICK q \in Int : e = (w - r) + q * Size
  BY <1>3
<1>5. q * Size \in Int
  BY <1>1
<1>6. r + e \in Int /\ r + e = w + q * Size
  BY <1>4, <1>5
<1>7. (r + e) % Size = w % Size
  BY <1>1, <1>6, SameRound
<1> QED
  BY <1>7 DEF Behind, e

\* How far the producers are ahead when one reserves a slot,
LEMMA AheadReserved ==
  ASSUME NEW w \in Int, NEW r \in Int, NEW a, a = (w - r) % IndexMod, a + 1 < IndexMod
  PROVE  (((w + 1) % IndexMod) - r) % IndexMod = a + 1
<1>1. IndexMod \in Nat \ {0}
  BY LogRingAssumption
<1>2. w - r \in Int /\ w + 1 \in Int
  OBVIOUS
<1>3. a \in 0 .. IndexMod - 1 /\ \E q \in Int : a = (w - r) + q * IndexMod
  BY <1>2, Wrapped
<1>4. PICK q1 \in Int : a = (w - r) + q1 * IndexMod
  BY <1>3
<1> DEFINE e == (w + 1) % IndexMod
<1>5. e \in 0 .. IndexMod - 1 /\ \E q \in Int : e = (w + 1) + q * IndexMod
  BY <1>2, Wrapped
<1> HIDE DEF e
<1>6. PICK q2 \in Int : e = (w + 1) + q2 * IndexMod
  BY <1>5
<1>7. (q2 - q1) * IndexMod = q2 * IndexMod - q1 * IndexMod /\ q1 * IndexMod \in Int /\ q2 * IndexMod \in Int
  BY <1>1
<1>8. e - r = (q2 - q1) * IndexMod + (a + 1) /\ e - r \in Int /\ q2 - q1 \in Int /\ a + 1 \in 0 .. IndexMod - 1
  BY <1>1, <1>3, <1>4, <1>5, <1>6, <1>7
<1>9. (e - r) % IndexMod = a + 1
  BY <1>1, <1>8, RemainderUnique
<1> QED
  BY <1>9 DEF e

\* and when a line is popped.
LEMMA AheadPopped ==
  ASSUME NEW w \in Int, NEW r \in Int, NEW a, a = (w - r) % IndexMod, a >= 1
  PROVE  (w - ((r + 1) % IndexMod)) % IndexMod = a - 1
<1>1. IndexMod \in Nat \ {0}
  BY LogRingAssumption
<1>2. w - r \in Int /\ r + 1 \in Int
  OBVIOUS
<1>3. a \in 0 .. IndexMod - 1 /\ \E q \in Int : a = (w - r) + q * IndexMod
  BY <1>2, Wrapped
<1>4. PICK q1 \in Int : a = (w - r) + q1 * IndexMod
  BY <1>3
<1> DEFINE e == (r + 1) % IndexMod
<1>5. e \in 0 .. IndexMod - 1 /\ \E q \in Int : e = (r + 1) + q * IndexMod
  BY <1>2, Wrapped
<1> HIDE DEF e
<1>6. PICK q2 \in Int : e = (r + 1) + q2 * IndexMod
  BY <1>5
<1>7. (0 - q1 - q2) * IndexMod = 0 - q1 * IndexMod - q2 * IndexMod /\ q1 * IndexMod \in Int /\ q2 * IndexMod \in Int
  BY <1>1
<1>8. w - e = (0 - q1 - q2) * IndexMod + (a - 1) /\ w - e \in Int /\ 0 - q1 - q2 \in Int /\ a - 1 \in 0 .. IndexMod - 1
  BY <1>1, <1>3, <1>4, <1>5, <1>6, <1>7
<1>9. (w - e) % IndexMod = a - 1
  BY <1>1, <1>8, RemainderUnique
<1> QED
  BY <1>9 DEF e

-----------------------------------------------------------------------------
(* Facts that hold in every step.                                            *)

\* A line is the pair of its thread and its number; no line is no line.
LEMMA LineFields ==
  /\ \A l \in LogLines : l[1] \in Producers /\ l[2] \in 1 .. Lines /\ l[2] \in Nat /\ l = <<l[1], l[2]>>
  /\ \A p \in Producers, n \in 1 .. Lines : <<p, n>> \in LogLines /\ <<p, n>>[1] = p /\ <<p, n>>[2] = n
  /\ NoLine \notin LogLines
<1>1. Lines \in Nat
  BY LogRingAssumption
<1>2. NoLine \notin LogLines
  BY DEF NoLine, LogLines
<1> QED
  BY <1>1, <1>2 DEF LogLines

\* Indexes are numbers.
LEMMA IndexNumbers ==
  ASSUME Types
  PROVE  Size \in Nat \ {0} /\ IndexMod \in Nat \ {0} /\ Lines \in Nat /\ windex \in Int /\ rindex \in Int
<1>1. Size \in Nat \ {0} /\ IndexMod \in Nat \ {0} /\ Lines \in Nat
  BY LogRingAssumption
<1>2. windex \in 0 .. IndexMod - 1 /\ rindex \in 0 .. IndexMod - 1
  BY DEF Types
<1> QED
  BY <1>1, <1>2

\* An index stands for a slot.
LEMMA IndexSlot == ASSUME NEW r \in Int PROVE r % Size \in Slots
<1>1. r + 0 = r
  OBVIOUS
<1>2. Behind(r, 0) \in Slots
  BY BehindSlot
<1> QED
  BY <1>1, <1>2 DEF Behind

\* The numbers of the ring.
LEMMA RingNumbers ==
  ASSUME Types, SizeDivides
  PROVE  /\ Size \in Nat \ {0} /\ Size < IndexMod /\ windex \in Int /\ rindex \in Int
         /\ Ahead \in Nat /\ Ahead = (windex - rindex) % IndexMod
         /\ \A k : k \in Slots <=> k \in Nat /\ k < Size
<1>1. Size \in Nat \ {0} /\ IndexMod \in Nat \ {0}
  BY LogRingAssumption
<1>2. PICK c \in Nat : c >= 2 /\ IndexMod = c * Size
  BY DEF SizeDivides
<1>3. Size < IndexMod
  <2>1. c - 1 >= 1 /\ c - 1 \in Int
    BY <1>2
  <2>2. (c - 1) * Size >= Size
    BY <1>1, <2>1, ProductGrows
  <2>3. (c - 1) * Size = c * Size - Size
    BY <1>1
  <2> QED
    BY <1>1, <1>2, <2>2, <2>3
<1>4. windex \in Int /\ rindex \in Int
  BY <1>1 DEF Types
<1>5. windex - rindex \in Int
  BY <1>4
<1>6. (windex - rindex) % IndexMod \in 0 .. IndexMod - 1
  BY <1>5, Wrapped
<1>7. Ahead \in Nat
  BY <1>1, <1>6 DEF Ahead
<1>8. \A k : k \in Slots <=> k \in Nat /\ k < Size
  BY <1>1 DEF Slots
<1> QED
  BY <1>1, <1>3, <1>4, <1>7, <1>8 DEF Ahead

\* How many lines a thread has written.
LEMMA LastNumber ==
  ASSUME Types, NEW p \in Producers
  PROVE  /\ Last(pc, seq, p) \in Nat /\ seq[p] \in Nat /\ Last(pc, seq, p) <= seq[p]
         /\ (pc[p] = "write" => Last(pc, seq, p) = seq[p] - 1 /\ seq[p] \in 1 .. Lines)
         /\ (pc[p] # "write" => Last(pc, seq, p) = seq[p])
<1>1. Lines \in Nat
  BY LogRingAssumption
<1>2. seq[p] \in 0 .. Lines /\ (pc[p] = "write" => seq[p] >= 1)
  BY DEF Types
<1> QED
  BY <1>1, <1>2 DEF Last

\* A step that touches neither the ring nor the producers.
LEMMA QueueSame ==
  ASSUME QueueInv, UNCHANGED <<windex, ring, rindex, pc, seq, place, file, dropped, lapped>>,
         rpc' = "done" => lapped \/ rpc = "done" \/ \A s \in Slots : ring[s] = NoLine
  PROVE  QueueInv'
<1> SUFFICES ASSUME ~lapped' PROVE (RingInv /\ OrderInv /\ KeptInv /\ dropped = {} /\ (rpc = "done" => \A s \in Slots : ring[s] = NoLine))'
  BY DEF QueueInv
<1>1. RingInv /\ OrderInv /\ KeptInv /\ dropped = {} /\ (rpc' = "done" => \A s \in Slots : ring[s] = NoLine)
  BY DEF QueueInv
<1>2. Ahead' = Ahead
  BY DEF Ahead
<1>3. RingInv'
  BY <1>1, <1>2 DEF RingInv
<1>4. OrderInv'
  BY <1>1 DEF OrderInv
<1>5. KeptInv'
  BY <1>1 DEF KeptInv
<1> QED
  BY <1>1, <1>3, <1>4, <1>5

\* A line is in the file or in the ring, and in its place there.
LEMMA RingLine ==
  ASSUME Types, NEW s \in Slots, ring[s] # NoLine
  PROVE  ring[s] \in LogLines /\ ring[s][1] \in Producers /\ ring[s][2] \in Nat
<1>1. ring[s] \in LogLines
  BY DEF Types
<1> QED
  BY <1>1, LineFields

\* The lines of the file.
LEMMA FileLine ==
  ASSUME Types, NEW i \in 1 .. Len(file)
  PROVE  file[i] \in LogLines /\ file[i][1] \in Producers /\ file[i][2] \in Nat
<1>1. file[i] \in LogLines
  BY DEF Types
<1> QED
  BY <1>1, LineFields

-----------------------------------------------------------------------------
(* The producers.                                                            *)

\* What reserving a slot does while the producers are less than a round ahead.
LEMMA ReserveFacts ==
  ASSUME Types, SizeDivides, NEW p \in Producers, Reserve(p)
  PROVE  /\ pc[p] = "idle" /\ pc' = [pc EXCEPT ![p] = "write"] /\ seq' = [seq EXCEPT ![p] = @ + 1]
         /\ place' = [place EXCEPT ![p] = windex % Size] /\ windex % Size = Behind(rindex, Ahead)
         /\ windex' = (windex + 1) % IndexMod /\ UNCHANGED <<ring, rindex, state, rpc, file, dropped>>
         /\ (~lapped' => ~lapped /\ Ahead < Size /\ Ahead' = Ahead + 1)
         /\ seq[p] < Lines /\ state = "READY"
<1>1. /\ pc[p] = "idle" /\ pc' = [pc EXCEPT ![p] = "write"] /\ seq' = [seq EXCEPT ![p] = @ + 1]
      /\ place' = [place EXCEPT ![p] = windex % Size] /\ windex' = (windex + 1) % IndexMod
      /\ UNCHANGED <<ring, rindex, state, rpc, file, dropped>> /\ seq[p] < Lines /\ state = "READY"
      /\ lapped' = (lapped \/ (windex - rindex) % IndexMod >= Size)
  BY DEF Reserve
<1>2. /\ Size \in Nat \ {0} /\ Size < IndexMod /\ windex \in Int /\ rindex \in Int
      /\ Ahead \in Nat /\ Ahead = (windex - rindex) % IndexMod /\ IndexMod \in Nat
  BY RingNumbers, LogRingAssumption
<1>3. windex % Size = Behind(rindex, Ahead)
  BY <1>2, ReservedSlot
<1>4. ASSUME ~lapped' PROVE ~lapped /\ Ahead < Size /\ Ahead' = Ahead + 1
  <2> DEFINE a == Ahead
  <2>1. ~lapped /\ ~(a >= Size)
    BY <1>1, <1>2, <1>4
  <2>2. a \in Nat /\ a = (windex - rindex) % IndexMod
    BY <1>2
  <2>3. Ahead' = (((windex + 1) % IndexMod) - rindex) % IndexMod
    BY <1>1 DEF Ahead
  <2> HIDE DEF a
  <2>4. a < Size /\ a + 1 < IndexMod
    BY <1>2, <2>1, <2>2
  <2>5. Ahead' = a + 1
    BY <1>2, <2>2, <2>3, <2>4, AheadReserved
  <2> QED
    BY <2>1, <2>4, <2>5 DEF a
<1> QED
  BY <1>1, <1>3, <1>4

\* The variables keep their types.
LEMMA ReserveTypes == ASSUME Types, ExitInv, NEW p \in Producers, Reserve(p) PROVE Types' /\ ExitInv'
<1>1. /\ pc[p] = "idle" /\ pc' = [pc EXCEPT ![p] = "write"] /\ seq' = [seq EXCEPT ![p] = @ + 1]
      /\ place' = [place EXCEPT ![p] = windex % Size]
      /\ windex' = (windex + 1) % IndexMod /\ UNCHANGED <<ring, rindex, state, rpc, file, dropped>>
      /\ seq[p] < Lines /\ state = "READY"
  BY DEF Reserve
<1>2. windex \in Int /\ rindex \in Int /\ Lines \in Nat
  BY IndexNumbers
<1>3. windex' \in 0 .. IndexMod - 1
  <2>1. windex + 1 \in Int
    BY <1>2
  <2> QED
    BY <1>1, <2>1, Wrapped
<1>4. place' \in [Producers -> Slots]
  <2>1. windex % Size \in Slots
    BY <1>2, IndexSlot
  <2> QED
    BY <1>1, <2>1 DEF Types
<1>5. seq[p] \in 0 .. Lines /\ seq[p] + 1 \in 0 .. Lines /\ seq[p] + 1 >= 1
  <2>1. seq[p] \in 0 .. Lines
    BY DEF Types
  <2> QED
    BY <1>1, <1>2, <2>1
<1>6. seq' \in [Producers -> 0 .. Lines] /\ pc' \in [Producers -> {"idle", "write"}]
  BY <1>1, <1>5 DEF Types
<1>7. \A q \in Producers : pc'[q] = "write" => seq'[q] >= 1
  BY <1>1, <1>5 DEF Types
<1>8. Types'
  BY <1>1, <1>3, <1>4, <1>6, <1>7 DEF Types
<1>9. ExitInv'
  BY <1>1 DEF ExitInv
<1> QED
  BY <1>8, <1>9

\* The line a thread has begun is not among those it has written.
LEMMA ReserveLast ==
  ASSUME Types, NEW p \in Producers, Reserve(p), NEW q \in Producers
  PROVE  Last(pc', seq', q) = Last(pc, seq, q)
<1>1. pc[p] = "idle" /\ pc' = [pc EXCEPT ![p] = "write"] /\ seq' = [seq EXCEPT ![p] = @ + 1]
  BY DEF Reserve
<1>2. CASE q = p
  <2>1. seq[p] \in Nat
    BY LastNumber
  <2>2. pc'[p] = "write" /\ seq'[p] = seq[p] + 1
    BY <1>1 DEF Types
  <2>3. seq'[p] - 1 = seq[p]
    BY <2>1, <2>2
  <2> QED
    BY <1>1, <1>2, <2>2, <2>3 DEF Last
<1>3. CASE q # p
  <2>1. pc'[q] = pc[q] /\ seq'[q] = seq[q]
    BY <1>1, <1>3 DEF Types
  <2> QED
    BY <2>1 DEF Last
<1> QED
  BY <1>2, <1>3

\* Reserving a slot.
LEMMA ReserveInv ==
  ASSUME LogRingInv, SizeDivides, NEW p \in Producers, Reserve(p) PROVE LogRingInv'
<1> USE DEF LogRingInv
<1>1. Types' /\ ExitInv'
  BY ReserveTypes
<1> SUFFICES ASSUME ~lapped'
             PROVE  (RingInv /\ OrderInv /\ KeptInv /\ dropped = {} /\ (rpc = "done" => \A s \in Slots : ring[s] = NoLine))'
  BY <1>1 DEF QueueInv
<1> DEFINE a == Ahead
<1>2. /\ pc[p] = "idle" /\ pc' = [pc EXCEPT ![p] = "write"]
      /\ place' = [place EXCEPT ![p] = windex % Size] /\ windex % Size = Behind(rindex, a)
      /\ UNCHANGED <<ring, rindex, state, rpc, file, dropped>>
      /\ ~lapped /\ a < Size /\ Ahead' = a + 1
  BY ReserveFacts
<1>3. RingInv /\ OrderInv /\ KeptInv /\ dropped = {} /\ (rpc = "done" => \A s \in Slots : ring[s] = NoLine)
  BY <1>2 DEF QueueInv
<1>4. /\ Size \in Nat \ {0} /\ rindex \in Int /\ a \in Nat /\ a \in Slots
      /\ \A k : k \in Slots <=> k \in Nat /\ k < Size
  BY <1>2, RingNumbers
<1>5. /\ pc'[p] = "write" /\ place'[p] = Behind(rindex, a)
      /\ \A q \in Producers : q # p => pc'[q] = pc[q] /\ place'[q] = place[q]
  BY <1>2 DEF Types
<1>6. \A q \in Producers : Last(pc', seq', q) = Last(pc, seq, q)
  BY ReserveLast
<1>7. \A k \in Slots : k >= a => ring[Behind(rindex, k)] = NoLine
  BY <1>3 DEF RingInv
<1>8. \A k \in Slots : Behind(rindex, k) = Behind(rindex, a) => k = a
  BY <1>4, BehindInjective
<1>9. \A q \in Producers : pc[q] = "write" =>
        /\ ring[place[q]] = NoLine
        /\ \E k \in Slots : k < a /\ place[q] = Behind(rindex, k)
  BY <1>3 DEF RingInv
<1> HIDE DEF a
<1>10. RingInv'
  <2>1. a + 1 \in 0 .. Size
    BY <1>2, <1>4
  <2>2. \A k \in Slots : k >= a + 1 => ring[Behind(rindex, k)] = NoLine
    <3>1. \A k \in Slots : k >= a + 1 => k >= a
      BY <1>4
    <3> QED
      BY <1>7, <3>1
  <2>3. ASSUME NEW k \in Slots, k < a + 1, ring[Behind(rindex, k)] = NoLine
        PROVE  \E q \in Producers : pc'[q] = "write" /\ place'[q] = Behind(rindex, k)
    <3>1. k < a \/ k = a
      BY <1>4, <2>3
    <3>2. CASE k < a
      <4>1. PICK q \in Producers : pc[q] = "write" /\ place[q] = Behind(rindex, k)
        BY <1>3, <2>3, <3>2 DEF RingInv, a
      <4> QED
        BY <1>2, <1>5, <4>1
    <3>3. CASE k = a
      BY <1>5, <3>3
    <3> QED
      BY <3>1, <3>2, <3>3
  <2>4. ASSUME NEW q \in Producers, pc'[q] = "write"
        PROVE  ring[place'[q]] = NoLine /\ \E k \in Slots : k < a + 1 /\ place'[q] = Behind(rindex, k)
    <3>1. CASE q = p
      <4>1. a < a + 1 /\ a >= a
        BY <1>4
      <4> QED
        BY <1>4, <1>5, <1>7, <3>1, <4>1
    <3>2. CASE q # p
      <4>1. pc[q] = "write" /\ place'[q] = place[q]
        BY <1>5, <2>4, <3>2
      <4>2. ring[place[q]] = NoLine /\ \E k \in Slots : k < a /\ place[q] = Behind(rindex, k)
        BY <1>9, <4>1
      <4>3. \A k \in Slots : k < a => k < a + 1
        BY <1>4
      <4> QED
        BY <4>1, <4>2, <4>3
    <3> QED
      BY <3>1, <3>2
  <2>5. ASSUME NEW q \in Producers, q # p, pc'[q] = "write" PROVE place'[q] # place'[p]
    <3>1. PICK k \in Slots : k < a /\ place[q] = Behind(rindex, k)
      BY <1>5, <1>9, <2>5
    <3>2. k # a
      BY <1>4, <3>1
    <3> QED
      BY <1>5, <1>8, <2>5, <3>1, <3>2
  <2>6. \A q, r \in Producers : pc'[q] = "write" /\ pc'[r] = "write" /\ place'[q] = place'[r] => q = r
    BY <1>3, <1>5, <2>5 DEF RingInv
  <2>7. \A k \in Slots : k < Ahead' /\ ring'[Behind(rindex', k)] = NoLine =>
          \E q \in Producers : pc'[q] = "write" /\ place'[q] = Behind(rindex', k)
    BY <1>2, <2>3
  <2>8. \A q \in Producers : pc'[q] = "write" =>
          ring'[place'[q]] = NoLine /\ \E k \in Slots : k < Ahead' /\ place'[q] = Behind(rindex', k)
    BY <1>2, <2>4
  <2>9. Ahead' \in 0 .. Size /\ \A k \in Slots : k >= Ahead' => ring'[Behind(rindex', k)] = NoLine
    BY <1>2, <2>1, <2>2
  <2> QED
    BY <2>6, <2>7, <2>8, <2>9 DEF RingInv
<1>11. OrderInv'
  <2>1. \A i \in 1 .. Len(file) : file[i][2] <= Last(pc', seq', file[i][1])
    BY <1>3, <1>6, FileLine DEF OrderInv
  <2>2. \A s \in Slots : ring[s] # NoLine => ring[s][2] <= Last(pc', seq', ring[s][1])
    BY <1>3, <1>6, RingLine DEF OrderInv
  <2>3. ASSUME NEW q \in Producers, NEW j \in Slots, NEW k \in Slots,
               pc'[q] = "write", place'[q] = Behind(rindex, k),
               ring[Behind(rindex, j)] # NoLine, ring[Behind(rindex, j)][1] = q
        PROVE  j < k
    <3>1. CASE q = p
      <4>1. k = a
        BY <1>5, <1>8, <2>3, <3>1
      <4>2. ~(j >= a)
        BY <1>7, <2>3
      <4> QED
        BY <1>4, <4>1, <4>2
    <3>2. CASE q # p
      BY <1>3, <1>5, <2>3, <3>2 DEF OrderInv
    <3> QED
      BY <3>1, <3>2
  <2>4. /\ \A i, j \in 1 .. Len(file) : i < j /\ file[i][1] = file[j][1] => file[i][2] < file[j][2]
        /\ \A i \in 1 .. Len(file), s \in Slots :
             ring[s] # NoLine /\ file[i][1] = ring[s][1] => file[i][2] < ring[s][2]
        /\ \A j, k \in Slots :
             /\ j < k /\ ring[Behind(rindex, j)] # NoLine /\ ring[Behind(rindex, k)] # NoLine
             /\ ring[Behind(rindex, j)][1] = ring[Behind(rindex, k)][1]
             => ring[Behind(rindex, j)][2] < ring[Behind(rindex, k)][2]
    BY <1>3 DEF OrderInv
  <2>5. ring' = ring /\ rindex' = rindex /\ file' = file
    BY <1>2
  <2> QED
    BY <2>1, <2>2, <2>3, <2>4, <2>5 DEF OrderInv
<1>12. KeptInv'
  <2>1. \A l \in LogLines : l[1] \in Producers
    BY LineFields
  <2> QED
    BY <1>2, <1>3, <1>6, <2>1 DEF KeptInv
<1> QED
  BY <1>2, <1>3, <1>10, <1>11, <1>12

\* Writing the line: types.
LEMMA WriteTypes == ASSUME Types, ExitInv, NEW p \in Producers, Write(p) PROVE Types' /\ ExitInv'
<1>1. /\ pc[p] = "write" /\ pc' = [pc EXCEPT ![p] = "idle"] /\ ring' = [ring EXCEPT ![place[p]] = <<p, seq[p]>>]
      /\ UNCHANGED <<windex, rindex, seq, place, state, rpc, file, lapped>>
  BY DEF Write
<1>2. <<p, seq[p]>> \in LogLines /\ place[p] \in Slots
  <2>1. seq[p] \in 1 .. Lines
    BY <1>1, LastNumber
  <2> QED
    BY <2>1, LineFields DEF Types
<1>3. ring' \in [Slots -> LogLines \cup {NoLine}] /\ pc' \in [Producers -> {"idle", "write"}]
  BY <1>1, <1>2 DEF Types
<1>4. \A q \in Producers : pc'[q] = "write" => pc[q] = "write"
  BY <1>1 DEF Types
<1>5. Types'
  BY <1>1, <1>3, <1>4 DEF Types
<1>6. ExitInv'
  BY <1>1 DEF ExitInv
<1> QED
  BY <1>5, <1>6

\* Writing the line.
LEMMA WriteInv ==
  ASSUME LogRingInv, SizeDivides, NEW p \in Producers, Write(p) PROVE LogRingInv'
<1> USE DEF LogRingInv
<1>1. Types' /\ ExitInv'
  BY WriteTypes
<1> SUFFICES ASSUME ~lapped'
             PROVE  (RingInv /\ OrderInv /\ KeptInv /\ dropped = {} /\ (rpc = "done" => \A s \in Slots : ring[s] = NoLine))'
  BY <1>1 DEF QueueInv
<1> DEFINE h == place[p]
           n == seq[p]
<1>2. /\ pc[p] = "write" /\ pc' = [pc EXCEPT ![p] = "idle"] /\ ring' = [ring EXCEPT ![h] = <<p, n>>]
      /\ dropped' = dropped \cup ({ring[h]} \ {NoLine})
      /\ UNCHANGED <<windex, rindex, seq, place, state, rpc, file, lapped>>
  BY DEF Write
<1>3. RingInv /\ OrderInv /\ KeptInv /\ dropped = {}
  BY <1>2 DEF QueueInv
<1>4. /\ rindex \in Int /\ Ahead' = Ahead /\ Ahead \in Nat
      /\ \A k : k \in Slots <=> k \in Nat /\ k < Size
  BY <1>2, RingNumbers DEF Ahead
<1>5. /\ Last(pc, seq, p) = n - 1 /\ n \in 1 .. Lines /\ n \in Nat
  BY <1>2, LastNumber
<1>6. /\ pc'[p] = "idle" /\ \A q \in Producers : q # p => pc'[q] = pc[q]
  BY <1>2 DEF Types
<1>7. /\ Last(pc', seq', p) = n /\ \A q \in Producers : q # p => Last(pc', seq', q) = Last(pc, seq, q)
  BY <1>2, <1>6 DEF Last
<1>8. \A q \in Producers : Last(pc, seq, q) \in Nat /\ Last(pc', seq', q) \in Nat /\ Last(pc, seq, q) <= Last(pc', seq', q)
  <2>1. \A q \in Producers : Last(pc, seq, q) \in Nat
    BY LastNumber
  <2>2. n - 1 <= n
    BY <1>5
  <2>3. \A q \in Producers : Last(pc, seq, q) <= Last(pc, seq, q)
    BY <2>1
  <2> QED
    BY <1>5, <1>7, <2>1, <2>2, <2>3
<1>9. h \in Slots /\ ring[h] = NoLine /\ \E k \in Slots : k < Ahead /\ h = Behind(rindex, k)
  BY <1>2, <1>3 DEF RingInv, Types
<1>10. PICK m \in Slots : m < Ahead /\ h = Behind(rindex, m)
  BY <1>9
<1>11. \A k \in Slots : Behind(rindex, k) \in Slots /\ (Behind(rindex, k) = h => k = m)
  <2>1. \A k \in Slots : k \in Int
    BY <1>4
  <2>2. \A k \in Slots : Behind(rindex, k) \in Slots
    BY <1>4, <2>1, BehindSlot
  <2>3. \A k \in Slots : Behind(rindex, k) = Behind(rindex, m) => k = m
    BY <1>4, BehindInjective
  <2> QED
    BY <1>10, <2>2, <2>3
<1>12. /\ ring'[h] = <<p, n>> /\ <<p, n>> \in LogLines /\ <<p, n>>[1] = p /\ <<p, n>>[2] = n /\ <<p, n>> # NoLine
       /\ \A s \in Slots : s # h => ring'[s] = ring[s]
  <2>1. <<p, n>> \in LogLines /\ <<p, n>>[1] = p /\ <<p, n>>[2] = n /\ <<p, n>> # NoLine
    BY <1>5, LineFields
  <2> DEFINE o == <<p, n>>
  <2>2. ring \in [Slots -> LogLines \cup {NoLine}] /\ ring' = [ring EXCEPT ![h] = o]
    BY <1>2 DEF Types
  <2> HIDE DEF o, h
  <2>3. ring'[h] = o /\ \A s \in Slots : s # h => ring'[s] = ring[s]
    BY <1>9, <2>2
  <2> QED
    BY <2>1, <2>3 DEF o
<1>13. ring'[h][1] = p /\ ring'[h][2] = n /\ ring'[h] # NoLine
  BY <1>12
<1>14. \A q \in Producers : pc'[q] = "write" => q # p /\ pc[q] = "write" /\ place[q] # h /\ place[q] \in Slots
  BY <1>2, <1>3, <1>6 DEF RingInv, Types
<1> HIDE DEF h, n
<1>15. RingInv'
  <2>1. \A k \in Slots : k >= Ahead => ring'[Behind(rindex, k)] = NoLine
    <3>1. \A k \in Slots : k >= Ahead => k # m
      BY <1>4, <1>10
    <3> QED
      BY <1>3, <1>11, <1>12, <3>1 DEF RingInv
  <2>2. ASSUME NEW k \in Slots, k < Ahead, ring'[Behind(rindex, k)] = NoLine
        PROVE  \E q \in Producers : pc'[q] = "write" /\ place[q] = Behind(rindex, k)
    <3>1. Behind(rindex, k) # h /\ ring[Behind(rindex, k)] = NoLine
      BY <1>11, <1>12, <1>13, <2>2
    <3>2. PICK q \in Producers : pc[q] = "write" /\ place[q] = Behind(rindex, k)
      BY <1>3, <2>2, <3>1 DEF RingInv
    <3>3. q # p
      BY <3>1, <3>2 DEF h
    <3> QED
      BY <1>6, <3>2, <3>3
  <2>3. \A q \in Producers : pc'[q] = "write" =>
          ring'[place[q]] = NoLine /\ \E k \in Slots : k < Ahead /\ place[q] = Behind(rindex, k)
    BY <1>3, <1>12, <1>14 DEF RingInv
  <2>4. \A q, r \in Producers : pc'[q] = "write" /\ pc'[r] = "write" /\ place[q] = place[r] => q = r
    BY <1>3, <1>14 DEF RingInv
  <2>5. Ahead' \in 0 .. Size
    BY <1>3, <1>4 DEF RingInv
  <2> QED
    BY <1>2, <1>4, <2>1, <2>2, <2>3, <2>4, <2>5 DEF RingInv
<1>16. OrderInv'
  <2>1. ASSUME NEW i \in 1 .. Len(file) PROVE file[i][2] <= Last(pc', seq', file[i][1])
    <3>1. file[i][2] <= Last(pc, seq, file[i][1]) /\ file[i][1] \in Producers /\ file[i][2] \in Nat
      BY <1>3, FileLine DEF OrderInv
    <3>2. /\ Last(pc, seq, file[i][1]) \in Nat /\ Last(pc', seq', file[i][1]) \in Nat
          /\ Last(pc, seq, file[i][1]) <= Last(pc', seq', file[i][1])
      BY <1>8, <3>1
    <3> QED
      BY <3>1, <3>2
  <2>2. ASSUME NEW s \in Slots, ring'[s] # NoLine PROVE ring'[s][2] <= Last(pc', seq', ring'[s][1])
    <3>1. CASE s = h
      BY <1>5, <1>7, <1>13, <3>1
    <3>2. CASE s # h
      <4>1. ring'[s] = ring[s] /\ ring[s] # NoLine
        BY <1>12, <2>2, <3>2
      <4>2. ring[s][2] <= Last(pc, seq, ring[s][1]) /\ ring[s][1] \in Producers /\ ring[s][2] \in Nat
        BY <1>3, <4>1, RingLine DEF OrderInv
      <4>3. /\ Last(pc, seq, ring[s][1]) \in Nat /\ Last(pc', seq', ring[s][1]) \in Nat
            /\ Last(pc, seq, ring[s][1]) <= Last(pc', seq', ring[s][1])
        BY <1>8, <4>2
      <4> QED
        BY <4>1, <4>2, <4>3
    <3> QED
      BY <3>1, <3>2
  <2>3. ASSUME NEW i \in 1 .. Len(file), NEW s \in Slots, ring'[s] # NoLine, file[i][1] = ring'[s][1]
        PROVE  file[i][2] < ring'[s][2]
    <3>1. CASE s = h
      <4>1. file[i][1] = p /\ ring'[s][2] = n
        BY <1>13, <2>3, <3>1
      <4>2. file[i][2] <= n - 1 /\ file[i][2] \in Nat
        BY <1>3, <1>5, <4>1, FileLine DEF OrderInv
      <4> QED
        BY <1>5, <4>1, <4>2
    <3>2. CASE s # h
      BY <1>3, <1>12, <2>3, <3>2 DEF OrderInv
    <3> QED
      BY <3>1, <3>2
  <2>4. ASSUME NEW j \in Slots, NEW k \in Slots, j < k,
               ring'[Behind(rindex, j)] # NoLine, ring'[Behind(rindex, k)] # NoLine,
               ring'[Behind(rindex, j)][1] = ring'[Behind(rindex, k)][1]
        PROVE  ring'[Behind(rindex, j)][2] < ring'[Behind(rindex, k)][2]
    <3>1. j # k /\ ~(k < j)
      BY <1>4, <2>4
    <3>2. CASE Behind(rindex, k) = h
      <4>1. Behind(rindex, j) # h /\ Behind(rindex, j) \in Slots
        BY <1>11, <3>1, <3>2
      <4>2. ring'[Behind(rindex, j)] = ring[Behind(rindex, j)]
        BY <1>12, <4>1
      <4>3. ring'[Behind(rindex, k)][1] = p /\ ring'[Behind(rindex, k)][2] = n
        BY <1>13, <3>2
      <4> DEFINE y == ring[Behind(rindex, j)]
      <4>4. y # NoLine /\ y[1] = p
        BY <2>4, <4>2, <4>3
      <4>5. y[2] <= n - 1 /\ y[2] \in Nat
        BY <1>3, <1>5, <4>1, <4>4, RingLine DEF OrderInv
      <4> HIDE DEF y
      <4>6. y[2] < n
        BY <1>5, <4>5
      <4> QED
        BY <4>2, <4>3, <4>6 DEF y
    <3>3. CASE Behind(rindex, j) = h
      <4>1. Behind(rindex, k) # h /\ Behind(rindex, k) \in Slots
        BY <1>11, <3>1, <3>3
      <4>2. ring'[Behind(rindex, k)] = ring[Behind(rindex, k)]
        BY <1>12, <4>1
      <4>3. ring[Behind(rindex, k)] # NoLine /\ ring[Behind(rindex, k)][1] = p
        BY <1>13, <2>4, <3>3, <4>2
      <4>4. place[p] = Behind(rindex, j)
        BY <3>3 DEF h
      <4>5. k < j
        BY <1>2, <1>3, <4>3, <4>4 DEF OrderInv
      <4> QED
        BY <3>1, <4>5
    <3>4. CASE Behind(rindex, k) # h /\ Behind(rindex, j) # h
      <4>1. ring'[Behind(rindex, k)] = ring[Behind(rindex, k)] /\ ring'[Behind(rindex, j)] = ring[Behind(rindex, j)]
        BY <1>11, <1>12, <3>4
      <4> QED
        BY <1>3, <2>4, <4>1 DEF OrderInv
    <3> QED
      BY <3>2, <3>3, <3>4
  <2>5. ASSUME NEW q \in Producers, NEW j \in Slots, NEW k \in Slots,
               pc'[q] = "write", place[q] = Behind(rindex, k),
               ring'[Behind(rindex, j)] # NoLine, ring'[Behind(rindex, j)][1] = q
        PROVE  j < k
    <3>1. q # p /\ pc[q] = "write"
      BY <1>14, <2>5
    <3>2. Behind(rindex, j) # h
      BY <1>13, <2>5, <3>1
    <3>3. ring'[Behind(rindex, j)] = ring[Behind(rindex, j)]
      BY <1>11, <1>12, <3>2
    <3> QED
      BY <1>3, <2>5, <3>1, <3>3 DEF OrderInv
  <2>6. \A i, j \in 1 .. Len(file) : i < j /\ file[i][1] = file[j][1] => file[i][2] < file[j][2]
    BY <1>3 DEF OrderInv
  <2>7. file' = file /\ rindex' = rindex /\ place' = place
    BY <1>2
  <2> QED
    BY <2>1, <2>2, <2>3, <2>4, <2>5, <2>6, <2>7 DEF OrderInv
<1>17. KeptInv'
  <2> SUFFICES ASSUME NEW l \in LogLines, l[2] <= Last(pc', seq', l[1])
               PROVE  (\E i \in 1 .. Len(file) : file[i] = l) \/ \E s \in Slots : ring'[s] = l
    BY <1>2 DEF KeptInv
  <2>1. l[1] \in Producers /\ l[2] \in Nat /\ l = <<l[1], l[2]>> /\ l # NoLine
    BY LineFields
  <2>2. CASE l[2] <= Last(pc, seq, l[1])
    <3>1. (\E i \in 1 .. Len(file) : file[i] = l) \/ \E s \in Slots : ring[s] = l
      BY <1>3, <2>2 DEF KeptInv
    <3>2. \A s \in Slots : ring[s] = l => ring'[s] = l
      BY <1>9, <1>12, <2>1
    <3> QED
      BY <3>1, <3>2
  <2>3. CASE ~(l[2] <= Last(pc, seq, l[1]))
    <3>1. l[1] = p
      BY <1>7, <2>1, <2>3
    <3>2. l[2] = n
      BY <1>5, <1>7, <2>1, <2>3, <3>1
    <3> QED
      BY <1>9, <1>12, <2>1, <3>1, <3>2
  <2> QED
    BY <2>2, <2>3
<1>18. dropped' = {}
  BY <1>2, <1>3, <1>9
<1>19. rpc' # "done"
  BY <1>2 DEF ExitInv
<1> QED
  BY <1>15, <1>16, <1>17, <1>18, <1>19

-----------------------------------------------------------------------------
(* The popping thread.                                                       *)

\* A line is popped: types.
LEMMA PopTypes == ASSUME Types, ExitInv, Pop PROVE Types' /\ ExitInv'
<1>1. /\ rpc # "done" /\ ring[ReadSlot] # NoLine /\ file' = Append(file, ring[ReadSlot])
      /\ ring' = [ring EXCEPT ![ReadSlot] = NoLine] /\ rindex' = (rindex + 1) % IndexMod
      /\ UNCHANGED <<windex, pc, seq, place, state, rpc, dropped, lapped>>
  BY DEF Pop, producerVars
<1>2. ReadSlot \in Slots
  <2>1. rindex \in Int
    BY IndexNumbers
  <2> QED
    BY <2>1, IndexSlot DEF ReadSlot
<1>3. file' \in Seq(LogLines)
  <2>1. ring[ReadSlot] \in LogLines
    BY <1>1, <1>2, RingLine
  <2> QED
    BY <1>1, <2>1 DEF Types
<1>4. rindex' \in 0 .. IndexMod - 1
  <2>1. rindex + 1 \in Int
    BY IndexNumbers
  <2> QED
    BY <1>1, <2>1, Wrapped
<1>5. ring' \in [Slots -> LogLines \cup {NoLine}]
  BY <1>1, <1>2 DEF Types
<1>6. Types'
  BY <1>1, <1>3, <1>4, <1>5 DEF Types
<1>7. ExitInv'
  BY <1>1 DEF ExitInv
<1> QED
  BY <1>6, <1>7

\* What is popped is the oldest line, and what was behind it moves up.
LEMMA PopFacts ==
  ASSUME Types, SizeDivides, RingInv, Pop
  PROVE  /\ 0 \in Slots /\ Behind(rindex, 0) \in Slots /\ ring[Behind(rindex, 0)] # NoLine
         /\ Ahead >= 1 /\ Ahead' = Ahead - 1
         /\ ring'[Behind(rindex, 0)] = NoLine
         /\ \A s \in Slots : s # Behind(rindex, 0) => ring'[s] = ring[s]
         /\ \A k \in Slots : \/ k + 1 \in Slots /\ Behind(rindex', k) = Behind(rindex, k + 1)
                                  /\ Behind(rindex, k + 1) # Behind(rindex, 0) /\ Behind(rindex, k + 1) \in Slots
                             \/ k + 1 = Size /\ Behind(rindex', k) = Behind(rindex, 0)
         /\ Len(file) \in Nat /\ Len(file') = Len(file) + 1
         /\ \A i \in 1 .. Len(file') : \/ i \in 1 .. Len(file) /\ file'[i] = file[i]
                                       \/ i = Len(file) + 1 /\ file'[i] = ring[Behind(rindex, 0)]
         /\ \A i \in 1 .. Len(file) : i \in 1 .. Len(file') /\ file'[i] = file[i]
         /\ Len(file) + 1 \in 1 .. Len(file') /\ file'[Len(file) + 1] = ring[Behind(rindex, 0)]
<1> DEFINE h == Behind(rindex, 0)
<1>1. /\ Size \in Nat \ {0} /\ windex \in Int /\ rindex \in Int /\ Ahead \in Nat
      /\ Ahead = (windex - rindex) % IndexMod /\ \A k : k \in Slots <=> k \in Nat /\ k < Size
  BY RingNumbers
<1>2. h = ReadSlot
  <2>1. rindex + 0 = rindex
    BY <1>1
  <2> QED
    BY <2>1 DEF Behind, ReadSlot
<1>3. /\ ring[h] # NoLine /\ file' = Append(file, ring[h]) /\ ring' = [ring EXCEPT ![h] = NoLine]
      /\ rindex' = (rindex + 1) % IndexMod /\ windex' = windex
  BY <1>2 DEF Pop
<1>4. 0 \in Slots /\ h \in Slots
  <2>1. 0 \in Nat /\ 0 < Size /\ 0 \in Int
    BY <1>1
  <2>2. h \in Slots
    BY <1>1, <2>1, BehindSlot
  <2> QED
    BY <1>1, <2>1, <2>2
<1>5. Ahead >= 1
  <2>1. ~(0 >= Ahead)
    BY <1>3, <1>4 DEF RingInv
  <2> QED
    BY <1>1, <2>1
<1>6. Ahead' = Ahead - 1
  <2> DEFINE a == Ahead
  <2>1. a = (windex - rindex) % IndexMod /\ a >= 1
    BY <1>1, <1>5
  <2>2. Ahead' = (windex - ((rindex + 1) % IndexMod)) % IndexMod
    BY <1>3 DEF Ahead
  <2> HIDE DEF a
  <2>3. Ahead' = a - 1
    BY <1>1, <2>1, <2>2, AheadPopped
  <2> QED
    BY <2>3 DEF a
<1>7. ASSUME NEW k \in Slots
      PROVE  \/ k + 1 \in Slots /\ Behind(rindex', k) = Behind(rindex, k + 1)
                  /\ Behind(rindex, k + 1) # h /\ Behind(rindex, k + 1) \in Slots
             \/ k + 1 = Size /\ Behind(rindex', k) = h
  <2>1. k \in Int /\ k \in Nat /\ k + 1 \in Int
    BY <1>1
  <2>2. Behind(rindex', k) = Behind(rindex, k + 1)
    BY <1>1, <1>3, <2>1, BehindNext
  <2>3. CASE k + 1 = Size
    BY <1>1, <2>2, <2>3, BehindRound
  <2>4. CASE k + 1 # Size
    <3> DEFINE j == k + 1
    <3>1. j \in Slots /\ j # 0 /\ j \in Int
      BY <1>1, <2>1, <2>4
    <3> HIDE DEF j
    <3>2. Behind(rindex, j) # h
      BY <1>1, <1>4, <3>1, BehindInjective
    <3>3. Behind(rindex, j) \in Slots
      BY <1>1, <3>1, BehindSlot
    <3> QED
      BY <2>2, <3>1, <3>2, <3>3 DEF j
  <2> QED
    BY <2>3, <2>4
<1> HIDE DEF h
<1>8. ring'[h] = NoLine /\ \A s \in Slots : s # h => ring'[s] = ring[s]
  BY <1>3, <1>4 DEF Types
<1>9. file \in Seq(LogLines) /\ ring[h] \in LogLines /\ Len(file) \in Nat
  BY <1>3, <1>4, RingLine DEF Types
<1>10. /\ Len(file') = Len(file) + 1 /\ file'[Len(file) + 1] = ring[h]
       /\ \A i \in 1 .. Len(file) : file'[i] = file[i]
  BY <1>3, <1>9, AppendProperties
<1>11. /\ \A i \in 1 .. Len(file') : i \in 1 .. Len(file) \/ i = Len(file) + 1
       /\ \A i \in 1 .. Len(file) : i \in 1 .. Len(file')
       /\ Len(file) + 1 \in 1 .. Len(file')
  BY <1>9, <1>10
<1>12. \A i \in 1 .. Len(file') : \/ i \in 1 .. Len(file) /\ file'[i] = file[i]
                                  \/ i = Len(file) + 1 /\ file'[i] = ring[h]
  BY <1>10, <1>11
<1> QED
  BY <1>3, <1>4, <1>5, <1>6, <1>7, <1>8, <1>9, <1>10, <1>11, <1>12 DEF h

\* A line is popped.
LEMMA PopInv == ASSUME LogRingInv, SizeDivides, Pop PROVE LogRingInv'
<1> USE DEF LogRingInv
<1>1. Types' /\ ExitInv'
  BY PopTypes
<1> SUFFICES ASSUME ~lapped'
             PROVE  (RingInv /\ OrderInv /\ KeptInv /\ dropped = {} /\ (rpc = "done" => \A s \in Slots : ring[s] = NoLine))'
  BY <1>1 DEF QueueInv
<1>2. rpc # "done" /\ UNCHANGED <<pc, seq, place, state, rpc, dropped, lapped>>
  BY DEF Pop, producerVars
<1>3. RingInv /\ OrderInv /\ KeptInv /\ dropped = {}
  BY <1>2 DEF QueueInv
<1> DEFINE h == Behind(rindex, 0)
           y == ring[h]
<1>4. /\ 0 \in Slots /\ h \in Slots /\ y # NoLine /\ Ahead >= 1 /\ Ahead' = Ahead - 1
      /\ ring'[h] = NoLine /\ \A s \in Slots : s # h => ring'[s] = ring[s]
  BY <1>3, PopFacts
<1>5. \A k \in Slots : \/ k + 1 \in Slots /\ Behind(rindex', k) = Behind(rindex, k + 1)
                            /\ Behind(rindex, k + 1) # h /\ Behind(rindex, k + 1) \in Slots
                       \/ k + 1 = Size /\ Behind(rindex', k) = h
  BY <1>3, PopFacts
<1>6. /\ Len(file) \in Nat /\ Len(file') = Len(file) + 1
      /\ \A i \in 1 .. Len(file') : \/ i \in 1 .. Len(file) /\ file'[i] = file[i]
                                    \/ i = Len(file) + 1 /\ file'[i] = y
      /\ \A i \in 1 .. Len(file) : i \in 1 .. Len(file') /\ file'[i] = file[i]
      /\ Len(file) + 1 \in 1 .. Len(file') /\ file'[Len(file) + 1] = y
  BY <1>3, PopFacts
<1>7. /\ Size \in Nat \ {0} /\ rindex \in Int /\ Ahead \in Nat /\ Ahead \in 0 .. Size
      /\ \A k : k \in Slots <=> k \in Nat /\ k < Size
  BY <1>3, RingNumbers DEF RingInv
<1>8. \A q \in Producers : pc[q] = "write" => place[q] # h /\ place[q] \in Slots /\ ring[place[q]] = NoLine
  BY <1>3, <1>4 DEF RingInv, Types
<1>9. \A s \in Slots : ring'[s] # NoLine => s # h /\ ring'[s] = ring[s]
  BY <1>4
<1> HIDE DEF h, y
<1>10. RingInv'
  <2>1. Ahead - 1 \in 0 .. Size
    BY <1>4, <1>7
  <2>2. ASSUME NEW k \in Slots, k >= Ahead - 1 PROVE ring'[Behind(rindex', k)] = NoLine
    <3>1. CASE k + 1 = Size /\ Behind(rindex', k) = h
      BY <1>4, <3>1
    <3>2. CASE k + 1 \in Slots /\ Behind(rindex', k) = Behind(rindex, k + 1)
      <4>1. k + 1 >= Ahead
        BY <1>7, <2>2
      <4>2. ring[Behind(rindex, k + 1)] = NoLine
        BY <1>3, <3>2, <4>1 DEF RingInv
      <4> QED
        BY <1>4, <1>5, <3>2, <4>2
    <3> QED
      BY <1>5, <3>1, <3>2
  <2>3. ASSUME NEW k \in Slots, k < Ahead - 1, ring'[Behind(rindex', k)] = NoLine
        PROVE  \E q \in Producers : pc[q] = "write" /\ place[q] = Behind(rindex', k)
    <3>1. k + 1 < Ahead /\ k + 1 # Size
      BY <1>7, <2>3
    <3>2. /\ k + 1 \in Slots /\ Behind(rindex', k) = Behind(rindex, k + 1)
          /\ Behind(rindex, k + 1) # h /\ Behind(rindex, k + 1) \in Slots
      BY <1>5, <3>1
    <3>3. ring[Behind(rindex, k + 1)] = NoLine
      BY <1>4, <2>3, <3>2
    <3>4. \E q \in Producers : pc[q] = "write" /\ place[q] = Behind(rindex, k + 1)
      BY <1>3, <3>1, <3>2, <3>3 DEF RingInv
    <3> QED
      BY <3>2, <3>4
  <2>4. ASSUME NEW q \in Producers, pc[q] = "write"
        PROVE  ring'[place[q]] = NoLine /\ \E k \in Slots : k < Ahead - 1 /\ place[q] = Behind(rindex', k)
    <3>1. PICK j \in Slots : j < Ahead /\ place[q] = Behind(rindex, j)
      BY <1>3, <2>4 DEF RingInv
    <3>2. j # 0
      BY <1>8, <2>4, <3>1 DEF h
    <3> DEFINE k == j - 1
    <3>3. k \in Slots /\ k + 1 = j /\ k < Ahead - 1 /\ k + 1 # Size
      BY <1>7, <3>1, <3>2
    <3> HIDE DEF k
    <3>4. Behind(rindex', k) = Behind(rindex, k + 1)
      BY <1>5, <3>3
    <3>5. place[q] = Behind(rindex', k)
      BY <3>1, <3>3, <3>4
    <3>6. ring'[place[q]] = NoLine
      BY <1>4, <1>8, <2>4
    <3> QED
      BY <3>3, <3>5, <3>6
  <2>5. \A q, r \in Producers : pc[q] = "write" /\ pc[r] = "write" /\ place[q] = place[r] => q = r
    BY <1>3 DEF RingInv
  <2>6. pc' = pc /\ place' = place /\ Ahead' = Ahead - 1
    BY <1>2, <1>4
  <2> QED
    BY <2>1, <2>2, <2>3, <2>4, <2>5, <2>6 DEF RingInv
<1>11. OrderInv'
  <2>1. \A i \in 1 .. Len(file') : file'[i][2] <= Last(pc, seq, file'[i][1])
    <3>1. y[2] <= Last(pc, seq, y[1])
      BY <1>3, <1>4 DEF OrderInv, y
    <3> QED
      BY <1>3, <1>6, <3>1 DEF OrderInv
  <2>2. \A s \in Slots : ring'[s] # NoLine => ring'[s][2] <= Last(pc, seq, ring'[s][1])
    BY <1>3, <1>9 DEF OrderInv
  <2>3. \A i \in 1 .. Len(file) : file[i][1] = y[1] => file[i][2] < y[2]
    BY <1>3, <1>4 DEF OrderInv, y
  <2>4. ASSUME NEW i \in 1 .. Len(file'), NEW j \in 1 .. Len(file'), i < j, file'[i][1] = file'[j][1]
        PROVE  file'[i][2] < file'[j][2]
    <3>1. CASE j \in 1 .. Len(file)
      <4>1. i \in 1 .. Len(file)
        BY <1>6, <2>4, <3>1
      <4> QED
        BY <1>3, <1>6, <2>4, <3>1, <4>1 DEF OrderInv
    <3>2. CASE j \notin 1 .. Len(file)
      <4>1. j = Len(file) + 1 /\ file'[j] = y
        BY <1>6, <3>2
      <4>2. i # Len(file) + 1
        BY <1>6, <2>4, <4>1
      <4>3. i \in 1 .. Len(file) /\ file'[i] = file[i]
        BY <1>6, <4>2
      <4> QED
        BY <2>3, <2>4, <4>1, <4>3
    <3> QED
      BY <3>1, <3>2
  <2>5. ASSUME NEW s \in Slots, ring'[s] # NoLine, y[1] = ring'[s][1] PROVE y[2] < ring'[s][2]
    <3>1. PICK k \in Slots : s = Behind(rindex, k)
      BY <1>7, BehindOnto
    <3>2. s # h /\ ring'[s] = ring[s]
      BY <1>9, <2>5
    <3>3. k # 0
      BY <3>1, <3>2 DEF h
    <3>4. 0 < k
      BY <1>7, <3>3
    <3> QED
      BY <1>3, <1>4, <2>5, <3>1, <3>2, <3>4 DEF OrderInv, y, h
  <2>6. \A i \in 1 .. Len(file'), s \in Slots :
          ring'[s] # NoLine /\ file'[i][1] = ring'[s][1] => file'[i][2] < ring'[s][2]
    <3>1. \A i \in 1 .. Len(file), s \in Slots :
            ring'[s] # NoLine /\ file[i][1] = ring'[s][1] => file[i][2] < ring'[s][2]
      BY <1>3, <1>9 DEF OrderInv
    <3> QED
      BY <1>6, <2>5, <3>1
  <2>7. ASSUME NEW k \in Slots, ring'[Behind(rindex', k)] # NoLine
        PROVE  /\ k + 1 \in Slots /\ Behind(rindex', k) = Behind(rindex, k + 1)
               /\ ring'[Behind(rindex', k)] = ring[Behind(rindex, k + 1)]
    <3>1. Behind(rindex', k) # h
      BY <1>4, <2>7
    <3>2. /\ k + 1 \in Slots /\ Behind(rindex', k) = Behind(rindex, k + 1)
          /\ Behind(rindex, k + 1) # h /\ Behind(rindex, k + 1) \in Slots
      BY <1>5, <3>1
    <3> QED
      BY <1>4, <3>2
  <2>8. ASSUME NEW j \in Slots, NEW k \in Slots, j < k,
               ring'[Behind(rindex', j)] # NoLine, ring'[Behind(rindex', k)] # NoLine,
               ring'[Behind(rindex', j)][1] = ring'[Behind(rindex', k)][1]
        PROVE  ring'[Behind(rindex', j)][2] < ring'[Behind(rindex', k)][2]
    <3> DEFINE j1 == j + 1
               k1 == k + 1
    <3>1. /\ j1 \in Slots /\ ring'[Behind(rindex', j)] = ring[Behind(rindex, j1)]
          /\ k1 \in Slots /\ ring'[Behind(rindex', k)] = ring[Behind(rindex, k1)]
      BY <2>7, <2>8
    <3>2. j1 < k1
      BY <1>7, <2>8
    <3> HIDE DEF j1, k1
    <3> QED
      BY <1>3, <2>8, <3>1, <3>2 DEF OrderInv
  <2>9. ASSUME NEW q \in Producers, NEW j \in Slots, NEW k \in Slots,
               pc[q] = "write", place[q] = Behind(rindex', k),
               ring'[Behind(rindex', j)] # NoLine, ring'[Behind(rindex', j)][1] = q
        PROVE  j < k
    <3> DEFINE j1 == j + 1
               k1 == k + 1
    <3>1. j1 \in Slots /\ ring'[Behind(rindex', j)] = ring[Behind(rindex, j1)]
      BY <2>7, <2>9
    <3>2. k1 \in Slots /\ place[q] = Behind(rindex, k1)
      BY <1>5, <1>8, <2>9
    <3>3. j1 < k1 => j < k
      BY <1>7
    <3> HIDE DEF j1, k1
    <3>4. j1 < k1
      BY <1>3, <2>9, <3>1, <3>2 DEF OrderInv
    <3> QED
      BY <3>3, <3>4
  <2>10. pc' = pc /\ seq' = seq /\ place' = place
    BY <1>2
  <2> QED
    BY <2>1, <2>2, <2>4, <2>6, <2>8, <2>9, <2>10 DEF OrderInv
<1>12. KeptInv'
  <2> SUFFICES ASSUME NEW l \in LogLines, l[2] <= Last(pc, seq, l[1])
               PROVE  (\E i \in 1 .. Len(file') : file'[i] = l) \/ \E s \in Slots : ring'[s] = l
    BY <1>2 DEF KeptInv
  <2>1. (\E i \in 1 .. Len(file) : file[i] = l) \/ \E s \in Slots : ring[s] = l
    BY <1>3 DEF KeptInv
  <2>2. CASE \E i \in 1 .. Len(file) : file[i] = l
    BY <1>6, <2>2
  <2>3. ASSUME NEW s \in Slots, ring[s] = l
        PROVE (\E i \in 1 .. Len(file') : file'[i] = l) \/ \E r \in Slots : ring'[r] = l
    <3>1. CASE s = h
      BY <1>6, <2>3, <3>1 DEF y
    <3>2. CASE s # h
      BY <1>4, <2>3, <3>2
    <3> QED
      BY <3>1, <3>2
  <2> QED
    BY <2>1, <2>2, <2>3
<1> QED
  BY <1>2, <1>3, <1>10, <1>11, <1>12

\* The last try_pop fails: with all threads joined, the ring is empty.
LEMMA EndDrainInv == ASSUME LogRingInv, SizeDivides, EndDrain PROVE LogRingInv'
<1> USE DEF LogRingInv
<1>1. /\ rpc = "drain" /\ ring[ReadSlot] = NoLine /\ rpc' = "done"
      /\ UNCHANGED <<windex, ring, rindex, pc, seq, place, state, file, dropped, lapped>>
  BY DEF EndDrain, producerVars
<1>2. Types' /\ ExitInv'
  BY <1>1 DEF Types, ExitInv
<1>3. ASSUME ~lapped PROVE \A s \in Slots : ring[s] = NoLine
  <2>1. RingInv
    BY <1>3 DEF QueueInv
  <2>2. \A p \in Producers : pc[p] # "write"
    BY <1>1 DEF ExitInv
  <2>3. /\ Size \in Nat \ {0} /\ rindex \in Int /\ Ahead \in Nat
        /\ \A k : k \in Slots <=> k \in Nat /\ k < Size
    BY RingNumbers
  <2>4. rindex + 0 = rindex /\ 0 \in Slots
    BY <2>3
  <2>5. ring[Behind(rindex, 0)] = NoLine
    BY <1>1, <2>4 DEF Behind, ReadSlot
  <2>6. ~(0 < Ahead)
    BY <2>1, <2>2, <2>4, <2>5 DEF RingInv
  <2>7. \A k \in Slots : k >= Ahead
    BY <2>3, <2>6
  <2>8. \A k \in Slots : ring[Behind(rindex, k)] = NoLine
    BY <2>1, <2>7 DEF RingInv
  <2>9. \A s \in Slots : \E k \in Slots : s = Behind(rindex, k)
    BY <2>3, BehindOnto
  <2> QED
    BY <2>8, <2>9
<1>4. QueueInv'
  BY <1>1, <1>3, QueueSame
<1> QED
  BY <1>2, <1>4

-----------------------------------------------------------------------------
(* The theorem.                                                              *)

\* An empty ring.
LEMMA LogRingInvInit == ASSUME Init, SizeDivides PROVE LogRingInv
<1>1. /\ windex = 0 /\ ring = [i \in Slots |-> NoLine] /\ rindex = 0
      /\ pc = [p \in Producers |-> "idle"] /\ seq = [p \in Producers |-> 0] /\ place = [p \in Producers |-> 0]
      /\ state = "READY" /\ rpc = "loop" /\ file = <<>> /\ dropped = {} /\ ~lapped
  BY DEF Init
<1>2. Size \in Nat \ {0} /\ IndexMod \in Nat \ {0} /\ Lines \in Nat
  BY LogRingAssumption
<1>3. 0 \in 0 .. IndexMod - 1 /\ 0 \in Slots /\ 0 \in 0 .. Lines
  BY <1>2 DEF Slots
<1>4. Types
  BY <1>1, <1>3 DEF Types
<1>5. ExitInv
  BY <1>1 DEF ExitInv
<1>6. Ahead = 0
  <2>1. 0 = 0 * IndexMod + 0 /\ 0 \in Int /\ 0 - 0 = 0
    BY <1>2
  <2>2. 0 % IndexMod = 0
    BY <1>2, <1>3, <2>1, RemainderUnique
  <2> QED
    BY <1>1, <2>1, <2>2 DEF Ahead
<1>7. /\ Len(file) = 0 /\ \A i \in 1 .. 0 : FALSE
      /\ \A p \in Producers : pc[p] = "idle" /\ seq[p] = 0
      /\ \A s \in Slots : ring[s] = NoLine
  BY <1>1
<1>8. \A k \in Slots : ring[Behind(rindex, k)] = NoLine /\ ~(k < Ahead)
  <2>1. \A k \in Slots : k \in Int /\ ~(k < 0)
    BY <1>2 DEF Slots
  <2>2. \A k \in Slots : Behind(rindex, k) \in Slots
    BY <1>1, <2>1, BehindSlot
  <2> QED
    BY <1>6, <1>7, <2>1, <2>2
<1>9. RingInv
  <2>1. Ahead \in 0 .. Size
    BY <1>2, <1>6
  <2> QED
    BY <1>7, <1>8, <2>1 DEF RingInv
<1>10. OrderInv
  BY <1>7, <1>8 DEF OrderInv
<1>11. KeptInv
  <2>1. \A l \in LogLines : l[1] \in Producers /\ l[2] \in 1 .. Lines
    BY LineFields
  <2>2. \A l \in LogLines : ~(l[2] <= 0)
    BY <1>2, <2>1
  <2>3. \A l \in LogLines : Last(pc, seq, l[1]) = 0
    BY <1>7, <2>1 DEF Last
  <2> QED
    BY <2>2, <2>3 DEF KeptInv
<1> QED
  BY <1>1, <1>4, <1>5, <1>9, <1>10, <1>11 DEF LogRingInv, QueueInv

\* The invariant is inductive.
LEMMA LogRingInvNext == ASSUME LogRingInv, SizeDivides, [Next]_vars PROVE LogRingInv'
<1>1. CASE \E p \in Producers : Reserve(p) \/ Write(p)
  BY <1>1, ReserveInv, WriteInv
<1>2. CASE Pop
  BY <1>2, PopInv
<1>3. CASE EndDrain
  BY <1>3, EndDrainInv
<1>4. CASE SeeShutdown
  <2>1. /\ rpc' = "drain" /\ state = "SHUTDOWN"
        /\ UNCHANGED <<windex, ring, rindex, pc, seq, place, state, file, dropped, lapped>>
    BY <1>4 DEF SeeShutdown, producerVars
  <2>2. Types' /\ ExitInv'
    BY <2>1 DEF LogRingInv, Types, ExitInv
  <2>3. QueueInv'
    BY <2>1, QueueSame DEF LogRingInv
  <2> QED
    BY <2>2, <2>3 DEF LogRingInv
<1>5. CASE Shutdown
  <2>1. /\ state' = "SHUTDOWN" /\ \A p \in Producers : pc[p] = "idle" /\ seq[p] = Lines
        /\ UNCHANGED <<windex, ring, rindex, pc, seq, place, rpc, file, dropped, lapped>>
    BY <1>5 DEF Shutdown, producerVars
  <2>2. Types' /\ ExitInv'
    BY <2>1 DEF LogRingInv, Types, ExitInv
  <2>3. QueueInv'
    BY <2>1, QueueSame DEF LogRingInv
  <2> QED
    BY <2>2, <2>3 DEF LogRingInv
<1>6. CASE Finished \/ UNCHANGED vars
  <2>1. UNCHANGED <<windex, ring, rindex, pc, seq, place, state, rpc, file, dropped, lapped>>
    BY <1>6 DEF Finished, vars, producerVars
  <2>2. Types' /\ ExitInv'
    BY <2>1 DEF LogRingInv, Types, ExitInv
  <2>3. QueueInv'
    BY <2>1, QueueSame DEF LogRingInv
  <2> QED
    BY <2>2, <2>3 DEF LogRingInv
<1> QED
  BY <1>1, <1>2, <1>3, <1>4, <1>5, <1>6 DEF Next, Popper

(* RingBuffer::push and try_pop, NanoLogger::pop: as long as the producers stay less  *)
(* than a round ahead, no line is overwritten, the file has the lines of each thread   *)
(* in its order, and at exit all of them - also when the unsigned indexes wrap, if      *)
(* m_size divides their range.                                                           *)
THEOREM QueueUntilLappedHolds == SizeDivides => (SafeSpec => []QueueUntilLapped)
<1>1. ASSUME LogRingInv PROVE QueueUntilLapped
  <2> SUFFICES ASSUME ~lapped
               PROVE  /\ dropped = {}
                      /\ \A i, j \in 1 .. Len(file) :
                           i < j /\ file[i][1] = file[j][1] => file[i][2] < file[j][2]
                      /\ (rpc = "done" => \A l \in LogLines : Entries(l) # {})
    BY DEF QueueUntilLapped
  <2>1. OrderInv /\ KeptInv /\ dropped = {} /\ (rpc = "done" => \A s \in Slots : ring[s] = NoLine)
    BY <1>1 DEF LogRingInv, QueueInv
  <2>2. ASSUME rpc = "done", NEW l \in LogLines PROVE Entries(l) # {}
    <3>1. l[1] \in Producers /\ l[2] \in 1 .. Lines /\ l # NoLine /\ Lines \in Nat
      BY LineFields, LogRingAssumption
    <3>2. pc[l[1]] = "idle" /\ seq[l[1]] = Lines
      BY <1>1, <2>2, <3>1 DEF LogRingInv, ExitInv
    <3>3. l[2] <= Last(pc, seq, l[1])
      BY <3>1, <3>2 DEF Last
    <3>4. \E i \in 1 .. Len(file) : file[i] = l
      BY <2>1, <2>2, <3>1, <3>3 DEF KeptInv
    <3> QED
      BY <3>4 DEF Entries
  <2> QED
    BY <2>1, <2>2 DEF OrderInv
<1>2. SizeDivides => (Init => LogRingInv)
  BY LogRingInvInit
<1>3. SizeDivides => (LogRingInv /\ [Next]_vars => LogRingInv')
  BY LogRingInvNext
<1>4. CASE SizeDivides
  <2>1. Init => LogRingInv
    BY <1>2, <1>4
  <2>2. LogRingInv /\ [Next]_vars => LogRingInv'
    BY <1>3, <1>4
  <2> QED
    BY <1>1, <2>1, <2>2, PTL DEF SafeSpec
<1> QED
  BY <1>4

-----------------------------------------------------------------------------
(* The ring as a log with losses, whatever its size and however far the        *)
(* producers get ahead.                                                        *)

\* A line is in one slot, and is one its thread has written.
OnceInv ==
  /\ \A s, t \in Slots : ring[s] # NoLine /\ ring[s] = ring[t] => s = t
  /\ \A s \in Slots : ring[s] # NoLine => ring[s][2] <= Last(pc, seq, ring[s][1])

LossInv == Types /\ ExitInv /\ OnceInv

\* The line a thread is about to write is in no slot.
LEMMA NewLine ==
  ASSUME LossInv, NEW p \in Producers, Write(p)
  PROVE  /\ place[p] \in Slots /\ <<p, seq[p]>> \in LogLines /\ <<p, seq[p]>> # NoLine
         /\ Last(pc, seq, p) = seq[p] - 1 /\ seq[p] \in 1 .. Lines
         /\ \A s \in Slots : ring[s] # <<p, seq[p]>>
<1>1. Types /\ pc[p] = "write"
  BY DEF LossInv, Write
<1>2. seq[p] \in 1 .. Lines /\ Lines \in Nat
  BY <1>1, LastNumber, LogRingAssumption
<1>3. <<p, seq[p]>> \in LogLines /\ <<p, seq[p]>> # NoLine /\ <<p, seq[p]>>[1] = p /\ <<p, seq[p]>>[2] = seq[p]
  BY <1>2, LineFields
<1>4. Last(pc, seq, p) = seq[p] - 1
  BY <1>1 DEF Last
<1>5. ASSUME NEW s \in Slots, ring[s] = <<p, seq[p]>> PROVE FALSE
  <2>1. ring[s][2] <= Last(pc, seq, ring[s][1])
    BY <1>3, <1>5 DEF LossInv, OnceInv
  <2>2. seq[p] <= seq[p] - 1
    BY <1>3, <1>4, <1>5, <2>1
  <2> QED
    BY <1>2, <2>2
<1> QED
  BY <1>1, <1>2, <1>3, <1>4, <1>5 DEF Types

\* Writing a line keeps it in one slot.
LEMMA WriteOnce ==
  ASSUME LossInv, NEW p \in Producers, Write(p)
  PROVE  LossInv' /\ \A q \in Producers : Last(pc', seq', q) = IF q = p THEN Last(pc, seq, q) + 1 ELSE Last(pc, seq, q)
<1>1. /\ pc[p] = "write" /\ pc' = [pc EXCEPT ![p] = "idle"] /\ ring' = [ring EXCEPT ![place[p]] = <<p, seq[p]>>]
      /\ seq' = seq
  BY DEF Write
<1>2. Types /\ ExitInv /\ OnceInv
  BY DEF LossInv
<1>3. /\ place[p] \in Slots /\ <<p, seq[p]>> \in LogLines /\ <<p, seq[p]>> # NoLine
      /\ Last(pc, seq, p) = seq[p] - 1 /\ seq[p] \in 1 .. Lines
      /\ \A s \in Slots : ring[s] # <<p, seq[p]>>
  BY NewLine
<1>4. /\ \A s \in Slots : ring'[s] = IF s = place[p] THEN <<p, seq[p]>> ELSE ring[s]
      /\ \A q \in Producers : pc'[q] = IF q = p THEN "idle" ELSE pc[q]
  BY <1>1, <1>2 DEF Types
<1>5. \A q \in Producers : Last(pc', seq', q) = IF q = p THEN Last(pc, seq, q) + 1 ELSE Last(pc, seq, q)
  <2>1. Last(pc', seq', p) = seq[p] /\ seq[p] \in Nat
    BY <1>1, <1>3, <1>4, LogRingAssumption DEF Last
  <2>2. Last(pc', seq', p) = Last(pc, seq, p) + 1
    BY <1>3, <2>1
  <2>3. \A q \in Producers : q # p => Last(pc', seq', q) = Last(pc, seq, q)
    BY <1>1, <1>4 DEF Last
  <2> QED
    BY <2>2, <2>3
<1>6. \A s, t \in Slots : ring'[s] # NoLine /\ ring'[s] = ring'[t] => s = t
  BY <1>2, <1>3, <1>4 DEF OnceInv
<1>7. \A s \in Slots : ring'[s] # NoLine => ring'[s][2] <= Last(pc', seq', ring'[s][1])
  <2> SUFFICES ASSUME NEW s \in Slots, ring'[s] # NoLine PROVE ring'[s][2] <= Last(pc', seq', ring'[s][1])
    OBVIOUS
  <2>1. CASE s = place[p]
    <3>1. ring'[s][1] = p /\ ring'[s][2] = seq[p]
      BY <1>4, <2>1
    <3>2. Last(pc', seq', p) = seq[p]
      BY <1>1, <1>4 DEF Last
    <3> QED
      BY <1>3, <3>1, <3>2, LogRingAssumption
  <2>2. CASE s # place[p]
    <3>1. ring'[s] = ring[s] /\ ring[s] # NoLine
      BY <1>4, <2>2
    <3>2. ring[s][1] \in Producers /\ ring[s][2] \in Nat /\ ring[s][2] <= Last(pc, seq, ring[s][1])
      BY <1>2, <3>1, RingLine DEF OnceInv
    <3> DEFINE q == ring[s][1]
    <3>3. Last(pc, seq, q) \in Nat
      BY <1>2, <3>2, LastNumber DEF Last
    <3>4. Last(pc', seq', q) = Last(pc, seq, q) \/ Last(pc', seq', q) = Last(pc, seq, q) + 1
      BY <1>5, <3>2
    <3> HIDE DEF q
    <3>5. ring[s][2] <= Last(pc', seq', q)
      BY <3>2, <3>3, <3>4 DEF q
    <3> QED
      BY <3>1, <3>5 DEF q
  <2> QED
    BY <2>1, <2>2
<1>8. OnceInv'
  BY <1>6, <1>7 DEF OnceInv
<1> QED
  BY <1>2, <1>5, <1>8, WriteTypes DEF LossInv

\* Nothing is written or popped.
LEMMA OnceSame ==
  ASSUME OnceInv, ring' = ring, Types, \A p \in Producers : Last(pc', seq', p) = Last(pc, seq, p) PROVE OnceInv'
<1>1. \A s \in Slots : ring[s] # NoLine => ring[s][1] \in Producers
  BY RingLine
<1> QED
  BY <1>1 DEF OnceInv

\* The popping thread takes a line out of its slot.
LEMMA PopOnce == ASSUME LossInv, Pop PROVE LossInv' /\ ReadSlot \in Slots
<1>1. /\ ring' = [ring EXCEPT ![ReadSlot] = NoLine] /\ pc' = pc /\ seq' = seq
  BY DEF Pop, producerVars
<1>2. Types /\ ExitInv /\ OnceInv
  BY DEF LossInv
<1>3. ReadSlot \in Slots
  BY <1>2, IndexNumbers, IndexSlot DEF ReadSlot
<1>4. \A s \in Slots : ring'[s] = IF s = ReadSlot THEN NoLine ELSE ring[s]
  BY <1>1, <1>2 DEF Types
<1>5. \A s \in Slots : ring[s] # NoLine => Last(pc', seq', ring[s][1]) = Last(pc, seq, ring[s][1])
  BY <1>1 DEF Last
<1>6. OnceInv'
  BY <1>2, <1>4, <1>5 DEF OnceInv
<1> QED
  BY <1>2, <1>3, <1>6, PopTypes DEF LossInv

\* What is written is what the log has taken.
LEMMA PutIsLast == ASSUME NEW p PROVE Put(p) = Last(pc, seq, p) /\ Put(p)' = Last(pc', seq', p)
BY DEF Put, Last

\* A step that only moves between these two changes nothing that can be seen.
LEMMA Unseen ==
  ASSUME UNCHANGED <<ring, file, dropped>>, rpc' = "done" <=> rpc = "done",
         \A p \in Producers : Last(pc', seq', p) = Last(pc, seq, p)
  PROVE  UNCHANGED Service!vars
<1>1. [p \in Producers |-> Put(p)]' = [p \in Producers |-> Put(p)]
  BY PutIsLast
<1>2. InRing' = InRing
  BY DEF InRing
<1>3. (rpc = "done")' = (rpc = "done")
  OBVIOUS
<1> QED
  BY <1>1, <1>2, <1>3 DEF Service!vars

\* RingBuffer::push: the log takes the line, which may take the place of another.
LEMMA WriteTakes ==
  ASSUME LossInv, NEW p \in Producers, Write(p) PROVE Service!Next
<1> DEFINE D == {ring[place[p]]} \ {NoLine}
<1>1. /\ pc[p] = "write" /\ ring' = [ring EXCEPT ![place[p]] = <<p, seq[p]>>]
      /\ dropped' = dropped \cup D /\ UNCHANGED <<file, rpc>>
  BY DEF Write
<1>2. Types /\ ExitInv /\ OnceInv
  BY DEF LossInv
<1>3. /\ place[p] \in Slots /\ <<p, seq[p]>> \in LogLines /\ <<p, seq[p]>> # NoLine
      /\ Last(pc, seq, p) = seq[p] - 1 /\ seq[p] \in 1 .. Lines
  BY NewLine
<1>4. rpc # "done"
  BY <1>1, <1>2 DEF ExitInv
<1>5. Put(p) < Lines /\ Put(p) + 1 = seq[p]
  <2>1. Put(p) = seq[p] - 1
    BY <1>3, PutIsLast
  <2>2. Lines \in Nat
    BY LogRingAssumption
  <2> QED
    BY ONLY <1>3, <2>1, <2>2
<1>6. [q \in Producers |-> Put(q)]' = [[q \in Producers |-> Put(q)] EXCEPT ![p] = @ + 1]
  <2>1. \A q \in Producers : Put(q)' = IF q = p THEN Put(q) + 1 ELSE Put(q)
    BY WriteOnce, PutIsLast
  <2> QED
    BY <2>1
<1>7. D \subseteq InRing
  BY <1>3 DEF InRing
<1>8. InRing' = (InRing \ D) \cup {<<p, Put(p) + 1>>}
  <2>1. \A s \in Slots : ring'[s] = IF s = place[p] THEN <<p, seq[p]>> ELSE ring[s]
    BY <1>1, <1>2 DEF Types
  <2>2. \A s \in Slots : s # place[p] /\ ring[s] # NoLine => ring[s] \notin D
    BY <1>2, <1>3 DEF OnceInv
  <2>3. ASSUME NEW l \in InRing' PROVE l \in (InRing \ D) \cup {<<p, seq[p]>>}
    <3>1. PICK s \in Slots : l = ring'[s] /\ l # NoLine
      BY DEF InRing
    <3> QED
      BY <2>1, <2>2, <3>1 DEF InRing
  <2>4. ASSUME NEW l \in InRing \ D PROVE l \in InRing'
    <3>1. PICK s \in Slots : l = ring[s] /\ l # NoLine
      BY DEF InRing
    <3>2. s # place[p]
      BY <3>1
    <3> QED
      BY <2>1, <3>1, <3>2 DEF InRing
  <2>5. <<p, seq[p]>> \in InRing'
    BY <1>3, <2>1 DEF InRing
  <2> QED
    BY <1>5, <2>3, <2>4, <2>5
<1>9. \A l, k \in D : l = k
  OBVIOUS
<1> HIDE DEF D
<1>10. [q \in Producers |-> Put(q)][p] = Put(p)
  OBVIOUS
<1>11. Service!Take(p, D)
  BY <1>1, <1>4, <1>5, <1>6, <1>8, <1>9, <1>10 DEF Service!Take
<1> QED
  BY <1>7, <1>11 DEF Service!Next

\* NanoLogger::pop with a line: the log writes it.
LEMMA PopWrites == ASSUME LossInv, Pop PROVE Service!Next
<1> DEFINE l == ring[ReadSlot]
<1>1. /\ rpc # "done" /\ l # NoLine /\ file' = Append(file, l) /\ ring' = [ring EXCEPT ![ReadSlot] = NoLine]
      /\ UNCHANGED <<pc, seq, rpc, dropped>>
  BY DEF Pop, producerVars
<1>2. Types /\ OnceInv /\ ReadSlot \in Slots
  BY PopOnce DEF LossInv
<1>3. l \in InRing
  BY <1>1, <1>2 DEF InRing
<1>4. InRing' = InRing \ {l}
  <2>1. \A s \in Slots : ring'[s] = IF s = ReadSlot THEN NoLine ELSE ring[s]
    BY <1>1, <1>2 DEF Types
  <2>2. \A s \in Slots : ring[s] = l => s = ReadSlot
    BY <1>1, <1>2 DEF OnceInv
  <2> QED
    BY <1>1, <2>1, <2>2 DEF InRing
<1>5. [p \in Producers |-> Put(p)]' = [p \in Producers |-> Put(p)]
  BY <1>1 DEF Put
<1> HIDE DEF l
<1>6. Service!Write(l)
  BY <1>1, <1>4, <1>5 DEF Service!Write
<1> QED
  BY <1>3, <1>6 DEF Service!Next

-----------------------------------------------------------------------------
(* As long as no line is lost, every index from m_read_index up to m_write_index, both  *)
(* counted on without wrapping, stands for one line in its slot or one thread about to   *)
(* write it there.                                                                        *)
SlotOf(j) == (j % IndexMod) % Size

\* The indexes from r up to w that stand for slot k.
Indexes(r, w, k) == {j \in r .. w - 1 : SlotOf(j) = k}

Writers(k) == {p \in Producers : pc[p] = "write" /\ place[p] = k}

Full(k) == IF ring[k] = NoLine THEN 0 ELSE 1

Counted(r, w) ==
  /\ r <= w /\ rindex = r % IndexMod /\ windex = w % IndexMod
  /\ \A k \in Slots : Full(k) + Cardinality(Writers(k)) = Cardinality(Indexes(r, w, k))

CountInv == dropped = {} => \E r, w \in Nat : Counted(r, w)

\* An index that is counted on wraps like one that is wrapped each time.
LEMMA NextIndex == ASSUME NEW n \in Nat PROVE ((n % IndexMod) + 1) % IndexMod = (n + 1) % IndexMod
<1>1. IndexMod \in Nat \ {0}
  BY LogRingAssumption
<1> DEFINE e == n % IndexMod
<1>2. e \in 0 .. IndexMod - 1 /\ \E q \in Int : e = n + q * IndexMod
  BY Wrapped
<1> HIDE DEF e
<1>3. PICK q \in Int : e = n + q * IndexMod
  BY <1>2
<1>4. q * IndexMod \in Int
  BY <1>1
<1>5. e + 1 \in Int /\ n + 1 \in Int /\ e + 1 = (n + 1) + q * IndexMod
  BY <1>1, <1>2, <1>3, <1>4
<1>6. (e + 1) % IndexMod = (n + 1) % IndexMod
  BY <1>1, <1>5, SameRound
<1> QED
  BY <1>6 DEF e

\* Threads about to write can be counted,
LEMMA WritersCount ==
  ASSUME NEW k PROVE IsFiniteSet(Writers(k)) /\ Cardinality(Writers(k)) \in Nat
<1>1. Writers(k) \subseteq Producers
  BY DEF Writers
<1> QED
  BY <1>1, LogRingAssumption, FS_Subset, FS_CardinalityType

\* and so can indexes.
LEMMA IndexesCount ==
  ASSUME NEW r \in Nat, NEW w \in Nat, NEW k
  PROVE  IsFiniteSet(Indexes(r, w, k)) /\ Cardinality(Indexes(r, w, k)) \in Nat
<1>1. Indexes(r, w, k) \subseteq r .. w - 1
  BY DEF Indexes
<1>2. IsFiniteSet(r .. w - 1)
  BY FS_Interval
<1> QED
  BY <1>1, <1>2, FS_Subset, FS_CardinalityType

\* One more index is reserved.
LEMMA IndexesReserved ==
  ASSUME NEW r \in Nat, NEW w \in Nat, r <= w, NEW k
  PROVE  Cardinality(Indexes(r, w + 1, k)) =
           IF SlotOf(w) = k THEN Cardinality(Indexes(r, w, k)) + 1 ELSE Cardinality(Indexes(r, w, k))
<1>1. \A j : j \in r .. (w + 1) - 1 <=> j \in r .. w - 1 \/ j = w
  OBVIOUS
<1>2. w \notin Indexes(r, w, k)
  BY DEF Indexes
<1>3. CASE SlotOf(w) = k
  <2>1. Indexes(r, w + 1, k) = Indexes(r, w, k) \cup {w}
    BY <1>1, <1>3 DEF Indexes
  <2> QED
    BY <1>2, <1>3, <2>1, IndexesCount, FS_AddElement
<1>4. CASE SlotOf(w) # k
  <2>1. Indexes(r, w + 1, k) = Indexes(r, w, k)
    BY <1>1, <1>4 DEF Indexes
  <2> QED
    BY <1>4, <2>1
<1> QED
  BY <1>3, <1>4

\* The first index is done with.
LEMMA IndexesPopped ==
  ASSUME NEW r \in Nat, NEW w \in Nat, r < w, NEW k
  PROVE  Cardinality(Indexes(r + 1, w, k)) =
           IF SlotOf(r) = k THEN Cardinality(Indexes(r, w, k)) - 1 ELSE Cardinality(Indexes(r, w, k))
<1>1. \A j : j \in (r + 1) .. w - 1 <=> j \in r .. w - 1 /\ j # r
  OBVIOUS
<1>2. CASE SlotOf(r) = k
  <2>1. r \in Indexes(r, w, k)
    BY <1>2 DEF Indexes
  <2>2. Indexes(r + 1, w, k) = Indexes(r, w, k) \ {r}
    BY <1>1 DEF Indexes
  <2> QED
    BY <1>2, <2>1, <2>2, IndexesCount, FS_RemoveElement
<1>3. CASE SlotOf(r) # k
  <2>1. Indexes(r + 1, w, k) = Indexes(r, w, k)
    BY <1>1, <1>3 DEF Indexes
  <2> QED
    BY <1>3, <2>1
<1> QED
  BY <1>2, <1>3

\* No index is left when the two are equal.
LEMMA IndexesNone ==
  ASSUME NEW r \in Nat, NEW k PROVE Cardinality(Indexes(r, r, k)) = 0
<1>1. Indexes(r, r, k) = {}
  BY DEF Indexes
<1> QED
  BY <1>1, FS_EmptySet

\* A thread reserves the slot of the next index.
LEMMA ReserveCounted ==
  ASSUME Types, NEW p \in Producers, Reserve(p), NEW r \in Nat, NEW w \in Nat, Counted(r, w)
  PROVE  Counted(r, w + 1)'
<1>1. /\ pc[p] = "idle" /\ pc' = [pc EXCEPT ![p] = "write"] /\ place' = [place EXCEPT ![p] = windex % Size]
      /\ windex' = (windex + 1) % IndexMod /\ UNCHANGED <<ring, rindex>>
  BY DEF Reserve
<1>2. windex' = (w + 1) % IndexMod /\ rindex' = r % IndexMod /\ r <= w + 1
  BY <1>1, NextIndex DEF Counted
<1>3. windex % Size = SlotOf(w)
  BY DEF Counted, SlotOf
<1>4. ASSUME NEW k \in Slots
      PROVE  (Full(k) + Cardinality(Writers(k)))' = Cardinality(Indexes(r, w + 1, k))
  <2>1. p \notin Writers(k)
    BY <1>1 DEF Writers
  <2>2. Writers(k)' = IF SlotOf(w) = k THEN Writers(k) \cup {p} ELSE Writers(k)
    BY <1>1, <1>3 DEF Writers, Types
  <2>3. Cardinality(Writers(k)') = IF SlotOf(w) = k THEN Cardinality(Writers(k)) + 1 ELSE Cardinality(Writers(k))
    BY <2>1, <2>2, WritersCount, FS_AddElement
  <2>4. Full(k)' = Full(k) /\ Full(k) \in Nat
    BY <1>1 DEF Full
  <2>5. Full(k) + Cardinality(Writers(k)) = Cardinality(Indexes(r, w, k)) /\ r <= w
    BY DEF Counted
  <2> QED
    BY <2>3, <2>4, <2>5, WritersCount, IndexesCount, IndexesReserved
<1> QED
  BY <1>2, <1>4 DEF Counted

\* A thread writes a line to an empty slot.
LEMMA WriteCounted ==
  ASSUME Types, NEW p \in Producers, Write(p), ring[place[p]] = NoLine,
         NEW r \in Nat, NEW w \in Nat, Counted(r, w)
  PROVE  Counted(r, w)'
<1>1. /\ pc[p] = "write" /\ pc' = [pc EXCEPT ![p] = "idle"] /\ ring' = [ring EXCEPT ![place[p]] = <<p, seq[p]>>]
      /\ UNCHANGED <<windex, rindex, place>>
  BY DEF Write
<1>2. <<p, seq[p]>> # NoLine
  BY DEF NoLine
<1>3. ASSUME NEW k \in Slots
      PROVE  (Full(k) + Cardinality(Writers(k)))' = Cardinality(Indexes(r, w, k))
  <2>1. Full(k) + Cardinality(Writers(k)) = Cardinality(Indexes(r, w, k))
    BY DEF Counted
  <2>2. CASE place[p] = k
    <3>1. Full(k) = 0 /\ Full(k)' = 1
      BY <1>1, <1>2, <2>2 DEF Full, Types
    <3>2. p \in Writers(k) /\ Writers(k)' = Writers(k) \ {p}
      BY <1>1, <2>2 DEF Writers, Types
    <3>3. Cardinality(Writers(k)') = Cardinality(Writers(k)) - 1
      BY <3>2, WritersCount, FS_RemoveElement
    <3> QED
      BY <2>1, <3>1, <3>3, WritersCount
  <2>3. CASE place[p] # k
    <3>1. Full(k)' = Full(k) /\ Writers(k)' = Writers(k)
      BY <1>1, <2>3 DEF Full, Writers, Types
    <3> QED
      BY <2>1, <3>1
  <2> QED
    BY <2>2, <2>3
<1> QED
  BY <1>1, <1>3 DEF Counted

\* The popping thread reads its slot and goes on to the next index.
LEMMA PopCounted ==
  ASSUME Types, Pop, NEW r \in Nat, NEW w \in Nat, Counted(r, w)
  PROVE  Counted(r + 1, w)'
<1>1. /\ ring[ReadSlot] # NoLine /\ ring' = [ring EXCEPT ![ReadSlot] = NoLine]
      /\ rindex' = (rindex + 1) % IndexMod /\ UNCHANGED <<windex, pc, place>>
  BY DEF Pop, producerVars
<1>2. ReadSlot = SlotOf(r)
  BY DEF Counted, SlotOf, ReadSlot
<1>3. ReadSlot \in Slots
  BY IndexNumbers, IndexSlot DEF ReadSlot
<1>4. r < w
  <2>1. Full(ReadSlot) + Cardinality(Writers(ReadSlot)) = Cardinality(Indexes(r, w, ReadSlot)) /\ r <= w
    BY <1>3 DEF Counted
  <2>2. Full(ReadSlot) = 1
    BY <1>1 DEF Full
  <2>3. Cardinality(Indexes(r, w, ReadSlot)) # 0
    BY <2>1, <2>2, WritersCount
  <2> QED
    BY <2>1, <2>3, IndexesNone
<1>5. rindex' = (r + 1) % IndexMod /\ windex' = w % IndexMod /\ r + 1 <= w
  BY <1>1, <1>4, NextIndex DEF Counted
<1>6. ASSUME NEW k \in Slots
      PROVE  (Full(k) + Cardinality(Writers(k)))' = Cardinality(Indexes(r + 1, w, k))
  <2>1. Full(k) + Cardinality(Writers(k)) = Cardinality(Indexes(r, w, k))
    BY DEF Counted
  <2>2. Writers(k)' = Writers(k)
    BY <1>1 DEF Writers
  <2>3. Full(k)' = (IF SlotOf(r) = k THEN Full(k) - 1 ELSE Full(k)) /\ Full(k) \in Nat
    BY <1>1, <1>2 DEF Full, Types
  <2> QED
    BY <1>4, <2>1, <2>2, <2>3, WritersCount, IndexesCount, IndexesPopped
<1> QED
  BY <1>5, <1>6 DEF Counted

\* Every step keeps the count, as long as nothing is lost.
LEMMA NextCount == ASSUME Types, CountInv, [Next]_vars PROVE CountInv'
<1>1. ASSUME NEW p \in Producers, Reserve(p) PROVE CountInv'
  <2> SUFFICES ASSUME dropped' = {} PROVE \E r, w \in Nat : Counted(r, w)'
    BY DEF CountInv
  <2>1. dropped = {}
    BY <1>1 DEF Reserve
  <2>2. PICK r \in Nat, w \in Nat : Counted(r, w)
    BY <2>1 DEF CountInv
  <2>3. Counted(r, w + 1)' /\ w + 1 \in Nat
    BY <1>1, <2>2, ReserveCounted
  <2> QED
    BY <2>3
<1>2. ASSUME NEW p \in Producers, Write(p) PROVE CountInv'
  <2> SUFFICES ASSUME dropped' = {} PROVE \E r, w \in Nat : Counted(r, w)'
    BY DEF CountInv
  <2>1. dropped = {} /\ ring[place[p]] = NoLine
    BY <1>2 DEF Write
  <2>2. PICK r \in Nat, w \in Nat : Counted(r, w)
    BY <2>1 DEF CountInv
  <2> QED
    BY <1>2, <2>1, <2>2, WriteCounted
<1>3. CASE Pop
  <2> SUFFICES ASSUME dropped' = {} PROVE \E r, w \in Nat : Counted(r, w)'
    BY DEF CountInv
  <2>1. dropped = {}
    BY <1>3 DEF Pop
  <2>2. PICK r \in Nat, w \in Nat : Counted(r, w)
    BY <2>1 DEF CountInv
  <2>3. Counted(r + 1, w)' /\ r + 1 \in Nat
    BY <1>3, <2>2, PopCounted
  <2> QED
    BY <2>3
<1>4. CASE UNCHANGED <<windex, rindex, ring, pc, place, dropped>>
  BY <1>4 DEF CountInv, Counted, Full, Writers
<1> QED
  BY <1>1, <1>2, <1>3, <1>4
     DEF Next, Popper, SeeShutdown, EndDrain, Shutdown, Finished, vars, producerVars

\* The drain ends at an empty slot: then nothing is left, if nothing was lost.
LEMMA DrainLeavesNothing ==
  ASSUME Types, ExitInv, CountInv, EndDrain, dropped = {} PROVE InRing = {}
<1>1. PICK r \in Nat, w \in Nat : Counted(r, w)
  BY DEF CountInv
<1>2. ring[ReadSlot] = NoLine /\ \A p \in Producers : pc[p] = "idle"
  BY DEF EndDrain, ExitInv
<1>3. ReadSlot \in Slots /\ ReadSlot = SlotOf(r)
  BY <1>1, IndexNumbers, IndexSlot DEF ReadSlot, Counted, SlotOf
<1>4. \A k \in Slots : Cardinality(Writers(k)) = 0
  <2>1. \A k \in Slots : Writers(k) = {}
    BY <1>2 DEF Writers
  <2> QED
    BY <2>1, FS_EmptySet
<1>5. \A k \in Slots : Full(k) = Cardinality(Indexes(r, w, k)) /\ Full(k) \in Nat
  BY <1>1, <1>4 DEF Counted, Full
<1>6. Cardinality(Indexes(r, w, ReadSlot)) = 0
  BY <1>2, <1>3, <1>5 DEF Full
<1>7. Indexes(r, w, ReadSlot) = {}
  BY <1>6, IndexesCount, FS_EmptySet
<1>8. r = w
  BY <1>1, <1>3, <1>7 DEF Indexes, Counted
<1>9. \A k \in Slots : Full(k) = 0
  BY <1>5, <1>8, IndexesNone
<1> QED
  BY <1>9 DEF Full, InRing

\* Every step is one of the log, or none.
LEMMA RingRefines ==
  ASSUME LossInv, CountInv, [Next]_vars PROVE LossInv' /\ CountInv' /\ [Service!Next]_Service!vars
<1>1. Types /\ ExitInv /\ OnceInv
  BY DEF LossInv
<1>2. CountInv'
  BY <1>1, NextCount
<1>3. ASSUME NEW p \in Producers, Reserve(p) PROVE LossInv' /\ UNCHANGED Service!vars
  <2>1. UNCHANGED <<ring, file, dropped, rpc>>
    BY <1>3 DEF Reserve
  <2>2. \A q \in Producers : Last(pc', seq', q) = Last(pc, seq, q)
    BY <1>1, <1>3, ReserveLast
  <2>3. OnceInv'
    BY <1>1, <2>1, <2>2, OnceSame
  <2>4. Types' /\ ExitInv'
    BY <1>1, <1>3, ReserveTypes
  <2>5. UNCHANGED Service!vars
    BY <2>1, <2>2, Unseen
  <2> QED
    BY <2>3, <2>4, <2>5 DEF LossInv
<1>4. ASSUME NEW p \in Producers, Write(p) PROVE LossInv' /\ Service!Next
  BY <1>4, WriteOnce, WriteTakes
<1>5. CASE Pop
  BY <1>5, <1>2, PopOnce, PopWrites
<1>6. ASSUME UNCHANGED <<windex, ring, rindex, pc, seq, place, file, dropped, lapped>>,
             Types', ExitInv'
      PROVE  LossInv' /\ \A p \in Producers : Last(pc', seq', p) = Last(pc, seq, p)
  <2>1. \A p \in Producers : Last(pc', seq', p) = Last(pc, seq, p)
    BY <1>6
  <2> QED
    BY <1>1, <1>6, <2>1, OnceSame DEF LossInv
<1>7. CASE EndDrain
  <2>1. /\ rpc = "drain" /\ rpc' = "done"
        /\ UNCHANGED <<windex, ring, rindex, pc, seq, place, state, file, dropped, lapped>>
    BY <1>7 DEF EndDrain, producerVars
  <2>2. Types' /\ ExitInv'
    BY <1>1, <2>1 DEF Types, ExitInv
  <2>3. InRing' = InRing /\ [p \in Producers |-> Put(p)]' = [p \in Producers |-> Put(p)]
    BY <2>1 DEF InRing, Put
  <2>4. \A p \in Producers : Put(p) = Lines
    BY <1>1, <2>1 DEF ExitInv, Put
  <2>5. dropped = {} => InRing = {}
    BY <1>1, <1>7, DrainLeavesNothing
  <2>6. Service!Close
    BY <2>1, <2>3, <2>4, <2>5 DEF Service!Close
  <2> QED
    BY <1>6, <1>2, <2>1, <2>2, <2>6 DEF Service!Next
<1>8. CASE SeeShutdown
  <2>1. /\ rpc = "loop" /\ rpc' = "drain" /\ state = "SHUTDOWN"
        /\ UNCHANGED <<windex, ring, rindex, pc, seq, place, state, file, dropped, lapped>>
    BY <1>8 DEF SeeShutdown, producerVars
  <2>2. Types' /\ ExitInv'
    BY <1>1, <2>1 DEF Types, ExitInv
  <2>3. LossInv' /\ \A p \in Producers : Last(pc', seq', p) = Last(pc, seq, p)
    BY <1>6, <2>1, <2>2
  <2> QED
    BY <1>2, <2>1, <2>3, Unseen
<1>9. CASE Shutdown
  <2>1. /\ state' = "SHUTDOWN" /\ \A p \in Producers : pc[p] = "idle" /\ seq[p] = Lines
        /\ UNCHANGED <<windex, ring, rindex, pc, seq, place, rpc, file, dropped, lapped>>
    BY <1>9 DEF Shutdown, producerVars
  <2>2. Types' /\ ExitInv'
    BY <1>1, <2>1 DEF Types, ExitInv
  <2>3. LossInv' /\ \A p \in Producers : Last(pc', seq', p) = Last(pc, seq, p)
    BY <1>6, <2>1, <2>2
  <2> QED
    BY <1>2, <2>1, <2>3, Unseen
<1>10. CASE Finished \/ UNCHANGED vars
  <2>1. UNCHANGED <<windex, ring, rindex, pc, seq, place, state, rpc, file, dropped, lapped>>
    BY <1>10 DEF Finished, vars, producerVars
  <2>2. Types' /\ ExitInv'
    BY <1>1, <2>1 DEF Types, ExitInv
  <2>3. LossInv' /\ \A p \in Producers : Last(pc', seq', p) = Last(pc, seq, p)
    BY <1>6, <2>1, <2>2
  <2> QED
    BY <1>2, <2>1, <2>3, Unseen
<1> QED
  BY <1>3, <1>4, <1>5, <1>7, <1>8, <1>9, <1>10, <1>2 DEF Next, Popper

\* At the start the log is empty.
LEMMA RingInit == Init => LossInv /\ CountInv /\ Service!Init
<1> SUFFICES ASSUME Init PROVE LossInv /\ CountInv /\ Service!Init
  OBVIOUS
<1>1. /\ windex = 0 /\ ring = [i \in Slots |-> NoLine] /\ rindex = 0
      /\ pc = [p \in Producers |-> "idle"] /\ seq = [p \in Producers |-> 0] /\ place = [p \in Producers |-> 0]
      /\ state = "READY" /\ rpc = "loop" /\ file = <<>> /\ dropped = {}
  BY DEF Init
<1>2. 0 \in 0 .. IndexMod - 1 /\ 0 \in Slots /\ 0 \in 0 .. Lines
  BY LogRingAssumption DEF Slots
<1>3. Types
  BY <1>1, <1>2 DEF Types
<1>4. ExitInv /\ OnceInv
  BY <1>1 DEF ExitInv, OnceInv
<1>5. InRing = {} /\ [p \in Producers |-> Put(p)] = [p \in Producers |-> 0]
  BY <1>1 DEF InRing, Put
<1>6. Service!Init
  BY <1>1, <1>5 DEF Service!Init
<1>7. CountInv
  <2>1. 0 % IndexMod = 0
    BY LogRingAssumption
  <2>2. ASSUME NEW k \in Slots PROVE Full(k) + Cardinality(Writers(k)) = Cardinality(Indexes(0, 0, k))
    <3>1. Full(k) = 0 /\ Writers(k) = {}
      BY <1>1 DEF Full, Writers
    <3> QED
      BY <3>1, IndexesNone, FS_EmptySet
  <2>3. Counted(0, 0)
    BY <1>1, <2>1, <2>2 DEF Counted
  <2> QED
    BY <2>3 DEF CountInv
<1> QED
  BY <1>3, <1>4, <1>6, <1>7 DEF LossInv

(* NonGuaranteedLogger is a log with losses: for every size of the ring and every       *)
(* range of its indexes, however far the producers get ahead of the popping thread, a    *)
(* line that was pushed is written to the file once, or overwritten by one later line,    *)
(* and never both, never twice; nothing else gets into the file; and the log is closed     *)
(* with lines that were not written only if one was overwritten before.                    *)
THEOREM RingImplementsLog == SafeSpec => ImplementsLog
<1>1. Init => LossInv /\ CountInv /\ Service!Init
  BY RingInit
<1>2. LossInv /\ CountInv /\ [Next]_vars => LossInv' /\ CountInv' /\ [Service!Next]_Service!vars
  BY RingRefines
<1> QED
  BY <1>1, <1>2, PTL DEF SafeSpec, ImplementsLog, Service!SafeSpec
=============================================================================
