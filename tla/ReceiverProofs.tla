--------------------------- MODULE ReceiverProofs ---------------------------
(***************************************************************************)
(* Theorems about Receiver, for every header length, length bound, set of     *)
(* headers and number of buffers.                                             *)
(***************************************************************************)
EXTENDS Receiver, SequenceTheorems, TLAPS

MsgBuffers == [mem : Seq(Nat), cap : Nat, gen : Nat, tail : Nat, packlen : Nat]

Elems(s) == {s[i] : i \in 1 .. Len(s)}

Distinct(s) == \A i, j \in 1 .. Len(s) : s[i] = s[j] => i = j

Fresh(b) == b.tail = 0 /\ b.packlen = 0 /\ Len(b.mem) = DefaultSize

\* A read under way reads into the receive buffer, so there is one.
OwnerInv ==
  /\ TypeOK /\ OneOwner
  /\ rops # <<>> => recv # NoBuffer

-----------------------------------------------------------------------------
(* Sequences.                                                               *)

\* What the pool hands out first is in it, and only once.
LEMMA TailElems ==
  ASSUME NEW S, NEW s \in Seq(S), s # <<>>, Distinct(s)
  PROVE  /\ Head(s) \in Elems(s) /\ Elems(Tail(s)) = Elems(s) \ {Head(s)}
         /\ Distinct(Tail(s)) /\ Tail(s) \in Seq(S)
<1>1. /\ Len(s) \in Nat \ {0} /\ Head(s) = s[1] /\ Tail(s) \in Seq(S)
      /\ Len(Tail(s)) = Len(s) - 1 /\ \A i \in 1 .. Len(s) - 1 : Tail(s)[i] = s[i + 1]
  BY HeadTailProperties, EmptySeq
<1>2. Head(s) \in Elems(s)
  BY <1>1 DEF Elems
<1>3. Distinct(Tail(s))
  <2> SUFFICES ASSUME NEW i \in 1 .. Len(s) - 1, NEW j \in 1 .. Len(s) - 1, Tail(s)[i] = Tail(s)[j]
               PROVE  i = j
    BY <1>1 DEF Distinct
  <2>1. i + 1 \in 1 .. Len(s) /\ j + 1 \in 1 .. Len(s) /\ s[i + 1] = s[j + 1]
    BY <1>1
  <2>2. i + 1 = j + 1
    BY <2>1 DEF Distinct
  <2> QED
    BY <2>2
<1>4. ASSUME NEW x \in Elems(Tail(s)) PROVE x \in Elems(s) \ {Head(s)}
  <2>1. PICK i \in 1 .. Len(s) - 1 : x = Tail(s)[i]
    BY <1>1 DEF Elems
  <2>2. i + 1 \in 1 .. Len(s) /\ 1 \in 1 .. Len(s) /\ i + 1 # 1 /\ x = s[i + 1]
    BY <1>1, <2>1
  <2>3. s[i + 1] # s[1]
    BY <2>2 DEF Distinct
  <2> QED
    BY <1>1, <2>2, <2>3 DEF Elems
<1>5. ASSUME NEW x \in Elems(s) \ {Head(s)} PROVE x \in Elems(Tail(s))
  <2>1. PICK i \in 1 .. Len(s) : x = s[i]
    BY DEF Elems
  <2>2. i - 1 \in 1 .. Len(s) - 1 /\ x = s[(i - 1) + 1]
    BY <1>1, <2>1
  <2>3. x = Tail(s)[i - 1]
    BY <1>1, <2>2
  <2> QED
    BY <1>1, <2>2, <2>3 DEF Elems
<1> QED
  BY <1>1, <1>2, <1>3, <1>4, <1>5

\* What is given back to the pool is in it once if it was not there before.
LEMMA AppendElems ==
  ASSUME NEW S, NEW s \in Seq(S), NEW x \in S
  PROVE  /\ Append(s, x) \in Seq(S) /\ Elems(Append(s, x)) = Elems(s) \cup {x}
         /\ Distinct(s) /\ x \notin Elems(s) => Distinct(Append(s, x))
<1> DEFINE t == Append(s, x)
<1>1. /\ t \in Seq(S) /\ Len(t) = Len(s) + 1 /\ Len(s) \in Nat
      /\ t[Len(s) + 1] = x /\ \A i \in 1 .. Len(s) : t[i] = s[i]
  BY AppendProperties
<1> HIDE DEF t
<1>2. Elems(t) = Elems(s) \cup {x}
  <2>1. ASSUME NEW y \in Elems(t) PROVE y \in Elems(s) \cup {x}
    <3>1. PICK i \in 1 .. Len(s) + 1 : y = t[i]
      BY <1>1 DEF Elems
    <3>2. i \in 1 .. Len(s) \/ i = Len(s) + 1
      BY <1>1
    <3> QED
      BY <1>1, <3>1, <3>2 DEF Elems
  <2>2. ASSUME NEW y \in Elems(s) PROVE y \in Elems(t)
    <3>1. PICK i \in 1 .. Len(s) : y = s[i]
      BY DEF Elems
    <3>2. i \in 1 .. Len(t) /\ y = t[i]
      BY <1>1, <3>1
    <3> QED
      BY <3>2 DEF Elems
  <2>3. x \in Elems(t)
    <3>1. Len(s) + 1 \in 1 .. Len(t)
      BY <1>1
    <3> QED
      BY <1>1, <3>1 DEF Elems
  <2> QED
    BY <2>1, <2>2, <2>3
<1>3. ASSUME Distinct(s), x \notin Elems(s) PROVE Distinct(t)
  <2> SUFFICES ASSUME NEW i \in 1 .. Len(s) + 1, NEW j \in 1 .. Len(s) + 1, t[i] = t[j]
               PROVE  i = j
    BY <1>1 DEF Distinct
  <2>1. (i \in 1 .. Len(s) \/ i = Len(s) + 1) /\ (j \in 1 .. Len(s) \/ j = Len(s) + 1)
    BY <1>1
  <2>2. \A n \in 1 .. Len(s) : t[n] # x
    BY <1>1, <1>3 DEF Elems
  <2> QED
    BY <1>1, <1>3, <2>1, <2>2 DEF Distinct
<1> QED
  BY <1>1, <1>2, <1>3 DEF t

-----------------------------------------------------------------------------
(* MsgBuffer.                                                               *)

\* A new buffer is empty and of the default size.
LEMMA NewBufferFresh ==
  ASSUME NEW g \in Nat PROVE NewBuffer(g) \in MsgBuffers /\ Fresh(NewBuffer(g))
<1>1. DefaultSize \in Nat
  BY ReceiverAssumption
<1>2. Zeros(DefaultSize) \in Seq(Nat) /\ Len(Zeros(DefaultSize)) = DefaultSize
  BY <1>1 DEF Zeros
<1> QED
  BY <1>1, <1>2 DEF NewBuffer, MsgBuffers, Fresh

\* A cleared buffer is empty and of the default size.
LEMMA ClearFresh ==
  ASSUME NEW b \in MsgBuffers PROVE Clear(b) \in MsgBuffers /\ Fresh(Clear(b))
<1>1. DefaultSize \in Nat
  BY ReceiverAssumption
<1>2. Zeros(DefaultSize) \in Seq(Nat) /\ Len(Zeros(DefaultSize)) = DefaultSize
  BY <1>1 DEF Zeros
<1> QED
  BY <1>1, <1>2 DEF Clear, MsgBuffers, Fresh

\* adjust() makes the room it is asked for and keeps what is in the buffer.
LEMMA AdjustRoom ==
  ASSUME NEW b \in MsgBuffers, NEW n \in Nat
  PROVE  /\ Adjust(b, n) \in MsgBuffers
         /\ Adjust(b, n).tail = b.tail /\ Adjust(b, n).packlen = b.packlen
         /\ Len(Adjust(b, n).mem) >= Len(b.mem)
         /\ b.tail <= Len(b.mem) => b.tail + n <= Len(Adjust(b, n).mem)
         /\ \A i \in 1 .. Len(b.mem) : Adjust(b, n).mem[i] = b.mem[i]
<1> DEFINE size == AdjustedSize(b, n)
<1>1. Len(b.mem) \in Nat /\ b.tail \in Nat /\ b.cap \in Nat /\ b.gen \in Nat
  BY DEF MsgBuffers
<1>2. /\ size \in Nat /\ size >= Len(b.mem)
      /\ b.tail <= Len(b.mem) => b.tail + n <= size
  BY <1>1 DEF AdjustedSize
<1> HIDE DEF size
<1> DEFINE mem == [i \in 1 .. size |-> IF i <= Len(b.mem) THEN b.mem[i] ELSE 0]
<1>3. \A i \in 1 .. size : (IF i <= Len(b.mem) THEN b.mem[i] ELSE 0) \in Nat
  BY <1>1, <1>2 DEF MsgBuffers
<1>4. mem \in Seq(Nat) /\ Len(mem) = size
  <2>1. mem \in [1 .. size -> Nat]
    BY <1>3
  <2> HIDE DEF mem
  <2>2. mem \in Seq(Nat)
    BY <1>2, <2>1, SeqDef
  <2>3. 1 .. Len(mem) = 1 .. size /\ Len(mem) \in Nat
    BY <2>1, <2>2, LenProperties
  <2> QED
    BY <1>2, <2>2, <2>3
<1>5. \A i \in 1 .. Len(b.mem) : mem[i] = b.mem[i]
  BY <1>1, <1>2
<1> HIDE DEF mem
<1>6. Adjust(b, n) = [b EXCEPT !.mem = mem, !.cap = IF size > @ THEN size ELSE @,
                                !.gen = IF size > b.cap THEN @ + 1 ELSE @]
  BY DEF Adjust, size, mem
<1>7. Adjust(b, n).mem = mem
  BY <1>6 DEF MsgBuffers
<1>8. Adjust(b, n).tail = b.tail /\ Adjust(b, n).packlen = b.packlen
  BY <1>6 DEF MsgBuffers
<1>9. Adjust(b, n) \in MsgBuffers
  <2>1. (IF size > b.cap THEN size ELSE b.cap) \in Nat /\ (IF size > b.cap THEN b.gen + 1 ELSE b.gen) \in Nat
    BY <1>1, <1>2
  <2>2. Adjust(b, n) = [b EXCEPT !.mem = mem, !.cap = IF size > b.cap THEN size ELSE b.cap,
                                  !.gen = IF size > b.cap THEN b.gen + 1 ELSE b.gen]
    BY <1>6
  <2> QED
    BY <1>4, <2>1, <2>2 DEF MsgBuffers
<1> QED
  BY <1>2, <1>4, <1>5, <1>7, <1>8, <1>9

\* The length in a header, less the wrap, is a number.
LEMMA PackLenNat ==
  ASSUME NEW h \in Headers PROVE PackLen(h) \in Nat
<1>1. h.len \in Nat /\ LenMod \in Nat \ {0}
  BY ReceiverAssumption DEF CrcLen
<1> QED
  BY <1>1 DEF PackLen, CrcLen

\* Looking at a header touches nothing but m_packlen.
LEMMA WithPackLenKeeps ==
  ASSUME NEW b \in MsgBuffers, NEW h \in Headers
  PROVE  /\ WithPackLen(b, h) \in MsgBuffers
         /\ WithPackLen(b, h).mem = b.mem /\ WithPackLen(b, h).tail = b.tail
         /\ WithPackLen(b, h).gen = b.gen
         /\ WithPackLen(b, h).packlen =
              IF b.packlen = 0 /\ b.tail >= HeadLen /\ h.magic THEN PackLen(h) ELSE b.packlen
BY PackLenNat DEF WithPackLen, MsgBuffers

\* commit() moves m_tail.
LEMMA CommitKeeps ==
  ASSUME NEW b \in MsgBuffers, NEW n \in Nat
  PROVE  /\ Commit(b, n) \in MsgBuffers
         /\ Commit(b, n).mem = b.mem /\ Commit(b, n).tail = b.tail + n
         /\ Commit(b, n).gen = b.gen /\ Commit(b, n).packlen = b.packlen
BY DEF Commit, MsgBuffers

\* When PackageCheck wants more bytes, it says how many.
LEMMA ExpectNat ==
  ASSUME NEW b \in MsgBuffers, NEW h \in Headers, Check(b, h) \in {"NEED_HEAD", "NEED_BODY"}
  PROVE  Expect(WithPackLen(b, h)) \in Nat
<1> DEFINE w == WithPackLen(b, h)
<1>1. /\ w.tail = b.tail /\ b.tail \in Nat /\ w.packlen \in Nat /\ b.packlen \in Nat
      /\ w.packlen = IF b.packlen = 0 /\ b.tail >= HeadLen /\ h.magic THEN PackLen(h) ELSE b.packlen
  BY WithPackLenKeeps DEF MsgBuffers
<1>2. HeadLen \in Nat \ {0}
  BY ReceiverAssumption
<1>3. CASE b.packlen = 0 /\ b.tail < HeadLen
  <2>1. w.packlen = 0
    BY <1>1, <1>2, <1>3
  <2> QED
    BY <1>1, <1>2, <1>3, <2>1 DEF Expect
<1>4. CASE ~(b.packlen = 0 /\ b.tail < HeadLen)
  <2>1. LengthOK(w.packlen) /\ b.tail < w.packlen
    BY <1>4 DEF Check
  <2>2. w.packlen # 0
    BY <1>1, <1>2, <2>1
  <2> QED
    BY <1>1, <2>1, <2>2 DEF Expect
<1> QED
  BY <1>3, <1>4

-----------------------------------------------------------------------------
(* One owner for every buffer.                                              *)

\* get() returns a buffer that nobody owns, and the pool no longer has it.
LEMMA PoolGetTakes ==
  ASSUME OwnerInv, NEW b \in Buffers, PoolGet(b)
  PROVE  /\ b \notin TaskBuffers \cup OutBuffers \cup {recv}
         /\ free' \in Seq(Buffers) /\ Distinct(free') /\ FreeSet' = FreeSet \ {b}
<1>1. free \in Seq(Buffers) /\ Distinct(free) /\ FreeSet = Elems(free) /\ FreeSet' = Elems(free')
  BY DEF OwnerInv, TypeOK, OneOwner, Distinct, FreeSet, Elems
<1>2. CASE free # <<>>
  <2>1. b = Head(free) /\ free' = Tail(free)
    BY <1>2 DEF PoolGet
  <2>2. b \in FreeSet /\ Elems(Tail(free)) = FreeSet \ {b} /\ Distinct(Tail(free)) /\ Tail(free) \in Seq(Buffers)
    BY <1>1, <1>2, <2>1, TailElems
  <2> QED
    BY <1>1, <2>1, <2>2 DEF OwnerInv, OneOwner
<1>3. CASE free = <<>>
  <2>1. b \in Unmade /\ free' = free
    BY <1>3 DEF PoolGet
  <2> QED
    BY <1>1, <2>1 DEF Unmade
<1> QED
  BY <1>2, <1>3

\* recycle() makes the pool the owner of a buffer, once.
LEMMA RecycleGives ==
  ASSUME OwnerInv, NEW b \in Buffers \ FreeSet, Recycle(b)
  PROVE  /\ free' \in Seq(Buffers) /\ Distinct(free') /\ FreeSet' = FreeSet \cup {b}
         /\ buf' \in [Buffers -> MsgBuffers] /\ Fresh(buf'[b])
         /\ \A c \in Buffers \ {b} : buf'[c] = buf[c]
<1>1. /\ free \in Seq(Buffers) /\ Distinct(free) /\ FreeSet = Elems(free) /\ FreeSet' = Elems(free')
      /\ free' = Append(free, b)
  BY DEF OwnerInv, TypeOK, OneOwner, Distinct, FreeSet, Elems, Recycle
<1>2. buf \in [Buffers -> MsgBuffers] /\ buf' = [buf EXCEPT ![b] = Clear(buf[b])]
  BY DEF OwnerInv, TypeOK, MsgBuffers, Recycle
<1>3. Clear(buf[b]) \in MsgBuffers /\ Fresh(Clear(buf[b]))
  BY <1>2, ClearFresh
<1>4. /\ Append(free, b) \in Seq(Buffers) /\ Elems(Append(free, b)) = FreeSet \cup {b}
      /\ Distinct(Append(free, b))
  BY <1>1, AppendElems
<1>5. buf' \in [Buffers -> MsgBuffers] /\ buf'[b] = Clear(buf[b])
  BY <1>2, <1>3
<1> QED
  BY <1>1, <1>2, <1>3, <1>4, <1>5

\* close() cancels operations, it neither adds nor removes any.
LEMMA AbortedOps ==
  ASSUME NEW ops \in Seq(Ops)
  PROVE  /\ Aborted(ops) \in Seq(Ops) /\ Len(Aborted(ops)) = Len(ops)
         /\ \A i \in 1 .. Len(ops) :
              /\ Aborted(ops)[i].buf = ops[i].buf /\ Aborted(ops)[i].gen = ops[i].gen
              /\ Aborted(ops)[i].off = ops[i].off /\ Aborted(ops)[i].len = ops[i].len
              /\ Aborted(ops)[i].n = ops[i].n
              /\ Aborted(ops)[i].st = IF ops[i].st = "waiting" THEN "failed" ELSE ops[i].st
<1> DEFINE A(i) == IF ops[i].st = "waiting" THEN [ops[i] EXCEPT !.st = "failed"] ELSE ops[i]
<1>1. Len(ops) \in Nat /\ DOMAIN ops = 1 .. Len(ops) /\ \A i \in 1 .. Len(ops) : ops[i] \in Ops
  OBVIOUS
<1>2. \A i \in 1 .. Len(ops) : A(i) \in Ops
  BY <1>1 DEF Ops
<1>3. Aborted(ops) = [i \in 1 .. Len(ops) |-> A(i)]
  BY <1>1 DEF Aborted
<1>4. \A i \in 1 .. Len(ops) :
         /\ A(i).buf = ops[i].buf /\ A(i).gen = ops[i].gen
         /\ A(i).off = ops[i].off /\ A(i).len = ops[i].len /\ A(i).n = ops[i].n
         /\ A(i).st = IF ops[i].st = "waiting" THEN "failed" ELSE ops[i].st
  BY <1>1 DEF Ops
<1> HIDE DEF A
<1>5. Aborted(ops) \in [1 .. Len(ops) -> Ops]
  BY <1>2, <1>3
<1>6. Aborted(ops) \in Seq(Ops)
  BY <1>1, <1>5, SeqDef
<1>7. 1 .. Len(Aborted(ops)) = 1 .. Len(ops) /\ Len(Aborted(ops)) \in Nat
  BY <1>5, <1>6, LenProperties
<1>8. Len(Aborted(ops)) = Len(ops)
  BY <1>1, <1>7
<1>9. \A i \in 1 .. Len(ops) : Aborted(ops)[i] = A(i)
  BY <1>3
<1> QED
  BY <1>4, <1>6, <1>8, <1>9

\* A new read is an operation.
LEMMA ReadOpType ==
  ASSUME NEW b \in Buffers, NEW bb \in MsgBuffers, NEW n \in Nat
  PROVE  ReadOp(b, bb, n) \in Ops
BY DEF ReadOp, Ops, MsgBuffers

\* What is left when the oldest operation is handled, and another one follows.
LEMMA NextRops ==
  ASSUME NEW ops \in Seq(Ops), ops # <<>>, NEW op \in Ops
  PROVE  /\ Head(ops) \in Ops /\ Head(ops) = ops[1] /\ Tail(ops) \in Seq(Ops) /\ Len(Tail(ops)) = Len(ops) - 1
         /\ Append(Tail(ops), op) \in Seq(Ops) /\ Append(Tail(ops), op) # <<>>
         /\ Len(Append(Tail(ops), op)) = Len(ops)
         /\ Len(ops) = 1 => Append(Tail(ops), op)[1] = op
<1>1. /\ Head(ops) \in Ops /\ Head(ops) = ops[1] /\ Tail(ops) \in Seq(Ops) /\ Len(Tail(ops)) = Len(ops) - 1
      /\ Len(ops) \in Nat \ {0}
  BY HeadTailProperties, EmptySeq
<1>2. /\ Append(Tail(ops), op) \in Seq(Ops) /\ Append(Tail(ops), op) # <<>>
      /\ Len(Append(Tail(ops), op)) = Len(Tail(ops)) + 1
      /\ Append(Tail(ops), op)[Len(Tail(ops)) + 1] = op
  BY <1>1, AppendProperties
<1> QED
  BY <1>1, <1>2

\* At the start the pool owns what it was created with.
LEMMA InitOwner == Init => OwnerInv
<1> SUFFICES ASSUME Init PROVE OwnerInv
  OBVIOUS
<1>1. NewBuffer(0) \in MsgBuffers
  BY NewBufferFresh
<1>2. buf \in [Buffers -> MsgBuffers]
  BY <1>1 DEF Init
<1>3. TypeOK
  <2>1. start \in Seq(Nat) /\ Len(start) = Len(sent) + 1 /\ sent \in Seq(Headers)
    BY DEF Init
  <2>2. due \in [BOOLEAN -> Nat]
    BY DEF Init
  <2>3. free \in Seq(Buffers) /\ rops \in Seq(Ops) /\ recv \in Buffers \cup {NoBuffer}
    BY ReceiverAssumption DEF Init
  <2>4. /\ open \in BOOLEAN /\ peerGone \in BOOLEAN
        /\ rpos \in Nat /\ handed \in Nat /\ chains \in Nat /\ again \in Nat
        /\ tasks = {} /\ out = {}
    BY DEF Init
  <2> QED
    BY <1>2, <2>1, <2>2, <2>3, <2>4 DEF TypeOK, MsgBuffers
<1>4. Elems(free) \subseteq Buffers
  <2>1. free \in Seq(Buffers)
    BY <1>3 DEF TypeOK
  <2> QED
    BY <2>1 DEF Elems
<1>5. OneOwner
  <2>1. TaskBuffers = {} /\ OutBuffers = {} /\ recv \notin Buffers
    BY ReceiverAssumption DEF Init, TaskBuffers, OutBuffers
  <2>2. \A i, j \in 1 .. Len(free) : free[i] = free[j] => i = j
    BY ReceiverAssumption DEF Init
  <2>3. FreeSet \subseteq Buffers
    BY <1>4 DEF FreeSet, Elems
  <2> QED
    BY <2>1, <2>2, <2>3 DEF OneOwner, Init
<1> QED
  BY <1>3, <1>5 DEF OwnerInv, Init

\* Steps that move no buffer keep the owners.
LEMMA OwnerFrame ==
  ASSUME OneOwner, UNCHANGED <<free, recv, tasks, out>> PROVE OneOwner'
<1>1. FreeSet' = FreeSet /\ TaskBuffers' = TaskBuffers /\ OutBuffers' = OutBuffers
  BY DEF FreeSet, TaskBuffers, OutBuffers
<1>2. free' = free /\ recv' = recv /\ tasks' = tasks /\ out' = out
  OBVIOUS
<1> QED
  BY <1>1, <1>2 DEF OneOwner

\* The peer's steps keep the owners.
LEMMA PeerOwner ==
  ASSUME OwnerInv, (\E h \in Headers : PeerSend(h)) \/ PeerLeaves PROVE OwnerInv'
<1>0. OneOwner'
  BY OwnerFrame DEF OwnerInv, PeerSend, PeerLeaves, readVars, workVars
<1>1. CASE PeerLeaves
  BY <1>0, <1>1 DEF OwnerInv, TypeOK, PeerLeaves, readVars, workVars
<1>2. CASE \E h \in Headers : PeerSend(h)
  <2>1. PICK h \in Headers : PeerSend(h)
    BY <1>2
  <2>2. Extent(h) \in Nat /\ start \in Seq(Nat) /\ Len(start) \in Nat \ {0}
    BY PackLenNat, ReceiverAssumption DEF Extent, OwnerInv, TypeOK
  <2>3. start[Len(start)] + Extent(h) \in Nat
    BY <2>2
  <2>4. start' \in Seq(Nat) /\ Len(start') = Len(start) + 1
    BY <2>1, <2>2, <2>3, AppendProperties DEF PeerSend
  <2>5. sent' \in Seq(Headers) /\ Len(sent') = Len(sent) + 1
    BY <2>1, AppendProperties DEF PeerSend, OwnerInv, TypeOK
  <2>6. Len(start') = Len(sent') + 1
    BY <2>4, <2>5 DEF OwnerInv, TypeOK
  <2> QED
    BY <1>0, <2>1, <2>4, <2>5, <2>6 DEF OwnerInv, TypeOK, PeerSend, readVars, workVars
<1> QED
  BY <1>1, <1>2

\* A byte of the stream from its place in memory.
LEMMA BytePosition ==
  ASSUME NEW j \in Nat, NEW o \in Nat, NEW n \in Nat, NEW r \in Nat, j \in o + 1 .. o + n
  PROVE  r + (j - o) \in Nat
OBVIOUS

\* A read that fills memory, in the terms the later proofs use.
LEMMA PerformReadStep ==
  ASSUME OwnerInv, NEW i \in 1 .. Len(rops), NEW n \in 1 .. MaxLen, PerformRead(i, n)
  PROVE  /\ rops' \in Seq(Ops) /\ Len(rops') = Len(rops)
         /\ rops'[i] = [rops[i] EXCEPT !.st = "done", !.n = n]
         /\ buf' \in [Buffers -> MsgBuffers]
         /\ \A b \in Buffers :
              /\ buf'[b].tail = buf[b].tail /\ buf'[b].packlen = buf[b].packlen
              /\ buf'[b].gen = buf[b].gen /\ Len(buf'[b].mem) = Len(buf[b].mem)
         /\ \A b \in Buffers : b # rops[i].buf => buf'[b] = buf[b]
         /\ rops[i].gen = buf[rops[i].buf].gen =>
              \A j \in 1 .. Len(buf[rops[i].buf].mem) :
                buf'[rops[i].buf].mem[j] =
                  IF j \in rops[i].off + 1 .. rops[i].off + n
                    THEN rpos + (j - rops[i].off) ELSE buf[rops[i].buf].mem[j]
<1> DEFINE op == rops[i]
           bo == buf[op.buf]
           m == [j \in DOMAIN bo.mem |-> IF j \in op.off + 1 .. op.off + n THEN rpos + (j - op.off) ELSE bo.mem[j]]
<1>1. n \in Nat /\ rops \in Seq(Ops) /\ rpos \in Nat /\ buf \in [Buffers -> MsgBuffers]
  BY ReceiverAssumption DEF OwnerInv, TypeOK, MsgBuffers
<1>2. op \in Ops /\ op.buf \in Buffers /\ op.off \in Nat /\ bo \in MsgBuffers
  <2>1. op \in Ops
    BY <1>1
  <2>2. op.buf \in Buffers /\ op.off \in Nat
    BY <2>1 DEF Ops
  <2> QED
    BY <1>1, <2>1, <2>2
<1>3. rops' \in Seq(Ops) /\ Len(rops') = Len(rops) /\ rops'[i] = [op EXCEPT !.st = "done", !.n = n]
  <2>1. rops' = [rops EXCEPT ![i].st = "done", ![i].n = n]
    BY DEF PerformRead
  <2> DEFINE e == [op EXCEPT !.st = "done", !.n = n]
  <2>2. e \in Ops /\ rops' = [rops EXCEPT ![i] = e]
    BY <1>1, <1>2, <2>1 DEF Ops
  <2> HIDE DEF e
  <2>3. rops' \in Seq(Ops) /\ Len(rops') = Len(rops) /\ rops'[i] = e
    BY <1>1, <2>2, ExceptSeq
  <2> QED
    BY <2>3 DEF e
<1>4. /\ m \in Seq(Nat) /\ Len(m) = Len(bo.mem)
      /\ \A j \in 1 .. Len(bo.mem) : m[j] = IF j \in op.off + 1 .. op.off + n THEN rpos + (j - op.off) ELSE bo.mem[j]
  <2> DEFINE V(j) == IF j \in op.off + 1 .. op.off + n THEN rpos + (j - op.off) ELSE bo.mem[j]
  <2>1. Len(bo.mem) \in Nat /\ DOMAIN bo.mem = 1 .. Len(bo.mem) /\ \A j \in 1 .. Len(bo.mem) : bo.mem[j] \in Nat
    <3> HIDE DEF bo
    <3>1. bo.mem \in Seq(Nat)
      BY <1>2 DEF MsgBuffers
    <3> QED
      BY <3>1
  <2>2. ASSUME NEW j \in 1 .. Len(bo.mem) PROVE V(j) \in Nat
    <3> HIDE DEF op
    <3>0. j \in Nat
      BY <2>1
    <3>1. j \in op.off + 1 .. op.off + n => rpos + (j - op.off) \in Nat
      BY ONLY <1>1, <1>2, <3>0, BytePosition
    <3> QED
      BY <2>1, <3>1
  <2>3. m = [j \in 1 .. Len(bo.mem) |-> V(j)]
    BY <2>1, Zenon
  <2> HIDE DEF m, V
  <2>4. m \in [1 .. Len(bo.mem) -> Nat] /\ \A j \in 1 .. Len(bo.mem) : m[j] = V(j)
    BY <2>2, <2>3
  <2>5. m \in Seq(Nat)
    BY <2>1, <2>4, SeqDef
  <2>6. 1 .. Len(m) = 1 .. Len(bo.mem) /\ Len(m) \in Nat
    BY <2>4, <2>5, LenProperties
  <2>7. Len(m) = Len(bo.mem)
    BY <2>1, <2>6
  <2> QED
    BY <2>4, <2>5, <2>7 DEF V
<1>5. buf' = IF op.gen = bo.gen THEN [buf EXCEPT ![op.buf].mem = m] ELSE buf
  BY DEF PerformRead
<1> HIDE DEF m
<1>6. [bo EXCEPT !.mem = m] \in MsgBuffers
  BY <1>2, <1>4 DEF MsgBuffers
<1>7. buf' = IF op.gen = bo.gen THEN [buf EXCEPT ![op.buf] = [bo EXCEPT !.mem = m]] ELSE buf
  BY <1>5
<1>8. buf' \in [Buffers -> MsgBuffers]
  BY <1>1, <1>6, <1>7
<1>9. \A b \in Buffers : b # op.buf => buf'[b] = buf[b]
  BY <1>1, <1>2, <1>7
<1>10. buf'[op.buf] = IF op.gen = bo.gen THEN [bo EXCEPT !.mem = m] ELSE bo
  BY <1>1, <1>2, <1>7
<1>11. /\ buf'[op.buf].tail = bo.tail /\ buf'[op.buf].packlen = bo.packlen
       /\ buf'[op.buf].gen = bo.gen /\ Len(buf'[op.buf].mem) = Len(bo.mem)
       /\ op.gen = bo.gen => buf'[op.buf].mem = m
  BY <1>2, <1>4, <1>10 DEF MsgBuffers
<1> QED
  BY <1>3, <1>4, <1>8, <1>9, <1>11

\* What the reactor does keeps the owners.
LEMMA ReactorOwner ==
  ASSUME OwnerInv, NEW i \in 1 .. Len(rops),
         (\E n \in 1 .. MaxLen : PerformRead(i, n)) \/ PerformEof(i) \/ PerformAgain(i)
  PROVE  OwnerInv'
<1>0. OneOwner'
  BY OwnerFrame DEF OwnerInv, PerformRead, PerformEof, PerformAgain, workVars
<1>1. rops \in Seq(Ops) /\ rops[i] \in Ops /\ recv # NoBuffer
  BY DEF OwnerInv, TypeOK
<1>2. ASSUME NEW n \in 1 .. MaxLen, PerformRead(i, n) PROVE OwnerInv'
  <2>1. rops' \in Seq(Ops) /\ buf' \in [Buffers -> MsgBuffers]
    BY <1>2, PerformReadStep
  <2>2. rpos' \in Nat
    <3>1. rpos' = rpos + n
      BY <1>2 DEF PerformRead
    <3>2. rpos \in Nat
      BY DEF OwnerInv, TypeOK
    <3>3. n \in Nat
      BY ReceiverAssumption
    <3> QED
      BY <3>1, <3>2, <3>3
  <2> QED
    BY <1>0, <1>1, <1>2, <2>1, <2>2 DEF PerformRead, OwnerInv, TypeOK, MsgBuffers, peerVars, workVars
<1>3. ASSUME PerformEof(i) PROVE OwnerInv'
  <2>1. [rops[i] EXCEPT !.st = "failed"] \in Ops
    BY <1>1 DEF Ops
  <2>2. rops' \in Seq(Ops)
    BY <1>1, <1>3, <2>1 DEF PerformEof
  <2> QED
    BY <1>0, <1>1, <1>3, <2>2 DEF PerformEof, OwnerInv, TypeOK, peerVars, workVars
<1>4. ASSUME PerformAgain(i) PROVE OwnerInv'
  <2>1. [rops[i] EXCEPT !.st = "again"] \in Ops
    BY <1>1 DEF Ops
  <2>2. rops' \in Seq(Ops)
    BY <1>1, <1>4, <2>1 DEF PerformAgain
  <2>3. again' \in Nat
    <3>1. again' = again + 1 /\ again \in Nat
      BY <1>4 DEF PerformAgain, OwnerInv, TypeOK
    <3> QED
      BY <3>1
  <2> QED
    BY <1>0, <1>1, <1>4, <2>2, <2>3 DEF PerformAgain, OwnerInv, TypeOK, peerVars, workVars
<1> QED
  BY <1>2, <1>3, <1>4

\* async_read takes its buffer from the pool, or goes on with the one it has.
LEMMA StartReadOwner ==
  ASSUME OwnerInv, StartRead PROVE OwnerInv'
<1> DEFINE bb == Adjust(buf[recv'], HeadLen)
           op == ReadOp(recv', bb, HeadLen)
<1>1. recv' \in Buffers /\ recv' # NoBuffer
  BY ReceiverAssumption DEF StartRead, OwnerInv, TypeOK
<1>2. buf \in [Buffers -> MsgBuffers] /\ HeadLen \in Nat /\ rops \in Seq(Ops) /\ chains' \in Nat
  BY ReceiverAssumption DEF OwnerInv, TypeOK, MsgBuffers, StartRead
<1>3. bb \in MsgBuffers
  BY <1>1, <1>2, AdjustRoom
<1>4. buf' \in [Buffers -> MsgBuffers]
  BY <1>1, <1>2, <1>3 DEF StartRead
<1>5. rops' \in Seq(Ops)
  <2>1. op \in Ops
    BY <1>1, <1>2, <1>3, ReadOpType
  <2> QED
    BY <1>2, <2>1, AppendProperties DEF StartRead
<1>6. free' \in Seq(Buffers) /\ OneOwner'
  <2>1. CASE recv # NoBuffer
    BY <2>1, OwnerFrame DEF StartRead, OwnerInv, TypeOK, workVars
  <2>2. CASE recv = NoBuffer
    <3>1. PoolGet(recv')
      BY <2>2 DEF StartRead
    <3>2. /\ recv' \notin TaskBuffers \cup OutBuffers \cup {recv}
          /\ free' \in Seq(Buffers) /\ Distinct(free') /\ FreeSet' = FreeSet \ {recv'}
      BY <1>1, <3>1, PoolGetTakes
    <3>3. TaskBuffers' = TaskBuffers /\ OutBuffers' = OutBuffers /\ tasks' = tasks /\ out' = out
      BY DEF StartRead, workVars, TaskBuffers, OutBuffers
    <3> QED
      BY <3>2, <3>3 DEF OneOwner, OwnerInv, Distinct
  <2> QED
    BY <2>1, <2>2
<1> QED
  BY <1>1, <1>2, <1>4, <1>5, <1>6 DEF StartRead, OwnerInv, TypeOK, MsgBuffers, peerVars, workVars

\* The bytes of a finished read are in the receive buffer.
LEMMA CommittedType ==
  ASSUME OwnerInv, rops # <<>>
  PROVE  /\ recv \in Buffers /\ Head(rops) \in Ops /\ Head(rops) = rops[1] /\ Tail(rops) \in Seq(Ops)
         /\ Len(Tail(rops)) = Len(rops) - 1 /\ Head(rops).n \in Nat /\ Head(rops).len \in Nat
         /\ buf \in [Buffers -> MsgBuffers] /\ Committed \in MsgBuffers
         /\ Committed.mem = buf[recv].mem /\ Committed.tail = buf[recv].tail + Head(rops).n
         /\ Committed.gen = buf[recv].gen /\ Committed.packlen = buf[recv].packlen
<1>1. rops \in Seq(Ops) /\ recv \in Buffers /\ buf \in [Buffers -> MsgBuffers]
  BY DEF OwnerInv, TypeOK, MsgBuffers
<1>2. Head(rops) \in Ops /\ Head(rops) = rops[1] /\ Tail(rops) \in Seq(Ops) /\ Len(Tail(rops)) = Len(rops) - 1
  BY <1>1, HeadTailProperties
<1>3. Head(rops).n \in Nat /\ Head(rops).len \in Nat
  BY <1>2 DEF Ops
<1>4. buf[recv] \in MsgBuffers
  BY <1>1
<1> QED
  BY <1>1, <1>2, <1>3, <1>4, CommitKeeps DEF Committed

\* A handler that reads on, or stops, with the same receive buffer keeps the owners.
LEMMA HandleOwner ==
  ASSUME OwnerInv, HandleAgain \/ HandleError \/ \E h \in Headers : HandleIncorrect(h) \/ HandleNeedMore(h)
  PROVE  OwnerInv'
<1>0. OneOwner' /\ rops # <<>>
  BY OwnerFrame DEF OwnerInv, HandleAgain, HandleError, HandleIncorrect, HandleNeedMore, workVars
<1>1. /\ recv \in Buffers /\ Head(rops) \in Ops /\ Tail(rops) \in Seq(Ops)
      /\ Head(rops).len \in Nat /\ buf \in [Buffers -> MsgBuffers] /\ Committed \in MsgBuffers
  BY <1>0, CommittedType
<1>2. recv # NoBuffer
  BY <1>1, ReceiverAssumption
<1>3. Aborted(Tail(rops)) \in Seq(Ops)
  BY <1>1, AbortedOps
<1>4. ASSUME HandleAgain PROVE OwnerInv'
  <2> DEFINE bb == Adjust(buf[recv], Head(rops).len)
             op == ReadOp(recv, bb, Head(rops).len)
  <2>1. bb \in MsgBuffers
    BY <1>1, AdjustRoom
  <2>2. op \in Ops
    BY <1>1, <2>1, ReadOpType
  <2>3. buf' = [buf EXCEPT ![recv] = bb] /\ rops' = Append(Tail(rops), op)
    BY <1>4 DEF HandleAgain
  <2> HIDE DEF bb, op
  <2>4. buf' \in [Buffers -> MsgBuffers] /\ rops' \in Seq(Ops)
    BY <1>1, <2>1, <2>2, <2>3, AppendProperties
  <2> QED
    BY <1>0, <1>2, <1>4, <2>4 DEF HandleAgain, OwnerInv, TypeOK, MsgBuffers, peerVars, workVars
<1>5. ASSUME HandleError PROVE OwnerInv'
  BY <1>0, <1>2, <1>3, <1>5 DEF HandleError, OwnerInv, TypeOK, peerVars, workVars
<1>6. ASSUME NEW h \in Headers, HandleIncorrect(h) PROVE OwnerInv'
  <2>1. WithPackLen(Committed, h) \in MsgBuffers
    BY <1>1, WithPackLenKeeps
  <2>2. buf' \in [Buffers -> MsgBuffers]
    BY <1>1, <1>6, <2>1 DEF HandleIncorrect
  <2> QED
    BY <1>0, <1>2, <1>3, <1>6, <2>2 DEF HandleIncorrect, OwnerInv, TypeOK, MsgBuffers, peerVars, workVars
<1>7. ASSUME NEW h \in Headers, HandleNeedMore(h) PROVE OwnerInv'
  <2> DEFINE b == WithPackLen(Committed, h)
             bb == Adjust(b, Expect(b))
             op == ReadOp(recv, bb, Expect(b))
  <2>1. b \in MsgBuffers
    BY <1>1, WithPackLenKeeps
  <2>2. Expect(b) \in Nat
    BY <1>1, <1>7, ExpectNat DEF HandleNeedMore
  <2>3. buf' = [buf EXCEPT ![recv] = bb] /\ rops' = Append(Tail(rops), op)
    BY <1>7 DEF HandleNeedMore
  <2> HIDE DEF b
  <2>4. bb \in MsgBuffers
    BY <2>1, <2>2, AdjustRoom
  <2>5. op \in Ops
    BY <1>1, <2>2, <2>4, ReadOpType
  <2> HIDE DEF bb, op
  <2>6. buf' \in [Buffers -> MsgBuffers] /\ rops' \in Seq(Ops)
    BY <1>1, <2>3, <2>4, <2>5, AppendProperties
  <2> QED
    BY <1>0, <1>2, <1>7, <2>6 DEF HandleNeedMore, OwnerInv, TypeOK, MsgBuffers, peerVars, workVars
<1> QED
  BY <1>4, <1>5, <1>6, <1>7

\* A task has the buffer it was given.
LEMMA TaskBuffersAdd ==
  ASSUME NEW x, tasks' = tasks \cup {x} PROVE TaskBuffers' = TaskBuffers \cup {x.buf}
BY DEF TaskBuffers

\* A task that is done has no buffer.
LEMMA TaskBuffersLess ==
  ASSUME OneOwner, NEW t \in tasks, tasks' = tasks \ {t} PROVE TaskBuffers' = TaskBuffers \ {t.buf}
BY DEF TaskBuffers, OneOwner

\* A write that is posted has the buffer it was posted with.
LEMMA OutBuffersAdd ==
  ASSUME NEW x, out' = out \cup {x} PROVE OutBuffers' = OutBuffers \cup {x.buf}
BY DEF OutBuffers

\* A write that has ended has no buffer.
LEMMA OutBuffersLess ==
  ASSUME OneOwner, NEW o \in out, out' = out \ {o} PROVE OutBuffers' = OutBuffers \ {o.buf}
BY DEF OutBuffers, OneOwner

\* A whole frame goes to the business threads with its buffer; the next read has another one.
LEMMA HandleWholeOwner ==
  ASSUME OwnerInv, NEW h \in Headers, HandleWhole(h) PROVE OwnerInv'
<1>0. rops # <<>>
  BY DEF HandleWhole
<1>1. /\ recv \in Buffers /\ Head(rops) \in Ops /\ Tail(rops) \in Seq(Ops)
      /\ buf \in [Buffers -> MsgBuffers] /\ Committed \in MsgBuffers
  BY <1>0, CommittedType
<1>2. PICK b \in Buffers :
        /\ PoolGet(b) /\ recv' = b
        /\ buf' = [buf EXCEPT ![recv] = WithPackLen(Committed, h), ![b] = Adjust(buf[b], HeadLen)]
        /\ rops' = Append(Tail(rops), ReadOp(b, Adjust(buf[b], HeadLen), HeadLen))
  BY DEF HandleWhole
<1>3. /\ b \notin TaskBuffers \cup OutBuffers \cup {recv}
      /\ free' \in Seq(Buffers) /\ Distinct(free') /\ FreeSet' = FreeSet \ {b}
  BY <1>2, PoolGetTakes
<1>4. WithPackLen(Committed, h) \in MsgBuffers /\ Adjust(buf[b], HeadLen) \in MsgBuffers /\ HeadLen \in Nat
  BY <1>1, WithPackLenKeeps, AdjustRoom, ReceiverAssumption
<1>5. buf' \in [Buffers -> MsgBuffers]
  BY <1>1, <1>2, <1>4
<1>6. rops' \in Seq(Ops)
  BY <1>1, <1>2, <1>4, ReadOpType, AppendProperties
<1>7. /\ tasks' = tasks \cup {[buf |-> recv, frame |-> handed + 1]}
      /\ handed' = handed + 1 /\ handed \in Nat /\ out' = out
  BY DEF HandleWhole, HandOver, OwnerInv, TypeOK
<1>8. TaskBuffers' = TaskBuffers \cup {recv} /\ OutBuffers' = OutBuffers
  <2> DEFINE x == [buf |-> recv, frame |-> handed + 1]
  <2>1. x.buf = recv /\ tasks' = tasks \cup {x}
    BY <1>7
  <2> HIDE DEF x
  <2>2. TaskBuffers' = TaskBuffers \cup {recv}
    BY <2>1, TaskBuffersAdd
  <2> QED
    BY <1>7, <2>2 DEF OutBuffers
<1>9. \A t, u \in tasks' : t.buf = u.buf => t = u
  <2>1. \A t \in tasks : t.buf # recv
    BY DEF OwnerInv, OneOwner, TaskBuffers
  <2> QED
    BY <1>7, <2>1 DEF OwnerInv, OneOwner
<1>10. OneOwner'
  BY <1>2, <1>3, <1>7, <1>8, <1>9 DEF OneOwner, OwnerInv, Distinct
<1>11. tasks' \subseteq [buf : Buffers, frame : Nat] /\ handed' \in Nat
  <2>1. handed + 1 \in Nat
    BY <1>7
  <2>2. [buf |-> recv, frame |-> handed + 1] \in [buf : Buffers, frame : Nat]
    BY <1>1, <2>1
  <2>3. tasks \subseteq [buf : Buffers, frame : Nat]
    BY DEF OwnerInv, TypeOK
  <2> QED
    BY <1>7, <2>1, <2>2, <2>3
<1>12. recv' \in Buffers /\ recv' # NoBuffer
  BY <1>2, ReceiverAssumption
<1> QED
  BY <1>3, <1>5, <1>6, <1>7, <1>10, <1>11, <1>12 DEF HandleWhole, OwnerInv, TypeOK, MsgBuffers, peerVars

\* A business thread that is done gives its buffer back or drops it.
LEMMA BusinessOwner ==
  ASSUME OwnerInv, NEW t \in tasks, (\E body \in Bodies : Parse(t, body)) \/ ParseBadCrc(t)
  PROVE  OwnerInv'
<1>1. /\ t.buf \in Buffers /\ t.buf \notin FreeSet \cup OutBuffers \cup {recv} /\ buf \in [Buffers -> MsgBuffers]
  <2>1. t.buf \in Buffers /\ buf \in [Buffers -> MsgBuffers]
    BY DEF OwnerInv, TypeOK, MsgBuffers
  <2>2. t.buf \in TaskBuffers
    BY DEF TaskBuffers
  <2> QED
    BY <2>1, <2>2 DEF OwnerInv, OneOwner
<1>2. tasks' = tasks \ {t} /\ out' = out /\ recv' = recv
  BY DEF Parse, ParseBadCrc, readVars
<1>3. TaskBuffers' = TaskBuffers \ {t.buf} /\ OutBuffers' = OutBuffers
  BY <1>2, TaskBuffersLess DEF OwnerInv, OutBuffers
<1>4. \A body \in Bodies : Owed(body) \in [BOOLEAN -> Nat]
  <2>1. due \in [BOOLEAN -> Nat]
    BY DEF OwnerInv, TypeOK
  <2>2. \A v \in BOOLEAN : [due EXCEPT ![v] = due[v] + 1] \in [BOOLEAN -> Nat]
    BY <2>1
  <2>3. \A body \in Bodies : (body = "good") \in BOOLEAN
    OBVIOUS
  <2> QED
    BY <2>1, <2>2, <2>3, Zenon DEF Owed
<1>5. due' \in [BOOLEAN -> Nat]
  BY <1>4 DEF Parse, ParseBadCrc, Bodies
<1>6. ASSUME NEW body \in Bodies, Parse(t, body) PROVE OwnerInv'
  <2>1. /\ free' \in Seq(Buffers) /\ Distinct(free') /\ FreeSet' = FreeSet \cup {t.buf}
        /\ buf' \in [Buffers -> MsgBuffers]
    BY <1>1, <1>6, RecycleGives DEF Parse
  <2>2. OneOwner'
    BY <1>1, <1>2, <1>3, <2>1 DEF OneOwner, OwnerInv, Distinct
  <2> QED
    BY <1>2, <1>5, <1>6, <2>1, <2>2 DEF Parse, OwnerInv, TypeOK, MsgBuffers, peerVars, readVars
<1>7. ASSUME ParseBadCrc(t) PROVE OwnerInv'
  <2>1. NewBuffer(buf[t.buf].gen + 1) \in MsgBuffers
    <3>1. buf[t.buf].gen + 1 \in Nat
      BY <1>1 DEF MsgBuffers
    <3> QED
      BY <3>1, NewBufferFresh
  <2>2. buf' \in [Buffers -> MsgBuffers] /\ free' = free /\ FreeSet' = FreeSet
    BY <1>1, <1>7, <2>1 DEF ParseBadCrc, FreeSet
  <2>3. OneOwner'
    BY <1>1, <1>2, <1>3, <2>2 DEF OneOwner, OwnerInv
  <2> QED
    BY <1>2, <1>5, <1>7, <2>2, <2>3 DEF ParseBadCrc, OwnerInv, TypeOK, MsgBuffers, peerVars, readVars
<1> QED
  BY <1>6, <1>7

\* An answer is put into a buffer that nobody else has.
LEMMA AnswerOwner ==
  ASSUME OwnerInv, NEW valid \in BOOLEAN, NEW b \in Buffers, Answer(valid, b) PROVE OwnerInv'
<1>1. /\ b \notin TaskBuffers \cup OutBuffers \cup {recv}
      /\ free' \in Seq(Buffers) /\ Distinct(free') /\ FreeSet' = FreeSet \ {b}
  BY PoolGetTakes DEF Answer
<1>2. /\ out' = out \cup {[buf |-> b, valid |-> valid]} /\ tasks' = tasks /\ recv' = recv
  BY DEF Answer, readVars
<1>3. OutBuffers' = OutBuffers \cup {b} /\ TaskBuffers' = TaskBuffers
  <2> DEFINE x == [buf |-> b, valid |-> valid]
  <2>1. x.buf = b /\ out' = out \cup {x}
    BY <1>2
  <2> HIDE DEF x
  <2>2. OutBuffers' = OutBuffers \cup {b}
    BY <2>1, OutBuffersAdd
  <2> QED
    BY <1>2, <2>2 DEF TaskBuffers
<1>4. \A o, q \in out' : o.buf = q.buf => o = q
  <2>1. \A o \in out : o.buf # b
    BY <1>1 DEF OutBuffers
  <2> QED
    BY <1>2, <2>1 DEF OwnerInv, OneOwner
<1>5. OneOwner'
  BY <1>1, <1>2, <1>3, <1>4 DEF OneOwner, OwnerInv, Distinct
<1>6. out' \subseteq [buf : Buffers, valid : BOOLEAN]
  <2>1. [buf |-> b, valid |-> valid] \in [buf : Buffers, valid : BOOLEAN]
    BY Zenon
  <2>2. out \subseteq [buf : Buffers, valid : BOOLEAN]
    BY DEF OwnerInv, TypeOK
  <2> QED
    BY <1>2, <2>1, <2>2
<1>7. due' \in [BOOLEAN -> Nat]
  <2>1. due \in [BOOLEAN -> Nat] /\ due[valid] \in Nat /\ due[valid] > 0
    BY DEF Answer, OwnerInv, TypeOK
  <2>2. due[valid] - 1 \in Nat
    BY <2>1
  <2> QED
    BY <2>1, <2>2 DEF Answer
<1> QED
  BY <1>1, <1>2, <1>5, <1>6, <1>7 DEF Answer, OwnerInv, TypeOK, peerVars, readVars

\* A write that ends gives its buffer back or drops it.
LEMMA WriterOwner ==
  ASSUME OwnerInv, NEW o \in out, WriteRefused(o) \/ WriteDone(o) \/ WriteFailed(o)
  PROVE  OwnerInv'
<1>1. /\ o.buf \in Buffers /\ o.buf \notin FreeSet \cup TaskBuffers \cup {recv} /\ buf \in [Buffers -> MsgBuffers]
  <2>1. o.buf \in Buffers /\ buf \in [Buffers -> MsgBuffers]
    BY DEF OwnerInv, TypeOK, MsgBuffers
  <2>2. o.buf \in OutBuffers
    BY DEF OutBuffers
  <2> QED
    BY <2>1, <2>2 DEF OwnerInv, OneOwner
<1>2. out' = out \ {o} /\ tasks' = tasks /\ recv' = recv
  BY DEF WriteRefused, WriteDone, WriteFailed, readVars
<1>3. OutBuffers' = OutBuffers \ {o.buf} /\ TaskBuffers' = TaskBuffers
  BY <1>2, OutBuffersLess DEF OwnerInv, TaskBuffers
<1>4. Aborted(rops) \in Seq(Ops) /\ (Aborted(rops) # <<>> => rops # <<>>)
  <2>1. Aborted(rops) \in Seq(Ops) /\ Len(Aborted(rops)) = Len(rops) /\ rops \in Seq(Ops)
    BY AbortedOps DEF OwnerInv, TypeOK
  <2> QED
    BY <2>1
<1>5. ASSUME WriteRefused(o) \/ WriteDone(o) PROVE OwnerInv'
  <2>1. /\ free' \in Seq(Buffers) /\ Distinct(free') /\ FreeSet' = FreeSet \cup {o.buf}
        /\ buf' \in [Buffers -> MsgBuffers]
    BY <1>1, <1>5, RecycleGives DEF WriteRefused, WriteDone
  <2>2. OneOwner'
    BY <1>1, <1>2, <1>3, <2>1 DEF OneOwner, OwnerInv, Distinct
  <2>3. rops' \in Seq(Ops) /\ (rops' # <<>> => rops # <<>>) /\ open' \in BOOLEAN
    BY <1>4, <1>5 DEF WriteRefused, WriteDone, readVars, OwnerInv, TypeOK
  <2>4. UNCHANGED <<peerVars, rpos, recv, chains, again, handed, tasks, due>>
    BY <1>5 DEF WriteRefused, WriteDone, readVars
  <2> QED
    BY <1>2, <2>1, <2>2, <2>3, <2>4 DEF OwnerInv, TypeOK, MsgBuffers, peerVars
<1>6. ASSUME WriteFailed(o) PROVE OwnerInv'
  <2>1. NewBuffer(buf[o.buf].gen + 1) \in MsgBuffers
    <3>1. buf[o.buf].gen + 1 \in Nat
      BY <1>1 DEF MsgBuffers
    <3> QED
      BY <3>1, NewBufferFresh
  <2>2. buf' \in [Buffers -> MsgBuffers] /\ free' = free /\ FreeSet' = FreeSet
    BY <1>1, <1>6, <2>1 DEF WriteFailed, FreeSet
  <2>3. OneOwner'
    BY <1>1, <1>2, <1>3, <2>2 DEF OneOwner, OwnerInv
  <2> QED
    BY <1>2, <1>4, <1>6, <2>2, <2>3 DEF WriteFailed, OwnerInv, TypeOK, MsgBuffers, peerVars
<1> QED
  BY <1>5, <1>6

\* No step disturbs the owners.
LEMMA NextOwner ==
  ASSUME OwnerInv, [Next]_vars PROVE OwnerInv'
<1>1. CASE UNCHANGED vars
  <2>1. OneOwner'
    BY <1>1, OwnerFrame DEF OwnerInv, vars, readVars, workVars
  <2> QED
    BY <1>1, <2>1 DEF OwnerInv, TypeOK, vars, peerVars, readVars, workVars
<1>2. CASE Next
  BY <1>1, <1>2, PeerOwner, ReactorOwner, StartReadOwner, HandleOwner, HandleWholeOwner, BusinessOwner,
     AnswerOwner, WriterOwner
     DEF Next, Reactor, ReadHandler, Business, Writer, Finished
<1> QED
  BY <1>1, <1>2

\* OneOwner for every set of headers, number of buffers and number of read chains: a
\* MsgBuffer belongs to the pool, once, or to the read in progress, or to one business
\* thread, or to one write.
THEOREM OneOwnerHolds == SafeSpec => [](TypeOK /\ OneOwner)
<1>1. OwnerInv => TypeOK /\ OneOwner
  BY DEF OwnerInv
<1> QED
  BY <1>1, InitOwner, NextOwner, PTL DEF SafeSpec

-----------------------------------------------------------------------------
(* Framing, on a connection with one chain of reads.                        *)

\* Where the frames are: one after the other, none of them empty.
StreamInv ==
  /\ start[1] = 0
  /\ \A k \in 1 .. Len(sent) : start[k + 1] = start[k] + Extent(sent[k])
  /\ \A j, k \in 1 .. Len(start) : j < k => start[j] < start[k]

\* There is one read at a time.
ChainInv ==
  /\ chains <= 1 /\ Len(rops) <= 1
  /\ chains = 0 => rops = <<>> /\ recv = NoBuffer /\ rpos = 0 /\ handed = 0

\* Buffers that are neither read into nor worked on are empty and of the default size.
FreshInv == \A b \in Buffers : b \notin TaskBuffers \cup {recv} => Fresh(buf[b])

Arrived(op) == IF op.st = "done" THEN op.n ELSE 0

\* The read goes into the receive buffer, right behind what is there, into memory it has.
OpPlaced ==
  rops # <<>> =>
    /\ rops[1].buf = recv /\ rops[1].gen = buf[recv].gen /\ rops[1].off = buf[recv].tail
    /\ rops[1].off + rops[1].len <= Len(buf[recv].mem) /\ Arrived(rops[1]) <= rops[1].len

\* The receive buffer holds the first bytes of the next frame, all that was taken from the stream.
Filled ==
  rops # <<>> =>
    /\ handed <= Len(sent) /\ rpos <= start[Len(start)]
    /\ rpos = start[handed + 1] + buf[recv].tail + Arrived(rops[1])
    /\ \A i \in 1 .. buf[recv].tail + Arrived(rops[1]) : buf[recv].mem[i] = start[handed + 1] + i

\* The read asks for the rest of the header, or for the rest of an acceptable frame.
Wanted ==
  rops # <<>> =>
    /\ buf[recv].packlen = 0 => buf[recv].tail + rops[1].len = HeadLen
    /\ buf[recv].packlen # 0 =>
         /\ handed + 1 <= Len(sent) /\ Acceptable(sent[handed + 1])
         /\ buf[recv].packlen = PackLen(sent[handed + 1])
         /\ buf[recv].tail + rops[1].len = buf[recv].packlen

ReadInv == OpPlaced /\ Filled /\ Wanted

FrameInv == OwnerInv /\ StreamInv /\ ChainInv /\ FreshInv /\ ReadInv /\ FrameIntact

\* At the start nothing has been read.
LEMMA InitFrame == Init => FrameInv
<1> SUFFICES ASSUME Init PROVE FrameInv
  OBVIOUS
<1>1. StreamInv
  BY DEF Init, StreamInv
<1>2. ChainInv /\ ReadInv
  BY DEF Init, ChainInv, ReadInv, OpPlaced, Filled, Wanted
<1>3. FreshInv
  BY NewBufferFresh DEF Init, FreshInv
<1>4. FrameIntact
  BY DEF Init, FrameIntact
<1> QED
  BY <1>1, <1>2, <1>3, <1>4, InitOwner DEF FrameInv

\* A frame has at least one byte.
LEMMA ExtentPositive ==
  ASSUME NEW h \in Headers PROVE Extent(h) \in Nat \ {0}
<1>1. HeadLen \in Nat \ {0} /\ PackLen(h) \in Nat
  BY PackLenNat, ReceiverAssumption
<1>2. Acceptable(h) => PackLen(h) >= HeadLen + 2
  BY DEF Acceptable, CrcLen
<1> QED
  BY <1>1, <1>2 DEF Extent

\* The types of what the framing proofs talk about.
LEMMA FrameTypes ==
  ASSUME FrameInv
  PROVE  /\ sent \in Seq(Headers) /\ start \in Seq(Nat) /\ Len(start) = Len(sent) + 1
         /\ Len(sent) \in Nat /\ Len(start) \in Nat \ {0}
         /\ handed \in Nat /\ rpos \in Nat /\ chains \in Nat
         /\ rops \in Seq(Ops) /\ Len(rops) \in Nat /\ buf \in [Buffers -> MsgBuffers]
<1>1. TypeOK
  BY DEF FrameInv, OwnerInv
<1>2. sent \in Seq(Headers) /\ start \in Seq(Nat) /\ Len(start) = Len(sent) + 1
  BY <1>1 DEF TypeOK
<1>3. handed \in Nat /\ rpos \in Nat /\ chains \in Nat /\ rops \in Seq(Ops)
  BY <1>1 DEF TypeOK
<1>4. buf \in [Buffers -> MsgBuffers]
  BY <1>1 DEF TypeOK, MsgBuffers
<1>5. Len(sent) \in Nat /\ Len(start) \in Nat /\ Len(rops) \in Nat
  BY ONLY <1>2, <1>3, LenProperties
<1> QED
  BY <1>2, <1>3, <1>4, <1>5

\* The read in progress, when there is one, in full.
LEMMA ReadTypes ==
  ASSUME FrameInv, rops # <<>>
  PROVE  /\ recv \in Buffers /\ Len(rops) = 1 /\ Head(rops) = rops[1] /\ Tail(rops) = <<>>
         /\ rops[1] \in Ops /\ rops[1].len \in Nat /\ rops[1].n \in Nat /\ rops[1].off \in Nat
         /\ Arrived(rops[1]) \in Nat /\ chains = 1
         /\ buf[recv] \in MsgBuffers /\ buf[recv].tail \in Nat /\ buf[recv].packlen \in Nat
         /\ buf[recv].mem \in Seq(Nat) /\ Len(buf[recv].mem) \in Nat
<1>1. /\ recv \in Buffers /\ Head(rops) \in Ops /\ Head(rops) = rops[1] /\ Tail(rops) \in Seq(Ops)
      /\ Len(Tail(rops)) = Len(rops) - 1 /\ Head(rops).n \in Nat /\ Head(rops).len \in Nat
      /\ buf \in [Buffers -> MsgBuffers]
  BY CommittedType DEF FrameInv
<1>2. Len(rops) = 1 /\ Tail(rops) = <<>> /\ chains = 1
  <2>1. rops \in Seq(Ops) /\ Len(rops) <= 1 /\ chains <= 1 /\ chains # 0 /\ chains \in Nat
    BY FrameTypes DEF FrameInv, ChainInv
  <2>2. Len(rops) \in Nat \ {0}
    BY <2>1, EmptySeq
  <2>3. Len(rops) = 1 /\ chains = 1
    BY <2>1, <2>2
  <2>4. Len(Tail(rops)) = 0
    BY <1>1, <2>3
  <2>5. Tail(rops) = <<>>
    BY <1>1, <2>4, EmptySeq
  <2> QED
    BY <2>3, <2>5
<1>3. rops[1].off \in Nat /\ Arrived(rops[1]) \in Nat
  BY <1>1 DEF Ops, Arrived
<1>4. buf[recv] \in MsgBuffers
  BY <1>1
<1>5. /\ buf[recv].tail \in Nat /\ buf[recv].packlen \in Nat
      /\ buf[recv].mem \in Seq(Nat)
  BY <1>4 DEF MsgBuffers
<1>6. Len(buf[recv].mem) \in Nat
  BY <1>5
<1> QED
  BY <1>1, <1>2, <1>3, <1>4, <1>5, <1>6

\* Tasks keep their frames as long as nobody writes into their buffers.
LEMMA IntactKept ==
  ASSUME FrameInv, tasks' \subseteq tasks, UNCHANGED <<sent, start>>,
         \A t \in tasks : t \in tasks' => buf'[t.buf] = buf[t.buf]
  PROVE  FrameIntact'
<1> SUFFICES ASSUME NEW t \in tasks'
             PROVE  /\ t.frame \in 1 .. Len(sent) /\ Acceptable(sent[t.frame])
                    /\ Content(buf'[t.buf]) = FrameBytes(t.frame)
  BY DEF FrameIntact, FrameBytes
<1>1. t \in tasks /\ buf'[t.buf] = buf[t.buf]
  OBVIOUS
<1> QED
  BY <1>1 DEF FrameInv, FrameIntact

\* The read in progress is not concerned by steps that leave its bytes alone.
LEMMA ReadSame ==
  ASSUME FrameInv, rops' \in Seq(Ops), Len(rops') = Len(rops), UNCHANGED <<sent, start, rpos, handed, recv, chains>>,
         recv \in Buffers => buf'[recv] = buf[recv],
         rops # <<>> =>
           /\ rops'[1].buf = rops[1].buf /\ rops'[1].gen = rops[1].gen /\ rops'[1].off = rops[1].off
           /\ rops'[1].len = rops[1].len /\ Arrived(rops'[1]) = Arrived(rops[1])
  PROVE  ReadInv' /\ ChainInv'
<1>1. rops' # <<>> <=> rops # <<>>
  BY FrameTypes
<1>2. ChainInv'
  BY <1>1 DEF FrameInv, ChainInv
<1>3. CASE rops = <<>>
  BY <1>1, <1>2, <1>3 DEF ReadInv, OpPlaced, Filled, Wanted
<1>4. CASE rops # <<>>
  <2>1. recv \in Buffers /\ recv' = recv /\ buf'[recv'] = buf[recv]
    BY <1>4, ReadTypes
  <2>2. /\ rops'[1].buf = rops[1].buf /\ rops'[1].gen = rops[1].gen /\ rops'[1].off = rops[1].off
        /\ rops'[1].len = rops[1].len /\ Arrived(rops'[1]) = Arrived(rops[1])
    BY <1>4
  <2>3. sent' = sent /\ start' = start /\ rpos' = rpos /\ handed' = handed
    OBVIOUS
  <2>4. OpPlaced /\ Filled /\ Wanted
    BY DEF FrameInv, ReadInv
  <2>5. OpPlaced'
    BY <1>4, <2>1, <2>2, <2>4 DEF OpPlaced
  <2>6. Filled'
    BY <1>4, <2>1, <2>2, <2>3, <2>4 DEF Filled
  <2>7. Wanted'
    <3>1. Acceptable(sent[handed + 1])' <=> Acceptable(sent[handed + 1])
      BY <2>3 DEF Acceptable, PackLen
    <3>2. PackLen(sent[handed + 1])' = PackLen(sent[handed + 1])
      BY <2>3 DEF PackLen
    <3> QED
      BY <1>4, <2>1, <2>2, <2>3, <2>4, <3>1, <3>2 DEF Wanted
  <2> QED
    BY <1>2, <2>5, <2>6, <2>7 DEF ReadInv
<1> QED
  BY <1>3, <1>4

\* Nor by steps that close the socket.
LEMMA ReadKept ==
  ASSUME FrameInv, rops' = rops \/ rops' = Aborted(rops), UNCHANGED <<sent, start, rpos, handed, recv, chains>>,
         recv \in Buffers => buf'[recv] = buf[recv]
  PROVE  ReadInv' /\ ChainInv'
<1>1. rops \in Seq(Ops) /\ rops' \in Seq(Ops) /\ Len(rops') = Len(rops)
  BY FrameTypes, AbortedOps
<1>2. ASSUME rops # <<>>
      PROVE  /\ rops'[1].buf = rops[1].buf /\ rops'[1].gen = rops[1].gen /\ rops'[1].off = rops[1].off
             /\ rops'[1].len = rops[1].len /\ Arrived(rops'[1]) = Arrived(rops[1])
  <2>1. 1 \in 1 .. Len(rops)
    BY <1>2, ReadTypes
  <2>2. /\ rops'[1].buf = rops[1].buf /\ rops'[1].gen = rops[1].gen /\ rops'[1].off = rops[1].off
        /\ rops'[1].len = rops[1].len /\ rops'[1].n = rops[1].n
        /\ rops'[1].st = rops[1].st \/ (rops'[1].st = "failed" /\ rops[1].st = "waiting")
    BY <1>1, <2>1, AbortedOps
  <2> QED
    BY <2>2 DEF Arrived
<1> QED
  BY <1>1, <1>2, ReadSame

\* Steps that leave the buffers where they are.
LEMMA FreshKept ==
  ASSUME FrameInv, UNCHANGED <<recv, tasks>>, \A b \in Buffers : b \notin TaskBuffers \cup {recv} => buf'[b] = buf[b]
  PROVE  FreshInv'
<1>1. TaskBuffers' = TaskBuffers /\ recv' = recv
  BY DEF TaskBuffers
<1> QED
  BY <1>1 DEF FrameInv, FreshInv

\* A frame that is sent comes after all others and moves none of them.
LEMMA PeerFrame ==
  ASSUME FrameInv, (\E h \in Headers : PeerSend(h)) \/ PeerLeaves PROVE FrameInv'
<1>0. OwnerInv'
  BY PeerOwner DEF FrameInv
<1>1. UNCHANGED <<rpos, buf, recv, rops, chains, handed, tasks>>
  BY DEF PeerSend, PeerLeaves, readVars, workVars
<1>2. ChainInv' /\ FreshInv'
  BY <1>1 DEF FrameInv, ChainInv, FreshInv, TaskBuffers
<1>3. CASE PeerLeaves
  <2>1. sent' = sent /\ start' = start
    BY <1>3 DEF PeerLeaves
  <2>2. StreamInv'
    BY <2>1 DEF FrameInv, StreamInv
  <2>3. FrameIntact' /\ ReadInv'
    BY <1>1, <2>1, IntactKept, ReadKept
  <2> QED
    BY <1>0, <1>2, <2>2, <2>3 DEF FrameInv
<1>4. ASSUME NEW h \in Headers, PeerSend(h) PROVE FrameInv'
  <2> DEFINE n == Len(sent)
             e == Extent(h)
  <2>1. /\ sent \in Seq(Headers) /\ start \in Seq(Nat) /\ Len(start) = n + 1 /\ n \in Nat
        /\ handed \in Nat /\ rpos \in Nat
    BY FrameTypes
  <2>2. e \in Nat \ {0} /\ start[n + 1] \in Nat /\ start[n + 1] + e \in Nat
    BY <2>1, ExtentPositive
  <2>3. sent' = Append(sent, h) /\ start' = Append(start, start[n + 1] + e)
    BY <1>4, <2>1 DEF PeerSend
  <2> HIDE DEF n, e
  <2>4. /\ sent' \in Seq(Headers) /\ Len(sent') = n + 1 /\ sent'[n + 1] = h
        /\ \A k \in 1 .. n : sent'[k] = sent[k]
    BY <2>1, <2>3, AppendProperties DEF n
  <2>5. /\ start' \in Seq(Nat) /\ Len(start') = n + 2 /\ start'[n + 2] = start[n + 1] + e
        /\ \A k \in 1 .. n + 1 : start'[k] = start[k]
    <3>1. /\ start' \in Seq(Nat) /\ Len(start') = Len(start) + 1 /\ start'[Len(start) + 1] = start[n + 1] + e
          /\ \A k \in 1 .. Len(start) : start'[k] = start[k]
      BY <2>1, <2>2, <2>3, AppendProperties
    <3>2. Len(start) + 1 = n + 2
      BY <2>1
    <3> QED
      BY <2>1, <3>1, <3>2
  <2>6. StreamInv'
    <3>1. start'[1] = 0
      BY <2>1, <2>5 DEF FrameInv, StreamInv
    <3>2. ASSUME NEW k \in 1 .. Len(sent') PROVE start'[k + 1] = start'[k] + Extent(sent'[k])
      <4>1. CASE k \in 1 .. n
        <5>1. start[k + 1] = start[k] + Extent(sent[k])
          BY <4>1 DEF FrameInv, StreamInv, n
        <5>2. start'[k + 1] = start[k + 1] /\ start'[k] = start[k] /\ sent'[k] = sent[k]
          BY <2>1, <2>4, <2>5, <4>1
        <5> QED
          BY <5>1, <5>2
      <4>2. CASE k = n + 1
        <5>1. start'[n + 1] = start[n + 1] /\ k + 1 = n + 2
          BY <2>1, <2>5, <4>2
        <5> QED
          BY <2>4, <2>5, <4>2, <5>1 DEF e
      <4> QED
        BY <2>1, <2>4, <4>1, <4>2
    <3>3. ASSUME NEW j \in 1 .. Len(start'), NEW k \in 1 .. Len(start'), j < k PROVE start'[j] < start'[k]
      <4>1. j \in 1 .. n + 1 /\ start'[j] = start[j] /\ start[j] \in Nat
        BY <2>1, <2>5, <3>3
      <4>2. CASE k \in 1 .. n + 1
        <5>1. start[j] < start[k]
          BY <2>1, <3>3, <4>1, <4>2 DEF FrameInv, StreamInv
        <5> QED
          BY <2>5, <4>1, <4>2, <5>1
      <4>3. CASE k = n + 2
        <5>1. start[j] <= start[n + 1]
          <6>1. j = n + 1 \/ start[j] < start[n + 1]
            BY <2>1, <4>1 DEF FrameInv, StreamInv
          <6> QED
            BY <2>2, <4>1, <6>1
        <5>2. start'[k] = start[n + 1] + e
          BY <2>5, <4>3
        <5> QED
          BY <2>2, <4>1, <5>1, <5>2
      <4> QED
        BY <2>1, <2>5, <4>2, <4>3
    <3> QED
      BY <3>1, <3>2, <3>3 DEF StreamInv
  <2>7. FrameIntact'
    <3> SUFFICES ASSUME NEW t \in tasks
                 PROVE  /\ t.frame \in 1 .. Len(sent') /\ Acceptable(sent'[t.frame])
                        /\ Content(buf[t.buf]) = [i \in 1 .. start'[t.frame + 1] - start'[t.frame] |-> start'[t.frame] + i]
      BY <1>1 DEF FrameIntact, FrameBytes
    <3>1. /\ t.frame \in 1 .. n /\ Acceptable(sent[t.frame])
          /\ Content(buf[t.buf]) = [i \in 1 .. start[t.frame + 1] - start[t.frame] |-> start[t.frame] + i]
      BY DEF FrameInv, FrameIntact, FrameBytes, n
    <3>2. start'[t.frame + 1] = start[t.frame + 1] /\ start'[t.frame] = start[t.frame] /\ sent'[t.frame] = sent[t.frame]
      BY <2>1, <2>4, <2>5, <3>1
    <3>3. t.frame \in 1 .. n + 1
      BY <2>1, <3>1
    <3> QED
      BY <2>4, <3>1, <3>2, <3>3
  <2>8. ReadInv'
    <3>1. CASE rops = <<>>
      BY <1>1, <3>1 DEF ReadInv, OpPlaced, Filled, Wanted
    <3>2. CASE rops # <<>>
      <4>1. OpPlaced /\ Filled /\ Wanted
        BY DEF FrameInv, ReadInv
      <4>2. /\ handed' = handed /\ buf' = buf /\ recv' = recv /\ rops' = rops /\ rpos' = rpos
        BY <1>1
      <4>3. handed + 1 \in 1 .. n + 1 /\ start'[handed + 1] = start[handed + 1] /\ handed <= n + 1
        BY <2>1, <2>5, <3>2, <4>1 DEF Filled, n
      <4>4. rpos <= start'[Len(start')]
        <5>1. rpos <= start[n + 1] /\ start'[Len(start')] = start[n + 1] + e
          BY <2>1, <2>5, <3>2, <4>1 DEF Filled
        <5> QED
          BY <2>1, <2>2, <5>1
      <4>5. OpPlaced'
        BY <4>1, <4>2 DEF OpPlaced
      <4>6. Filled'
        BY <2>4, <3>2, <4>1, <4>2, <4>3, <4>4 DEF Filled
      <4>7. Wanted'
        <5>1. handed + 1 <= n => sent'[handed + 1] = sent[handed + 1]
          BY <2>1, <2>4
        <5>2. handed + 1 <= n => handed + 1 <= Len(sent')
          BY <2>1, <2>4
        <5> QED
          BY <3>2, <4>1, <4>2, <5>1, <5>2 DEF Wanted, n
      <4> QED
        BY <4>5, <4>6, <4>7 DEF ReadInv
    <3> QED
      BY <3>1, <3>2
  <2> QED
    BY <1>0, <1>2, <2>6, <2>7, <2>8 DEF FrameInv
<1> QED
  BY <1>3, <1>4

\* The bytes of a read go behind those that are there, in the order of the stream.
LEMMA PerformReadFrame ==
  ASSUME FrameInv, NEW i \in 1 .. Len(rops), NEW n \in 1 .. MaxLen, PerformRead(i, n) PROVE FrameInv'
<1>0. OwnerInv'
  BY ReactorOwner DEF FrameInv
<1>1. rops # <<>> /\ i = 1
  <2>1. rops \in Seq(Ops) /\ Len(rops) <= 1 /\ Len(rops) \in Nat
    BY FrameTypes DEF FrameInv, ChainInv
  <2> QED
    BY <2>1
<1> DEFINE op == rops[1]
           b == buf[recv]
           k == handed + 1
<1>2. /\ recv \in Buffers /\ Len(rops) = 1 /\ op \in Ops /\ op.len \in Nat
      /\ b \in MsgBuffers /\ b.tail \in Nat /\ b.mem \in Seq(Nat) /\ Len(b.mem) \in Nat /\ n \in Nat
  BY <1>1, ReadTypes, ReceiverAssumption
<1>3. /\ op.buf = recv /\ op.gen = b.gen /\ op.off = b.tail /\ op.off + op.len <= Len(b.mem)
      /\ handed <= Len(sent) /\ rpos = start[k] + b.tail + Arrived(op)
      /\ \A j \in 1 .. b.tail + Arrived(op) : b.mem[j] = start[k] + j
  BY <1>1 DEF FrameInv, ReadInv, OpPlaced, Filled
<1>4. /\ op.st = "waiting" /\ n <= op.len /\ rpos + n <= start[Len(start)] /\ rpos' = rpos + n
      /\ UNCHANGED <<sent, start, recv, handed, chains, tasks>>
  BY <1>1 DEF PerformRead, OldestWaiting, peerVars, workVars
<1>5. /\ rops' \in Seq(Ops) /\ Len(rops') = 1 /\ rops'[1] = [op EXCEPT !.st = "done", !.n = n]
      /\ \A c \in Buffers :
           /\ buf'[c].tail = buf[c].tail /\ buf'[c].packlen = buf[c].packlen
           /\ buf'[c].gen = buf[c].gen /\ Len(buf'[c].mem) = Len(buf[c].mem)
      /\ \A c \in Buffers : c # op.buf => buf'[c] = buf[c]
      /\ op.gen = buf[op.buf].gen =>
              \A j \in 1 .. Len(buf[op.buf].mem) :
                buf'[op.buf].mem[j] =
                  IF j \in op.off + 1 .. op.off + n THEN rpos + (j - op.off) ELSE buf[op.buf].mem[j]
  BY <1>1, <1>2, PerformReadStep DEF FrameInv
<1>6. \A j \in 1 .. Len(b.mem) : buf'[recv].mem[j] = IF j \in b.tail + 1 .. b.tail + n THEN rpos + (j - b.tail) ELSE b.mem[j]
  BY <1>3, <1>5
<1>7. /\ rops'[1].buf = op.buf /\ rops'[1].gen = op.gen /\ rops'[1].off = op.off /\ rops'[1].len = op.len
      /\ Arrived(rops'[1]) = n /\ Arrived(op) = 0
  BY <1>2, <1>4, <1>5 DEF Ops, Arrived
<1>8. /\ recv' = recv /\ buf'[recv].tail = b.tail /\ buf'[recv].packlen = b.packlen
      /\ buf'[recv].gen = b.gen /\ Len(buf'[recv].mem) = Len(b.mem) /\ rops' # <<>>
  <2>1. rops' # <<>>
    <3>1. Len(rops') = 1
      BY <1>5
    <3> QED
      BY <3>1
  <2>2. /\ buf'[recv].tail = buf[recv].tail /\ buf'[recv].packlen = buf[recv].packlen
        /\ buf'[recv].gen = buf[recv].gen /\ Len(buf'[recv].mem) = Len(buf[recv].mem)
    BY <1>2, <1>5
  <2> QED
    BY <1>4, <2>1, <2>2
<1> HIDE DEF op, b, k
<1>9. OpPlaced'
  <2>1. /\ rops'[1].buf = recv' /\ rops'[1].gen = buf'[recv'].gen /\ rops'[1].off = buf'[recv'].tail
        /\ rops'[1].off + rops'[1].len <= Len(buf'[recv'].mem) /\ Arrived(rops'[1]) <= rops'[1].len
    BY <1>3, <1>4, <1>7, <1>8
  <2> QED
    BY <2>1 DEF OpPlaced
<1>10. Filled'
  <2>1. start[k] \in Nat
    <3>1. k \in 1 .. Len(start) /\ start \in Seq(Nat)
      <4>1. handed <= Len(sent)
        BY <1>3
      <4>2. handed \in Nat /\ Len(sent) \in Nat /\ Len(start) = Len(sent) + 1 /\ start \in Seq(Nat)
        BY FrameTypes
      <4> QED
        BY <4>1, <4>2 DEF k
    <3> QED
      BY <3>1
  <2>2. rpos = start[k] + b.tail /\ b.tail + n <= Len(b.mem)
    <3>1. rpos = start[k] + b.tail + Arrived(op) /\ Arrived(op) = 0
      BY <1>3, <1>7
    <3>2. b.tail + op.len <= Len(b.mem) /\ n <= op.len
      BY <1>3, <1>4
    <3> QED
      BY <1>2, <2>1, <3>1, <3>2
  <2>3. ASSUME NEW j \in 1 .. b.tail + n PROVE buf'[recv].mem[j] = start[k] + j
    <3>1. j \in 1 .. Len(b.mem)
      BY <1>2, <2>2
    <3>2. CASE j \in 1 .. b.tail
      <4>1. buf'[recv].mem[j] = b.mem[j]
        BY <1>2, <1>6, <3>1, <3>2
      <4> QED
        BY <1>2, <1>3, <1>7, <3>2, <4>1
    <3>3. CASE j \in b.tail + 1 .. b.tail + n
      <4>1. buf'[recv].mem[j] = rpos + (j - b.tail)
        BY <1>6, <3>1, <3>3
      <4>2. rpos + (j - b.tail) = start[k] + j
        BY <1>2, <2>1, <2>2
      <4> QED
        BY <4>1, <4>2
    <3> QED
      BY <1>2, <3>2, <3>3
  <2>4. rpos' = start[k] + b.tail + n /\ rpos' <= start[Len(start)]
    BY <1>4, <2>2
  <2>5. handed' = handed /\ sent' = sent /\ start' = start
    BY <1>4
  <2> QED
    BY <1>3, <1>7, <1>8, <2>3, <2>4, <2>5 DEF Filled, k
<1>11. Wanted'
  <2>1. Wanted
    BY DEF FrameInv, ReadInv
  <2>2. handed' = handed /\ sent' = sent
    BY <1>4
  <2> QED
    BY <1>1, <1>7, <1>8, <2>1, <2>2 DEF Wanted, b, op
<1>12. \A t \in tasks : t.buf \in Buffers /\ t.buf # recv
  BY DEF FrameInv, OwnerInv, TypeOK, OneOwner, TaskBuffers
<1>13. FrameIntact'
  BY <1>3, <1>4, <1>5, <1>12, IntactKept
<1>14. FreshInv'
  <2>1. TaskBuffers' = TaskBuffers /\ recv' = recv
    BY <1>4 DEF TaskBuffers
  <2> QED
    BY <1>3, <1>5, <2>1 DEF FrameInv, FreshInv
<1>15. ChainInv'
  BY <1>1, <1>4, <1>5, ReadTypes DEF FrameInv, ChainInv
<1>16. StreamInv'
  BY <1>4 DEF FrameInv, StreamInv
<1> QED
  BY <1>0, <1>9, <1>10, <1>11, <1>13, <1>14, <1>15, <1>16 DEF FrameInv, ReadInv

\* A read that fails has brought nothing.
LEMMA PerformErrorFrame ==
  ASSUME FrameInv, NEW i \in 1 .. Len(rops), PerformEof(i) \/ PerformAgain(i) PROVE FrameInv'
<1>0. OwnerInv'
  BY ReactorOwner DEF FrameInv
<1>1. rops # <<>> /\ i = 1 /\ rops \in Seq(Ops) /\ rops[1] \in Ops
  <2>1. rops \in Seq(Ops) /\ Len(rops) <= 1 /\ Len(rops) \in Nat
    BY FrameTypes DEF FrameInv, ChainInv
  <2> QED
    BY <2>1
<1>2. /\ rops[1].st = "waiting" /\ UNCHANGED <<sent, start, rpos, handed, recv, chains, tasks, buf>>
  BY <1>1 DEF PerformEof, PerformAgain, OldestWaiting, peerVars, workVars
<1>3. PICK st \in {"failed", "again"} : rops' = [rops EXCEPT ![1].st = st]
  BY <1>1 DEF PerformEof, PerformAgain
<1> DEFINE e == [rops[1] EXCEPT !.st = st]
<1>4. /\ e \in Ops /\ e.buf = rops[1].buf /\ e.gen = rops[1].gen /\ e.off = rops[1].off
      /\ e.len = rops[1].len /\ e.st # "done"
  BY <1>1 DEF Ops
<1>5. rops' = [rops EXCEPT ![1] = e]
  BY <1>3
<1> HIDE DEF e
<1>6. rops' \in Seq(Ops) /\ Len(rops') = Len(rops) /\ rops'[1] = e
  BY <1>1, <1>4, <1>5, ExceptSeq
<1>7. Arrived(rops'[1]) = Arrived(rops[1])
  BY <1>2, <1>4, <1>6 DEF Arrived
<1>8. ReadInv' /\ ChainInv'
  BY <1>2, <1>4, <1>6, <1>7, ReadSame
<1>9. FrameIntact' /\ FreshInv'
  BY <1>2, IntactKept, FreshKept
<1>10. StreamInv'
  BY <1>2 DEF FrameInv, StreamInv
<1> QED
  BY <1>0, <1>8, <1>9, <1>10 DEF FrameInv

\* The business threads and the writes touch neither the receive buffer nor each other's buffers.
LEMMA WorkFrame ==
  ASSUME FrameInv, OwnerInv', UNCHANGED <<sent, start, rpos, handed, recv, chains>>,
         rops' = rops \/ rops' = Aborted(rops), tasks' \subseteq tasks,
         NEW b \in Buffers, b # recv, \A t \in tasks' : t.buf # b,
         buf' = buf \/ (Fresh(buf'[b]) /\ \A c \in Buffers \ {b} : buf'[c] = buf[c]),
         \A t \in tasks \ tasks' : t.buf = b /\ Fresh(buf'[b])
  PROVE  FrameInv'
<1>1. recv \in Buffers => buf'[recv] = buf[recv]
  OBVIOUS
<1>2. ReadInv' /\ ChainInv'
  BY <1>1, ReadKept
<1>3. \A t \in tasks : t.buf \in Buffers
  BY DEF FrameInv, OwnerInv, TypeOK
<1>4. FrameIntact'
  BY <1>3, IntactKept
<1>5. FreshInv'
  <2> SUFFICES ASSUME NEW c \in Buffers, c \notin TaskBuffers', c # recv' PROVE Fresh(buf'[c])
    BY DEF FreshInv, Fresh
  <2>1. c # recv
    OBVIOUS
  <2>2. CASE c \notin TaskBuffers
    <3>1. Fresh(buf[c])
      BY <2>1, <2>2 DEF FrameInv, FreshInv
    <3> QED
      BY <3>1
  <2>3. CASE c \in TaskBuffers
    <3>1. PICK t \in tasks : t.buf = c
      BY <2>3 DEF TaskBuffers
    <3>2. t \notin tasks'
      BY <3>1 DEF TaskBuffers
    <3> QED
      BY <3>1, <3>2
  <2> QED
    BY <2>2, <2>3
<1>6. StreamInv'
  BY DEF FrameInv, StreamInv
<1> QED
  BY <1>2, <1>4, <1>5, <1>6 DEF FrameInv

\* A business thread that is done has touched its own buffer only.
LEMMA BusinessFrame ==
  ASSUME FrameInv, NEW t \in tasks, (\E body \in Bodies : Parse(t, body)) \/ ParseBadCrc(t)
  PROVE  FrameInv'
<1>0. OwnerInv /\ OwnerInv'
  BY BusinessOwner DEF FrameInv
<1>1. /\ t.buf \in Buffers /\ t.buf \notin FreeSet \cup {recv} /\ buf[t.buf] \in MsgBuffers
      /\ \A u \in tasks \ {t} : u.buf # t.buf
  <2>1. t.buf \in TaskBuffers /\ t.buf \in Buffers
    BY <1>0 DEF TaskBuffers, OwnerInv, TypeOK
  <2>2. \A u \in tasks \ {t} : u.buf # t.buf
    BY <1>0 DEF OwnerInv, OneOwner
  <2> QED
    BY <1>0, <2>1, <2>2, FrameTypes DEF OwnerInv, OneOwner
<1>2. tasks' = tasks \ {t} /\ UNCHANGED <<sent, start, rpos, handed, recv, chains, rops>>
  BY DEF Parse, ParseBadCrc, peerVars, readVars
<1>3. Fresh(buf'[t.buf]) /\ \A c \in Buffers \ {t.buf} : buf'[c] = buf[c]
  <2>1. CASE \E body \in Bodies : Parse(t, body)
    <3>1. Recycle(t.buf)
      BY <2>1 DEF Parse
    <3> QED
      BY <1>0, <1>1, <3>1, RecycleGives
  <2>2. CASE ParseBadCrc(t)
    <3>1. buf[t.buf].gen + 1 \in Nat
      BY <1>1 DEF MsgBuffers
    <3>2. Fresh(NewBuffer(buf[t.buf].gen + 1))
      BY <3>1, NewBufferFresh
    <3>3. buf' = [buf EXCEPT ![t.buf] = NewBuffer(buf[t.buf].gen + 1)] /\ buf \in [Buffers -> MsgBuffers]
      BY <2>2, FrameTypes DEF ParseBadCrc
    <3> QED
      BY <1>1, <3>2, <3>3
  <2> QED
    BY <2>1, <2>2
<1>4. /\ tasks' \subseteq tasks /\ t.buf # recv /\ \A u \in tasks' : u.buf # t.buf
      /\ \A u \in tasks \ tasks' : u.buf = t.buf /\ Fresh(buf'[t.buf])
  BY <1>1, <1>2, <1>3
<1> QED
  BY <1>0, <1>1, <1>2, <1>3, <1>4, WorkFrame

\* An answer takes a buffer that nobody reads into or works on.
LEMMA AnswerFrame ==
  ASSUME FrameInv, NEW valid \in BOOLEAN, NEW b \in Buffers, Answer(valid, b) PROVE FrameInv'
<1>0. OwnerInv /\ OwnerInv'
  BY AnswerOwner DEF FrameInv
<1>1. b \notin TaskBuffers \cup OutBuffers \cup {recv}
  BY <1>0, PoolGetTakes DEF Answer
<1>2. UNCHANGED <<sent, start, rpos, handed, recv, chains, rops, tasks, buf>>
  BY DEF Answer, peerVars, readVars
<1>3. \A u \in tasks' : u.buf # b
  BY <1>1, <1>2 DEF TaskBuffers
<1> QED
  BY <1>0, <1>1, <1>2, <1>3, WorkFrame

\* A write that ends has touched its own buffer only.
LEMMA WriterFrame ==
  ASSUME FrameInv, NEW o \in out, WriteRefused(o) \/ WriteDone(o) \/ WriteFailed(o)
  PROVE  FrameInv'
<1>0. OwnerInv /\ OwnerInv'
  BY WriterOwner DEF FrameInv
<1>1. /\ o.buf \in Buffers /\ o.buf \notin FreeSet \cup TaskBuffers \cup {recv} /\ buf[o.buf] \in MsgBuffers
  <2>1. o.buf \in OutBuffers /\ o.buf \in Buffers
    BY <1>0 DEF OutBuffers, OwnerInv, TypeOK
  <2> QED
    BY <1>0, <2>1, FrameTypes DEF OwnerInv, OneOwner
<1>2. /\ UNCHANGED <<sent, start, rpos, handed, recv, chains, tasks>>
      /\ rops' = rops \/ rops' = Aborted(rops)
  BY DEF WriteRefused, WriteDone, WriteFailed, peerVars, readVars
<1>3. Fresh(buf'[o.buf]) /\ \A c \in Buffers \ {o.buf} : buf'[c] = buf[c]
  <2>1. CASE WriteRefused(o) \/ WriteDone(o)
    <3>1. Recycle(o.buf)
      BY <2>1 DEF WriteRefused, WriteDone
    <3> QED
      BY <1>0, <1>1, <3>1, RecycleGives
  <2>2. CASE WriteFailed(o)
    <3>1. buf[o.buf].gen + 1 \in Nat
      BY <1>1 DEF MsgBuffers
    <3>2. Fresh(NewBuffer(buf[o.buf].gen + 1))
      BY <3>1, NewBufferFresh
    <3>3. buf' = [buf EXCEPT ![o.buf] = NewBuffer(buf[o.buf].gen + 1)] /\ buf \in [Buffers -> MsgBuffers]
      BY <2>2, FrameTypes DEF WriteFailed
    <3> QED
      BY <1>1, <3>2, <3>3
  <2> QED
    BY <2>1, <2>2
<1>4. \A u \in tasks' : u.buf # o.buf
  BY <1>1, <1>2 DEF TaskBuffers
<1> QED
  BY <1>0, <1>1, <1>2, <1>3, <1>4, WorkFrame

\* A new read, placed right behind what the buffer holds.
LEMMA ReadOn ==
  ASSUME NEW bb \in MsgBuffers, NEW n \in Nat, Len(rops') = 1, rops'[1] = ReadOp(recv', bb, n), buf'[recv'] = bb,
         bb.tail + n <= Len(bb.mem), handed' <= Len(sent'), rpos' <= start'[Len(start')],
         start'[handed' + 1] \in Nat, rpos' = start'[handed' + 1] + bb.tail,
         \A i \in 1 .. bb.tail : bb.mem[i] = start'[handed' + 1] + i,
         bb.packlen = 0 => bb.tail + n = HeadLen,
         bb.packlen # 0 => /\ handed' + 1 <= Len(sent') /\ Acceptable(sent'[handed' + 1])
                           /\ bb.packlen = PackLen(sent'[handed' + 1])
                           /\ bb.tail + n = bb.packlen
  PROVE  ReadInv'
<1>1. /\ rops'[1].buf = recv' /\ rops'[1].off = bb.tail /\ rops'[1].len = n /\ rops'[1].gen = bb.gen
      /\ Arrived(rops'[1]) = 0
  BY DEF ReadOp, Arrived
<1>2. bb.tail \in Nat
  BY DEF MsgBuffers
<1>3. OpPlaced'
  BY <1>1, <1>2 DEF OpPlaced
<1>4. Filled'
  <2>1. bb.tail + Arrived(rops'[1]) = bb.tail
    BY <1>1, <1>2
  <2>2. rpos' = start'[handed' + 1] + bb.tail + Arrived(rops'[1])
    BY <1>1, <1>2
  <2> QED
    BY <2>1, <2>2 DEF Filled
<1>5. Wanted'
  BY <1>1 DEF Wanted
<1> QED
  BY <1>3, <1>4, <1>5 DEF ReadInv

\* A buffer that is neither read into nor worked on, made ready for a header.
LEMMA FreshForHead ==
  ASSUME FrameInv, NEW b \in Buffers, b \notin TaskBuffers \cup {recv}
  PROVE  LET bb == Adjust(buf[b], HeadLen) IN
         /\ bb \in MsgBuffers /\ bb.tail = 0 /\ bb.packlen = 0 /\ 0 + HeadLen <= Len(bb.mem)
<1>1. buf[b] \in MsgBuffers /\ Fresh(buf[b]) /\ HeadLen \in Nat /\ DefaultSize \in Nat
  BY FrameTypes, ReceiverAssumption DEF FrameInv, FreshInv
<1>2. buf[b].tail = 0 /\ buf[b].packlen = 0 /\ buf[b].tail <= Len(buf[b].mem)
  BY <1>1 DEF Fresh
<1>3. /\ Adjust(buf[b], HeadLen) \in MsgBuffers
      /\ Adjust(buf[b], HeadLen).tail = buf[b].tail /\ Adjust(buf[b], HeadLen).packlen = buf[b].packlen
      /\ buf[b].tail + HeadLen <= Len(Adjust(buf[b], HeadLen).mem)
  BY <1>1, <1>2, AdjustRoom
<1> QED
  BY <1>2, <1>3

\* The first read of a connection starts at the first byte of the stream.
LEMMA StartReadFrame ==
  ASSUME MaxChains = 1, FrameInv, StartRead PROVE FrameInv'
<1>0. OwnerInv /\ OwnerInv'
  BY StartReadOwner DEF FrameInv
<1>1. /\ chains = 0 /\ rops = <<>> /\ recv = NoBuffer /\ rpos = 0 /\ handed = 0 /\ chains' = 1
  <2>1. chains = 0 /\ chains' = 1
    BY FrameTypes DEF StartRead, FrameInv, ChainInv
  <2> QED
    BY <2>1 DEF FrameInv, ChainInv
<1>2. recv' \in Buffers /\ PoolGet(recv')
  BY <1>1 DEF StartRead
<1>3. recv' \notin TaskBuffers \cup OutBuffers \cup {recv}
  BY <1>0, <1>2, PoolGetTakes
<1> DEFINE bb == Adjust(buf[recv'], HeadLen)
<1>4. /\ bb \in MsgBuffers /\ bb.tail = 0 /\ bb.packlen = 0 /\ 0 + HeadLen <= Len(bb.mem)
  BY <1>2, <1>3, FreshForHead
<1>5. /\ buf' = [buf EXCEPT ![recv'] = bb] /\ rops' = Append(<<>>, ReadOp(recv', bb, HeadLen))
      /\ UNCHANGED <<sent, start, rpos, handed, tasks>>
  BY <1>1 DEF StartRead, peerVars, workVars
<1> HIDE DEF bb
<1>6. Len(rops') = 1 /\ rops'[1] = ReadOp(recv', bb, HeadLen)
  BY <1>5
<1>7. buf'[recv'] = bb /\ \A c \in Buffers \ {recv'} : buf'[c] = buf[c]
  BY <1>2, <1>5, FrameTypes
<1>8. ReadInv'
  <2>1. /\ sent' = sent /\ start' = start /\ rpos' = 0 /\ handed' = 0
    BY <1>1, <1>5
  <2>2. start[1] = 0 /\ start[Len(start)] \in Nat /\ Len(sent) \in Nat /\ handed' + 1 = 1 /\ HeadLen \in Nat
    <3>1. start \in Seq(Nat) /\ Len(start) \in 1 .. Len(start) /\ Len(sent) \in Nat
      BY FrameTypes
    <3>2. start[Len(start)] \in Nat
      BY <3>1
    <3> QED
      BY <2>1, <3>1, <3>2, ReceiverAssumption DEF FrameInv, StreamInv
  <2>3. /\ handed' <= Len(sent') /\ rpos' <= start'[Len(start')]
        /\ start'[handed' + 1] \in Nat /\ rpos' = start'[handed' + 1] + bb.tail
    <3>1. start'[handed' + 1] = 0 /\ start'[Len(start')] = start[Len(start)] /\ Len(sent') = Len(sent)
      BY <2>1, <2>2
    <3> QED
      BY <1>4, <2>1, <2>2, <3>1
  <2>4. \A i \in 1 .. bb.tail : bb.mem[i] = start'[handed' + 1] + i
    BY <1>4
  <2>5. bb.tail + HeadLen = HeadLen /\ bb.tail + HeadLen <= Len(bb.mem)
    BY <1>4, <2>2
  <2> QED
    BY <1>4, <1>6, <1>7, <2>2, <2>3, <2>4, <2>5, ReadOn
<1>9. FrameIntact'
  <2>1. \A t \in tasks : t.buf \in Buffers /\ t.buf # recv'
    BY <1>0, <1>3 DEF OwnerInv, TypeOK, TaskBuffers
  <2> QED
    BY <1>5, <1>7, <2>1, IntactKept
<1>10. FreshInv'
  <2>1. TaskBuffers' = TaskBuffers
    BY <1>5 DEF TaskBuffers
  <2>2. recv \notin Buffers
    BY <1>1, ReceiverAssumption
  <2> QED
    BY <1>7, <2>1, <2>2 DEF FrameInv, FreshInv
<1>11. ChainInv' /\ StreamInv'
  BY <1>1, <1>5, <1>6 DEF FrameInv, StreamInv, ChainInv
<1> QED
  BY <1>0, <1>8, <1>9, <1>10, <1>11 DEF FrameInv

\* When all but the receive buffer stay as they are, what remains is the read itself.
LEMMA ReadFrame ==
  ASSUME FrameInv, OwnerInv', ReadInv', rops # <<>>, Len(rops') <= 1,
         UNCHANGED <<sent, start, rpos, handed, recv, chains, tasks>>,
         \A c \in Buffers \ {recv} : buf'[c] = buf[c]
  PROVE  FrameInv'
<1>1. \A t \in tasks : t.buf \in Buffers /\ t.buf # recv
  BY DEF FrameInv, OwnerInv, TypeOK, OneOwner, TaskBuffers
<1>2. FrameIntact'
  BY <1>1, IntactKept
<1>3. FreshInv'
  BY FreshKept
<1>4. ChainInv'
  BY ReadTypes DEF FrameInv, ChainInv
<1>5. StreamInv'
  BY DEF FrameInv, StreamInv
<1> QED
  BY <1>2, <1>3, <1>4, <1>5 DEF FrameInv

\* After an error, or a frame that is refused, there is no read.
LEMMA HandleStopFrame ==
  ASSUME FrameInv, HandleError \/ \E h \in Headers : HandleIncorrect(h) PROVE FrameInv'
<1>0. OwnerInv'
  BY HandleOwner DEF FrameInv
<1>1. rops # <<>> /\ UNCHANGED <<sent, start, rpos, handed, recv, chains, tasks>> /\ rops' = Aborted(Tail(rops))
  BY DEF HandleError, HandleIncorrect, peerVars, workVars
<1>2. rops' = <<>> /\ Len(rops') <= 1
  <2>1. Tail(rops) = <<>>
    BY <1>1, ReadTypes
  <2>2. <<>> \in Seq(Ops) /\ rops' = Aborted(<<>>)
    <3>1. <<>> \in Seq(Ops)
      BY EmptySeq
    <3> QED
      BY <1>1, <2>1, <3>1
  <2>3. rops' \in Seq(Ops) /\ Len(rops') = 0
    <3>1. Aborted(<<>>) \in Seq(Ops) /\ Len(Aborted(<<>>)) = Len(<<>>)
      BY <2>2, AbortedOps
    <3> QED
      BY <2>2, <3>1
  <2> QED
    BY <2>3, EmptySeq
<1>3. ReadInv'
  BY <1>2 DEF ReadInv, OpPlaced, Filled, Wanted
<1>4. \A c \in Buffers \ {recv} : buf'[c] = buf[c]
  BY FrameTypes DEF HandleError, HandleIncorrect
<1> QED
  BY <1>0, <1>1, <1>2, <1>3, <1>4, ReadFrame

\* The read that has ended, and the next frame of the stream.
LEMMA DoneRead ==
  ASSUME FrameInv, rops # <<>>, Head(rops).st = "done"
  PROVE  /\ Committed \in MsgBuffers /\ Committed.tail \in Nat /\ Committed.packlen \in Nat
         /\ Committed.mem \in Seq(Nat) /\ Len(Committed.mem) \in Nat /\ Committed.tail <= Len(Committed.mem)
         /\ Committed.packlen = buf[recv].packlen
         /\ handed \in Nat /\ handed <= Len(sent) /\ start[handed + 1] \in Nat /\ start[Len(start)] \in Nat
         /\ rpos = start[handed + 1] + Committed.tail /\ rpos <= start[Len(start)]
         /\ \A i \in 1 .. Committed.tail : Committed.mem[i] = start[handed + 1] + i
         /\ Committed.packlen = 0 => Committed.tail <= HeadLen
         /\ Committed.packlen # 0 =>
              /\ handed + 1 <= Len(sent) /\ Acceptable(sent[handed + 1])
              /\ Committed.packlen = PackLen(sent[handed + 1]) /\ Committed.tail <= Committed.packlen
<1> DEFINE op == rops[1]
           b == buf[recv]
           c == Committed
<1>1. /\ op = Head(rops) /\ op.len \in Nat /\ op.n \in Nat /\ op.off \in Nat /\ Arrived(op) = op.n
      /\ b.tail \in Nat /\ b.packlen \in Nat /\ b.mem \in Seq(Nat) /\ Len(b.mem) \in Nat
  BY ReadTypes DEF Arrived
<1>2. /\ c \in MsgBuffers /\ c.mem = b.mem /\ c.tail = b.tail + op.n /\ c.packlen = b.packlen
  BY <1>1, CommittedType DEF FrameInv
<1>3. OpPlaced /\ Filled /\ Wanted
  BY DEF FrameInv, ReadInv
<1>4. /\ handed \in Nat /\ handed <= Len(sent) /\ start[handed + 1] \in Nat /\ start[Len(start)] \in Nat
  <2>1. /\ handed \in Nat /\ handed <= Len(sent) /\ Len(sent) \in Nat /\ start \in Seq(Nat) /\ Len(start) = Len(sent) + 1
    BY <1>3, FrameTypes DEF Filled
  <2>2. handed + 1 \in 1 .. Len(start) /\ Len(start) \in 1 .. Len(start)
    BY <2>1
  <2> QED
    BY <2>1, <2>2
<1> HIDE DEF op, b, c
<1>5. op.n <= op.len /\ op.off = b.tail /\ op.off + op.len <= Len(b.mem)
  BY <1>1, <1>3 DEF OpPlaced, op, b
<1>6. /\ rpos <= start[Len(start)] /\ rpos = start[handed + 1] + b.tail + op.n
      /\ \A i \in 1 .. b.tail + op.n : b.mem[i] = start[handed + 1] + i
  BY <1>1, <1>3 DEF Filled, op, b
<1>7. /\ b.packlen = 0 => b.tail + op.len = HeadLen
      /\ b.packlen # 0 => /\ handed + 1 <= Len(sent) /\ Acceptable(sent[handed + 1])
                          /\ b.packlen = PackLen(sent[handed + 1]) /\ b.tail + op.len = b.packlen
  BY <1>3 DEF Wanted, op, b
<1>8. c.tail \in Nat /\ c.tail <= Len(b.mem) /\ rpos = start[handed + 1] + c.tail
  <2>1. c.tail = b.tail + op.n /\ b.tail \in Nat /\ op.n \in Nat
    BY <1>1, <1>2
  <2>2. c.tail <= Len(b.mem)
    BY <1>1, <1>5, <2>1
  <2>3. start[handed + 1] \in Nat /\ rpos = start[handed + 1] + b.tail + op.n
    BY <1>4, <1>6
  <2> QED
    BY <2>1, <2>2, <2>3
<1>9. c.packlen = 0 => c.tail <= HeadLen
  BY <1>1, <1>2, <1>5, <1>7
<1>10. c.packlen # 0 => /\ handed + 1 <= Len(sent) /\ Acceptable(sent[handed + 1])
                        /\ c.packlen = PackLen(sent[handed + 1]) /\ c.tail <= c.packlen
  BY <1>1, <1>2, <1>5, <1>7
<1>11. \A i \in 1 .. c.tail : c.mem[i] = start[handed + 1] + i
  BY <1>2, <1>6
<1> QED
  BY <1>1, <1>2, <1>4, <1>6, <1>8, <1>9, <1>10, <1>11 DEF c, b

\* PackageCheck reads the header of the next frame, no other.
LEMMA HeaderRead ==
  ASSUME FrameInv, rops # <<>>, Head(rops).st = "done", NEW h \in HeadersIn(Committed), Committed.tail >= HeadLen
  PROVE  handed + 1 <= Len(sent) /\ h = sent[handed + 1]
<1> DEFINE k == handed + 1
           mem == Committed.mem
           Starts == {j \in 1 .. Len(sent) : \A i \in 1 .. HeadLen : mem[i] = start[j] + i}
<1>1. /\ Committed.tail \in Nat /\ handed \in Nat /\ handed <= Len(sent) /\ start[k] \in Nat
      /\ start[Len(start)] \in Nat /\ rpos = start[k] + Committed.tail /\ rpos <= start[Len(start)]
      /\ \A i \in 1 .. Committed.tail : mem[i] = start[k] + i
  BY DoneRead
<1>2. HeadLen \in Nat \ {0} /\ Len(sent) \in Nat /\ Len(start) = Len(sent) + 1 /\ start \in Seq(Nat)
  BY FrameTypes, ReceiverAssumption
<1>3. k \in 1 .. Len(sent)
  <2>1. start[k] < start[Len(start)]
    BY <1>1, <1>2
  <2>2. k # Len(start)
    BY <1>1, <2>1
  <2>3. handed \in Nat /\ handed <= Len(sent)
    BY <1>1
  <2>4. handed # Len(sent)
    BY <1>2, <2>2, <2>3
  <2> QED
    BY <1>2, <2>3, <2>4
<1>4. \A i \in 1 .. HeadLen : mem[i] = start[k] + i
  BY <1>1, <1>2
<1>5. ASSUME NEW j \in Starts PROVE j = k
  <2>1. j \in 1 .. Len(sent) /\ mem[1] = start[j] + 1 /\ mem[1] = start[k] + 1
    BY <1>2, <1>4
  <2>2. j \in 1 .. Len(start) /\ k \in 1 .. Len(start) /\ start[j] \in Nat
    BY <1>2, <1>3, <2>1
  <2>3. start[j] = start[k]
    BY <1>1, <2>1, <2>2
  <2>4. ~(start[j] < start[k]) /\ ~(start[k] < start[j])
    BY <1>1, <2>3
  <2>5. ~(j < k) /\ ~(k < j)
    BY <2>2, <2>4 DEF FrameInv, StreamInv
  <2> QED
    BY <1>2, <1>3, <2>1, <2>5
<1>6. Starts = {k}
  BY <1>3, <1>4, <1>5
<1>7. HeadersIn(Committed) = {sent[j] : j \in Starts}
  BY <1>6 DEF HeadersIn
<1> HIDE DEF Starts
<1>8. h = sent[k]
  BY <1>6, <1>7
<1> QED
  BY <1>2, <1>3, <1>8

\* A length that PackageCheck goes on with is that of the next frame, which is acceptable.
LEMMA LengthRead ==
  ASSUME FrameInv, rops # <<>>, Head(rops).st = "done", NEW h \in Headers, h \in HeadersIn(Committed),
         Check(Committed, h) \in {"NEED_BODY", "WHOLE"}
  PROVE  /\ handed + 1 <= Len(sent) /\ Acceptable(sent[handed + 1])
         /\ WithPackLen(Committed, h).packlen = PackLen(sent[handed + 1])
         /\ PackLen(sent[handed + 1]) \in Nat /\ PackLen(sent[handed + 1]) >= HeadLen + 2
         /\ Committed.packlen # 0 \/ (Committed.tail = HeadLen /\ Check(Committed, h) = "NEED_BODY")
<1> DEFINE c == Committed
           w == WithPackLen(Committed, h)
<1>1. /\ c \in MsgBuffers /\ c.tail \in Nat /\ c.packlen \in Nat /\ handed \in Nat
      /\ c.packlen = 0 => c.tail <= HeadLen
      /\ c.packlen # 0 => /\ handed + 1 <= Len(sent) /\ Acceptable(sent[handed + 1])
                          /\ c.packlen = PackLen(sent[handed + 1])
  BY DoneRead
<1>2. w.packlen = IF c.packlen = 0 /\ c.tail >= HeadLen /\ h.magic THEN PackLen(h) ELSE c.packlen
  BY <1>1, WithPackLenKeeps
<1>3. /\ ~(c.packlen = 0 /\ c.tail < HeadLen) /\ ~(c.packlen = 0 /\ ~h.magic) /\ LengthOK(w.packlen)
      /\ Check(c, h) = IF c.tail < w.packlen THEN "NEED_BODY" ELSE "WHOLE"
  BY DEF Check
<1>4. HeadLen \in Nat \ {0} /\ Len(sent) \in Nat /\ sent \in Seq(Headers)
  BY ReceiverAssumption, FrameTypes
<1>5. ASSUME handed + 1 <= Len(sent), Acceptable(sent[handed + 1])
      PROVE  PackLen(sent[handed + 1]) \in Nat /\ PackLen(sent[handed + 1]) >= HeadLen + 2
  <2>1. sent[handed + 1] \in Headers
    <3>1. handed + 1 \in 1 .. Len(sent)
      BY <1>1, <1>4, <1>5
    <3> QED
      BY <1>4, <3>1
  <2> QED
    BY <1>5, <2>1, PackLenNat DEF Acceptable, CrcLen
<1>6. CASE c.packlen # 0
  BY <1>1, <1>2, <1>5, <1>6
<1>7. CASE c.packlen = 0
  <2>1. c.tail >= HeadLen /\ h.magic /\ c.tail = HeadLen
    BY <1>1, <1>3, <1>4, <1>7
  <2>2. handed + 1 <= Len(sent) /\ h = sent[handed + 1]
    BY <2>1, HeaderRead
  <2>3. w.packlen = PackLen(h)
    BY <1>2, <1>7, <2>1
  <2>4. Acceptable(sent[handed + 1])
    BY <1>3, <2>1, <2>2, <2>3 DEF Acceptable, LengthOK
  <2>5. c.tail < w.packlen
    BY <1>4, <1>5, <2>1, <2>2, <2>3, <2>4
  <2> QED
    BY <1>3, <1>5, <2>1, <2>2, <2>3, <2>4, <2>5
<1> QED
  BY <1>6, <1>7

\* What the next read of the same frame needs, whichever handler starts it.
LEMMA ReadAgain ==
  ASSUME FrameInv, OwnerInv', rops # <<>>, UNCHANGED <<sent, start, rpos, handed, recv, chains, tasks>>,
         NEW w \in MsgBuffers, NEW n \in Nat, NEW bb, bb = Adjust(w, n),
         buf' = [buf EXCEPT ![recv] = bb], rops' = Append(Tail(rops), ReadOp(recv, bb, n)),
         w.tail <= Len(w.mem), handed <= Len(sent), start[handed + 1] \in Nat,
         rpos <= start[Len(start)], rpos = start[handed + 1] + w.tail,
         \A i \in 1 .. w.tail : w.mem[i] = start[handed + 1] + i,
         w.packlen = 0 => w.tail + n = HeadLen,
         w.packlen # 0 => /\ handed + 1 <= Len(sent) /\ Acceptable(sent[handed + 1])
                          /\ w.packlen = PackLen(sent[handed + 1]) /\ w.tail + n = w.packlen
  PROVE  FrameInv'
<1>1. /\ bb \in MsgBuffers /\ bb.tail = w.tail /\ bb.packlen = w.packlen
      /\ w.tail + n <= Len(bb.mem) /\ \A i \in 1 .. Len(w.mem) : bb.mem[i] = w.mem[i]
  BY AdjustRoom
<1>2. w.tail \in Nat /\ Len(w.mem) \in Nat
  BY DEF MsgBuffers
<1>3. \A i \in 1 .. bb.tail : bb.mem[i] = start[handed + 1] + i
  <2> SUFFICES ASSUME NEW i \in 1 .. w.tail PROVE bb.mem[i] = start[handed + 1] + i
    BY <1>1
  <2>1. i \in 1 .. Len(w.mem)
    BY <1>2
  <2> QED
    BY <1>1, <2>1
<1>4. recv \in Buffers /\ Tail(rops) = <<>> /\ buf \in [Buffers -> MsgBuffers]
  BY ReadTypes, FrameTypes
<1>5. Len(rops') = 1 /\ rops'[1] = ReadOp(recv, bb, n)
  <2> DEFINE op == ReadOp(recv, bb, n)
  <2>1. rops' = Append(<<>>, op)
    BY <1>4
  <2> HIDE DEF op
  <2>2. Len(rops') = 1 /\ rops'[1] = op
    BY <2>1
  <2> QED
    BY <2>2 DEF op
<1>6. buf'[recv] = bb /\ \A c \in Buffers \ {recv} : buf'[c] = buf[c]
  BY <1>4
<1>7. sent' = sent /\ start' = start /\ rpos' = rpos /\ handed' = handed /\ recv' = recv
  OBVIOUS
<1>8. /\ handed' <= Len(sent') /\ rpos' <= start'[Len(start')]
      /\ start'[handed' + 1] \in Nat /\ rpos' = start'[handed' + 1] + bb.tail
  BY <1>1, <1>7
<1>9. \A i \in 1 .. bb.tail : bb.mem[i] = start'[handed' + 1] + i
  BY <1>3, <1>7
<1>10. bb.packlen # 0 => /\ handed' + 1 <= Len(sent') /\ Acceptable(sent'[handed' + 1])
                         /\ bb.packlen = PackLen(sent'[handed' + 1]) /\ bb.tail + n = bb.packlen
  BY <1>1, <1>7
<1>11. rops'[1] = ReadOp(recv', bb, n) /\ buf'[recv'] = bb /\ bb.tail + n <= Len(bb.mem)
  BY <1>1, <1>5, <1>6, <1>7
<1>12. ReadInv'
  BY <1>1, <1>5, <1>8, <1>9, <1>10, <1>11, ReadOn
<1>13. Len(rops') <= 1
  BY ONLY <1>5
<1> QED
  BY <1>6, <1>12, <1>13, ReadFrame

\* A read that is tried again asks for the same bytes.
LEMMA HandleAgainFrame ==
  ASSUME FrameInv, HandleAgain PROVE FrameInv'
<1>0. OwnerInv'
  BY HandleOwner DEF FrameInv
<1> DEFINE op == rops[1]
           b == buf[recv]
<1>1. rops # <<>> /\ op = Head(rops) /\ op.st = "again" /\ Arrived(op) = 0
  BY ReadTypes DEF HandleAgain, Arrived
<1>2. /\ UNCHANGED <<sent, start, rpos, handed, recv, chains, tasks>>
      /\ buf' = [buf EXCEPT ![recv] = Adjust(b, op.len)]
      /\ rops' = Append(Tail(rops), ReadOp(recv, Adjust(b, op.len), op.len))
  BY <1>1 DEF HandleAgain, peerVars, workVars
<1>3. b \in MsgBuffers /\ b.tail \in Nat /\ op.len \in Nat /\ Len(b.mem) \in Nat
  BY <1>1, ReadTypes
<1>4. OpPlaced /\ Filled /\ Wanted
  BY DEF FrameInv, ReadInv
<1>5. /\ handed \in Nat /\ handed <= Len(sent) /\ start[handed + 1] \in Nat /\ rpos <= start[Len(start)]
  <2>1. /\ handed \in Nat /\ handed <= Len(sent) /\ Len(sent) \in Nat /\ start \in Seq(Nat) /\ Len(start) = Len(sent) + 1
        /\ rpos <= start[Len(start)]
    BY <1>1, <1>4, FrameTypes DEF Filled
  <2>2. handed + 1 \in 1 .. Len(start)
    BY <2>1
  <2> QED
    BY <2>1, <2>2
<1>6. b.tail <= Len(b.mem)
  <2>1. b.tail + op.len <= Len(b.mem)
    BY <1>1, <1>4 DEF OpPlaced
  <2> QED
    BY <1>3, <2>1
<1>7. rpos = start[handed + 1] + b.tail /\ \A i \in 1 .. b.tail : b.mem[i] = start[handed + 1] + i
  <2>1. /\ rpos = start[handed + 1] + b.tail + Arrived(op)
        /\ \A i \in 1 .. b.tail + Arrived(op) : b.mem[i] = start[handed + 1] + i
    BY <1>1, <1>4 DEF Filled
  <2> QED
    BY <1>1, <1>3, <1>5, <2>1
<1>8. /\ b.packlen = 0 => b.tail + op.len = HeadLen
      /\ b.packlen # 0 => /\ handed + 1 <= Len(sent) /\ Acceptable(sent[handed + 1])
                          /\ b.packlen = PackLen(sent[handed + 1]) /\ b.tail + op.len = b.packlen
  BY <1>1, <1>4 DEF Wanted
<1> HIDE DEF op, b
<1> QED
  BY <1>0, <1>1, <1>2, <1>3, <1>5, <1>6, <1>7, <1>8, ReadAgain

\* When more is needed, the next read asks for the rest of the header or of the frame.
LEMMA HandleNeedMoreFrame ==
  ASSUME FrameInv, NEW h \in Headers, HandleNeedMore(h) PROVE FrameInv'
<1>0. OwnerInv'
  BY HandleOwner DEF FrameInv
<1> DEFINE c == Committed
           w == WithPackLen(c, h)
           n == Expect(w)
<1>1. /\ rops # <<>> /\ Head(rops).st = "done" /\ h \in HeadersIn(c)
      /\ Check(c, h) \in {"NEED_HEAD", "NEED_BODY"}
      /\ UNCHANGED <<sent, start, rpos, handed, recv, chains, tasks>>
      /\ buf' = [buf EXCEPT ![recv] = Adjust(w, n)]
      /\ rops' = Append(Tail(rops), ReadOp(recv, Adjust(w, n), n))
  BY DEF HandleNeedMore, peerVars, workVars
<1>2. /\ c \in MsgBuffers /\ c.tail \in Nat /\ c.packlen \in Nat /\ c.tail <= Len(c.mem)
      /\ handed <= Len(sent) /\ start[handed + 1] \in Nat
      /\ rpos = start[handed + 1] + c.tail /\ rpos <= start[Len(start)]
      /\ \A i \in 1 .. c.tail : c.mem[i] = start[handed + 1] + i
  BY <1>1, DoneRead
<1>3. /\ w \in MsgBuffers /\ w.mem = c.mem /\ w.tail = c.tail /\ w.packlen \in Nat
      /\ w.packlen = IF c.packlen = 0 /\ c.tail >= HeadLen /\ h.magic THEN PackLen(h) ELSE c.packlen
  BY <1>2, WithPackLenKeeps DEF MsgBuffers
<1>4. n \in Nat
  BY <1>1, <1>2, ExpectNat
<1>5. HeadLen \in Nat \ {0}
  BY ReceiverAssumption
<1>6. /\ w.packlen = 0 => w.tail + n = HeadLen
      /\ w.packlen # 0 => /\ handed + 1 <= Len(sent) /\ Acceptable(sent[handed + 1])
                          /\ w.packlen = PackLen(sent[handed + 1]) /\ w.tail + n = w.packlen
  <2>1. /\ w.packlen = 0 => w.tail + n = HeadLen
        /\ w.packlen # 0 => w.tail + n = w.packlen
    BY <1>2, <1>3, <1>5 DEF Expect
  <2>2. CASE Check(c, h) = "NEED_BODY"
    BY <1>1, <2>1, <2>2, LengthRead
  <2>3. CASE Check(c, h) = "NEED_HEAD"
    <3>1. c.packlen = 0 /\ c.tail < HeadLen
      BY <2>3 DEF Check
    <3>2. w.packlen = 0
      BY <1>2, <1>3, <1>5, <3>1
    <3> QED
      BY <2>1, <3>2
  <2> QED
    BY <1>1, <2>2, <2>3
<1> HIDE DEF w, n
<1>7. w.tail <= Len(w.mem) /\ rpos = start[handed + 1] + w.tail /\ \A i \in 1 .. w.tail : w.mem[i] = start[handed + 1] + i
  BY <1>2, <1>3
<1> QED
  BY <1>0, <1>1, <1>2, <1>3, <1>4, <1>6, <1>7, ReadAgain

\* The buffer that is handed over holds the bytes of the next frame, all of them and no others.
LEMMA WholeFrame ==
  ASSUME FrameInv, rops # <<>>, Head(rops).st = "done", NEW h \in Headers, h \in HeadersIn(Committed),
         Check(Committed, h) = "WHOLE"
  PROVE  /\ handed + 1 \in 1 .. Len(sent) /\ Acceptable(sent[handed + 1])
         /\ Content(WithPackLen(Committed, h)) = FrameBytes(handed + 1)
         /\ rpos = start[handed + 2] /\ start[handed + 2] \in Nat
<1> DEFINE c == Committed
           w == WithPackLen(c, h)
           k == handed + 1
           len == PackLen(sent[k])
<1>1. /\ k <= Len(sent) /\ Acceptable(sent[k]) /\ w.packlen = len /\ len \in Nat /\ c.packlen # 0
  BY LengthRead
<1>2. /\ c \in MsgBuffers /\ c.tail \in Nat /\ c.mem \in Seq(Nat) /\ Len(c.mem) \in Nat /\ c.tail <= Len(c.mem)
      /\ handed \in Nat /\ start[k] \in Nat /\ rpos = start[k] + c.tail
      /\ \A i \in 1 .. c.tail : c.mem[i] = start[k] + i
      /\ c.packlen # 0 => c.packlen = len /\ c.tail <= c.packlen
  BY DoneRead
<1>3. w.mem = c.mem /\ w.tail = c.tail
  BY <1>2, WithPackLenKeeps
<1>4. ~(c.tail < w.packlen)
  BY DEF Check
<1>5. c.tail = len
  BY <1>1, <1>2, <1>4
<1>6. k \in 1 .. Len(sent) /\ k + 1 = handed + 2 /\ Len(sent) \in Nat
  BY <1>1, <1>2, FrameTypes
<1>7. start[k + 1] = start[k] + len
  BY <1>1, <1>6 DEF FrameInv, StreamInv, Extent
<1>8. start[k + 1] - start[k] = c.tail
  BY <1>1, <1>2, <1>5, <1>7
<1> HIDE DEF c, w, k, len
<1>9. FrameBytes(k) = [i \in 1 .. c.tail |-> start[k] + i]
  BY <1>8 DEF FrameBytes
<1>10. /\ SubSeq(c.mem, 1, c.tail) \in Seq(Nat) /\ Len(SubSeq(c.mem, 1, c.tail)) = c.tail
       /\ \A i \in 1 .. c.tail : SubSeq(c.mem, 1, c.tail)[i] = c.mem[i]
  <2>1. \A i \in 1 .. c.tail : c.mem[i] \in Nat
    <3> SUFFICES ASSUME NEW i \in 1 .. c.tail PROVE c.mem[i] \in Nat
      OBVIOUS
    <3>1. i \in 1 .. Len(c.mem)
      BY ONLY <1>2, i \in 1 .. c.tail
    <3> QED
      BY ONLY <1>2, <3>1, ElementOfSeq
  <2>2. /\ SubSeq(c.mem, 1, c.tail) \in Seq(Nat)
        /\ Len(SubSeq(c.mem, 1, c.tail)) = IF 1 <= c.tail THEN c.tail - 1 + 1 ELSE 0
        /\ \A i \in 1 .. c.tail - 1 + 1 : SubSeq(c.mem, 1, c.tail)[i] = c.mem[1 + i - 1]
    BY <1>2, <2>1, SubSeqProperties
  <2> QED
    BY <1>2, <2>2
<1>11. SubSeq(c.mem, 1, c.tail) = [i \in 1 .. c.tail |-> start[k] + i]
  <2>1. SubSeq(c.mem, 1, c.tail) = [i \in 1 .. c.tail |-> SubSeq(c.mem, 1, c.tail)[i]]
    BY <1>10, LenProperties
  <2>2. \A i \in 1 .. c.tail : SubSeq(c.mem, 1, c.tail)[i] = start[k] + i
    BY <1>2, <1>10
  <2> QED
    BY <2>1, <2>2
<1>12. Content(w) = FrameBytes(k)
  BY <1>3, <1>9, <1>11 DEF Content
<1>13. rpos = start[k + 1] /\ start[k + 1] \in Nat
  BY <1>2, <1>5, <1>7
<1> QED
  BY <1>1, <1>6, <1>12, <1>13 DEF c, w, k

\* A whole frame goes to the business threads as it came, and the next one is read into another buffer.
LEMMA HandleWholeFrame ==
  ASSUME FrameInv, NEW h \in Headers, HandleWhole(h) PROVE FrameInv'
<1>0. OwnerInv /\ OwnerInv'
  BY HandleWholeOwner DEF FrameInv
<1> DEFINE w == WithPackLen(Committed, h)
<1>1. /\ rops # <<>> /\ Head(rops).st = "done" /\ h \in HeadersIn(Committed) /\ Check(Committed, h) = "WHOLE"
      /\ UNCHANGED <<sent, start, rpos, chains>> /\ handed' = handed + 1
      /\ tasks' = tasks \cup {[buf |-> recv, frame |-> handed + 1]}
  BY DEF HandleWhole, HandOver, peerVars
<1>2. PICK b \in Buffers :
        /\ PoolGet(b) /\ recv' = b
        /\ buf' = [buf EXCEPT ![recv] = w, ![b] = Adjust(buf[b], HeadLen)]
        /\ rops' = Append(Tail(rops), ReadOp(b, Adjust(buf[b], HeadLen), HeadLen))
  BY DEF HandleWhole
<1>3. b \notin TaskBuffers \cup OutBuffers \cup {recv}
  BY <1>0, <1>2, PoolGetTakes
<1> DEFINE bb == Adjust(buf[b], HeadLen)
<1>4. /\ bb \in MsgBuffers /\ bb.tail = 0 /\ bb.packlen = 0 /\ 0 + HeadLen <= Len(bb.mem)
  BY <1>3, FreshForHead
<1>5. recv \in Buffers /\ Tail(rops) = <<>> /\ buf \in [Buffers -> MsgBuffers] /\ HeadLen \in Nat
  BY <1>1, ReadTypes, FrameTypes, ReceiverAssumption
<1>6. /\ handed + 1 \in 1 .. Len(sent) /\ Acceptable(sent[handed + 1])
      /\ Content(w) = FrameBytes(handed + 1)
      /\ rpos = start[handed + 2] /\ start[handed + 2] \in Nat
  BY <1>1, WholeFrame
<1> HIDE DEF w, bb
<1>7. buf' = [buf EXCEPT ![recv] = w, ![b] = bb] /\ rops' = Append(<<>>, ReadOp(b, bb, HeadLen))
  BY <1>2, <1>5 DEF bb
<1>8. buf'[recv] = w /\ buf'[b] = bb /\ \A c \in Buffers \ {recv, b} : buf'[c] = buf[c]
  BY <1>3, <1>5, <1>7
<1>9. Len(rops') = 1 /\ rops'[1] = ReadOp(b, bb, HeadLen)
  BY <1>7
<1>10. ReadInv'
  <2>1. sent' = sent /\ start' = start /\ rpos' = rpos /\ recv' = b
    BY <1>1, <1>2
  <2>2. handed' + 1 = handed + 2 /\ handed' <= Len(sent)
    BY <1>1, <1>6, FrameTypes
  <2>3. rpos <= start[Len(start)]
    BY <1>1, DoneRead
  <2>4. /\ handed' <= Len(sent') /\ rpos' <= start'[Len(start')]
        /\ start'[handed' + 1] \in Nat /\ rpos' = start'[handed' + 1] + bb.tail
    <3>1. start'[handed' + 1] = start[handed + 2]
      BY <2>1, <2>2
    <3>2. rpos' = start'[handed' + 1] + 0
      BY <1>6, <2>1, <3>1
    <3> QED
      BY <1>4, <1>6, <2>1, <2>2, <2>3, <3>1, <3>2
  <2>5. \A i \in 1 .. bb.tail : bb.mem[i] = start'[handed' + 1] + i
    BY <1>4
  <2>6. bb.tail + HeadLen = HeadLen /\ bb.tail + HeadLen <= Len(bb.mem)
    BY <1>4, <1>5
  <2>7. rops'[1] = ReadOp(recv', bb, HeadLen) /\ buf'[recv'] = bb
    BY <1>8, <1>9, <2>1
  <2> QED
    BY <1>4, <1>5, <1>9, <2>4, <2>5, <2>6, <2>7, ReadOn
<1>11. FrameIntact'
  <2> SUFFICES ASSUME NEW t \in tasks'
               PROVE  /\ t.frame \in 1 .. Len(sent) /\ Acceptable(sent[t.frame])
                      /\ Content(buf'[t.buf]) = FrameBytes(t.frame)
    BY <1>1 DEF FrameIntact, FrameBytes
  <2>1. CASE t \in tasks
    <3>1. t.buf \in TaskBuffers /\ t.buf \in Buffers
      BY <1>0, <2>1 DEF TaskBuffers, OwnerInv, TypeOK
    <3>2. t.buf # recv /\ t.buf # b
      BY <1>0, <1>3, <3>1 DEF OwnerInv, OneOwner
    <3>3. buf'[t.buf] = buf[t.buf]
      BY <1>8, <3>1, <3>2
    <3> QED
      BY <2>1, <3>3 DEF FrameInv, FrameIntact
  <2>2. CASE t = [buf |-> recv, frame |-> handed + 1]
    <3>1. t.buf = recv /\ t.frame = handed + 1
      BY <2>2
    <3> QED
      BY <1>6, <1>8, <3>1
  <2> QED
    BY <1>1, <2>1, <2>2
<1>12. FreshInv'
  <2>1. TaskBuffers' = TaskBuffers \cup {recv}
    <3> DEFINE x == [buf |-> recv, frame |-> handed + 1]
    <3>1. x.buf = recv /\ tasks' = tasks \cup {x}
      BY <1>1
    <3> HIDE DEF x
    <3> QED
      BY <3>1, TaskBuffersAdd
  <2> QED
    BY <1>2, <1>8, <2>1 DEF FrameInv, FreshInv
<1>13. ChainInv'
  BY <1>1, <1>9, ReadTypes DEF ChainInv
<1>14. StreamInv'
  BY <1>1 DEF FrameInv, StreamInv
<1> QED
  BY <1>0, <1>10, <1>11, <1>12, <1>13, <1>14 DEF FrameInv

\* With one chain of reads, no step damages a frame.
LEMMA NextFrame ==
  ASSUME MaxChains = 1, FrameInv, [Next]_vars PROVE FrameInv'
<1>1. CASE UNCHANGED vars
  <2>1. /\ UNCHANGED <<sent, start, rpos, handed, recv, chains, tasks, rops, buf>>
    BY <1>1 DEF vars, peerVars, readVars, workVars
  <2>2. OwnerInv'
    BY <1>1, NextOwner DEF FrameInv
  <2>3. ReadInv' /\ ChainInv' /\ FrameIntact' /\ FreshInv'
    BY <2>1, ReadKept, IntactKept, FreshKept
  <2>4. StreamInv'
    BY <2>1 DEF FrameInv, StreamInv
  <2> QED
    BY <2>2, <2>3, <2>4 DEF FrameInv
<1>2. CASE Reactor \/ \E i \in 1 .. Len(rops) : PerformAgain(i)
  BY <1>2, PerformReadFrame, PerformErrorFrame DEF Reactor
<1>3. CASE ReadHandler
  BY <1>3, HandleAgainFrame, HandleStopFrame, HandleNeedMoreFrame, HandleWholeFrame DEF ReadHandler
<1>4. CASE Business \/ Writer \/ \E valid \in BOOLEAN, b \in Buffers : Answer(valid, b)
  BY <1>4, BusinessFrame, WriterFrame, AnswerFrame DEF Business, Writer
<1>5. CASE StartRead \/ PeerLeaves \/ \E h \in Headers : PeerSend(h)
  BY <1>5, StartReadFrame, PeerFrame
<1> QED
  BY <1>1, <1>2, <1>3, <1>4, <1>5 DEF Next, Finished

\* FrameIntact on a connection that is read by one chain, as Server's are: what a business
\* thread finds in its buffer is one frame of the stream, in one piece and in order,
\* however the bytes arrived and whatever is done with the other buffers meanwhile.
THEOREM FrameIntactHolds == MaxChains = 1 => (SafeSpec => []FrameIntact)
<1> SUFFICES ASSUME MaxChains = 1 PROVE SafeSpec => []FrameIntact
  OBVIOUS
<1>1. FrameInv /\ [Next]_vars => FrameInv'
  BY NextFrame
<1>2. FrameInv => FrameIntact
  BY DEF FrameInv
<1> QED
  BY <1>1, <1>2, InitFrame, PTL DEF SafeSpec

\* ReadMemoryValid on such a connection: the memory that was given to async_read_some is
\* still there, and large enough, whenever the reactor writes into it.
THEOREM ReadMemoryValidHolds == MaxChains = 1 => (SafeSpec => []ReadMemoryValid)
<1> SUFFICES ASSUME MaxChains = 1 PROVE SafeSpec => []ReadMemoryValid
  OBVIOUS
<1>1. FrameInv /\ [Next]_vars => FrameInv'
  BY NextFrame
<1>2. FrameInv => ReadMemoryValid
  <2> SUFFICES ASSUME FrameInv, NEW i \in 1 .. Len(rops)
               PROVE  /\ buf[rops[i].buf].gen = rops[i].gen
                      /\ rops[i].off + rops[i].len <= Len(buf[rops[i].buf].mem)
    BY DEF ReadMemoryValid
  <2>1. rops # <<>> /\ i = 1
    BY FrameTypes DEF FrameInv, ChainInv
  <2> QED
    BY <2>1 DEF FrameInv, ReadInv, OpPlaced
<1> QED
  BY <1>1, <1>2, InitFrame, PTL DEF SafeSpec

-----------------------------------------------------------------------------
(* What FrameDelivered and BadPeerClosed rest on.                             *)

(* Connection::async_read, handle_read, PackageCheck: as long as the connection is open   *)
(* there is always one read, it asks for at least one byte, and a completed one brought    *)
(* some; it never asks for a byte behind the frame at hand, so when the peer has sent that  *)
(* frame the read does not wait for the peer.                                                *)
ReadProgress ==
  chains = 1 /\ open =>
    /\ Len(rops) = 1 /\ rops[1].len >= 1
    /\ rops[1].st = "waiting" /\ handed < Len(sent) => rpos + rops[1].len <= start[handed + 2]
    /\ rops[1].st = "done" => rops[1].n \in 1 .. rops[1].len

\* The part of it that has to be carried from step to step.
ReadGoesOn ==
  chains = 1 /\ open =>
    /\ rops # <<>> /\ rops[1].len >= 1
    /\ rops[1].st = "done" => rops[1].n >= 1

\* A handler that starts the next read.
LEMMA NextReadGoesOn ==
  ASSUME FrameInv, rops # <<>>, NEW b, NEW bb, NEW n \in Nat, n >= 1,
         rops' = Append(Tail(rops), ReadOp(b, bb, n))
  PROVE  ReadGoesOn'
<1> DEFINE op == ReadOp(b, bb, n)
<1>1. op.len = n /\ op.st # "done"
  BY DEF ReadOp
<1> HIDE DEF op
<1>2. rops' = Append(<<>>, op)
  <2>1. Tail(rops) = <<>>
    BY ReadTypes
  <2> QED
    BY <2>1 DEF op
<1>3. rops' # <<>> /\ rops'[1] = op
  BY <1>2
<1> QED
  BY <1>1, <1>3 DEF ReadGoesOn

\* The reactor completes the read: with a byte at least, or without any.
LEMMA ReactorGoesOn ==
  ASSUME FrameInv, ReadGoesOn, Reactor \/ \E i \in 1 .. Len(rops) : PerformAgain(i) PROVE ReadGoesOn'
<1>1. PICK i \in 1 .. Len(rops) : \/ \E n \in 1 .. MaxLen : PerformRead(i, n)
                                  \/ PerformEof(i)
                                  \/ PerformAgain(i)
  BY DEF Reactor
<1>2. i = 1 /\ rops # <<>>
  BY <1>1, FrameTypes DEF FrameInv, ChainInv
<1>3. rops \in Seq(Ops) /\ rops[1] \in Ops
  BY <1>2, FrameTypes, ReadTypes
<1>4. UNCHANGED <<open, chains>>
  BY <1>1 DEF PerformRead, PerformEof, PerformAgain
<1>5. ASSUME NEW n \in 1 .. MaxLen, PerformRead(i, n) PROVE ReadGoesOn'
  <2> DEFINE op == [[rops[1] EXCEPT !.st = "done"] EXCEPT !.n = n]
  <2>1. rops' = [rops EXCEPT ![1] = op]
    BY <1>2, <1>3, <1>5 DEF PerformRead
  <2>2. op.len = rops[1].len /\ op.n = n
    BY <1>3 DEF Ops
  <2> HIDE DEF op
  <2>3. rops' # <<>> /\ rops'[1] = op
    BY <1>1, <1>2, <1>3, <2>1
  <2> QED
    BY <1>4, <2>2, <2>3 DEF ReadGoesOn
<1>6. ASSUME NEW s \in {"failed", "again"}, rops' = [rops EXCEPT ![i].st = s] PROVE ReadGoesOn'
  <2> DEFINE op == [rops[1] EXCEPT !.st = s]
  <2>1. rops' = [rops EXCEPT ![1] = op]
    BY <1>2, <1>6
  <2>2. op.len = rops[1].len /\ op.st = s
    BY <1>3 DEF Ops
  <2> HIDE DEF op
  <2>3. rops' # <<>> /\ rops'[1] = op
    BY <1>1, <1>2, <1>3, <2>1
  <2> QED
    BY <1>4, <1>6, <2>2, <2>3 DEF ReadGoesOn
<1> QED
  BY <1>1, <1>5, <1>6 DEF PerformEof, PerformAgain

\* The handlers of the connection: another read, or a closed socket.
LEMMA HandlerGoesOn == ASSUME FrameInv, ReadGoesOn, ReadHandler PROVE ReadGoesOn'
<1>0. HeadLen \in Nat /\ HeadLen >= 1
  BY ReceiverAssumption
<1>1. CASE HandleAgain
  <2>1. rops # <<>> /\ UNCHANGED <<open, chains>>
    BY <1>1 DEF HandleAgain
  <2>2. rops' = Append(Tail(rops), ReadOp(recv, Adjust(buf[recv], rops[1].len), rops[1].len)) /\ rops[1].len \in Nat
    BY <1>1, <2>1, ReadTypes DEF HandleAgain
  <2>3. CASE chains = 1 /\ open
    <3>1. rops[1].len >= 1
      BY <2>3 DEF ReadGoesOn
    <3> QED
      BY <2>1, <2>2, <3>1, NextReadGoesOn
  <2>4. CASE ~(chains = 1 /\ open)
    BY <2>1, <2>4 DEF ReadGoesOn
  <2> QED
    BY <2>3, <2>4
<1>2. CASE HandleError \/ \E h \in Headers : HandleIncorrect(h)
  BY <1>2 DEF HandleError, HandleIncorrect, ReadGoesOn
<1>3. ASSUME NEW h \in Headers, HandleNeedMore(h) PROVE ReadGoesOn'
  <2> DEFINE c == Committed
             w == WithPackLen(c, h)
             n == Expect(w)
  <2>1. /\ rops # <<>> /\ Head(rops).st = "done" /\ h \in HeadersIn(c)
        /\ Check(c, h) \in {"NEED_HEAD", "NEED_BODY"}
        /\ rops' = Append(Tail(rops), ReadOp(recv, Adjust(w, n), n))
    BY <1>3 DEF HandleNeedMore
  <2>2. c \in MsgBuffers /\ c.tail \in Nat /\ c.packlen \in Nat
    BY <2>1, DoneRead
  <2>3. /\ w.tail = c.tail /\ w.packlen \in Nat
        /\ w.packlen = IF c.packlen = 0 /\ c.tail >= HeadLen /\ h.magic THEN PackLen(h) ELSE c.packlen
    BY <2>2, WithPackLenKeeps DEF MsgBuffers
  <2>4. n = IF w.packlen = 0 THEN HeadLen - w.tail ELSE w.packlen - w.tail
    BY DEF Expect
  <2>5. CASE Check(c, h) = "NEED_HEAD"
    <3>1. c.packlen = 0 /\ c.tail < HeadLen
      BY <2>5 DEF Check
    <3>2. w.packlen = 0
      BY <1>0, <2>2, <2>3, <3>1
    <3>3. n \in Nat /\ n >= 1
      BY <1>0, <2>2, <2>3, <2>4, <3>1, <3>2
    <3> QED
      BY <2>1, <3>3, NextReadGoesOn
  <2>6. CASE Check(c, h) = "NEED_BODY"
    <3>1. c.tail < w.packlen
      BY <2>6 DEF Check
    <3>2. n \in Nat /\ n >= 1
      BY <2>2, <2>3, <2>4, <3>1
    <3> QED
      BY <2>1, <3>2, NextReadGoesOn
  <2> QED
    BY <2>1, <2>5, <2>6
<1>4. ASSUME NEW h \in Headers, HandleWhole(h) PROVE ReadGoesOn'
  <2>1. PICK b \in Buffers : rops' = Append(Tail(rops), ReadOp(b, Adjust(buf[b], HeadLen), HeadLen))
    BY <1>4 DEF HandleWhole
  <2>2. rops # <<>>
    BY <1>4 DEF HandleWhole
  <2> QED
    BY <1>0, <2>1, <2>2, NextReadGoesOn
<1> QED
  BY <1>1, <1>2, <1>3, <1>4 DEF ReadHandler

\* Every step.
LEMMA NextGoesOn == ASSUME MaxChains = 1, FrameInv, ReadGoesOn, [Next]_vars PROVE ReadGoesOn'
<1>1. CASE Reactor \/ \E i \in 1 .. Len(rops) : PerformAgain(i)
  BY <1>1, ReactorGoesOn
<1>2. CASE ReadHandler
  BY <1>2, HandlerGoesOn
<1>3. CASE StartRead
  <2>1. rops = <<>>
    <3>1. chains = 0
      BY <1>3, FrameTypes DEF StartRead
    <3> QED
      BY <3>1 DEF FrameInv, ChainInv
  <2> DEFINE op == ReadOp(recv', Adjust(buf[recv'], HeadLen), HeadLen)
  <2>2. rops' = Append(<<>>, op)
    BY <1>3, <2>1 DEF StartRead
  <2>3. op.len = HeadLen /\ op.st # "done"
    BY DEF ReadOp
  <2> HIDE DEF op
  <2>4. rops' # <<>> /\ rops'[1] = op
    BY <2>2
  <2>5. HeadLen >= 1
    BY ReceiverAssumption
  <2> QED
    BY <2>3, <2>4, <2>5 DEF ReadGoesOn
<1>4. ASSUME NEW o \in out, WriteRefused(o) \/ WriteFailed(o) PROVE ReadGoesOn'
  BY <1>4 DEF WriteRefused, WriteFailed, ReadGoesOn
<1>5. CASE UNCHANGED <<open, rops, chains>>
  BY <1>5 DEF ReadGoesOn
<1>6. CASE \/ UNCHANGED vars \/ PeerLeaves \/ Business
           \/ \E h \in Headers : PeerSend(h)
           \/ \E valid \in BOOLEAN, b \in Buffers : Answer(valid, b)
           \/ \E o \in out : WriteDone(o)
  <2>1. UNCHANGED <<open, rops, chains>>
    BY <1>6 DEF vars, PeerLeaves, Business, Parse, ParseBadCrc, PeerSend, Answer, WriteDone, readVars
  <2> QED
    BY <1>5, <2>1
<1> QED
  BY <1>1, <1>2, <1>3, <1>4, <1>6 DEF Next, Finished, Writer

\* The bytes a waiting read asks for are bytes of the frame at hand.
LEMMA ReadWithinFrame ==
  ASSUME FrameInv, rops # <<>>, rops[1].st = "waiting", handed < Len(sent)
  PROVE  rpos + rops[1].len <= start[handed + 2]
<1> DEFINE k == handed + 1
<1>1. /\ handed \in Nat /\ Len(sent) \in Nat /\ sent \in Seq(Headers) /\ start \in Seq(Nat)
      /\ Len(start) = Len(sent) + 1 /\ HeadLen \in Nat
  BY FrameTypes, ReceiverAssumption
<1>2. k \in 1 .. Len(sent) /\ k \in 1 .. Len(start) /\ handed + 2 = k + 1
  BY <1>1
<1>3. sent[k] \in Headers /\ start[k] \in Nat
  BY <1>1, <1>2
<1>4. start[k + 1] = start[k] + Extent(sent[k])
  BY <1>2 DEF FrameInv, StreamInv
<1>5. PackLen(sent[k]) \in Nat
  BY <1>3, PackLenNat
<1>6. /\ Extent(sent[k]) \in Nat /\ Extent(sent[k]) >= HeadLen
      /\ Acceptable(sent[k]) => Extent(sent[k]) = PackLen(sent[k])
  <2>1. Acceptable(sent[k]) => PackLen(sent[k]) >= HeadLen
    BY <1>1, <1>5 DEF Acceptable, CrcLen
  <2> QED
    BY <1>1, <1>5, <2>1 DEF Extent
<1>7. rops[1].len \in Nat /\ buf[recv].tail \in Nat /\ Arrived(rops[1]) = 0
  BY ReadTypes DEF Arrived
<1>8. /\ rpos = start[k] + buf[recv].tail + Arrived(rops[1])
      /\ buf[recv].packlen = 0 => buf[recv].tail + rops[1].len = HeadLen
      /\ buf[recv].packlen # 0 => /\ Acceptable(sent[k]) /\ buf[recv].packlen = PackLen(sent[k])
                                  /\ buf[recv].tail + rops[1].len = buf[recv].packlen
  BY DEF FrameInv, ReadInv, Filled, Wanted
<1> HIDE DEF k
<1>9. buf[recv].tail + rops[1].len <= Extent(sent[k])
  BY <1>6, <1>8
<1>10. rpos + rops[1].len <= start[k + 1]
  BY <1>3, <1>4, <1>6, <1>7, <1>8, <1>9
<1> QED
  BY <1>2, <1>10 DEF k

(* Connection::handle_read and PackageCheck on a connection with one chain of reads: it    *)
(* is never without a read while it is open, and no read asks for bytes that only the       *)
(* frame after the one at hand would bring.                                                  *)
THEOREM ReadProgressHolds == MaxChains = 1 => (SafeSpec => []ReadProgress)
<1> SUFFICES ASSUME MaxChains = 1 PROVE SafeSpec => []ReadProgress
  OBVIOUS
<1>1. FrameInv /\ ReadGoesOn /\ [Next]_vars => FrameInv' /\ ReadGoesOn'
  BY NextFrame, NextGoesOn
<1>2. FrameInv /\ ReadGoesOn => ReadProgress
  <2> SUFFICES ASSUME FrameInv, ReadGoesOn, chains = 1, open
               PROVE  /\ Len(rops) = 1 /\ rops[1].len >= 1
                      /\ rops[1].st = "waiting" /\ handed < Len(sent) => rpos + rops[1].len <= start[handed + 2]
                      /\ rops[1].st = "done" => rops[1].n \in 1 .. rops[1].len
    BY DEF ReadProgress
  <2>1. rops # <<>> /\ rops[1].len >= 1 /\ (rops[1].st = "done" => rops[1].n >= 1)
    BY DEF ReadGoesOn
  <2>2. Len(rops) = 1 /\ rops[1].n \in Nat /\ rops[1].len \in Nat
    BY <2>1, ReadTypes
  <2>3. rops[1].st = "done" => rops[1].n <= rops[1].len
    BY <2>1 DEF FrameInv, ReadInv, OpPlaced, Arrived
  <2>4. rops[1].st = "waiting" /\ handed < Len(sent) => rpos + rops[1].len <= start[handed + 2]
    BY <2>1, ReadWithinFrame
  <2> QED
    BY <2>1, <2>2, <2>3, <2>4
<1>3. Init => ReadGoesOn
  BY DEF Init, ReadGoesOn
<1> QED
  BY <1>1, <1>2, <1>3, InitFrame, PTL DEF SafeSpec

-----------------------------------------------------------------------------
\* The answer that closes the connection, or the frame that will lead to it, is on its way.
Refusal(k) == (\E t \in tasks : t.frame = k) \/ due[FALSE] > 0 \/ \E o \in out : ~o.valid

(* Application's handlers, Server::send_message and Connection::async_write: as long as     *)
(* the connection of a server is open, a frame that was handed over and that the CRC or the   *)
(* command table refuses is still with a business thread, or the invalid buffer that closes    *)
(* the connection is due or posted: it is not lost between the threads.                         *)
RefusedAnswered ==
  Answering /\ open => \A k \in 1 .. handed : sent[k].body # "good" => Refusal(k)

\* Only frames of the stream are handed over, as long as the connection is open.
LEMMA HandedSent == ASSUME FrameInv, ReadGoesOn, open PROVE handed <= Len(sent) /\ handed \in Nat
<1>1. handed \in Nat /\ Len(sent) \in Nat /\ chains \in Nat /\ chains <= 1
  BY FrameTypes DEF FrameInv, ChainInv
<1>2. CASE chains = 0
  BY <1>1, <1>2 DEF FrameInv, ChainInv
<1>3. CASE chains = 1
  BY <1>1, <1>3 DEF ReadGoesOn, FrameInv, ReadInv, Filled
<1> QED
  BY <1>1, <1>2, <1>3

\* Steps that drop neither a task nor an answer.
LEMMA RefusalKept ==
  ASSUME RefusedAnswered, open' => open, UNCHANGED <<handed, sent>>,
         \A k \in 1 .. handed : sent[k].body # "good" /\ Refusal(k) => Refusal(k)'
  PROVE  RefusedAnswered'
BY DEF RefusedAnswered

\* A business thread that has looked at a frame owes what the frame deserves.
LEMMA BusinessRefuses == ASSUME FrameInv, RefusedAnswered, Business PROVE RefusedAnswered'
<1>1. PICK t \in tasks, body \in Bodies :
        /\ body \in Verdicts(t) /\ tasks' = tasks \ {t} /\ due' = Owed(body)
        /\ UNCHANGED <<open, sent, handed, out>>
  <2>1. "bad_crc" \in Bodies
    BY DEF Bodies
  <2> QED
    BY <2>1 DEF Business, Parse, ParseBadCrc, peerVars, readVars
<1>2. body = sent[t.frame].body
  <2>1. Content(buf[t.buf]) = FrameBytes(t.frame)
    BY DEF FrameInv, FrameIntact
  <2> QED
    BY <1>1, <2>1 DEF Verdicts
<1>3. due \in [BOOLEAN -> Nat] /\ due[FALSE] \in Nat
  BY DEF FrameInv, OwnerInv, TypeOK
<1>4. ASSUME Answering PROVE due'[FALSE] = IF body = "good" THEN due[FALSE] ELSE due[FALSE] + 1
  <2>1. due' = [due EXCEPT ![body = "good"] = @ + 1]
    BY <1>1, <1>4 DEF Owed
  <2>2. CASE body = "good"
    <3>1. (body = "good") = TRUE
      BY <2>2
    <3>2. due' = [due EXCEPT ![TRUE] = @ + 1]
      BY <2>1, <3>1
    <3>3. due'[FALSE] = due[FALSE]
      BY <1>3, <3>2
    <3> QED
      BY <2>2, <3>3
  <2>3. CASE body # "good"
    <3>1. (body = "good") = FALSE
      BY <2>3
    <3>2. due' = [due EXCEPT ![FALSE] = @ + 1]
      BY <2>1, <3>1
    <3>3. due'[FALSE] = due[FALSE] + 1
      BY <1>3, <3>2
    <3> QED
      BY <2>3, <3>3
  <2> QED
    BY <2>2, <2>3
<1>6. ASSUME Answering, due[FALSE] > 0 \/ body # "good" PROVE due'[FALSE] > 0
  <2> DEFINE d == due[FALSE]
             e == due'[FALSE]
  <2>1. d \in Nat /\ e = (IF body = "good" THEN d ELSE d + 1) /\ (d > 0 \/ body # "good")
    BY <1>3, <1>4, <1>6
  <2> HIDE DEF d, e
  <2>2. e > 0
    BY ONLY <2>1
  <2> QED
    BY <2>2 DEF e
<1>5. ASSUME Answering, NEW k \in 1 .. handed, sent[k].body # "good", Refusal(k) PROVE Refusal(k)'
  <2>1. CASE \E o \in out : ~o.valid
    BY <1>1, <2>1 DEF Refusal
  <2>2. CASE due[FALSE] > 0
    <3>1. due'[FALSE] > 0
      BY <1>5, <1>6, <2>2
    <3> QED
      BY <3>1 DEF Refusal
  <2>3. CASE \E u \in tasks : u.frame = k
    <3>1. PICK u \in tasks : u.frame = k
      BY <2>3
    <3>2. CASE u = t
      <4>1. body # "good"
        BY <1>2, <1>5, <3>1, <3>2
      <4>2. due'[FALSE] > 0
        BY <1>5, <1>6, <4>1
      <4> QED
        BY <4>2 DEF Refusal
    <3>3. CASE u # t
      BY <1>1, <3>1, <3>3 DEF Refusal
    <3> QED
      BY <3>2, <3>3
  <2> QED
    BY <1>5, <2>1, <2>2, <2>3 DEF Refusal
<1> QED
  BY <1>1, <1>5, RefusalKept DEF RefusedAnswered

\* An answer that is due is posted.
LEMMA AnswerRefuses ==
  ASSUME FrameInv, RefusedAnswered, NEW valid \in BOOLEAN, NEW b \in Buffers, Answer(valid, b)
  PROVE  RefusedAnswered'
<1>1. /\ due' = [due EXCEPT ![valid] = @ - 1] /\ out' = out \cup {[buf |-> b, valid |-> valid]}
      /\ UNCHANGED <<open, sent, handed, tasks>>
  BY DEF Answer, peerVars, readVars
<1>2. due \in [BOOLEAN -> Nat]
  BY DEF FrameInv, OwnerInv, TypeOK
<1>3. ASSUME NEW k \in 1 .. handed, Refusal(k) PROVE Refusal(k)'
  <2>1. CASE valid = FALSE
    <3>1. [buf |-> b, valid |-> valid].valid = FALSE
      BY <2>1
    <3> QED
      BY <1>1, <3>1 DEF Refusal
  <2>2. CASE valid = TRUE
    <3>1. due'[FALSE] = due[FALSE]
      BY <1>1, <1>2, <2>2
    <3> QED
      BY <1>1, <1>3, <3>1 DEF Refusal
  <2> QED
    BY <2>1, <2>2
<1> QED
  BY <1>1, <1>3, RefusalKept

\* Every step.
LEMMA NextRefuses ==
  ASSUME FrameInv, ReadGoesOn, RefusedAnswered, [Next]_vars PROVE RefusedAnswered'
<1>1. CASE Business
  BY <1>1, BusinessRefuses
<1>2. ASSUME NEW valid \in BOOLEAN, NEW b \in Buffers, Answer(valid, b) PROVE RefusedAnswered'
  BY <1>2, AnswerRefuses
<1>3. ASSUME NEW h \in Headers, PeerSend(h) PROVE RefusedAnswered'
  <2>1. sent' = Append(sent, h) /\ UNCHANGED <<open, handed, tasks, due, out>>
    BY <1>3 DEF PeerSend, readVars, workVars
  <2>2. sent \in Seq(Headers) /\ Len(sent) \in Nat
    BY FrameTypes
  <2>3. ASSUME Answering, open, NEW k \in 1 .. handed, sent'[k].body # "good" PROVE Refusal(k)'
    <3>1. k \in 1 .. Len(sent)
      BY <2>2, <2>3, HandedSent
    <3>2. sent'[k] = sent[k]
      BY <2>1, <2>2, <3>1
    <3>3. Refusal(k)
      BY <2>3, <3>2 DEF RefusedAnswered
    <3> QED
      BY <2>1, <3>3 DEF Refusal
  <2> QED
    BY <2>1, <2>3 DEF RefusedAnswered
<1>4. ASSUME NEW h \in Headers, HandleWhole(h) PROVE RefusedAnswered'
  <2>1. /\ tasks' = tasks \cup {[buf |-> recv, frame |-> handed + 1]} /\ handed' = handed + 1
        /\ UNCHANGED <<open, sent, due, out>>
    BY <1>4 DEF HandleWhole, HandOver, peerVars
  <2>2. handed \in Nat
    BY FrameTypes
  <2>3. ASSUME Answering, open, NEW k \in 1 .. handed + 1, sent[k].body # "good" PROVE Refusal(k)'
    <3>1. CASE k = handed + 1
      <4>1. [buf |-> recv, frame |-> handed + 1].frame = k
        BY <3>1
      <4> QED
        BY <2>1, <4>1 DEF Refusal
    <3>2. CASE k # handed + 1
      <4>1. k \in 1 .. handed
        BY <2>2, <3>2
      <4>2. Refusal(k)
        BY <2>3, <4>1 DEF RefusedAnswered
      <4> QED
        BY <2>1, <4>2 DEF Refusal
    <3> QED
      BY <3>1, <3>2
  <2> QED
    BY <2>1, <2>3 DEF RefusedAnswered
<1>5. ASSUME NEW o \in out, WriteDone(o) PROVE RefusedAnswered'
  <2>1. o.valid /\ out' = out \ {o} /\ UNCHANGED <<open, sent, handed, tasks, due>>
    BY <1>5 DEF WriteDone, peerVars, readVars
  <2>2. \A k \in 1 .. handed : Refusal(k) => Refusal(k)'
    BY <2>1 DEF Refusal
  <2> QED
    BY <2>1, <2>2, RefusalKept
<1>6. ASSUME NEW o \in out, WriteRefused(o) \/ WriteFailed(o) PROVE RefusedAnswered'
  BY <1>6 DEF WriteRefused, WriteFailed, RefusedAnswered
<1>7. CASE HandleError \/ \E h \in Headers : HandleIncorrect(h)
  BY <1>7 DEF HandleError, HandleIncorrect, RefusedAnswered
<1>8. CASE \/ UNCHANGED vars \/ PeerLeaves \/ Reactor \/ StartRead \/ HandleAgain
           \/ \E i \in 1 .. Len(rops) : PerformAgain(i)
           \/ \E h \in Headers : HandleNeedMore(h)
  <2>1. UNCHANGED <<open, sent, handed, tasks, due, out>>
    BY <1>8 DEF vars, PeerLeaves, Reactor, PerformRead, PerformEof, PerformAgain, StartRead, HandleAgain,
                HandleNeedMore, peerVars, readVars, workVars
  <2>2. \A k \in 1 .. handed : Refusal(k) => Refusal(k)'
    BY <2>1 DEF Refusal
  <2> QED
    BY <2>1, <2>2, RefusalKept
<1> QED
  BY <1>1, <1>2, <1>3, <1>4, <1>5, <1>6, <1>7, <1>8 DEF Next, Finished, ReadHandler, Writer

(* The business threads of a server and Connection::async_write: a frame that is refused    *)
(* leads to the invalid buffer that closes the connection, through every interleaving of     *)
(* the threads; no step forgets it.                                                           *)
THEOREM RefusedAnsweredHolds == MaxChains = 1 => (SafeSpec => []RefusedAnswered)
<1> SUFFICES ASSUME MaxChains = 1 PROVE SafeSpec => []RefusedAnswered
  OBVIOUS
<1>1. /\ FrameInv /\ ReadGoesOn /\ RefusedAnswered /\ [Next]_vars
        => FrameInv' /\ ReadGoesOn' /\ RefusedAnswered'
  BY NextFrame, NextGoesOn, NextRefuses
<1>2. Init => ReadGoesOn /\ RefusedAnswered
  BY DEF Init, ReadGoesOn, RefusedAnswered
<1> QED
  BY <1>1, <1>2, InitFrame, PTL DEF SafeSpec
=============================================================================
