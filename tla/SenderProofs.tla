---------------------------- MODULE SenderProofs ----------------------------
(***************************************************************************)
(* Theorems about Sender, for any messages of any length.                     *)
(***************************************************************************)
EXTENDS Sender, SequenceTheorems, TLAPS

Ops == [msg : Messages, resumed : BOOLEAN, st : {"waiting", "done", "failed"}, n : Nat]

\* m_send_buffer_list is always empty: handle_write starts what it holds at once.
Types ==
  /\ unsent \subseteq Messages /\ posted \in Seq(Messages) /\ list = <<>> /\ wops \in Seq(Ops)
  /\ left \in [Messages -> Nat] /\ wire \in Seq(Messages \X Nat)
  /\ told \subseteq Messages /\ pool \subseteq Messages

\* A buffer is in one place.
PlaceInv ==
  /\ \A i, j \in 1 .. Len(posted) : posted[i] = posted[j] => i = j
  /\ \A i, j \in 1 .. Len(wops) : wops[i].msg = wops[j].msg => i = j
  /\ \A i \in 1 .. Len(posted) : /\ posted[i] \notin unsent /\ posted[i] \notin pool
                                 /\ \A j \in 1 .. Len(wops) : wops[j].msg # posted[i]
  /\ \A j \in 1 .. Len(wops) : wops[j].msg \notin unsent /\ wops[j].msg \notin pool
  /\ \A m \in unsent : m \notin pool
  /\ \A m \in told : m \in pool /\ left[m] = 0

\* Only a short write leads to another operation for the same buffer.
ShortInv ==
  /\ \A j \in 1 .. Len(wops) : wops[j].resumed \/ Short(wops[j]) => short
  /\ ub => short

\* The bytes of m on wire w are the first k ones, in order.
Prefix(w, m, k) ==
  /\ \A i, j \in 1 .. Len(w) : i < j /\ w[i][1] = m /\ w[j][1] = m => w[i][2] < w[j][2]
  /\ \A i \in 1 .. Len(w) : w[i][1] = m => w[i][2] \in 1 .. k
  /\ \A y \in 1 .. k : \E i \in 1 .. Len(w) : w[i] = <<m, y>>

\* What is on the wire of each message.
ByteInv ==
  /\ \A m \in Messages : left[m] <= Size[m]
  /\ \A j \in 1 .. Len(wops) : wops[j].st = "done" =>
       /\ wops[j].n \in 1 .. left[wops[j].msg]
       /\ Prefix(wire, wops[j].msg, Size[wops[j].msg] - left[wops[j].msg] + wops[j].n)
  /\ \A m \in Messages :
       (\A j \in 1 .. Len(wops) : wops[j].st = "done" => wops[j].msg # m) => Prefix(wire, m, Size[m] - left[m])
  /\ \A m \in unsent : left[m] = Size[m]
  /\ \A i \in 1 .. Len(posted) : left[posted[i]] = Size[posted[i]]

\* The operation is for the rest of a buffer.
Rest(op) == op.st = "waiting" /\ left[op.msg] < Size[op.msg]

Ends(w, m, k) == w # <<>> /\ w[Len(w)] = <<m, k>>

\* While frames are not mixed: a message that is partly on the wire is the last one there,
\* and nothing is written before the rest of it.
FrameInv ==
  ~crowded /\ open /\ ~peerGone =>
    /\ \A j \in 1 .. Len(wops) : Short(wops[j]) =>
         /\ j = Len(wops) /\ \A i \in 1 .. Len(wops) : wops[i].st # "waiting"
         /\ Ends(wire, wops[j].msg, Size[wops[j].msg] - left[wops[j].msg] + wops[j].n)
    /\ \A j \in 1 .. Len(wops) : Rest(wops[j]) =>
         j = 1 /\ Ends(wire, wops[j].msg, Size[wops[j].msg] - left[wops[j].msg])
    /\ wire # <<>> /\ wire[Len(wire)][2] # Size[wire[Len(wire)][1]] =>
         \/ \E j \in 1 .. Len(wops) : Short(wops[j])
         \/ wops # <<>> /\ Rest(wops[1])

\* Nothing waits on a closed socket.
OpenInv == ~open => \A j \in 1 .. Len(wops) : wops[j].st # "waiting"

SenderInv ==
  Types /\ PlaceInv /\ ShortInv /\ ByteInv /\ OpenInv /\ FrameInv /\ FramesContiguous

-----------------------------------------------------------------------------
(* Lemmas about sequences of operations and of bytes.                        *)

\* An operation has the fields it is made with.
LEMMA OpFields ==
  ASSUME NEW op \in Ops
  PROVE  /\ op.msg \in Messages /\ op.resumed \in BOOLEAN /\ op.n \in Nat
         /\ op.st \in {"waiting", "done", "failed"}
BY DEF Ops

\* The operations outstanding.
LEMMA WopsFields ==
  ASSUME Types, NEW j \in 1 .. Len(wops)
  PROVE  /\ wops[j] \in Ops /\ wops[j].msg \in Messages /\ wops[j].n \in Nat
         /\ wops[j].st \in {"waiting", "done", "failed"}
<1>1. wops[j] \in Ops
  BY DEF Types
<1> QED
  BY <1>1, OpFields

\* A new operation.
LEMMA WriteOpFields ==
  ASSUME NEW m \in Messages, NEW r \in BOOLEAN
  PROVE  /\ WriteOp(m, r) \in Ops /\ WriteOp(m, r).msg = m /\ WriteOp(m, r).resumed = r
         /\ WriteOp(m, r).st = (IF open THEN "waiting" ELSE "failed")
BY DEF WriteOp, Ops

\* Operations that are cancelled.
LEMMA AbortedFields ==
  ASSUME NEW s \in Seq(Ops)
  PROVE  /\ Aborted(s) \in Seq(Ops) /\ Len(Aborted(s)) = Len(s)
         /\ \A j \in 1 .. Len(s) :
              /\ Aborted(s)[j].msg = s[j].msg /\ Aborted(s)[j].resumed = s[j].resumed
              /\ Aborted(s)[j].n = s[j].n /\ Aborted(s)[j].st # "waiting"
              /\ Aborted(s)[j].st = s[j].st \/ (s[j].st = "waiting" /\ Aborted(s)[j].st = "failed")
<1> DEFINE f(j) == IF s[j].st = "waiting" THEN [s[j] EXCEPT !.st = "failed"] ELSE s[j]
<1>1. \A j \in 1 .. Len(s) : s[j] \in Ops
  OBVIOUS
<1>2. ASSUME NEW j \in 1 .. Len(s)
      PROVE  /\ f(j) \in Ops /\ f(j).msg = s[j].msg /\ f(j).resumed = s[j].resumed /\ f(j).n = s[j].n
             /\ f(j).st # "waiting" /\ (f(j).st = s[j].st \/ (s[j].st = "waiting" /\ f(j).st = "failed"))
  <2>1. s[j] \in Ops
    BY <1>1
  <2> QED
    BY <2>1 DEF Ops
<1>3. Aborted(s) = [j \in 1 .. Len(s) |-> f(j)]
  <2>1. DOMAIN s = 1 .. Len(s)
    OBVIOUS
  <2> QED
    BY <2>1 DEF Aborted
<1> HIDE DEF f
<1>4. Aborted(s) \in [1 .. Len(s) -> Ops]
  BY <1>2, <1>3
<1>5. Aborted(s) \in Seq(Ops) /\ Len(Aborted(s)) = Len(s)
  <2>1. Len(s) \in Nat
    OBVIOUS
  <2>2. Aborted(s) \in Seq(Ops)
    BY <1>4, <2>1, SeqDef
  <2> QED
    BY <1>4, <2>1, <2>2, LenProperties
<1> QED
  BY <1>2, <1>3, <1>5

\* A function on 1 .. n is a sequence.
LEMMA FunctionSeq ==
  ASSUME NEW S, NEW n \in Nat, NEW f \in [1 .. n -> S] PROVE f \in Seq(S) /\ Len(f) = n
<1>1. f \in Seq(S)
  BY SeqDef
<1> QED
  BY <1>1, LenProperties

\* A sequence followed by one of length one.
LEMMA ConcatOne ==
  ASSUME NEW S, NEW s \in Seq(S), NEW r \in Seq(S), Len(r) = 1
  PROVE  /\ s \o r \in Seq(S) /\ Len(s \o r) = Len(s) + 1 /\ (s \o r)[Len(s) + 1] = r[1]
         /\ \A j \in 1 .. Len(s) : (s \o r)[j] = s[j]
<1>1. /\ s \o r \in Seq(S) /\ Len(s \o r) = Len(s) + 1
      /\ \A i \in 1 .. Len(s) + 1 : (s \o r)[i] = IF i <= Len(s) THEN s[i] ELSE r[i - Len(s)]
  BY ConcatProperties
<1>2. Len(s) \in Nat
  OBVIOUS
<1>3. /\ Len(s) + 1 \in 1 .. Len(s) + 1 /\ ~(Len(s) + 1 <= Len(s)) /\ (Len(s) + 1) - Len(s) = 1
      /\ \A j \in 1 .. Len(s) : j \in 1 .. Len(s) + 1 /\ j <= Len(s)
  BY <1>2
<1> QED
  BY <1>1, <1>3

\* Nothing is resumed when the list is empty; a short write is.
LEMMA ResumesEmpty ==
  ASSUME NEW s \in Seq(Ops) PROVE s \o Resumes(<<>>) = s
<1>1. Resumes(<<>>) = <<>>
  BY DEF Resumes
<1> QED
  BY <1>1

\* The rest of one message.
LEMMA ResumesOne ==
  ASSUME NEW s \in Seq(Ops), NEW m \in Messages
  PROVE  /\ s \o Resumes(<<m>> \o <<>>) \in Seq(Ops)
         /\ Len(s \o Resumes(<<m>> \o <<>>)) = Len(s) + 1
         /\ (s \o Resumes(<<m>> \o <<>>))[Len(s) + 1] = WriteOp(m, TRUE)
         /\ \A j \in 1 .. Len(s) : (s \o Resumes(<<m>> \o <<>>))[j] = s[j]
<1>1. <<m>> \o <<>> = <<m>> /\ Len(<<m>>) = 1 /\ <<m>>[1] = m
  OBVIOUS
<1> DEFINE r == Resumes(<<m>> \o <<>>)
<1>2. WriteOp(m, TRUE) \in Ops
  BY WriteOpFields
<1>3. \A l : l = <<m>> => Resumes(l) = [i \in 1 .. 1 |-> WriteOp(l[i], TRUE)]
  BY <1>1 DEF Resumes
<1>4. r = [i \in 1 .. 1 |-> WriteOp(<<m>>[i], TRUE)]
  BY <1>1, <1>3
<1>5. \A i \in 1 .. 1 : i = 1
  OBVIOUS
<1>6. 1 \in 1 .. 1
  OBVIOUS
<1> HIDE DEF r
<1>7. DOMAIN r = 1 .. 1 /\ r[1] = WriteOp(<<m>>[1], TRUE)
  BY <1>4, <1>6
<1>8. r[1] = WriteOp(m, TRUE)
  BY <1>1, <1>7
<1>9. r \in [1 .. 1 -> Ops]
  <2>1. r = [i \in 1 .. 1 |-> r[i]]
    BY <1>4
  <2> QED
    BY <1>2, <1>5, <1>8, <2>1
<1>10. r \in Seq(Ops) /\ Len(r) = 1
  <2>1. 1 \in Nat
    OBVIOUS
  <2> QED
    BY ONLY <1>9, <2>1, FunctionSeq
<1> QED
  BY <1>8, <1>10, ConcatOne DEF r

\* Bytes k + 1 .. k + n of m are written behind the first k ones.
LEMMA PrefixGrows ==
  ASSUME NEW w \in Seq(Messages \X Nat), NEW m \in Messages, NEW k \in Nat, NEW n \in Nat,
         NEW b, b = [j \in 1 .. n |-> <<m, k + j>>]
  PROVE  /\ w \o b \in Seq(Messages \X Nat) /\ Len(w \o b) = Len(w) + n
         /\ \A i \in 1 .. Len(w) : (w \o b)[i] = w[i]
         /\ \A j \in 1 .. n : (w \o b)[Len(w) + j] = <<m, k + j>>
         /\ Prefix(w, m, k) => Prefix(w \o b, m, k + n)
<1>1. b \in [1 .. n -> Messages \X Nat]
  OBVIOUS
<1>2. b \in Seq(Messages \X Nat) /\ Len(b) = n
  <2>1. b \in Seq(Messages \X Nat)
    BY <1>1, SeqDef
  <2> QED
    BY <1>1, <2>1, LenProperties
<1>3. \A j \in 1 .. n : b[j] = <<m, k + j>>
  OBVIOUS
<1> DEFINE v == w \o b
<1>4. /\ v \in Seq(Messages \X Nat) /\ Len(v) = Len(w) + n
      /\ \A i \in 1 .. Len(w) : v[i] = w[i]
      /\ \A i \in Len(w) + 1 .. Len(w) + n : v[i] = b[i - Len(w)]
  BY <1>2, ConcatProperties
<1> HIDE DEF v
<1>5. Len(w) \in Nat /\ Len(v) \in Nat /\ \A i \in 1 .. Len(v) : i \in 1 .. Len(w) \/ i \in Len(w) + 1 .. Len(w) + n
  BY <1>4
<1>6. \A i \in Len(w) + 1 .. Len(w) + n : i - Len(w) \in 1 .. n /\ v[i] = <<m, k + (i - Len(w))>>
  <2>1. \A i \in Len(w) + 1 .. Len(w) + n : i - Len(w) \in 1 .. n
    BY <1>5
  <2> QED
    BY <1>3, <1>4, <2>1
<1>7. \A j \in 1 .. n : Len(w) + j \in Len(w) + 1 .. Len(w) + n /\ (Len(w) + j) - Len(w) = j /\ Len(w) + j \in 1 .. Len(v)
  BY <1>4, <1>5
<1>8. \A j \in 1 .. n : v[Len(w) + j] = <<m, k + j>>
  BY <1>6, <1>7
<1>9. \A i \in Len(w) + 1 .. Len(w) + n : v[i][1] = m /\ v[i][2] = k + (i - Len(w))
  BY <1>6
<1>10. ASSUME Prefix(w, m, k) PROVE Prefix(v, m, k + n)
  <2>1. ASSUME NEW i \in 1 .. Len(v), NEW j \in 1 .. Len(v), i < j, v[i][1] = m, v[j][1] = m
        PROVE  v[i][2] < v[j][2]
    <3>1. CASE j \in 1 .. Len(w)
      <4>1. i \in 1 .. Len(w)
        BY <1>5, <2>1, <3>1
      <4> QED
        BY <1>4, <1>10, <2>1, <3>1, <4>1 DEF Prefix
    <3>2. CASE i \in 1 .. Len(w) /\ j \in Len(w) + 1 .. Len(w) + n
      <4>1. v[i][2] \in 1 .. k
        BY <1>4, <1>10, <2>1, <3>2 DEF Prefix
      <4>2. v[j][2] = k + (j - Len(w)) /\ j - Len(w) \in 1 .. n
        BY <1>6, <1>9, <3>2
      <4> QED
        BY <4>1, <4>2
    <3>3. CASE i \in Len(w) + 1 .. Len(w) + n /\ j \in Len(w) + 1 .. Len(w) + n
      <4>1. v[i][2] = k + (i - Len(w)) /\ v[j][2] = k + (j - Len(w))
        BY <1>9, <3>3
      <4> QED
        BY <1>5, <2>1, <3>3, <4>1
    <3> QED
      BY <1>5, <3>1, <3>2, <3>3
  <2>2. ASSUME NEW i \in 1 .. Len(v), v[i][1] = m PROVE v[i][2] \in 1 .. k + n
    <3>1. CASE i \in 1 .. Len(w)
      <4>1. v[i][2] \in 1 .. k
        BY <1>4, <1>10, <2>2, <3>1 DEF Prefix
      <4> QED
        BY <4>1
    <3>2. CASE i \in Len(w) + 1 .. Len(w) + n
      <4>1. v[i][2] = k + (i - Len(w)) /\ i - Len(w) \in 1 .. n
        BY <1>6, <1>9, <3>2
      <4> QED
        BY <4>1
    <3> QED
      BY <1>5, <3>1, <3>2
  <2>3. ASSUME NEW y \in 1 .. k + n PROVE \E i \in 1 .. Len(v) : v[i] = <<m, y>>
    <3>1. CASE y \in 1 .. k
      <4>1. PICK i \in 1 .. Len(w) : w[i] = <<m, y>>
        BY <1>10, <3>1 DEF Prefix
      <4>2. i \in 1 .. Len(v)
        BY <1>4, <1>5
      <4> QED
        BY <1>4, <4>1, <4>2
    <3>2. CASE y \notin 1 .. k
      <4>1. y - k \in 1 .. n /\ k + (y - k) = y
        BY <2>3, <3>2
      <4>2. v[Len(w) + (y - k)] = <<m, k + (y - k)>> /\ Len(w) + (y - k) \in 1 .. Len(v)
        BY <1>7, <1>8, <4>1
      <4> QED
        BY <4>1, <4>2
    <3> QED
      BY <3>1, <3>2
  <2> QED
    BY <2>1, <2>2, <2>3 DEF Prefix
<1> QED
  BY <1>4, <1>8, <1>10 DEF v

\* The same for the message that is written,
LEMMA PrefixNext ==
  ASSUME NEW w \in Seq(Messages \X Nat), NEW m \in Messages, NEW k \in Nat, NEW n \in Nat,
         NEW b, b = [j \in 1 .. n |-> <<m, k + j>>], Prefix(w, m, k)
  PROVE  Prefix(w \o b, m, k + n)
BY PrefixGrows

\* and for another one.
LEMMA PrefixOther ==
  ASSUME NEW w \in Seq(Messages \X Nat), NEW m \in Messages, NEW k \in Nat, NEW n \in Nat,
         NEW b, b = [j \in 1 .. n |-> <<m, k + j>>],
         NEW q \in Messages, q # m, NEW l \in Nat, Prefix(w, q, l)
  PROVE  Prefix(w \o b, q, l)
<1> DEFINE v == w \o b
<1>1. /\ Len(w) \in Nat /\ Len(v) = Len(w) + n
      /\ \A i \in 1 .. Len(w) : v[i] = w[i]
      /\ \A j \in 1 .. n : v[Len(w) + j] = <<m, k + j>>
  BY PrefixGrows
<1> HIDE DEF v
<1>2. \A i \in 1 .. Len(v) : i \in 1 .. Len(w) \/ (i - Len(w) \in 1 .. n /\ i = Len(w) + (i - Len(w)))
  BY <1>1
<1>3. \A i \in 1 .. Len(v) : v[i][1] = q => i \in 1 .. Len(w) /\ v[i] = w[i]
  <2>1. ASSUME NEW j \in 1 .. n PROVE v[Len(w) + j][1] = m
    <3>1. v[Len(w) + j] = <<m, k + j>>
      BY <1>1
    <3> QED
      BY ONLY <3>1
  <2>2. ASSUME NEW i \in 1 .. Len(v), i \notin 1 .. Len(w) PROVE v[i][1] = m
    <3>1. PICK j \in 1 .. n : i = Len(w) + j
      BY <1>2, <2>2
    <3> QED
      BY <2>1, <3>1
  <2> QED
    BY <1>1, <2>2
<1>4. \A i \in 1 .. Len(w) : i \in 1 .. Len(v) /\ v[i] = w[i]
  BY <1>1
<1>5. Prefix(v, q, l)
  BY <1>3, <1>4 DEF Prefix
<1> QED
  BY <1>5 DEF v

\* Head and Tail.
LEMMA TailFacts ==
  ASSUME NEW S, NEW s \in Seq(S), s # <<>>
  PROVE  /\ Len(s) \in Nat \ {0} /\ Tail(s) \in Seq(S) /\ Len(Tail(s)) = Len(s) - 1
         /\ Head(s) = s[1] /\ 1 \in 1 .. Len(s)
         /\ \A i \in 1 .. Len(Tail(s)) : i + 1 \in 1 .. Len(s) /\ Tail(s)[i] = s[i + 1]
<1>1. Len(s) \in Nat \ {0} /\ Tail(s) \in Seq(S) /\ Len(Tail(s)) = Len(s) - 1 /\ Head(s) = s[1]
  BY HeadTailProperties
<1>2. \A i \in 1 .. Len(s) - 1 : Tail(s)[i] = s[i + 1]
  BY HeadTailProperties
<1> QED
  BY <1>1, <1>2

-----------------------------------------------------------------------------
(* Steps after which the operations are some of those there were.             *)

\* Operation j is for the buffer that operation f[j] was for.
Moved(f) ==
  /\ wops' \in Seq(Ops)
  /\ f \in [1 .. Len(wops') -> 1 .. Len(wops)]
  /\ \A i, j \in 1 .. Len(wops') : f[i] = f[j] => i = j
  /\ \A j \in 1 .. Len(wops') : wops'[j].msg = wops[f[j]].msg

\* What was written is still to be handled; operations may have been cancelled.
Kept(f) ==
  /\ Moved(f)
  /\ \A j \in 1 .. Len(wops') :
       /\ wops'[j].resumed = wops[f[j]].resumed
       /\ wops'[j].n = wops[f[j]].n
       /\ wops'[j].st = wops[f[j]].st \/ (wops[f[j]].st = "waiting" /\ wops'[j].st = "failed")
  /\ \A k \in 1 .. Len(wops) : wops[k].st = "done" => \E j \in 1 .. Len(wops') : f[j] = k

\* The first e posted closures are gone.
Served(e) ==
  /\ e \in {0, 1} /\ posted' \in Seq(Messages) /\ Len(posted') = Len(posted) - e
  /\ \A i \in 1 .. Len(posted') : i + e \in 1 .. Len(posted) /\ posted'[i] = posted[i + e]

\* No closure has run,
LEMMA ServedNone == ASSUME Types, UNCHANGED posted PROVE Served(0)
<1>1. Len(posted) \in Nat
  BY DEF Types
<1>2. \A i \in 1 .. Len(posted) : i + 0 = i
  BY <1>1
<1>3. Len(posted) - 0 = Len(posted)
  BY <1>1
<1> QED
  BY <1>2, <1>3 DEF Served, Types

\* or the oldest one.
LEMMA ServedOne == ASSUME Types, posted # <<>>, posted' = Tail(posted) PROVE Served(1)
<1>1. posted \in Seq(Messages)
  BY DEF Types
<1> QED
  BY <1>1, TailFacts DEF Served

\* Nothing happened to the operations.
LEMMA KeptSame == ASSUME Types, UNCHANGED wops PROVE Kept([j \in 1 .. Len(wops) |-> j])
BY DEF Kept, Moved, Types

\* The waiting ones are cancelled.
LEMMA KeptAborted == ASSUME Types, wops' = Aborted(wops) PROVE Kept([j \in 1 .. Len(wops) |-> j])
<1> DEFINE f == [j \in 1 .. Len(wops) |-> j]
<1>1. /\ wops' \in Seq(Ops) /\ Len(wops') = Len(wops)
      /\ \A j \in 1 .. Len(wops) :
              /\ wops'[j].msg = wops[j].msg /\ wops'[j].resumed = wops[j].resumed
              /\ wops'[j].n = wops[j].n
              /\ wops'[j].st = wops[j].st \/ (wops[j].st = "waiting" /\ wops'[j].st = "failed")
  BY AbortedFields DEF Types
<1>2. f \in [1 .. Len(wops) -> 1 .. Len(wops)] /\ \A j \in 1 .. Len(wops) : f[j] = j
  OBVIOUS
<1> HIDE DEF f
<1>3. Kept(f)
  BY <1>1, <1>2 DEF Kept, Moved
<1> QED
  BY <1>3 DEF f

\* A failed operation is handled, the others are cancelled.
LEMMA KeptDropped ==
  ASSUME Types, wops # <<>>, wops[1].st = "failed", wops' = Aborted(Tail(wops) \o Resumes(<<>>))
  PROVE  Kept([j \in 1 .. Len(wops') |-> j + 1]) /\ \A j \in 1 .. Len(wops') : wops'[j].st # "waiting"
<1> DEFINE f == [j \in 1 .. Len(wops') |-> j + 1]
           t == Tail(wops)
<1>1. /\ Len(wops) \in Nat \ {0} /\ t \in Seq(Ops) /\ Len(t) = Len(wops) - 1
      /\ \A i \in 1 .. Len(t) : i + 1 \in 1 .. Len(wops) /\ t[i] = wops[i + 1]
  BY TailFacts DEF Types
<1> HIDE DEF t
<1>2. wops' = Aborted(t)
  BY <1>1, ResumesEmpty DEF t
<1>3. /\ wops' \in Seq(Ops) /\ Len(wops') = Len(t)
      /\ \A j \in 1 .. Len(t) :
              /\ wops'[j].msg = t[j].msg /\ wops'[j].resumed = t[j].resumed
              /\ wops'[j].n = t[j].n /\ wops'[j].st # "waiting"
              /\ wops'[j].st = t[j].st \/ (t[j].st = "waiting" /\ wops'[j].st = "failed")
  BY <1>1, <1>2, AbortedFields
<1>4. f \in [1 .. Len(wops') -> 1 .. Len(wops)] /\ \A j \in 1 .. Len(wops') : f[j] = j + 1
  BY <1>1, <1>3
<1>5. \A k \in 1 .. Len(wops) : wops[k].st = "done" => k - 1 \in 1 .. Len(wops') /\ (k - 1) + 1 = k
  <2>1. \A k \in 1 .. Len(wops) : k # 1 => k - 1 \in 1 .. Len(wops') /\ (k - 1) + 1 = k
    BY <1>1, <1>3
  <2> QED
    BY <2>1
<1>6. \A i, j \in 1 .. Len(wops') : f[i] = f[j] => i = j
  BY <1>4
<1> HIDE DEF f
<1>7. \A k \in 1 .. Len(wops) : wops[k].st = "done" => \E j \in 1 .. Len(wops') : f[j] = k
  BY <1>4, <1>5
<1>8. \A j \in 1 .. Len(wops') : t[j] = wops[f[j]]
  BY <1>1, <1>3, <1>4
<1>9. Kept(f)
  BY <1>3, <1>4, <1>6, <1>7, <1>8 DEF Kept, Moved
<1> QED
  BY <1>3, <1>9 DEF f

\* A buffer is still in one place: what goes back to the pool is not posted and not in an operation.
LEMMA PlaceMoved ==
  ASSUME Types, PlaceInv, NEW f, Moved(f), NEW e, Served(e), unsent' = unsent,
         \A m \in pool' : \/ m \in pool
                          \/ e = 1 /\ posted # <<>> /\ m = posted[1]
                          \/ \E k \in 1 .. Len(wops) : m = wops[k].msg /\ \A j \in 1 .. Len(wops') : f[j] # k,
         \A m \in told' : m \in pool' /\ left'[m] = 0
  PROVE  PlaceInv'
<1>1. /\ e \in {0, 1} /\ posted' \in Seq(Messages) /\ Len(posted') = Len(posted) - e
      /\ \A i \in 1 .. Len(posted') : i + e \in 1 .. Len(posted) /\ posted'[i] = posted[i + e]
  BY DEF Served
<1>2. \A j \in 1 .. Len(wops') : f[j] \in 1 .. Len(wops) /\ wops'[j].msg = wops[f[j]].msg
  BY DEF Moved
<1>3. \A i, j \in 1 .. Len(wops') : f[i] = f[j] => i = j
  BY DEF Moved
<1>4. \A i, j \in 1 .. Len(posted') : posted'[i] = posted'[j] => i = j
  <2> SUFFICES ASSUME NEW i \in 1 .. Len(posted'), NEW j \in 1 .. Len(posted'), posted'[i] = posted'[j]
               PROVE  i = j
    OBVIOUS
  <2> DEFINE k == i + e
             l == j + e
  <2>1. k \in 1 .. Len(posted) /\ l \in 1 .. Len(posted) /\ posted[k] = posted[l]
    BY <1>1
  <2>2. k = l => i = j
    BY <1>1
  <2> HIDE DEF k, l
  <2> QED
    BY <2>1, <2>2 DEF PlaceInv
<1>10. \A i \in 1 .. Len(posted') : \E k \in 1 .. Len(posted) : posted'[i] = posted[k]
  BY <1>1
<1>5. \A i, j \in 1 .. Len(wops') : wops'[i].msg = wops'[j].msg => i = j
  BY <1>2, <1>3 DEF PlaceInv
<1>6. ASSUME NEW i \in 1 .. Len(posted')
      PROVE  posted'[i] \notin unsent' /\ \A j \in 1 .. Len(wops') : wops'[j].msg # posted'[i]
  <2>1. PICK k \in 1 .. Len(posted) : posted'[i] = posted[k]
    BY <1>10
  <2>2. posted[k] \notin unsent /\ \A j \in 1 .. Len(wops) : wops[j].msg # posted[k]
    BY DEF PlaceInv
  <2> QED
    BY <1>2, <2>1, <2>2
<1>7. \A j \in 1 .. Len(wops') : wops'[j].msg \notin unsent'
  BY <1>2 DEF PlaceInv
<1>8. posted # <<>> => 1 \in 1 .. Len(posted)
  <2>1. posted \in Seq(Messages)
    BY DEF Types
  <2> QED
    BY <2>1, TailFacts
<1>9. ASSUME NEW m \in pool'
      PROVE  /\ m \notin unsent' /\ \A i \in 1 .. Len(posted') : posted'[i] # m
             /\ \A j \in 1 .. Len(wops') : wops'[j].msg # m
  <2>1. CASE m \in pool
    BY <1>10, <1>2, <2>1 DEF PlaceInv
  <2>2. CASE e = 1 /\ posted # <<>> /\ m = posted[1]
    <3>1. \A i \in 1 .. Len(posted') : i + 1 # 1
      OBVIOUS
    <3>2. \A i \in 1 .. Len(posted') : posted'[i] # m
      BY <1>1, <1>8, <2>2, <3>1 DEF PlaceInv
    <3> QED
      BY <1>2, <1>8, <2>2, <3>2 DEF PlaceInv
  <2>3. CASE \E k \in 1 .. Len(wops) : m = wops[k].msg /\ \A j \in 1 .. Len(wops') : f[j] # k
    <3>1. PICK k \in 1 .. Len(wops) : m = wops[k].msg /\ \A j \in 1 .. Len(wops') : f[j] # k
      BY <2>3
    <3>2. \A j \in 1 .. Len(wops') : wops'[j].msg # m
      BY <1>2, <3>1 DEF PlaceInv
    <3> QED
      BY <1>1, <3>1, <3>2 DEF PlaceInv
  <2> QED
    BY <1>9, <2>1, <2>2, <2>3
<1> QED
  BY <1>4, <1>5, <1>6, <1>7, <1>9 DEF PlaceInv

\* No write was short that was not before.
LEMMA ShortKept ==
  ASSUME Types, ShortInv, NEW f, Kept(f), UNCHANGED <<left, short>>, ub' => short PROVE ShortInv'
<1>1. \A j \in 1 .. Len(wops') :
        /\ f[j] \in 1 .. Len(wops) /\ wops'[j].msg = wops[f[j]].msg /\ wops'[j].resumed = wops[f[j]].resumed
        /\ wops'[j].n = wops[f[j]].n /\ (wops'[j].st = "done" => wops[f[j]].st = "done")
  BY DEF Kept, Moved
<1>2. \A j \in 1 .. Len(wops') : wops'[j].st = "done" /\ wops'[j].n < left'[wops'[j].msg] => short'
  BY <1>1 DEF ShortInv, Short
<1>3. \A j \in 1 .. Len(wops') : wops'[j].resumed => short'
  BY <1>1 DEF ShortInv
<1> QED
  BY <1>2, <1>3 DEF ShortInv, Short

\* The wire and the buffers' counts are as they were.
LEMMA ByteKept ==
  ASSUME Types, ByteInv, NEW f, Kept(f), NEW e, Served(e), UNCHANGED <<left, wire, unsent>> PROVE ByteInv'
<1>1. \A j \in 1 .. Len(wops') :
        /\ f[j] \in 1 .. Len(wops) /\ wops'[j].msg = wops[f[j]].msg
        /\ wops'[j].n = wops[f[j]].n /\ (wops'[j].st = "done" <=> wops[f[j]].st = "done")
  BY DEF Kept, Moved
<1>2. \A k \in 1 .. Len(wops) : wops[k].st = "done" => \E j \in 1 .. Len(wops') : f[j] = k
  BY DEF Kept
<1>3. \A i \in 1 .. Len(posted') : i + e \in 1 .. Len(posted) /\ posted'[i] = posted[i + e]
  BY DEF Served
<1>4. \A m \in Messages : left'[m] <= Size[m]
  BY DEF ByteInv
<1>5. \A j \in 1 .. Len(wops') : wops'[j].st = "done" =>
       /\ wops'[j].n \in 1 .. left'[wops'[j].msg]
       /\ Prefix(wire', wops'[j].msg, Size[wops'[j].msg] - left'[wops'[j].msg] + wops'[j].n)
  BY <1>1 DEF ByteInv
<1>6. ASSUME NEW m \in Messages, \A j \in 1 .. Len(wops') : wops'[j].st = "done" => wops'[j].msg # m
      PROVE  Prefix(wire', m, Size[m] - left'[m])
  <2>1. \A k \in 1 .. Len(wops) : wops[k].st = "done" => wops[k].msg # m
    BY <1>1, <1>2, <1>6
  <2> QED
    BY <2>1 DEF ByteInv
<1>7. \A m \in unsent' : left'[m] = Size[m]
  BY DEF ByteInv
<1>8. \A i \in 1 .. Len(posted') : left'[posted'[i]] = Size[posted'[i]]
  BY <1>3 DEF ByteInv
<1>9. (\A j \in 1 .. Len(wops) : wops[j].st = "done" =>
       /\ wops[j].n \in 1 .. left[wops[j].msg]
       /\ Prefix(wire, wops[j].msg, Size[wops[j].msg] - left[wops[j].msg] + wops[j].n))'
  BY <1>5 DEF Prefix
<1>10. (\A m \in Messages :
       (\A j \in 1 .. Len(wops) : wops[j].st = "done" => wops[j].msg # m) => Prefix(wire, m, Size[m] - left[m]))'
  BY <1>6 DEF Prefix
<1> QED
  BY <1>4, <1>7, <1>8, <1>9, <1>10 DEF ByteInv

-----------------------------------------------------------------------------
(* Steps of a connection that closes or whose peer is gone.                  *)

\* Such a step leaves nothing of FrameInv to show.
LEMMA Closing ==
  ASSUME SenderInv, NEW f, Kept(f), NEW e, Served(e),
         UNCHANGED <<unsent, list, left, wire, told, short, crowded>>, ub' => short,
         \A m \in pool' : m \in pool \/ (e = 1 /\ posted # <<>> /\ m = posted[1]), pool \subseteq pool',
         ~open' \/ peerGone', ~open' => \A j \in 1 .. Len(wops') : wops'[j].st # "waiting"
  PROVE  SenderInv'
<1> USE DEF SenderInv
<1>1. posted # <<>> => posted[1] \in Messages
  <2>1. posted \in Seq(Messages)
    BY DEF Types
  <2> QED
    BY <2>1, TailFacts
<1>2. Types'
  <2>1. wops' \in Seq(Ops) /\ posted' \in Seq(Messages)
    BY DEF Kept, Moved, Served
  <2>2. pool' \subseteq Messages
    BY <1>1 DEF Types
  <2> QED
    BY <2>1, <2>2 DEF Types
<1>3. PlaceInv'
  <2>1. Moved(f)
    BY DEF Kept
  <2>2. \A m \in told' : m \in pool' /\ left'[m] = 0
    BY DEF PlaceInv
  <2> QED
    BY <2>1, <2>2, PlaceMoved
<1>4. ShortInv'
  BY ShortKept
<1>5. ByteInv'
  BY ByteKept
<1>6. OpenInv'
  BY DEF OpenInv
<1>7. FrameInv'
  BY DEF FrameInv
<1>8. FramesContiguous'
  BY DEF FramesContiguous
<1> QED
  BY <1>2, <1>3, <1>4, <1>5, <1>6, <1>7, <1>8

\* The operation at the front holds the connection, unless a write was short.
LEMMA FrontAlive ==
  ASSUME Types, ShortInv, wops # <<>>
  PROVE  /\ wops[1].resumed \/ ~Alive => short
         /\ Head(wops) = wops[1] /\ 1 \in 1 .. Len(wops)
<1>1. wops \in Seq(Ops)
  BY DEF Types
<1>2. 1 \in 1 .. Len(wops) /\ Head(wops) = wops[1]
  BY <1>1, TailFacts
<1>3. wops[1].resumed => short
  BY <1>2 DEF ShortInv
<1>4. ~wops[1].resumed => Alive
  BY <1>2 DEF Alive, Holders
<1> QED
  BY <1>2, <1>3, <1>4

\* A posted closure that is refused.
LEMMA RunRefusedInv == ASSUME SenderInv, RunRefused PROVE SenderInv'
<1>1. Types /\ posted # <<>> /\ posted' = Tail(posted) /\ wops' = Aborted(wops) /\ open' = FALSE
  BY DEF RunRefused, Close, SenderInv
<1>2. Served(1)
  BY <1>1, ServedOne
<1>3. Kept([j \in 1 .. Len(wops) |-> j])
  BY <1>1, KeptAborted
<1>4. \A j \in 1 .. Len(wops') : wops'[j].st # "waiting"
  <2>1. wops \in Seq(Ops)
    BY <1>1 DEF Types
  <2> QED
    BY <1>1, <2>1, AbortedFields
<1>5. pool' = pool \cup {posted[1]}
  <2>1. posted \in Seq(Messages)
    BY <1>1 DEF Types
  <2>2. Head(posted) = posted[1]
    BY <1>1, <2>1, TailFacts
  <2> QED
    BY <2>2 DEF RunRefused, Recycle
<1>6. UNCHANGED <<unsent, list, left, wire, told, short, crowded>> /\ (ub' => short)
  BY DEF RunRefused, history, SenderInv, ShortInv
<1> HIDE DEF SenderInv
<1>7. \A m \in pool' : m \in pool \/ (1 = 1 /\ posted # <<>> /\ m = posted[1])
  BY <1>1, <1>5
<1>8. pool \subseteq pool'
  BY <1>5
<1> QED
  BY <1>1, <1>2, <1>3, <1>4, <1>6, <1>7, <1>8, Closing

\* The socket reports that the peer is gone.
LEMMA PerformErrorInv == ASSUME SenderInv, NEW i \in 1 .. Len(wops), PerformError(i) PROVE SenderInv'
<1>1. Types /\ peerGone' /\ wops' = [wops EXCEPT ![i].st = "failed"] /\ wops[i].st = "waiting" /\ UNCHANGED <<posted, open>>
  BY DEF PerformError, connVars, SenderInv, OldestWaiting
<1>2. Served(0)
  BY <1>1, ServedNone
<1>3. wops \in Seq(Ops) /\ Len(wops) \in Nat /\ \A j \in 1 .. Len(wops) : wops[j] \in Ops
  BY <1>1 DEF Types
<1>4. /\ Len(wops') = Len(wops) /\ DOMAIN wops' = DOMAIN wops
      /\ \A j \in 1 .. Len(wops) : wops'[j] = IF j = i THEN [wops[i] EXCEPT !.st = "failed"] ELSE wops[j]
  BY <1>1, <1>3
<1> DEFINE o == [wops[i] EXCEPT !.st = "failed"]
<1>5. o \in Ops /\ o.msg = wops[i].msg /\ o.resumed = wops[i].resumed /\ o.n = wops[i].n /\ o.st = "failed"
  BY <1>3 DEF Ops
<1> HIDE DEF o
<1>6. \A j \in 1 .. Len(wops) : wops'[j] = IF j = i THEN o ELSE wops[j]
  BY <1>4 DEF o
<1>7. wops' \in Seq(Ops)
  <2>1. wops' = [wops EXCEPT ![i] = o]
    BY <1>1 DEF o
  <2> QED
    BY <1>3, <1>5, <2>1
<1> DEFINE f == [j \in 1 .. Len(wops) |-> j]
<1>8. f \in [1 .. Len(wops) -> 1 .. Len(wops)] /\ \A j \in 1 .. Len(wops) : f[j] = j
  OBVIOUS
<1> HIDE DEF f
<1>9. Kept(f)
  BY <1>1, <1>4, <1>5, <1>6, <1>7, <1>8 DEF Kept, Moved
<1>10. UNCHANGED <<unsent, list, left, wire, told, pool, short, crowded>> /\ (ub' => short)
  BY DEF PerformError, dataVars, history, SenderInv, ShortInv
<1>11. ~open' => \A j \in 1 .. Len(wops') : wops'[j].st # "waiting"
  BY <1>1, <1>4, <1>5, <1>6 DEF SenderInv, OpenInv
<1>12. pool \subseteq pool' /\ \A m \in pool' : m \in pool \/ (0 = 1 /\ posted # <<>> /\ m = posted[1])
  BY <1>10
<1> QED
  BY <1>1, <1>2, <1>9, <1>10, <1>11, <1>12, Closing

\* The peer leaves.
LEMMA PeerLeavesInv == ASSUME SenderInv, PeerLeaves PROVE SenderInv'
<1>1. Types /\ peerGone' /\ UNCHANGED <<open, unsent, posted, list, wops, left, wire, told, pool, short, crowded, ub>>
  BY DEF PeerLeaves, dataVars, history, SenderInv
<1>2. Served(0)
  BY <1>1, ServedNone
<1>3. Kept([j \in 1 .. Len(wops) |-> j])
  BY <1>1, KeptSame
<1>4. (ub' => short) /\ (~open' => \A j \in 1 .. Len(wops') : wops'[j].st # "waiting")
  BY <1>1 DEF SenderInv, OpenInv, ShortInv
<1>5. pool \subseteq pool' /\ \A m \in pool' : m \in pool \/ (0 = 1 /\ posted # <<>> /\ m = posted[1])
  BY <1>1
<1> QED
  BY <1>1, <1>2, <1>3, <1>4, <1>5, Closing

\* The read half closes the connection.
LEMMA ReadEndsInv == ASSUME SenderInv, ReadEnds PROVE SenderInv'
<1>1. Types /\ ~open' /\ wops' = Aborted(wops) /\ UNCHANGED <<unsent, posted, list, left, wire, told, pool, short, crowded, ub>>
  BY DEF ReadEnds, Close, dataVars, history, SenderInv
<1>2. Served(0)
  BY <1>1, ServedNone
<1>3. Kept([j \in 1 .. Len(wops) |-> j])
  BY <1>1, KeptAborted
<1>4. \A j \in 1 .. Len(wops') : wops'[j].st # "waiting"
  <2>1. wops \in Seq(Ops)
    BY <1>1 DEF Types
  <2> QED
    BY <1>1, <2>1, AbortedFields
<1>5. ub' => short
  BY <1>1 DEF SenderInv, ShortInv
<1>6. pool \subseteq pool' /\ \A m \in pool' : m \in pool \/ (0 = 1 /\ posted # <<>> /\ m = posted[1])
  BY <1>1
<1> QED
  BY <1>1, <1>2, <1>3, <1>4, <1>5, <1>6, Closing

\* A write has failed.
LEMMA HandleWriteErrorInv == ASSUME SenderInv, HandleWriteError PROVE SenderInv'
<1>1. /\ Types /\ ShortInv /\ wops # <<>> /\ Head(wops).st = "failed" /\ ~open' /\ ub' = ~Alive
      /\ wops' = Aborted(Tail(wops) \o Resumes(<<>>))
      /\ UNCHANGED <<unsent, posted, list, left, wire, told, pool, short, crowded>>
  BY DEF HandleWriteError, Front, Close, dataVars, SenderInv, Types
<1>2. Served(0)
  BY <1>1, ServedNone
<1>3. Head(wops) = wops[1] /\ (ub' => short)
  BY <1>1, FrontAlive
<1>4. Kept([j \in 1 .. Len(wops') |-> j + 1]) /\ \A j \in 1 .. Len(wops') : wops'[j].st # "waiting"
  BY <1>1, <1>3, KeptDropped
<1>5. pool \subseteq pool' /\ \A m \in pool' : m \in pool \/ (0 = 1 /\ posted # <<>> /\ m = posted[1])
  BY <1>1
<1> QED
  BY <1>1, <1>2, <1>3, <1>4, <1>5, Closing

-----------------------------------------------------------------------------
(* async_write and the closure it posts.                                     *)

\* The frames are as they were.
LEMMA FrameSame ==
  ASSUME FrameInv, FramesContiguous, UNCHANGED <<open, peerGone, wops, left, wire, crowded>>
  PROVE  FrameInv' /\ FramesContiguous'
BY DEF FrameInv, FramesContiguous, Short, Rest, Ends

\* A business thread posts a message.
LEMMA AsyncWriteInv == ASSUME SenderInv, NEW m \in Messages, AsyncWrite(m) PROVE SenderInv'
<1> USE DEF SenderInv
<1>1. /\ m \in unsent /\ unsent' = unsent \ {m} /\ posted' = Append(posted, m)
      /\ UNCHANGED <<open, peerGone, list, wops, left, wire, told, pool, short, crowded, ub>>
  BY DEF AsyncWrite, connVars, dataVars, history
<1>2. /\ posted' \in Seq(Messages) /\ Len(posted) \in Nat /\ Len(posted') = Len(posted) + 1
      /\ \A i \in 1 .. Len(posted') : \/ i \in 1 .. Len(posted) /\ posted'[i] = posted[i]
                                      \/ i = Len(posted) + 1 /\ posted'[i] = m
  BY <1>1 DEF Types
<1>3. Types'
  BY <1>1, <1>2 DEF Types
<1>4. PlaceInv'
  <2>1. m \notin pool /\ \A i \in 1 .. Len(posted) : posted[i] # m
    BY <1>1 DEF PlaceInv
  <2>2. \A j \in 1 .. Len(wops) : wops[j].msg # m
    BY <1>1 DEF PlaceInv
  <2>3. \A i, j \in 1 .. Len(posted') : posted'[i] = posted'[j] => i = j
    BY <1>2, <2>1 DEF PlaceInv
  <2>4. \A i \in 1 .. Len(posted') : /\ posted'[i] \notin unsent' /\ posted'[i] \notin pool'
                                     /\ \A j \in 1 .. Len(wops') : wops'[j].msg # posted'[i]
    BY <1>1, <1>2, <2>1, <2>2 DEF PlaceInv
  <2>5. /\ \A i, j \in 1 .. Len(wops') : wops'[i].msg = wops'[j].msg => i = j
        /\ \A j \in 1 .. Len(wops') : wops'[j].msg \notin unsent' /\ wops'[j].msg \notin pool'
        /\ \A q \in unsent' : q \notin pool'
        /\ \A q \in told' : q \in pool' /\ left'[q] = 0
    BY <1>1 DEF PlaceInv
  <2> QED
    BY <2>3, <2>4, <2>5 DEF PlaceInv
<1>5. ShortInv'
  BY <1>1 DEF ShortInv, Short
<1>6. ByteInv'
  <2>1. left[m] = Size[m]
    BY <1>1 DEF ByteInv
  <2>2. \A i \in 1 .. Len(posted') : left'[posted'[i]] = Size[posted'[i]]
    BY <1>1, <1>2, <2>1 DEF ByteInv
  <2>3. \A q \in unsent' : left'[q] = Size[q]
    BY <1>1 DEF ByteInv
  <2>4. /\ \A q \in Messages : left'[q] <= Size[q]
        /\ \A j \in 1 .. Len(wops') : wops'[j].st = "done" =>
             /\ wops'[j].n \in 1 .. left'[wops'[j].msg]
             /\ Prefix(wire', wops'[j].msg, Size[wops'[j].msg] - left'[wops'[j].msg] + wops'[j].n)
        /\ \A q \in Messages :
             (\A j \in 1 .. Len(wops') : wops'[j].st = "done" => wops'[j].msg # q) => Prefix(wire', q, Size[q] - left'[q])
    BY <1>1 DEF ByteInv
  <2> QED
    BY <2>2, <2>3, <2>4 DEF ByteInv, Prefix
<1>7. OpenInv'
  BY <1>1 DEF OpenInv
<1>8. FrameInv' /\ FramesContiguous'
  BY <1>1, FrameSame
<1> QED
  BY <1>3, <1>4, <1>5, <1>6, <1>7, <1>8

\* What the posted closure does when it writes.
LEMMA RunFacts ==
  ASSUME SenderInv, Run
  PROVE  /\ posted # <<>> /\ Served(1) /\ open /\ posted[1] \in Messages /\ 1 \in 1 .. Len(posted)
         /\ Len(wops) \in Nat /\ Len(wops') = Len(wops) + 1 /\ wops' \in Seq(Ops)
         /\ \A j \in 1 .. Len(wops) : wops'[j] = wops[j]
         /\ wops'[Len(wops) + 1].msg = posted[1] /\ ~wops'[Len(wops) + 1].resumed
         /\ wops'[Len(wops) + 1].st = "waiting"
         /\ crowded' = (crowded \/ \E i \in 1 .. Len(wops) : Short(wops[i]))
         /\ UNCHANGED <<open, peerGone, unsent, list, left, wire, told, pool, short, ub>>
<1>1. Types /\ posted \in Seq(Messages) /\ wops \in Seq(Ops) /\ list = <<>>
  BY DEF SenderInv, Types
<1>2. /\ posted # <<>> /\ posted' = Tail(posted) /\ open
      /\ wops' = Append(wops, WriteOp(Head(posted), FALSE))
      /\ crowded' = (crowded \/ \E i \in 1 .. Len(wops) : Short(wops[i]))
      /\ UNCHANGED <<open, peerGone, unsent, list, left, wire, told, pool, short, ub>>
  BY <1>1 DEF Run, connVars, dataVars
<1>3. Served(1) /\ Head(posted) = posted[1] /\ 1 \in 1 .. Len(posted) /\ posted[1] \in Messages
  BY <1>1, <1>2, ServedOne, TailFacts
<1> DEFINE o == WriteOp(posted[1], FALSE)
<1>4. o \in Ops /\ o.msg = posted[1] /\ o.resumed = FALSE /\ o.st = "waiting"
  BY <1>2, <1>3, WriteOpFields
<1> HIDE DEF o
<1>5. wops' = Append(wops, o)
  BY <1>2, <1>3 DEF o
<1>6. /\ wops' \in Seq(Ops) /\ Len(wops') = Len(wops) + 1 /\ \A j \in 1 .. Len(wops) : wops'[j] = wops[j]
      /\ wops'[Len(wops) + 1] = o
  BY <1>1, <1>4, <1>5, AppendProperties
<1>7. Len(wops) \in Nat
  BY <1>1
<1>8. /\ wops'[Len(wops) + 1].msg = posted[1] /\ ~wops'[Len(wops) + 1].resumed
      /\ wops'[Len(wops) + 1].st = "waiting"
  BY <1>4, <1>6
<1> QED
  BY ONLY <1>2, <1>3, <1>6, <1>7, <1>8, Zenon

\* The closure writes the message.
LEMMA RunInv == ASSUME SenderInv, Run PROVE SenderInv'
<1> USE DEF SenderInv
<1> DEFINE m == posted[1]
           N == Len(wops) + 1
<1>1. /\ posted # <<>> /\ Served(1) /\ open /\ m \in Messages /\ 1 \in 1 .. Len(posted)
      /\ Len(wops) \in Nat /\ Len(wops') = N /\ wops' \in Seq(Ops)
      /\ \A j \in 1 .. Len(wops) : wops'[j] = wops[j]
      /\ wops'[N].msg = m /\ ~wops'[N].resumed /\ wops'[N].st = "waiting"
      /\ crowded' = (crowded \/ \E i \in 1 .. Len(wops) : Short(wops[i]))
      /\ UNCHANGED <<open, peerGone, unsent, list, left, wire, told, pool, short, ub>>
  BY RunFacts
<1>2. \A j \in 1 .. Len(wops') : (j \in 1 .. Len(wops) /\ j # N /\ wops'[j] = wops[j]) \/ j = N
  BY <1>1
<1>3. \A j \in 1 .. Len(wops) : j \in 1 .. Len(wops') /\ wops'[j] = wops[j]
  BY <1>1
<1>4. \A i \in 1 .. Len(posted') : \E k \in 1 .. Len(posted) : k # 1 /\ posted'[i] = posted[k]
  <2>1. \A i \in 1 .. Len(posted') : i + 1 \in 1 .. Len(posted) /\ i + 1 # 1 /\ posted'[i] = posted[i + 1]
    BY <1>1 DEF Served
  <2> QED
    BY <2>1
<1>5. /\ m \notin unsent /\ m \notin pool /\ left[m] = Size[m]
      /\ \A j \in 1 .. Len(wops) : wops[j].msg # m
  BY <1>1 DEF PlaceInv, ByteInv
<1>6. \A i \in 1 .. Len(posted') : posted'[i] # m
  BY <1>1, <1>4 DEF PlaceInv
<1> HIDE DEF m, N
<1>7. Types'
  BY <1>1 DEF Types, Served
<1>8. PlaceInv'
  <2>1. \A i, j \in 1 .. Len(posted') : posted'[i] = posted'[j] => i = j
    <3>1. SUFFICES ASSUME NEW i \in 1 .. Len(posted'), NEW j \in 1 .. Len(posted'), posted'[i] = posted'[j]
                   PROVE  i = j
      OBVIOUS
    <3> DEFINE k == i + 1
               l == j + 1
    <3>2. k \in 1 .. Len(posted) /\ l \in 1 .. Len(posted) /\ posted[k] = posted[l]
      BY <1>1, <3>1 DEF Served
    <3>3. k = l => i = j
      OBVIOUS
    <3> HIDE DEF k, l
    <3> QED
      BY <3>2, <3>3 DEF PlaceInv
  <2>2. \A i, j \in 1 .. Len(wops') : wops'[i].msg = wops'[j].msg => i = j
    BY <1>1, <1>2, <1>5 DEF PlaceInv
  <2>3. ASSUME NEW i \in 1 .. Len(posted')
        PROVE  /\ posted'[i] \notin unsent' /\ posted'[i] \notin pool'
               /\ \A j \in 1 .. Len(wops') : wops'[j].msg # posted'[i]
    <3>1. PICK k \in 1 .. Len(posted) : k # 1 /\ posted'[i] = posted[k]
      BY <1>4
    <3>2. posted[k] \notin unsent /\ posted[k] \notin pool /\ \A j \in 1 .. Len(wops) : wops[j].msg # posted[k]
      BY DEF PlaceInv
    <3> QED
      BY <1>1, <1>2, <1>6, <3>1, <3>2
  <2>4. \A j \in 1 .. Len(wops') : wops'[j].msg \notin unsent' /\ wops'[j].msg \notin pool'
    BY <1>1, <1>2, <1>5 DEF PlaceInv
  <2>5. /\ \A q \in unsent' : q \notin pool'
        /\ \A q \in told' : q \in pool' /\ left'[q] = 0
    BY <1>1 DEF PlaceInv
  <2> QED
    BY <2>1, <2>2, <2>3, <2>4, <2>5 DEF PlaceInv
<1>9. ShortInv'
  <2>1. \A j \in 1 .. Len(wops') :
          wops'[j].resumed \/ (wops'[j].st = "done" /\ wops'[j].n < left'[wops'[j].msg]) => short'
    BY <1>1, <1>2 DEF ShortInv, Short
  <2>2. ub' => short'
    BY <1>1 DEF ShortInv
  <2> QED
    BY <2>1, <2>2 DEF ShortInv, Short
<1>10. ByteInv'
  <2>1. \A j \in 1 .. Len(wops') : wops'[j].st = "done" =>
             /\ wops'[j].n \in 1 .. left'[wops'[j].msg]
             /\ Prefix(wire', wops'[j].msg, Size[wops'[j].msg] - left'[wops'[j].msg] + wops'[j].n)
    BY <1>1, <1>2 DEF ByteInv
  <2>2. \A q \in Messages :
             (\A j \in 1 .. Len(wops') : wops'[j].st = "done" => wops'[j].msg # q) => Prefix(wire', q, Size[q] - left'[q])
    BY <1>1, <1>3 DEF ByteInv
  <2>3. \A i \in 1 .. Len(posted') : left'[posted'[i]] = Size[posted'[i]]
    BY <1>1, <1>4 DEF ByteInv
  <2>4. (\A q \in Messages : left'[q] <= Size[q]) /\ \A q \in unsent' : left'[q] = Size[q]
    BY <1>1 DEF ByteInv
  <2> QED
    BY <2>1, <2>2, <2>3, <2>4 DEF ByteInv, Prefix
<1>11. OpenInv'
  BY <1>1 DEF OpenInv
<1>12. FrameInv'
  <2> SUFFICES ASSUME ~crowded', open', ~peerGone'
               PROVE  /\ \A j \in 1 .. Len(wops') : ~(wops'[j].st = "done" /\ wops'[j].n < left'[wops'[j].msg])
                      /\ \A j \in 1 .. Len(wops') : wops'[j].st = "waiting" /\ left'[wops'[j].msg] < Size[wops'[j].msg] =>
                           j = 1 /\ Ends(wire', wops'[j].msg, Size[wops'[j].msg] - left'[wops'[j].msg])
                      /\ wire' # <<>> /\ wire'[Len(wire')][2] # Size[wire'[Len(wire')][1]] =>
                           wops' # <<>> /\ wops'[1].st = "waiting" /\ left'[wops'[1].msg] < Size[wops'[1].msg]
    BY DEF FrameInv, Short, Rest, Ends
  <2>1. ~crowded /\ open /\ ~peerGone /\ \A j \in 1 .. Len(wops) : ~Short(wops[j])
    BY <1>1
  <2>2. \A j \in 1 .. Len(wops') : ~(wops'[j].st = "done" /\ wops'[j].n < left'[wops'[j].msg])
    BY <1>1, <1>2, <2>1 DEF Short
  <2>3. ~(left'[wops'[N].msg] < Size[wops'[N].msg])
    <3>1. Size[m] \in Nat
      BY <1>1, SenderAssumption DEF m
    <3> QED
      BY <1>1, <1>5, <3>1
  <2>4. \A j \in 1 .. Len(wops') : wops'[j].st = "waiting" /\ left'[wops'[j].msg] < Size[wops'[j].msg] =>
          j \in 1 .. Len(wops) /\ wops'[j] = wops[j] /\ Rest(wops[j])
    BY <1>1, <1>2, <2>3 DEF Rest
  <2>5. \A j \in 1 .. Len(wops') : wops'[j].st = "waiting" /\ left'[wops'[j].msg] < Size[wops'[j].msg] =>
          j = 1 /\ Ends(wire', wops'[j].msg, Size[wops'[j].msg] - left'[wops'[j].msg])
    BY <1>1, <2>1, <2>4 DEF FrameInv
  <2>6. ASSUME wire' # <<>>, wire'[Len(wire')][2] # Size[wire'[Len(wire')][1]]
        PROVE  wops' # <<>> /\ wops'[1].st = "waiting" /\ left'[wops'[1].msg] < Size[wops'[1].msg]
    <3>1. wops # <<>> /\ Rest(wops[1])
      BY <1>1, <2>1, <2>6 DEF FrameInv
    <3>2. 1 \in 1 .. Len(wops)
      BY <3>1, TailFacts DEF Types
    <3>3. wops'[1] = wops[1] /\ Len(wops') # 0
      BY <1>1, <1>3, <3>2 DEF N
    <3>4. wops' # <<>>
      BY <3>3
    <3> QED
      BY <1>1, <3>1, <3>3, <3>4 DEF Rest
  <2> QED
    BY <2>2, <2>5, <2>6
<1>13. FramesContiguous'
  BY <1>1 DEF FramesContiguous
<1> QED
  BY <1>7, <1>8, <1>9, <1>10, <1>11, <1>12, <1>13

-----------------------------------------------------------------------------
(* The socket takes bytes.                                                   *)

\* The operation that is performed and the message it is for.
LEMMA PerformFacts ==
  ASSUME SenderInv, NEW i \in 1 .. Len(wops), NEW n \in 1 .. left[wops[i].msg], PerformWrite(i, n)
  PROVE  /\ Len(wops) \in Nat /\ Len(wops') = Len(wops) /\ wops' \in Seq(Ops)
         /\ \A j \in 1 .. Len(wops) : j # i => wops'[j] = wops[j]
         /\ wops'[i].msg = wops[i].msg /\ wops'[i].resumed = wops[i].resumed
         /\ wops'[i].st = "done" /\ wops'[i].n = n
         /\ wops[i].st = "waiting" /\ (\A j \in 1 .. i - 1 : wops[j].st # "waiting") /\ ~peerGone /\ open
         /\ wire' = wire \o [j \in 1 .. n |-> <<wops[i].msg, (Size[wops[i].msg] - left[wops[i].msg]) + j>>]
         /\ (short \/ n < left[wops[i].msg] => short')
         /\ (~crowded' => ~crowded /\ (n < left[wops[i].msg] => i = Len(wops)))
         /\ UNCHANGED <<open, peerGone, unsent, posted, list, left, told, pool, ub>>
<1> DEFINE m == wops[i].msg
<1>1. wops \in Seq(Ops) /\ Len(wops) \in Nat /\ wops[i] \in Ops /\ \A j \in 1 .. Len(wops) : wops[j] \in Ops
  BY DEF SenderInv, Types
<1>2. /\ wops[i].st = "waiting" /\ (\A j \in 1 .. i - 1 : wops[j].st # "waiting") /\ ~peerGone
      /\ wire' = wire \o [j \in 1 .. n |-> <<m, Size[m] - left[m] + j>>]
      /\ wops' = [wops EXCEPT ![i].st = "done", ![i].n = n]
      /\ short' = (short \/ n < left[m])
      /\ crowded' = (crowded \/ (n < left[m] /\ i < Len(wops)))
      /\ UNCHANGED <<open, peerGone, unsent, posted, list, left, told, pool, ub>>
  BY DEF PerformWrite, OldestWaiting, connVars
<1> DEFINE o == [wops[i] EXCEPT !.st = "done", !.n = n]
<1>3. wops' = [wops EXCEPT ![i] = o]
  BY <1>1, <1>2
<1>4. o \in Ops /\ o.msg = m /\ o.resumed = wops[i].resumed /\ o.st = "done" /\ o.n = n
  <2>1. m \in Messages /\ left[m] \in Nat
    BY <1>1, OpFields DEF SenderInv, Types
  <2>2. n \in Nat
    BY <2>1
  <2> QED
    BY <1>1, <2>2 DEF Ops
<1> HIDE DEF o
<1>5. /\ Len(wops') = Len(wops) /\ wops' \in Seq(Ops) /\ wops'[i] = o
      /\ \A j \in 1 .. Len(wops) : j # i => wops'[j] = wops[j]
  BY <1>1, <1>3, <1>4
<1>6. open
  BY <1>2 DEF SenderInv, OpenInv
<1>7. short \/ n < left[m] => short'
  BY <1>2
<1>8. ~crowded' => ~crowded /\ (n < left[m] => i = Len(wops))
  <2>1. i < Len(wops) \/ i = Len(wops)
    BY <1>1
  <2> QED
    BY <1>2, <2>1
<1>9. wops'[i].msg = m /\ wops'[i].resumed = wops[i].resumed /\ wops'[i].st = "done" /\ wops'[i].n = n
  BY <1>4, <1>5
<1> QED
  BY <1>1, <1>2, <1>5, <1>6, <1>7, <1>8, <1>9

\* The bytes of a message and what its buffer counts.
LEMMA ByteNumbers ==
  ASSUME Types, ByteInv, NEW m \in Messages
  PROVE  left[m] \in Nat /\ Size[m] \in Nat \ {0} /\ left[m] <= Size[m] /\ Size[m] - left[m] \in Nat
<1>1. left[m] \in Nat /\ Size[m] \in Nat \ {0} /\ left[m] <= Size[m]
  BY SenderAssumption DEF Types, ByteInv
<1> QED
  BY <1>1

\* Nothing but the counts changes hands: Types, PlaceInv, ShortInv, OpenInv.
LEMMA PerformPlaces ==
  ASSUME SenderInv, NEW i \in 1 .. Len(wops), NEW n \in 1 .. left[wops[i].msg], PerformWrite(i, n)
  PROVE  Types' /\ PlaceInv' /\ ShortInv' /\ OpenInv'
<1> USE DEF SenderInv
<1> DEFINE m == wops[i].msg
           f == [j \in 1 .. Len(wops) |-> j]
<1>1. /\ Len(wops) \in Nat /\ Len(wops') = Len(wops) /\ wops' \in Seq(Ops)
      /\ \A j \in 1 .. Len(wops) : j # i => wops'[j] = wops[j]
      /\ wops'[i].msg = m /\ wops'[i].resumed = wops[i].resumed /\ wops'[i].n = n /\ wops'[i].st = "done"
      /\ wire' = wire \o [j \in 1 .. n |-> <<m, (Size[m] - left[m]) + j>>] /\ open
      /\ (short \/ n < left[m] => short')
      /\ UNCHANGED <<open, peerGone, unsent, posted, list, left, told, pool, ub>>
  BY PerformFacts
<1>2. m \in Messages
  BY WopsFields
<1>3. Size[m] - left[m] \in Nat /\ n \in Nat
  <2>1. Size[m] - left[m] \in Nat /\ left[m] \in Nat
    BY <1>2, ByteNumbers
  <2> QED
    BY <2>1
<1> HIDE DEF m
<1>4. wire' \in Seq(Messages \X Nat)
  <2>1. wire \in Seq(Messages \X Nat)
    BY DEF Types
  <2> QED
    BY <1>1, <1>2, <1>3, <2>1, PrefixGrows
<1>5. Types'
  BY <1>1, <1>4 DEF Types
<1>6. PlaceInv'
  <2>1. f \in [1 .. Len(wops) -> 1 .. Len(wops)] /\ \A j \in 1 .. Len(wops) : f[j] = j
    OBVIOUS
  <2> HIDE DEF f
  <2>2. Moved(f)
    BY <1>1, <2>1 DEF Moved, m
  <2>3. Served(0)
    BY <1>1, ServedNone
  <2>4. \A q \in told' : q \in pool' /\ left'[q] = 0
    BY <1>1 DEF PlaceInv
  <2> QED
    BY <1>1, <2>2, <2>3, <2>4, PlaceMoved
<1>7. ShortInv'
  <2>1. \A j \in 1 .. Len(wops') :
          wops'[j].resumed \/ (wops'[j].st = "done" /\ wops'[j].n < left'[wops'[j].msg]) => short'
    <3>1. \A j \in 1 .. Len(wops') : j # i =>
            (wops'[j].resumed \/ (wops'[j].st = "done" /\ wops'[j].n < left'[wops'[j].msg]) => short')
      BY <1>1 DEF ShortInv, Short
    <3>2. wops'[i].resumed \/ (wops'[i].st = "done" /\ wops'[i].n < left'[wops'[i].msg]) => short'
      BY <1>1 DEF ShortInv
    <3> QED
      BY <3>1, <3>2
  <2>2. ub' => short'
    BY <1>1 DEF ShortInv
  <2> QED
    BY <2>1, <2>2 DEF ShortInv, Short
<1>8. OpenInv'
  BY <1>1 DEF OpenInv
<1> QED
  BY <1>5, <1>6, <1>7, <1>8

\* The bytes taken are the next ones of the message.
LEMMA PerformBytes ==
  ASSUME SenderInv, NEW i \in 1 .. Len(wops), NEW n \in 1 .. left[wops[i].msg], PerformWrite(i, n)
  PROVE  ByteInv'
<1> USE DEF SenderInv
<1> DEFINE m == wops[i].msg
           k == Size[m] - left[m]
<1>1. /\ Len(wops) \in Nat /\ Len(wops') = Len(wops)
      /\ \A j \in 1 .. Len(wops) : j # i => wops'[j] = wops[j]
      /\ wops'[i].msg = m /\ wops'[i].n = n /\ wops'[i].st = "done" /\ wops[i].st = "waiting"
      /\ wire' = wire \o [j \in 1 .. n |-> <<m, k + j>>]
      /\ UNCHANGED <<unsent, posted, left>>
  BY PerformFacts
<1>2. m \in Messages
  BY WopsFields
<1>3. k \in Nat /\ n \in Nat
  <2>1. k \in Nat /\ left[m] \in Nat
    BY <1>2, ByteNumbers
  <2> QED
    BY <2>1
<1>4. \A j \in 1 .. Len(wops) : j # i => wops[j].msg # m
  BY DEF PlaceInv
<1>5. Prefix(wire, m, k)
  BY <1>1, <1>2, <1>4 DEF ByteInv
<1> HIDE DEF m, k
<1>6. /\ Prefix(wire', m, k + n)
      /\ \A q \in Messages \ {m} : \A l \in Nat : Prefix(wire, q, l) => Prefix(wire', q, l)
  <2>1. wire \in Seq(Messages \X Nat)
    BY DEF Types
  <2> DEFINE b == [j \in 1 .. n |-> <<m, k + j>>]
  <2>2. wire' = wire \o b
    BY <1>1
  <2>3. b = [j \in 1 .. n |-> <<m, k + j>>]
    OBVIOUS
  <2> HIDE DEF b
  <2>4. Prefix(wire \o b, m, k + n)
    BY <1>2, <1>3, <1>5, <2>1, <2>3, PrefixNext
  <2>5. ASSUME NEW q \in Messages \ {m}, NEW l \in Nat, Prefix(wire, q, l) PROVE Prefix(wire \o b, q, l)
    BY <1>2, <1>3, <2>1, <2>3, <2>5, PrefixOther
  <2> QED
    BY <2>2, <2>4, <2>5
<1>7. ASSUME NEW j \in 1 .. Len(wops'), wops'[j].st = "done"
      PROVE  /\ wops'[j].n \in 1 .. left'[wops'[j].msg]
             /\ Prefix(wire', wops'[j].msg, Size[wops'[j].msg] - left'[wops'[j].msg] + wops'[j].n)
  <2>1. CASE j = i
    <3>1. n \in 1 .. left[m]
      BY DEF m
    <3>2. Prefix(wire', m, Size[m] - left[m] + n)
      BY <1>6 DEF k
    <3> QED
      BY <1>1, <2>1, <3>1, <3>2
  <2>2. CASE j # i
    <3> DEFINE q == wops[j].msg
               l == Size[q] - left[q] + wops[j].n
    <3>1. j \in 1 .. Len(wops) /\ wops'[j] = wops[j] /\ q # m
      BY <1>1, <1>4, <2>2
    <3>2. q \in Messages /\ wops[j].n \in Nat
      BY <3>1, WopsFields
    <3>3. wops[j].n \in 1 .. left[q] /\ Prefix(wire, q, l)
      BY <1>7, <3>1 DEF ByteInv
    <3>4. Size[q] - left[q] \in Nat
      BY <3>2, ByteNumbers
    <3> HIDE DEF q
    <3>5. l \in Nat
      BY <3>2, <3>4
    <3> HIDE DEF l
    <3>6. Prefix(wire', q, l)
      BY <1>6, <3>1, <3>2, <3>3, <3>5
    <3> QED
      BY <1>1, <3>1, <3>3, <3>6 DEF q, l
  <2> QED
    BY <2>1, <2>2
<1>8. ASSUME NEW q \in Messages, \A j \in 1 .. Len(wops') : wops'[j].st = "done" => wops'[j].msg # q
      PROVE  Prefix(wire', q, Size[q] - left'[q])
  <2>1. q # m
    <3>1. i \in 1 .. Len(wops')
      BY <1>1
    <3> QED
      BY <1>1, <1>8, <3>1
  <2>2. \A j \in 1 .. Len(wops) : wops[j].st = "done" => wops[j].msg # q
    BY <1>1, <1>8
  <2>3. Prefix(wire, q, Size[q] - left[q])
    BY <2>2 DEF ByteInv
  <2>4. Size[q] - left[q] \in Nat
    BY ByteNumbers
  <2>5. Prefix(wire', q, Size[q] - left[q])
    BY <1>6, <2>1, <2>3, <2>4
  <2> QED
    BY <1>1, <2>5
<1>9. /\ \A q \in Messages : left'[q] <= Size[q]
      /\ \A q \in unsent' : left'[q] = Size[q]
      /\ \A j \in 1 .. Len(posted') : left'[posted'[j]] = Size[posted'[j]]
  BY <1>1 DEF ByteInv
<1> QED
  BY <1>7, <1>8, <1>9 DEF ByteInv, Prefix

\* The bytes taken follow those of the message, or a complete frame.
LEMMA PerformFrames ==
  ASSUME SenderInv, NEW i \in 1 .. Len(wops), NEW n \in 1 .. left[wops[i].msg], PerformWrite(i, n)
  PROVE  FrameInv' /\ FramesContiguous'
<1> USE DEF SenderInv
<1> DEFINE m == wops[i].msg
           k == Size[m] - left[m]
<1>1. /\ Len(wops) \in Nat /\ Len(wops') = Len(wops)
      /\ \A j \in 1 .. Len(wops) : j # i => wops'[j] = wops[j]
      /\ wops'[i].msg = m /\ wops'[i].n = n /\ wops'[i].st = "done" /\ wops[i].st = "waiting"
      /\ (\A j \in 1 .. i - 1 : wops[j].st # "waiting") /\ ~peerGone /\ open
      /\ wire' = wire \o [j \in 1 .. n |-> <<m, k + j>>]
      /\ (~crowded' => ~crowded /\ (n < left[m] => i = Len(wops)))
      /\ UNCHANGED <<open, peerGone, left>>
  BY PerformFacts
<1>2. m \in Messages
  BY WopsFields
<1>3. k \in Nat /\ n \in Nat \ {0} /\ left[m] \in Nat /\ Size[m] \in Nat /\ n <= left[m] /\ k = Size[m] - left[m]
  <2>1. k \in Nat /\ left[m] \in Nat /\ Size[m] \in Nat
    BY <1>2, ByteNumbers
  <2> QED
    BY <2>1
<1>4. \A j \in 1 .. Len(wops) : j # i => wops[j].msg # m
  BY DEF PlaceInv
<1>5. Prefix(wire, m, k)
  BY <1>1, <1>2, <1>4 DEF ByteInv
<1> HIDE DEF m, k
<1>6. /\ Len(wire) \in Nat /\ Len(wire') \in Nat /\ Len(wire') = Len(wire) + n
      /\ \A j \in 1 .. Len(wire) : wire'[j] = wire[j]
      /\ \A j \in 1 .. n : wire'[Len(wire) + j] = <<m, k + j>>
  <2>1. wire \in Seq(Messages \X Nat)
    BY DEF Types
  <2> DEFINE b == [j \in 1 .. n |-> <<m, k + j>>]
  <2>2. wire' = wire \o b
    BY <1>1
  <2>3. b = [j \in 1 .. n |-> <<m, k + j>>]
    OBVIOUS
  <2> HIDE DEF b
  <2>4. /\ wire \o b \in Seq(Messages \X Nat) /\ Len(wire \o b) = Len(wire) + n
        /\ \A j \in 1 .. Len(wire) : (wire \o b)[j] = wire[j]
        /\ \A j \in 1 .. n : (wire \o b)[Len(wire) + j] = <<m, k + j>>
    <3>1. n \in Nat /\ k \in Nat
      BY <1>3
    <3> QED
      BY ONLY <1>2, <2>1, <2>3, <3>1, PrefixGrows
  <2>5. Len(wire) \in Nat /\ Len(wire \o b) \in Nat
    BY <2>1, <2>4
  <2> QED
    BY ONLY <2>2, <2>4, <2>5
<1>7. wire' # <<>> /\ wire'[Len(wire')] = <<m, k + n>>
  <2>1. n \in 1 .. n /\ Len(wire') # 0
    BY <1>3, <1>6
  <2>2. wire' # <<>>
    BY <2>1
  <2> QED
    BY <1>6, <2>1, <2>2
<1>8. ASSUME ~crowded' PROVE
        /\ \A j \in 1 .. Len(wops) : ~Short(wops[j])
        /\ \A j \in 1 .. Len(wops) : Rest(wops[j]) => j = 1 /\ i = 1 /\ Ends(wire, wops[j].msg, Size[wops[j].msg] - left[wops[j].msg])
        /\ wire # <<>> /\ wire[Len(wire)][2] # Size[wire[Len(wire)][1]] => Rest(wops[1]) /\ i = 1
  <2>1. ~crowded /\ open /\ ~peerGone
    BY <1>1, <1>8
  <2>2. \A j \in 1 .. Len(wops) : ~Short(wops[j])
    BY <1>1, <2>1 DEF FrameInv
  <2>3. \A j \in 1 .. Len(wops) : Rest(wops[j]) => j = 1 /\ Ends(wire, wops[j].msg, Size[wops[j].msg] - left[wops[j].msg])
    BY <2>1 DEF FrameInv
  <2>4. Rest(wops[1]) => i = 1
    <3>1. i # 1 => 1 \in 1 .. i - 1
      OBVIOUS
    <3> QED
      BY <1>1, <3>1 DEF Rest
  <2>5. wire # <<>> /\ wire[Len(wire)][2] # Size[wire[Len(wire)][1]] => Rest(wops[1])
    BY <2>1, <2>2 DEF FrameInv
  <2> QED
    BY <2>2, <2>3, <2>4, <2>5
<1>9. FrameInv'
  <2> SUFFICES ASSUME ~crowded', open', ~peerGone'
               PROVE  /\ \A j \in 1 .. Len(wops') : wops'[j].st = "done" /\ wops'[j].n < left'[wops'[j].msg] =>
                           /\ j = Len(wops') /\ \A h \in 1 .. Len(wops') : wops'[h].st # "waiting"
                           /\ Ends(wire', wops'[j].msg, Size[wops'[j].msg] - left'[wops'[j].msg] + wops'[j].n)
                      /\ \A j \in 1 .. Len(wops') : ~(wops'[j].st = "waiting" /\ left'[wops'[j].msg] < Size[wops'[j].msg])
                      /\ wire'[Len(wire')][2] # Size[wire'[Len(wire')][1]] =>
                           \E j \in 1 .. Len(wops') : wops'[j].st = "done" /\ wops'[j].n < left'[wops'[j].msg]
    BY DEF FrameInv, Short, Rest, Ends
  <2>1. ASSUME NEW j \in 1 .. Len(wops'), wops'[j].st = "done", wops'[j].n < left'[wops'[j].msg]
        PROVE  /\ j = Len(wops') /\ \A h \in 1 .. Len(wops') : wops'[h].st # "waiting"
               /\ Ends(wire', wops'[j].msg, Size[wops'[j].msg] - left'[wops'[j].msg] + wops'[j].n)
    <3>1. j = i
      BY <1>1, <1>8, <2>1 DEF Short
    <3>2. i = Len(wops)
      BY <1>1, <2>1, <3>1
    <3>3. \A h \in 1 .. Len(wops') : h # i => h \in 1 .. i - 1
      BY <1>1, <3>2
    <3>4. \A h \in 1 .. Len(wops') : wops'[h].st # "waiting"
      BY <1>1, <3>3
    <3>5. Ends(wire', m, Size[m] - left[m] + n)
      BY <1>7 DEF Ends, k
    <3> QED
      BY <1>1, <3>1, <3>2, <3>4, <3>5
  <2>2. \A j \in 1 .. Len(wops') : ~(wops'[j].st = "waiting" /\ left'[wops'[j].msg] < Size[wops'[j].msg])
    <3>1. \A j \in 1 .. Len(wops) : j # i => ~Rest(wops[j])
      BY <1>8
    <3> QED
      BY <1>1, <3>1 DEF Rest
  <2>3. ASSUME wire'[Len(wire')][2] # Size[wire'[Len(wire')][1]]
        PROVE  \E j \in 1 .. Len(wops') : wops'[j].st = "done" /\ wops'[j].n < left'[wops'[j].msg]
    <3>1. wire'[Len(wire')][2] = k + n /\ wire'[Len(wire')][1] = m
      BY ONLY <1>7
    <3>2. k + n # Size[m]
      BY <2>3, <3>1
    <3>3. n < left[m]
      BY <1>3, <3>2
    <3>4. i \in 1 .. Len(wops') /\ wops'[i].st = "done" /\ wops'[i].n < left'[wops'[i].msg]
      BY <1>1, <3>3
    <3> QED
      BY <3>4
  <2> QED
    BY <2>1, <2>2, <2>3
<1>10. FramesContiguous'
  <2> SUFFICES ASSUME ~crowded', NEW h \in 1 .. Len(wire') - 1
               PROVE  \/ wire'[h + 1] = <<wire'[h][1], wire'[h][2] + 1>>
                      \/ wire'[h][2] = Size[wire'[h][1]] /\ wire'[h + 1][1] # wire'[h][1] /\ wire'[h + 1][2] = 1
    BY DEF FramesContiguous
  <2>0. h \in Nat \ {0} /\ h + 1 \in Nat
    BY <1>6
  <2>1. CASE h + 1 <= Len(wire)
    <3>1. h \in 1 .. Len(wire) - 1 /\ h \in 1 .. Len(wire) /\ h + 1 \in 1 .. Len(wire)
      BY <1>6, <2>0, <2>1
    <3>2. ~crowded
      BY <1>1
    <3> QED
      BY <1>6, <3>1, <3>2 DEF FramesContiguous
  <2>2. CASE h > Len(wire)
    <3> DEFINE j == h - Len(wire)
    <3>0. Len(wire) \in Nat /\ n \in Nat /\ h \in Nat /\ h > Len(wire) /\ h + 1 <= Len(wire) + n
      <4>1. Len(wire) \in Nat /\ n \in Nat /\ Len(wire') = Len(wire) + n
        BY <1>3, <1>6
      <4> QED
        BY <4>1, <2>2
    <3>1. j \in 1 .. n /\ j + 1 \in 1 .. n /\ h = Len(wire) + j /\ h + 1 = Len(wire) + (j + 1) /\ j \in Nat
      BY ONLY <3>0
    <3> HIDE DEF j
    <3>2. wire'[h] = <<m, k + j>> /\ wire'[h + 1] = <<m, k + (j + 1)>>
      BY <1>6, <3>1
    <3>3. k + (j + 1) = (k + j) + 1
      BY <1>3, <3>1
    <3>4. wire'[h][1] = m /\ wire'[h][2] = k + j
      BY ONLY <3>2
    <3> QED
      BY <3>2, <3>3, <3>4
  <2>3. CASE h = Len(wire)
    <3>1. 1 \in 1 .. n /\ h \in 1 .. Len(wire) /\ h + 1 = Len(wire) + 1
      BY <1>3, <1>6, <2>0, <2>3
    <3>2. wire'[h] = wire[h] /\ wire'[h + 1] = <<m, k + 1>> /\ wire # <<>>
      BY <1>6, <3>1
    <3>3. CASE k = 0
      <4>1. wire'[h + 1][1] = m /\ wire'[h + 1][2] = 1
        <5>1. wire'[h + 1] = <<m, 1>>
          BY <3>2, <3>3
        <5> QED
          BY ONLY <5>1
      <4>2. wire[h][1] # m
        BY <1>5, <3>1, <3>3 DEF Prefix
      <4>3. wire[h][2] = Size[wire[h][1]]
        <5>1. i = 1 => ~Rest(wops[1])
          BY <1>3, <3>3 DEF Rest, m
        <5> QED
          BY <1>8, <2>3, <3>2, <5>1
      <4> QED
        BY <3>2, <4>1, <4>2, <4>3
    <3>4. CASE k # 0
      <4>0. left[m] < Size[m]
        BY <1>3, <3>4
      <4>1. Rest(wops[i])
        BY <1>1, <4>0 DEF Rest, m
      <4>2. wire[h] = <<m, k>>
        BY <1>8, <2>3, <4>1 DEF Ends, m, k
      <4>3. wire[h][1] = m /\ wire[h][2] = k
        BY ONLY <4>2
      <4> QED
        BY <3>2, <4>2, <4>3
    <3> QED
      BY <3>3, <3>4
  <2> QED
    BY <1>6, <2>0, <2>1, <2>2, <2>3
<1> QED
  BY <1>9, <1>10

\* The socket takes bytes.
LEMMA PerformWriteInv ==
  ASSUME SenderInv, NEW i \in 1 .. Len(wops), NEW n \in 1 .. left[wops[i].msg], PerformWrite(i, n)
  PROVE  SenderInv'
BY PerformPlaces, PerformBytes, PerformFrames DEF SenderInv

-----------------------------------------------------------------------------
(* The completion handlers.                                                  *)

\* The operations left when the front one is handled.
LEMMA TailMoved ==
  ASSUME Types, PlaceInv, wops # <<>>, wops' = Tail(wops)
  PROVE  /\ Moved([j \in 1 .. Len(wops') |-> j + 1])
         /\ Len(wops) \in Nat \ {0} /\ Len(wops') = Len(wops) - 1
         /\ \A j \in 1 .. Len(wops') : j + 1 \in 1 .. Len(wops) /\ j + 1 # 1 /\ wops'[j] = wops[j + 1]
         /\ \A j \in 1 .. Len(wops') : wops'[j].msg # wops[1].msg
         /\ \A k \in 1 .. Len(wops) : k # 1 => \E j \in 1 .. Len(wops') : k = j + 1 /\ wops'[j] = wops[k]
<1> DEFINE f == [j \in 1 .. Len(wops') |-> j + 1]
<1>1. /\ Len(wops) \in Nat \ {0} /\ wops' \in Seq(Ops) /\ Len(wops') = Len(wops) - 1 /\ 1 \in 1 .. Len(wops)
      /\ \A j \in 1 .. Len(wops') : j + 1 \in 1 .. Len(wops) /\ wops'[j] = wops[j + 1]
  BY TailFacts DEF Types
<1>2. \A j \in 1 .. Len(wops') : j + 1 # 1
  OBVIOUS
<1>3. ASSUME NEW k \in 1 .. Len(wops), k # 1 PROVE \E j \in 1 .. Len(wops') : k = j + 1 /\ wops'[j] = wops[k]
  <2>1. k - 1 \in 1 .. Len(wops') /\ k = (k - 1) + 1
    BY <1>1, <1>3
  <2> QED
    BY <1>1, <2>1
<1>4. ASSUME NEW j \in 1 .. Len(wops') PROVE wops'[j].msg # wops[1].msg
  <2> DEFINE k == j + 1
  <2>1. k \in 1 .. Len(wops) /\ k # 1 /\ wops'[j] = wops[k]
    BY <1>1, <1>2
  <2> HIDE DEF k
  <2> QED
    BY <1>1, <2>1 DEF PlaceInv
<1>5. f \in [1 .. Len(wops') -> 1 .. Len(wops)] /\ \A j \in 1 .. Len(wops') : f[j] = j + 1
  BY <1>1
<1>6. \A i, j \in 1 .. Len(wops') : f[i] = f[j] => i = j
  BY <1>5
<1> HIDE DEF f
<1>7. Moved(f)
  BY <1>1, <1>5, <1>6 DEF Moved
<1> QED
  BY <1>1, <1>2, <1>3, <1>4, <1>7 DEF f

\* The whole rest was written.
LEMMA HandleWrittenInv == ASSUME SenderInv, HandleWritten PROVE SenderInv'
<1> USE DEF SenderInv
<1> DEFINE m == wops[1].msg
<1>1. /\ wops # <<>> /\ Head(wops) = wops[1] /\ 1 \in 1 .. Len(wops)
      /\ wops[1].resumed \/ ~Alive => short
  BY FrontAlive DEF HandleWritten
<1>2. wops \in Seq(Ops) /\ Tail(wops) \in Seq(Ops)
  BY <1>1, TailFacts DEF Types
<1>3. /\ wops[1].st = "done" /\ wops[1].n = left[m] /\ ub' = (wops[1].resumed \/ ~Alive)
      /\ left' = [left EXCEPT ![m] = 0] /\ told' = told \cup {m} /\ pool' = pool \cup {m}
      /\ wops' = Tail(wops) /\ list' = <<>>
      /\ UNCHANGED <<open, peerGone, unsent, posted, wire, short, crowded>>
  <2>1. Tail(wops) \o Resumes(list) = Tail(wops)
    BY <1>2, ResumesEmpty DEF Types
  <2> QED
    BY <1>1, <2>1 DEF HandleWritten, Front, Recycle, connVars
<1>4. m \in Messages /\ Size[m] \in Nat \ {0} /\ left[m] \in Nat /\ left[m] <= Size[m]
  <2>1. m \in Messages
    BY <1>1, WopsFields
  <2> QED
    BY <2>1, ByteNumbers
<1> DEFINE f == [j \in 1 .. Len(wops') |-> j + 1]
<1>5. /\ Moved(f) /\ Len(wops) \in Nat \ {0} /\ Len(wops') = Len(wops) - 1
      /\ \A j \in 1 .. Len(wops') : j + 1 \in 1 .. Len(wops) /\ j + 1 # 1 /\ wops'[j] = wops[j + 1]
      /\ \A j \in 1 .. Len(wops') : wops'[j].msg # m
      /\ \A k \in 1 .. Len(wops) : k # 1 => \E j \in 1 .. Len(wops') : k = j + 1 /\ wops'[j] = wops[k]
  BY <1>1, <1>3, TailMoved
<1>6. \A j \in 1 .. Len(wops') : f[j] # 1
  BY <1>5
<1>7. \A j \in 1 .. Len(wops') : \E k \in 1 .. Len(wops) : wops'[j] = wops[k]
  BY <1>5
<1>8. /\ left' \in [Messages -> Nat] /\ left'[m] = 0 /\ \A q \in Messages : q # m => left'[q] = left[q]
  BY <1>3, <1>4 DEF Types
<1>9. \A j \in 1 .. Len(wops') : wops'[j].msg \in Messages
  BY <1>7, WopsFields
<1>10. \A j \in 1 .. Len(wops') : left'[wops'[j].msg] = left[wops'[j].msg]
  BY <1>5, <1>8, <1>9
<1>11. m \notin unsent /\ \A i \in 1 .. Len(posted) : posted[i] # m
  BY <1>1 DEF PlaceInv
<1> HIDE DEF m, f
<1>12. Types'
  BY <1>2, <1>3, <1>4, <1>8 DEF Types
<1>13. PlaceInv'
  <2>1. Served(0)
    BY <1>3, ServedNone
  <2>2. \A q \in told' : q \in pool' /\ left'[q] = 0
    BY <1>3, <1>8 DEF PlaceInv, Types
  <2>3. \A q \in pool' : q \in pool \/ \E k \in 1 .. Len(wops) : q = wops[k].msg /\ \A j \in 1 .. Len(wops') : f[j] # k
    BY <1>1, <1>3, <1>6 DEF m
  <2> QED
    BY <1>3, <1>5, <2>1, <2>2, <2>3, PlaceMoved
<1>14. ShortInv'
  <2>1. \A j \in 1 .. Len(wops') :
          wops'[j].resumed \/ (wops'[j].st = "done" /\ wops'[j].n < left'[wops'[j].msg]) => short'
    BY <1>3, <1>7, <1>10 DEF ShortInv, Short
  <2>2. ub' => short'
    BY <1>1, <1>3
  <2> QED
    BY <2>1, <2>2 DEF ShortInv, Short
<1>15. ByteInv'
  <2>1. \A j \in 1 .. Len(wops') : wops'[j].st = "done" =>
             /\ wops'[j].n \in 1 .. left'[wops'[j].msg]
             /\ Prefix(wire', wops'[j].msg, Size[wops'[j].msg] - left'[wops'[j].msg] + wops'[j].n)
    <3>1. \A j \in 1 .. Len(wops') : wops'[j].st = "done" =>
             /\ wops'[j].n \in 1 .. left[wops'[j].msg]
             /\ Prefix(wire, wops'[j].msg, Size[wops'[j].msg] - left[wops'[j].msg] + wops'[j].n)
      BY <1>7 DEF ByteInv
    <3> QED
      BY <1>3, <1>10, <3>1
  <2>2. Prefix(wire, m, Size[m] - left'[m])
    <3>1. Prefix(wire, m, Size[m] - left[m] + wops[1].n)
      BY <1>1, <1>3 DEF ByteInv, m
    <3>2. Size[m] - left[m] + wops[1].n = Size[m] - left'[m]
      BY <1>3, <1>4, <1>8
    <3> QED
      BY <3>1, <3>2
  <2>3. ASSUME NEW q \in Messages, q # m, \A j \in 1 .. Len(wops') : wops'[j].st = "done" => wops'[j].msg # q
        PROVE  Prefix(wire, q, Size[q] - left'[q])
    <3>1. \A k \in 1 .. Len(wops) : wops[k].st = "done" => wops[k].msg # q
      BY <1>5, <2>3 DEF m
    <3> QED
      BY <1>8, <2>3, <3>1 DEF ByteInv
  <2>4. \A q \in Messages : left'[q] <= Size[q]
    BY <1>4, <1>8 DEF ByteInv
  <2>5. /\ \A q \in unsent' : left'[q] = Size[q]
        /\ \A i \in 1 .. Len(posted') : left'[posted'[i]] = Size[posted'[i]]
    BY <1>3, <1>8, <1>11 DEF ByteInv, Types
  <2>6. \A q \in Messages :
             (\A j \in 1 .. Len(wops') : wops'[j].st = "done" => wops'[j].msg # q) => Prefix(wire', q, Size[q] - left'[q])
    BY <1>3, <2>2, <2>3
  <2> QED
    BY <2>1, <2>4, <2>5, <2>6 DEF ByteInv, Prefix
<1>16. OpenInv'
  BY <1>3, <1>7 DEF OpenInv
<1>17. FrameInv'
  <2> SUFFICES ASSUME ~crowded', open', ~peerGone'
               PROVE  /\ \A j \in 1 .. Len(wops') : wops'[j].st = "done" /\ wops'[j].n < left'[wops'[j].msg] =>
                           /\ j = Len(wops') /\ \A h \in 1 .. Len(wops') : wops'[h].st # "waiting"
                           /\ Ends(wire', wops'[j].msg, Size[wops'[j].msg] - left'[wops'[j].msg] + wops'[j].n)
                      /\ \A j \in 1 .. Len(wops') : ~(wops'[j].st = "waiting" /\ left'[wops'[j].msg] < Size[wops'[j].msg])
                      /\ wire' # <<>> /\ wire'[Len(wire')][2] # Size[wire'[Len(wire')][1]] =>
                           \E j \in 1 .. Len(wops') : wops'[j].st = "done" /\ wops'[j].n < left'[wops'[j].msg]
    BY DEF FrameInv, Short, Rest, Ends
  <2>1. ~crowded /\ open /\ ~peerGone
    BY <1>3
  <2>2. ASSUME NEW j \in 1 .. Len(wops'), wops'[j].st = "done", wops'[j].n < left'[wops'[j].msg]
        PROVE  /\ j = Len(wops') /\ \A h \in 1 .. Len(wops') : wops'[h].st # "waiting"
               /\ Ends(wire', wops'[j].msg, Size[wops'[j].msg] - left'[wops'[j].msg] + wops'[j].n)
    <3> DEFINE k == j + 1
    <3>1. k \in 1 .. Len(wops) /\ wops'[j] = wops[k]
      BY <1>5
    <3>2. k = Len(wops) => j = Len(wops')
      BY <1>5
    <3> HIDE DEF k
    <3>3. Short(wops[k])
      BY <1>10, <2>2, <3>1 DEF Short
    <3>4. /\ k = Len(wops) /\ \A i \in 1 .. Len(wops) : wops[i].st # "waiting"
          /\ Ends(wire, wops[k].msg, Size[wops[k].msg] - left[wops[k].msg] + wops[k].n)
      BY <2>1, <3>1, <3>3 DEF FrameInv
    <3> QED
      BY <1>3, <1>7, <1>10, <3>1, <3>2, <3>4
  <2>3. ASSUME NEW j \in 1 .. Len(wops'), wops'[j].st = "waiting", left'[wops'[j].msg] < Size[wops'[j].msg]
        PROVE  FALSE
    <3> DEFINE k == j + 1
    <3>1. k \in 1 .. Len(wops) /\ k # 1 /\ wops'[j] = wops[k]
      BY <1>5
    <3> HIDE DEF k
    <3>2. Rest(wops[k])
      BY <1>10, <2>3, <3>1 DEF Rest
    <3> QED
      BY <2>1, <3>1, <3>2 DEF FrameInv
  <2>4. ASSUME wire' # <<>>, wire'[Len(wire')][2] # Size[wire'[Len(wire')][1]]
        PROVE  \E j \in 1 .. Len(wops') : wops'[j].st = "done" /\ wops'[j].n < left'[wops'[j].msg]
    <3>1. ~Rest(wops[1])
      BY <1>3 DEF Rest
    <3>2. PICK k \in 1 .. Len(wops) : Short(wops[k])
      BY <1>3, <2>1, <2>4, <3>1 DEF FrameInv
    <3>3. k # 1
      BY <1>3, <1>4, <3>2 DEF Short, m
    <3>4. PICK j \in 1 .. Len(wops') : wops'[j] = wops[k]
      BY <1>5, <3>3
    <3> QED
      BY <1>10, <3>2, <3>4 DEF Short
  <2> QED
    BY <2>2, <2>3, <2>4
<1>18. FramesContiguous'
  BY <1>3 DEF FramesContiguous
<1> QED
  BY <1>12, <1>13, <1>14, <1>15, <1>16, <1>17, <1>18

\* A short write: the operation for the rest is behind the others.
LEMMA ShortMoved ==
  ASSUME SenderInv, HandleShort
  PROVE  /\ 1 \in 1 .. Len(wops) /\ Len(wops) \in Nat \ {0} /\ Len(wops') = Len(wops) /\ wops' \in Seq(Ops)
         /\ Short(wops[1]) /\ wops[1].msg \in Messages
         /\ left' = [left EXCEPT ![wops[1].msg] = @ - wops[1].n] /\ ub' = ~Alive /\ list' = <<>>
         /\ wops'[Len(wops)].msg = wops[1].msg /\ wops'[Len(wops)].st = (IF open THEN "waiting" ELSE "failed")
         /\ \A j \in 1 .. Len(wops) : j # Len(wops) => j + 1 \in 1 .. Len(wops) /\ j + 1 # 1 /\ wops'[j] = wops[j + 1]
         /\ UNCHANGED <<open, peerGone, unsent, posted, wire, told, pool, short, crowded>>
<1> DEFINE m == wops[1].msg
           t == Tail(wops)
<1>1. /\ wops # <<>> /\ Short(Head(wops)) /\ ub' = ~Alive
      /\ left' = [left EXCEPT ![Head(wops).msg] = @ - Head(wops).n]
      /\ wops' = t \o Resumes(<<Head(wops).msg>> \o <<>>) /\ list' = <<>>
      /\ UNCHANGED <<open, peerGone, unsent, posted, wire, told, pool, short, crowded>>
  BY DEF HandleShort, Front, connVars, SenderInv, Types
<1>2. wops \in Seq(Ops)
  BY DEF SenderInv, Types
<1>3. /\ Len(wops) \in Nat \ {0} /\ t \in Seq(Ops) /\ Len(t) = Len(wops) - 1 /\ Head(wops) = wops[1]
      /\ 1 \in 1 .. Len(wops) /\ \A j \in 1 .. Len(t) : j + 1 \in 1 .. Len(wops) /\ t[j] = wops[j + 1]
  BY <1>1, <1>2, TailFacts
<1>4. m \in Messages
  BY <1>3, WopsFields DEF SenderInv
<1> HIDE DEF m, t
<1>5. wops' = t \o Resumes(<<m>> \o <<>>)
  BY <1>1, <1>3 DEF m
<1>6. /\ wops' \in Seq(Ops) /\ Len(wops') = Len(t) + 1 /\ wops'[Len(t) + 1] = WriteOp(m, TRUE)
      /\ \A j \in 1 .. Len(t) : wops'[j] = t[j]
  BY <1>3, <1>4, <1>5, ResumesOne
<1>7. WriteOp(m, TRUE).msg = m /\ WriteOp(m, TRUE).st = (IF open THEN "waiting" ELSE "failed")
  BY <1>4, WriteOpFields
<1>8. Len(t) + 1 = Len(wops) /\ \A j \in 1 .. Len(wops) : j # Len(wops) => j \in 1 .. Len(t) /\ j + 1 # 1
  BY <1>3
<1>9. \A j \in 1 .. Len(wops) : j # Len(wops) => j + 1 \in 1 .. Len(wops) /\ j + 1 # 1 /\ wops'[j] = wops[j + 1]
  BY <1>3, <1>6, <1>8
<1>10. Len(wops') = Len(wops) /\ wops'[Len(wops)] = WriteOp(m, TRUE)
  BY <1>6, <1>8
<1>11. wops'[Len(wops)].msg = m /\ wops'[Len(wops)].st = (IF open THEN "waiting" ELSE "failed")
  BY <1>7, <1>10
<1> QED
  BY <1>1, <1>3, <1>4, <1>6, <1>9, <1>10, <1>11 DEF m

\* The rest of a short write is started.
LEMMA HandleShortInv == ASSUME SenderInv, HandleShort PROVE SenderInv'
<1> USE DEF SenderInv
<1> DEFINE m == wops[1].msg
           n == wops[1].n
           N == Len(wops)
<1>1. /\ 1 \in 1 .. N /\ N \in Nat \ {0} /\ Len(wops') = N /\ wops' \in Seq(Ops)
      /\ Short(wops[1]) /\ m \in Messages /\ left' = [left EXCEPT ![m] = @ - n] /\ list' = <<>>
      /\ wops'[N].msg = m /\ wops'[N].st = (IF open THEN "waiting" ELSE "failed")
      /\ \A j \in 1 .. N : j # N => j + 1 \in 1 .. N /\ j + 1 # 1 /\ wops'[j] = wops[j + 1]
      /\ UNCHANGED <<open, peerGone, unsent, posted, wire, told, pool, short, crowded>>
  BY ShortMoved
<1>2. short
  BY <1>1 DEF ShortInv
<1>3. wops[1].st = "done" /\ n < left[m] /\ n \in Nat \ {0}
  <2>1. wops[1].st = "done" /\ n < left[m]
    BY <1>1 DEF Short
  <2>2. n \in 1 .. left[m]
    BY <1>1, <2>1 DEF ByteInv
  <2> QED
    BY <2>1, <2>2
<1>4. Size[m] \in Nat \ {0} /\ left[m] \in Nat /\ left[m] <= Size[m]
  BY <1>1, ByteNumbers
<1>5. left[m] - n \in Nat /\ left[m] - n < Size[m] /\ Size[m] - (left[m] - n) = Size[m] - left[m] + n
  BY <1>3, <1>4
<1>6. left' \in [Messages -> Nat] /\ left'[m] = left[m] - n /\ \A q \in Messages : q # m => left'[q] = left[q]
  BY <1>1, <1>5 DEF Types
<1>7. ASSUME NEW j \in 1 .. N, j # N PROVE \E k \in 1 .. N : k # 1 /\ k = j + 1 /\ wops'[j] = wops[k]
  BY <1>1, <1>7
<1>8. ASSUME NEW k \in 1 .. N, k # 1 PROVE \E j \in 1 .. N : j # N /\ k = j + 1 /\ wops'[j] = wops[k]
  <2>1. k - 1 \in 1 .. N /\ k - 1 # N /\ k = (k - 1) + 1
    BY <1>1, <1>8
  <2> QED
    BY <1>1, <2>1
<1>9. \A k \in 1 .. N : k # 1 => wops[k].msg # m
  BY <1>1 DEF PlaceInv
<1>10. m \notin unsent /\ m \notin pool /\ \A i \in 1 .. Len(posted) : posted[i] # m
  BY <1>1 DEF PlaceInv
<1>11. \A k \in 1 .. N : wops[k].msg \in Messages
  BY WopsFields
<1>12. Prefix(wire, m, Size[m] - left'[m])
  <2>1. Prefix(wire, m, Size[m] - left[m] + n)
    BY <1>1, <1>3 DEF ByteInv
  <2> QED
    BY <1>5, <1>6, <2>1
<1>13. open /\ ~peerGone /\ ~crowded => N = 1 /\ Ends(wire, m, Size[m] - left'[m])
  <2>1. open /\ ~peerGone /\ ~crowded => 1 = N /\ Ends(wire, m, Size[m] - left[m] + n)
    BY <1>1 DEF FrameInv
  <2> QED
    BY <1>5, <1>6, <2>1
<1> HIDE DEF m, n, N
<1>14. Types'
  BY <1>1, <1>6 DEF Types
<1>15. PlaceInv'
  <2> DEFINE f == [j \in 1 .. N |-> IF j = N THEN 1 ELSE j + 1]
  <2>1. f \in [1 .. N -> 1 .. N] /\ \A j \in 1 .. N : f[j] = IF j = N THEN 1 ELSE j + 1
    BY <1>1
  <2>2. \A i, j \in 1 .. N : f[i] = f[j] => i = j
    BY <1>1, <2>1
  <2> HIDE DEF f
  <2>3. \A j \in 1 .. N : wops'[j].msg = wops[f[j]].msg
    BY <1>1, <2>1 DEF m
  <2>4. Moved(f)
    BY <1>1, <2>1, <2>2, <2>3 DEF Moved, N
  <2>5. Served(0)
    BY <1>1, ServedNone
  <2>6. \A q \in told' : q \in pool' /\ left'[q] = 0
    BY <1>1, <1>6, <1>10 DEF PlaceInv, Types
  <2> QED
    BY <1>1, <2>4, <2>5, <2>6, PlaceMoved
<1>16. ShortInv'
  BY <1>1, <1>2 DEF ShortInv
<1>17. ByteInv'
  <2>1. ASSUME NEW j \in 1 .. Len(wops'), wops'[j].st = "done"
        PROVE  /\ wops'[j].n \in 1 .. left'[wops'[j].msg]
               /\ Prefix(wire', wops'[j].msg, Size[wops'[j].msg] - left'[wops'[j].msg] + wops'[j].n)
    <3>1. j \in 1 .. N /\ j # N
      BY <1>1, <2>1
    <3>2. PICK k \in 1 .. N : k # 1 /\ wops'[j] = wops[k]
      BY <1>7, <3>1
    <3>3. left'[wops[k].msg] = left[wops[k].msg]
      BY <1>6, <1>9, <1>11, <3>2
    <3>4. /\ wops[k].n \in 1 .. left[wops[k].msg]
          /\ Prefix(wire, wops[k].msg, Size[wops[k].msg] - left[wops[k].msg] + wops[k].n)
      BY <2>1, <3>2 DEF ByteInv, N
    <3> QED
      BY <1>1, <3>2, <3>3, <3>4
  <2>2. ASSUME NEW q \in Messages, q # m, \A j \in 1 .. Len(wops') : wops'[j].st = "done" => wops'[j].msg # q
        PROVE  Prefix(wire, q, Size[q] - left'[q])
    <3>1. ASSUME NEW k \in 1 .. N, wops[k].st = "done" PROVE wops[k].msg # q
      <4>1. CASE k = 1
        BY <2>2, <4>1 DEF m
      <4>2. CASE k # 1
        <5>1. PICK j \in 1 .. N : wops'[j] = wops[k]
          BY <1>8, <4>2
        <5> QED
          BY <1>1, <2>2, <3>1, <5>1
      <4> QED
        BY <4>1, <4>2
    <3> QED
      BY <1>6, <2>2, <3>1 DEF ByteInv, N
  <2>3. \A q \in Messages : left'[q] <= Size[q]
    <3>1. left'[m] <= Size[m]
      <4>1. left[m] - n <= Size[m]
        BY <1>4, <1>5
      <4> QED
        BY <1>6, <4>1
    <3> QED
      BY <1>6, <3>1 DEF ByteInv
  <2>4. /\ \A q \in unsent' : left'[q] = Size[q]
        /\ \A i \in 1 .. Len(posted') : left'[posted'[i]] = Size[posted'[i]]
    BY <1>1, <1>6, <1>10 DEF ByteInv, Types
  <2>5. \A q \in Messages :
             (\A j \in 1 .. Len(wops') : wops'[j].st = "done" => wops'[j].msg # q) => Prefix(wire', q, Size[q] - left'[q])
    BY <1>1, <1>12, <2>2
  <2> QED
    BY <2>1, <2>3, <2>4, <2>5 DEF ByteInv, Prefix
<1>18. OpenInv'
  <2> SUFFICES ASSUME ~open', NEW j \in 1 .. Len(wops') PROVE wops'[j].st # "waiting"
    BY DEF OpenInv
  <2>1. j = N => wops'[j].st # "waiting"
    BY <1>1
  <2>2. j # N => \E k \in 1 .. N : wops'[j] = wops[k]
    BY <1>1, <1>7
  <2> QED
    BY <1>1, <2>1, <2>2 DEF OpenInv, N
<1>19. FrameInv'
  <2> SUFFICES ASSUME ~crowded', open', ~peerGone'
               PROVE  /\ \A j \in 1 .. Len(wops') : ~(wops'[j].st = "done" /\ wops'[j].n < left'[wops'[j].msg])
                      /\ \A j \in 1 .. Len(wops') : j = 1 /\ Ends(wire', wops'[j].msg, Size[wops'[j].msg] - left'[wops'[j].msg])
                      /\ wops' # <<>> /\ wops'[1].st = "waiting" /\ left'[wops'[1].msg] < Size[wops'[1].msg]
    BY DEF FrameInv, Short, Rest, Ends
  <2>1. N = 1 /\ Ends(wire', m, Size[m] - left'[m]) /\ open
    BY <1>1, <1>13
  <2>2. wops'[1].st = "waiting" /\ wops'[1].msg = m /\ Len(wops') = 1
    BY <1>1, <2>1
  <2>3. \A j \in 1 .. Len(wops') : j = 1
    BY <2>2
  <2>4. wops' # <<>>
    BY <2>2
  <2>5. left'[m] < Size[m]
    BY <1>5, <1>6
  <2> QED
    BY <2>1, <2>2, <2>3, <2>4, <2>5
<1>20. FramesContiguous'
  BY <1>1 DEF FramesContiguous
<1> QED
  BY <1>14, <1>15, <1>16, <1>17, <1>18, <1>19, <1>20

-----------------------------------------------------------------------------
(* The theorems.                                                             *)

\* A new connection.
LEMMA SenderInvInit == ASSUME Init PROVE SenderInv
<1>1. /\ open /\ unsent = Messages /\ posted = <<>> /\ list = <<>> /\ wops = <<>> /\ left = Size
      /\ wire = <<>> /\ told = {} /\ pool = {} /\ ~ub
  BY DEF Init
<1>2. \A i \in 1 .. 0 : FALSE
  OBVIOUS
<1>3. Len(posted) = 0 /\ Len(wops) = 0 /\ Len(wire) = 0
  BY <1>1
<1>4. \A m \in Messages : Size[m] \in Nat /\ Size[m] <= Size[m] /\ Size[m] - Size[m] = 0
  BY SenderAssumption
<1>5. Types
  BY <1>1, SenderAssumption DEF Types
<1>6. PlaceInv /\ ShortInv /\ OpenInv
  BY <1>1, <1>2, <1>3 DEF PlaceInv, ShortInv, OpenInv
<1>7. \A m \in Messages : Prefix(wire, m, Size[m] - left[m])
  BY <1>1, <1>2, <1>3, <1>4 DEF Prefix
<1>8. ByteInv
  BY <1>1, <1>2, <1>3, <1>4, <1>7 DEF ByteInv
<1>9. FrameInv
  BY <1>1, <1>2, <1>3 DEF FrameInv
<1>10. FramesContiguous
  <2>1. \A i \in 1 .. 0 - 1 : FALSE
    OBVIOUS
  <2> QED
    BY <1>3, <2>1 DEF FramesContiguous
<1> QED
  BY <1>5, <1>6, <1>8, <1>9, <1>10 DEF SenderInv

\* Nothing happens.
LEMMA SenderInvStutter == ASSUME SenderInv, UNCHANGED vars PROVE SenderInv'
<1> USE DEF SenderInv
<1>1. UNCHANGED <<open, peerGone, unsent, posted, list, wops, left, wire, told, pool, short, crowded, ub>>
  BY DEF vars, connVars, dataVars, history
<1>2. Types' /\ PlaceInv' /\ OpenInv'
  BY <1>1 DEF Types, PlaceInv, OpenInv
<1>3. ShortInv'
  BY <1>1 DEF ShortInv, Short
<1>4. ByteInv'
  BY <1>1 DEF ByteInv, Prefix
<1>5. FrameInv' /\ FramesContiguous'
  BY <1>1, FrameSame
<1> QED
  BY <1>2, <1>3, <1>4, <1>5

\* The invariant is inductive.
LEMMA SenderInvNext == ASSUME SenderInv, [Next]_vars PROVE SenderInv'
<1>1. CASE \E m \in Messages : AsyncWrite(m)
  BY <1>1, AsyncWriteInv
<1>2. CASE RunRefused
  BY <1>2, RunRefusedInv
<1>3. CASE Run
  BY <1>3, RunInv
<1>4. CASE Reactor
  BY <1>4, PerformWriteInv, PerformErrorInv DEF Reactor
<1>5. CASE PeerLeaves
  BY <1>5, PeerLeavesInv
<1>6. CASE ReadEnds
  BY <1>6, ReadEndsInv
<1>7. CASE WriteHandler
  BY <1>7, HandleWrittenInv, HandleShortInv, HandleWriteErrorInv DEF WriteHandler
<1>8. CASE Finished \/ Undefined \/ UNCHANGED vars
  BY <1>8, SenderInvStutter DEF Finished, Undefined
<1> QED
  BY <1>1, <1>2, <1>3, <1>4, <1>5, <1>6, <1>7, <1>8 DEF Next

\* In every reachable state.
LEMMA SenderInvHolds == SafeSpec => []SenderInv
BY SenderInvInit, SenderInvNext, PTL DEF SafeSpec

\* What a prefix is, in the terms of BytesExact.
LEMMA PrefixSent ==
  ASSUME NEW m \in Messages, NEW k, Prefix(wire, m, k)
  PROVE  /\ \A i, j \in Sent(m) : i < j => wire[i][2] < wire[j][2]
         /\ {wire[i][2] : i \in Sent(m)} = 1 .. k
<1>1. \A i, j \in Sent(m) : i < j => wire[i][2] < wire[j][2]
  BY DEF Prefix, Sent
<1>2. \A i \in Sent(m) : wire[i][2] \in 1 .. k
  BY DEF Prefix, Sent
<1>3. ASSUME NEW y \in 1 .. k PROVE \E i \in Sent(m) : wire[i][2] = y
  <2>1. PICK i \in 1 .. Len(wire) : wire[i] = <<m, y>>
    BY DEF Prefix
  <2>2. wire[i][1] = m /\ wire[i][2] = y
    BY ONLY <2>1
  <2> QED
    BY <2>2 DEF Sent
<1> QED
  BY <1>1, <1>2, <1>3

(* Connection::async_write, handle_write, MsgBuffer::consume: however the socket  *)
(* cuts the messages up, and whatever fails, the bytes of each message are on the   *)
(* wire in order, none twice and none skipped, and its buffer counts what is left.  *)
THEOREM BytesExactHolds == SafeSpec => []BytesExact
<1>1. SenderInv => BytesExact
  <2> SUFFICES ASSUME SenderInv, NEW m \in Messages
               PROVE  /\ \A i, j \in Sent(m) : i < j => wire[i][2] < wire[j][2]
                      /\ \E seen \in {0} \cup {wops[i].n : i \in Unseen(m)} :
                           {wire[i][2] : i \in Sent(m)} = 1 .. Size[m] - left[m] + seen
    BY DEF BytesExact
  <2>1. CASE \A j \in 1 .. Len(wops) : wops[j].st = "done" => wops[j].msg # m
    <3>1. Prefix(wire, m, Size[m] - left[m])
      BY <2>1 DEF SenderInv, ByteInv
    <3>2. Size[m] - left[m] + 0 = Size[m] - left[m]
      BY ByteNumbers DEF SenderInv
    <3>3. Prefix(wire, m, Size[m] - left[m] + 0)
      BY <3>1, <3>2
    <3> QED
      BY <3>3, PrefixSent
  <2>2. ASSUME NEW j \in 1 .. Len(wops), wops[j].st = "done", wops[j].msg = m PROVE
          /\ \A h, i \in Sent(m) : h < i => wire[h][2] < wire[i][2]
          /\ \E seen \in {0} \cup {wops[i].n : i \in Unseen(m)} :
               {wire[i][2] : i \in Sent(m)} = 1 .. Size[m] - left[m] + seen
    <3>1. Prefix(wire, m, Size[m] - left[m] + wops[j].n)
      BY <2>2 DEF SenderInv, ByteInv
    <3>2. j \in Unseen(m)
      BY <2>2 DEF Unseen
    <3> QED
      BY <3>1, <3>2, PrefixSent
  <2> QED
    BY <2>1, <2>2
<1> QED
  BY <1>1, SenderInvHolds, PTL

(* Connection::handle_write puts the rest of a short write behind what is           *)
(* outstanding: as long as no write was short while another message was             *)
(* outstanding, a frame starts only when the one before it is complete.             *)
THEOREM FramesContiguousHolds == SafeSpec => []FramesContiguous
<1>1. SenderInv => FramesContiguous
  BY DEF SenderInv
<1> QED
  BY <1>1, SenderInvHolds, PTL

(* Connection::recycle: a buffer in the pool belongs to no closure, no operation    *)
(* and no list, and the completion handler was called only for a message that is    *)
(* completely written.                                                               *)
THEOREM PoolBufferIdleHolds == SafeSpec => []PoolBufferIdle
<1>1. SenderInv => PoolBufferIdle
  <2> SUFFICES ASSUME SenderInv PROVE PoolBufferIdle
    OBVIOUS
  <2>1. Len(list) = 0
    BY DEF SenderInv, Types
  <2>2. \A i \in 1 .. 0 : FALSE
    OBVIOUS
  <2> QED
    BY <2>1, <2>2 DEF SenderInv, PlaceInv, PoolBufferIdle
<1> QED
  BY <1>1, SenderInvHolds, PTL

(* Connection::async_write_some's handler owns what it uses, unless handle_write     *)
(* started it: without a short write no handler meets an object that is gone.         *)
THEOREM SoundWithoutShortWritesHolds == SafeSpec => []SoundWithoutShortWrites
<1>1. SenderInv => SoundWithoutShortWrites
  BY DEF SenderInv, ShortInv, SoundWithoutShortWrites
<1> QED
  BY <1>1, SenderInvHolds, PTL

-----------------------------------------------------------------------------
(* What MessageSettled rests on.                                              *)

\* Somebody will still act for message m: a posted closure or an operation.
InHand(m) ==
  \/ \E i \in 1 .. Len(posted) : posted[i] = m
  \/ \E j \in 1 .. Len(wops) : wops[j].msg = m

(* Connection::async_write, handle_write: on an open connection, a message that was   *)
(* given to async_write and whose completion handler was not called is still in a      *)
(* posted closure or in an outstanding operation, so its handler can still be called:   *)
(* a short write, the list and the order of the operations lose none.                   *)
NothingForgotten == open => \A m \in Messages \ (unsent \cup told) : InHand(m)

\* A step that leaves the closures and the operations' messages alone.
LEMMA InHandSame ==
  ASSUME Types, NothingForgotten, open' => open, UNCHANGED <<unsent, told, posted>>,
         Len(wops') = Len(wops), \A j \in 1 .. Len(wops) : wops'[j].msg = wops[j].msg
  PROVE  NothingForgotten'
BY DEF NothingForgotten, InHand

\* A message is given to the connection.
LEMMA AsyncWriteInHand ==
  ASSUME Types, NothingForgotten, NEW m \in Messages, AsyncWrite(m) PROVE NothingForgotten'
<1>1. /\ unsent' = unsent \ {m} /\ posted' = Append(posted, m)
      /\ UNCHANGED <<open, wops, told>>
  BY DEF AsyncWrite, connVars, dataVars
<1>2. /\ Len(posted) \in Nat /\ Len(posted') = Len(posted) + 1 /\ posted'[Len(posted) + 1] = m
      /\ \A i \in 1 .. Len(posted) : posted'[i] = posted[i]
  BY <1>1 DEF Types
<1>3. ASSUME open', NEW q \in Messages \ (unsent' \cup told') PROVE InHand(q)'
  <2>1. CASE q = m
    <3>1. Len(posted) + 1 \in 1 .. Len(posted')
      BY <1>2
    <3> QED
      BY <1>2, <2>1, <3>1 DEF InHand
  <2>2. CASE q # m
    <3>1. InHand(q)
      BY <1>1, <1>3, <2>2 DEF NothingForgotten
    <3>2. \A i \in 1 .. Len(posted) : i \in 1 .. Len(posted')
      BY <1>2
    <3> QED
      BY <1>1, <1>2, <3>1, <3>2 DEF InHand
  <2> QED
    BY <2>1, <2>2
<1> QED
  BY <1>3 DEF NothingForgotten

\* Its closure starts the write.
LEMMA RunInHand == ASSUME SenderInv, NothingForgotten, Run PROVE NothingForgotten'
<1>1. /\ Served(1) /\ Len(wops) \in Nat /\ Len(wops') = Len(wops) + 1 /\ 1 \in 1 .. Len(posted)
      /\ \A j \in 1 .. Len(wops) : wops'[j] = wops[j]
      /\ wops'[Len(wops) + 1].msg = posted[1] /\ UNCHANGED <<open, unsent, told>>
  BY RunFacts
<1>2. posted' = Tail(posted) /\ posted # <<>> /\ posted \in Seq(Messages)
  BY DEF Run, SenderInv, Types
<1>3. /\ Len(posted) \in Nat \ {0} /\ Len(posted') = Len(posted) - 1
      /\ \A i \in 1 .. Len(posted') : posted'[i] = posted[i + 1]
  BY <1>2, TailFacts
<1>4. ASSUME open', NEW q \in Messages \ (unsent' \cup told') PROVE InHand(q)'
  <2>1. InHand(q)
    BY <1>1, <1>4 DEF NothingForgotten
  <2>2. ASSUME NEW i \in 1 .. Len(posted), posted[i] = q PROVE InHand(q)'
    <3>1. CASE i = 1
      <4>1. Len(wops) + 1 \in 1 .. Len(wops')
        BY <1>1
      <4> QED
        BY <1>1, <2>2, <3>1, <4>1 DEF InHand
    <3>2. CASE i # 1
      <4>1. i - 1 \in 1 .. Len(posted') /\ (i - 1) + 1 = i
        BY <1>3, <3>2
      <4>2. posted'[i - 1] = q
        BY <1>3, <2>2, <4>1
      <4> QED
        BY <4>1, <4>2 DEF InHand
    <3> QED
      BY <3>1, <3>2
  <2>3. ASSUME NEW j \in 1 .. Len(wops), wops[j].msg = q PROVE InHand(q)'
    <3>1. j \in 1 .. Len(wops')
      BY <1>1
    <3> QED
      BY <1>1, <2>3, <3>1 DEF InHand
  <2> QED
    BY <2>1, <2>2, <2>3 DEF InHand
<1> QED
  BY <1>4 DEF NothingForgotten

\* The socket takes bytes of it or refuses them.
LEMMA ReactorInHand == ASSUME SenderInv, NothingForgotten, Reactor PROVE NothingForgotten'
<1>1. ASSUME NEW i \in 1 .. Len(wops), NEW n \in 1 .. left[wops[i].msg], PerformWrite(i, n)
      PROVE  NothingForgotten'
  <2>1. /\ Len(wops') = Len(wops) /\ \A j \in 1 .. Len(wops) : j # i => wops'[j] = wops[j]
        /\ wops'[i].msg = wops[i].msg /\ UNCHANGED <<open, unsent, told, posted>>
    BY <1>1, PerformFacts
  <2>2. \A j \in 1 .. Len(wops) : wops'[j].msg = wops[j].msg
    BY <2>1
  <2> QED
    BY <2>1, <2>2, InHandSame DEF SenderInv
<1>2. ASSUME NEW i \in 1 .. Len(wops), PerformError(i) PROVE NothingForgotten'
  <2>1. wops' = [wops EXCEPT ![i].st = "failed"] /\ UNCHANGED <<open, unsent, told, posted>>
    BY <1>2 DEF PerformError, connVars, dataVars
  <2>2. wops \in Seq(Ops) /\ \A j \in 1 .. Len(wops) : wops[j] \in Ops
    BY DEF SenderInv, Types
  <2>3. [wops[i] EXCEPT !.st = "failed"].msg = wops[i].msg
    BY <2>2 DEF Ops
  <2>4. Len(wops') = Len(wops) /\ \A j \in 1 .. Len(wops) : wops'[j].msg = wops[j].msg
    BY <2>1, <2>2, <2>3
  <2> QED
    BY <2>1, <2>4, InHandSame DEF SenderInv
<1> QED
  BY <1>1, <1>2 DEF Reactor

\* It is completely written, and its handler is called.
LEMMA WrittenInHand == ASSUME SenderInv, NothingForgotten, HandleWritten PROVE NothingForgotten'
<1>1. Types /\ PlaceInv /\ wops \in Seq(Ops) /\ list = <<>> /\ wops # <<>>
  BY DEF SenderInv, Types, HandleWritten
<1>2. Head(wops) = wops[1] /\ Tail(wops) \in Seq(Ops)
  BY <1>1, TailFacts
<1>3. told' = told \cup {wops[1].msg} /\ wops' = Tail(wops) /\ UNCHANGED <<open, unsent, posted>>
  BY <1>1, <1>2, ResumesEmpty DEF HandleWritten, Front, connVars
<1>4. \A k \in 1 .. Len(wops) : k # 1 => \E j \in 1 .. Len(wops') : wops'[j] = wops[k]
  BY <1>1, <1>3, TailMoved
<1>5. ASSUME open', NEW q \in Messages \ (unsent' \cup told') PROVE InHand(q)'
  <2>1. InHand(q) /\ q # wops[1].msg
    BY <1>3, <1>5 DEF NothingForgotten
  <2> QED
    BY <1>3, <1>4, <2>1 DEF InHand
<1> QED
  BY <1>5 DEF NothingForgotten

\* A part of it is written: the rest is written by another operation.
LEMMA ShortInHand == ASSUME SenderInv, NothingForgotten, HandleShort PROVE NothingForgotten'
<1>1. /\ Len(wops) \in Nat \ {0} /\ Len(wops') = Len(wops) /\ wops'[Len(wops)].msg = wops[1].msg
      /\ \A j \in 1 .. Len(wops) : j # Len(wops) => wops'[j] = wops[j + 1]
      /\ UNCHANGED <<open, unsent, posted, told>>
  BY ShortMoved
<1>2. ASSUME NEW k \in 1 .. Len(wops) PROVE \E j \in 1 .. Len(wops') : wops'[j].msg = wops[k].msg
  <2>1. CASE k = 1
    <3>1. Len(wops) \in 1 .. Len(wops')
      BY <1>1
    <3> QED
      BY <1>1, <2>1, <3>1
  <2>2. CASE k # 1
    <3>1. k - 1 \in 1 .. Len(wops) /\ k - 1 # Len(wops) /\ (k - 1) + 1 = k
      BY <1>1, <2>2
    <3>2. wops'[k - 1] = wops[k]
      BY <1>1, <3>1
    <3> QED
      BY <1>1, <3>1, <3>2
  <2> QED
    BY <2>1, <2>2
<1>3. ASSUME open', NEW q \in Messages \ (unsent' \cup told') PROVE InHand(q)'
  <2>1. InHand(q)
    BY <1>1, <1>3 DEF NothingForgotten
  <2> QED
    BY <1>1, <1>2, <2>1 DEF InHand
<1> QED
  BY <1>3 DEF NothingForgotten

\* Every step, with what it leads to.
LEMMA InHandNext == ASSUME SenderInv, NothingForgotten, [Next]_vars PROVE NothingForgotten'
<1>1. CASE \E m \in Messages : AsyncWrite(m)
  BY <1>1, AsyncWriteInHand DEF SenderInv
<1>2. CASE RunRefused \/ ReadEnds \/ HandleWriteError
  <2>1. open' = FALSE
    BY <1>2 DEF RunRefused, ReadEnds, HandleWriteError, Close
  <2> QED
    BY <2>1 DEF NothingForgotten
<1>3. CASE Run
  BY <1>3, RunInHand
<1>4. CASE Reactor
  BY <1>4, ReactorInHand
<1>5. CASE HandleWritten
  BY <1>5, WrittenInHand
<1>6. CASE HandleShort
  BY <1>6, ShortInHand
<1>7. CASE PeerLeaves \/ UNCHANGED vars
  <2>1. UNCHANGED <<open, unsent, posted, wops, told>>
    BY <1>7 DEF PeerLeaves, dataVars, connVars, vars
  <2> QED
    BY <2>1, InHandSame DEF SenderInv
<1> QED
  BY <1>1, <1>2, <1>3, <1>4, <1>5, <1>6, <1>7 DEF Next, WriteHandler, Finished, Undefined

(* Connection::async_write, handle_write: as long as the connection is open, every     *)
(* message it was given is in a closure or an operation until its completion handler    *)
(* is called.                                                                            *)
THEOREM NothingForgottenHolds == SafeSpec => []NothingForgotten
<1>1. Init => NothingForgotten
  BY DEF Init, NothingForgotten
<1> QED
  BY <1>1, InHandNext, SenderInvHolds, PTL DEF SafeSpec
=============================================================================
