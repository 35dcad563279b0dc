------------------------------ MODULE Receiver ------------------------------
(***************************************************************************)
(* The read half of a Connection (net/connection.cpp): framing of the byte  *)
(* stream, the receive buffer, the buffer pool, and the hand-over of whole  *)
(* frames to the business threads and what these do with the buffers        *)
(* (src/application.cpp).                                                    *)
(*                                                                          *)
(* A stream byte is its position 1, 2, ... in the stream; a buffer cell      *)
(* holds a position, or 0 for '\0'.  Frame k of the stream starts after      *)
(* position start[k].  All handlers of a connection run on the one thread of  *)
(* its io_context, so each is one step; the reactor moves bytes from the      *)
(* socket into the memory of the oldest waiting read whenever it likes; the   *)
(* business threads work on the buffers they were handed.                     *)
(***************************************************************************)
EXTENDS Integers, Sequences, FiniteSets

CONSTANTS
  HeadLen,      \* g_proto_head_len
  MaxLen,       \* m_package_len_max
  LenMod,       \* 2^32: the length field is a std::uint32_t
  DefaultSize,  \* m_default_buffer_size
  Headers,      \* what a peer may send: [magic, len, body]
  Buffers,      \* MsgBuffer objects
  NoBuffer,     \* a null m_recv_buffer
  Pool,         \* the buffers the pool is created with, a sequence
  Answering,    \* Server answers its requests, Client takes answers only
  MaxChains,    \* calls of async_read: one by Server, one per write by Client
  MaxFrames,    \* bound: frames the peer sends
  MaxAgain      \* bound: reads that fail with interrupted or try_again

CrcLen == 2

\* What a business thread will say of the rest of a frame.
Bodies == {"good", "bad_crc", "bad_cmd"}

ASSUME ReceiverAssumption ==
  /\ HeadLen \in Nat \ {0}
  /\ MaxLen \in Nat /\ DefaultSize \in Nat
  /\ LenMod \in Nat /\ LenMod > MaxLen + CrcLen
  /\ HeadLen <= DefaultSize
  /\ Headers \subseteq [magic : BOOLEAN, len : 0 .. LenMod - 1, body : Bodies]
  /\ NoBuffer \notin Buffers
  /\ Pool \in Seq(Buffers)
  /\ \A i, j \in 1 .. Len(Pool) : Pool[i] = Pool[j] => i = j
  /\ Answering \in BOOLEAN
  /\ MaxChains \in Nat /\ MaxFrames \in Nat /\ MaxAgain \in Nat

VARIABLES
  open,       \* m_socket->is_open()
  sent,       \* the headers of the frames the peer has sent
  start,      \* where each of them starts, and where the next one will
  peerGone,   \* the peer has closed or reset the connection
  rpos,       \* bytes taken out of the socket
  buf,        \* the MsgBuffer objects
  recv,       \* m_recv_buffer
  free,       \* m_msg_pool->m_free_list
  rops,       \* outstanding async_read_some operations, oldest first
  tasks,      \* frames handed to the business threads: [buf, frame]
  due,        \* answers the business threads have still to make, valid or not
  out,        \* buffers posted for writing: [buf, valid]
  chains,     \* calls of async_read so far
  again,      \* reads that failed with interrupted or try_again so far
  handed      \* frames handed over so far

peerVars == <<sent, start, peerGone>>
readVars == <<recv, rops, chains, again, handed>>
workVars == <<tasks, due, out>>
vars == <<open, peerVars, rpos, buf, free, readVars, workVars>>

-----------------------------------------------------------------------------
(* MsgBuffer: the vector (mem, its capacity, and how often it was allocated),*)
(* m_tail and m_packlen.  m_head is 0 while a buffer is read into.           *)
Zeros(n) == [i \in 1 .. n |-> 0]

NewBuffer(gen) ==
  [mem |-> Zeros(DefaultSize), cap |-> DefaultSize, gen |-> gen, tail |-> 0, packlen |-> 0]

\* A bug: the room in front of m_tail is counted as free.
AdjustedSizeWhole(b, n) ==
  LET size == Len(b.mem) IN
  IF size >= n THEN size ELSE IF size * 2 >= size + n THEN size * 2 ELSE size + n

\* MsgBuffer::adjust makes room for n bytes after m_tail.
AdjustedSize(b, n) ==
  LET size == Len(b.mem) IN
  IF size - b.tail >= n THEN size ELSE IF size * 2 >= size + n THEN size * 2 ELSE size + n

Adjust(b, n) ==
  LET size == AdjustedSize(b, n) IN
  [b EXCEPT !.mem = [i \in 1 .. size |-> IF i <= Len(b.mem) THEN b.mem[i] ELSE 0],
            !.cap = IF size > @ THEN size ELSE @,
            !.gen = IF size > b.cap THEN @ + 1 ELSE @]

Clear(b) == [b EXCEPT !.mem = Zeros(DefaultSize), !.tail = 0, !.packlen = 0]

Commit(b, n) == [b EXCEPT !.tail = @ + n]

-----------------------------------------------------------------------------
(* ObjectPool: get() takes the oldest free buffer or makes a new one.        *)
FreeSet == {free[i] : i \in 1 .. Len(free)}
TaskBuffers == {t.buf : t \in tasks}
OutBuffers == {o.buf : o \in out}
Unmade == Buffers \ (FreeSet \cup TaskBuffers \cup OutBuffers \cup {recv})

PoolGet(b) ==
  IF free # <<>>
    THEN b = Head(free) /\ free' = Tail(free)
    ELSE b \in Unmade /\ UNCHANGED free

\* Connection::recycle
Recycle(b) ==
  /\ buf' = [buf EXCEPT ![b] = Clear(@)]
  /\ free' = Append(free, b)

-----------------------------------------------------------------------------
(* PackageCheck                                                             *)
PackLen(h) == (h.len + CrcLen) % LenMod

\* A bug: only the upper bound of the length is checked.
LengthNoMinimum(n) == n <= MaxLen

LengthOK(n) == n <= MaxLen /\ n >= HeadLen + CrcLen

Acceptable(h) == h.magic /\ PackLen(h) <= MaxLen /\ PackLen(h) >= HeadLen + CrcLen

\* What the first HeadLen bytes of a buffer spell: the header of a frame, or,
\* where no frame starts, anything.
HeadersIn(b) ==
  LET Starts == {k \in 1 .. Len(sent) : \A i \in 1 .. HeadLen : b.mem[i] = start[k] + i} IN
  IF Starts # {} THEN {sent[k] : k \in Starts} ELSE Headers

\* The buffer once a new header, if there is one, has been looked at.
WithPackLen(b, h) ==
  IF b.packlen = 0 /\ b.tail >= HeadLen /\ h.magic
    THEN [b EXCEPT !.packlen = PackLen(h)]
    ELSE b

Check(b, h) ==
  LET n == WithPackLen(b, h).packlen IN
  IF b.packlen = 0 /\ b.tail < HeadLen THEN "NEED_HEAD"
  ELSE IF b.packlen = 0 /\ ~h.magic THEN "INCORRECT"
  ELSE IF ~LengthOK(n) THEN "INCORRECT"
  ELSE IF b.tail < n THEN "NEED_BODY"
  ELSE "WHOLE"

\* The bytes the next read asks for (NEED_HEAD, NEED_BODY).
Expect(b) == IF b.packlen = 0 THEN HeadLen - b.tail ELSE b.packlen - b.tail

-----------------------------------------------------------------------------
Init ==
  /\ open = TRUE
  /\ sent = <<>> /\ start = <<0>> /\ peerGone = FALSE
  /\ rpos = 0
  /\ buf = [b \in Buffers |-> NewBuffer(0)]
  /\ free = Pool
  /\ recv = NoBuffer /\ rops = <<>> /\ chains = 0 /\ again = 0 /\ handed = 0
  /\ tasks = {} /\ due = [valid \in BOOLEAN |-> 0] /\ out = {}

-----------------------------------------------------------------------------
(* The peer and the reactor.                                                *)

\* A frame that is not acceptable has no extent of its own beyond its header.
Extent(h) == IF Acceptable(h) THEN PackLen(h) ELSE HeadLen

PeerSend(h) ==
  /\ ~peerGone /\ Len(sent) < MaxFrames
  /\ sent' = Append(sent, h)
  /\ start' = Append(start, start[Len(start)] + Extent(h))
  /\ UNCHANGED <<open, peerGone, rpos, buf, free, readVars, workVars>>

\* At any byte of a frame.
PeerLeaves ==
  /\ ~peerGone
  /\ peerGone' = TRUE
  /\ UNCHANGED <<open, sent, start, rpos, buf, free, readVars, workVars>>

OldestWaiting(i) ==
  rops[i].st = "waiting" /\ \A j \in 1 .. i - 1 : rops[j].st # "waiting"

\* Bytes that have arrived (also before the peer left) go into the memory the operation was given; if that
\* memory has been given back since, they go where nobody can tell.
PerformRead(i, n) ==
  LET op == rops[i] IN
  /\ OldestWaiting(i)
  /\ n <= op.len /\ rpos + n <= start[Len(start)]
  /\ rpos' = rpos + n
  /\ rops' = [rops EXCEPT ![i].st = "done", ![i].n = n]
  /\ buf' = IF op.gen = buf[op.buf].gen
              THEN [buf EXCEPT ![op.buf].mem =
                      [j \in DOMAIN @ |-> IF j \in op.off + 1 .. op.off + n
                                            THEN rpos + (j - op.off) ELSE @[j]]]
              ELSE buf
  /\ UNCHANGED <<open, peerVars, free, recv, chains, again, handed, workVars>>

\* The end of the stream, or a reset that discards what was not read.
PerformEof(i) ==
  /\ OldestWaiting(i)
  /\ peerGone
  /\ rops' = [rops EXCEPT ![i].st = "failed"]
  /\ UNCHANGED <<open, peerVars, rpos, buf, free, recv, chains, again, handed, workVars>>

PerformAgain(i) ==
  /\ OldestWaiting(i)
  /\ again < MaxAgain
  /\ again' = again + 1
  /\ rops' = [rops EXCEPT ![i].st = "again"]
  /\ UNCHANGED <<open, peerVars, rpos, buf, free, recv, chains, handed, workVars>>

-----------------------------------------------------------------------------
(* The handlers of the connection.                                          *)

\* async_read_some(n) into buffer b, which is bb at that moment; on a closed
\* socket the operation fails at once.
ReadOp(b, bb, n) ==
  [buf |-> b, off |-> bb.tail, len |-> n, gen |-> bb.gen,
   st |-> IF open THEN "waiting" ELSE "failed", n |-> 0]

\* Connection::close: what still waits is cancelled.
Aborted(ops) ==
  [i \in DOMAIN ops |-> IF ops[i].st = "waiting" THEN [ops[i] EXCEPT !.st = "failed"] ELSE ops[i]]

\* Connection::async_read
StartRead ==
  /\ chains < MaxChains
  /\ chains' = chains + 1
  /\ IF recv = NoBuffer
       THEN \E b \in Buffers : PoolGet(b) /\ recv' = b
       ELSE UNCHANGED <<free, recv>>
  /\ LET bb == Adjust(buf[recv'], HeadLen) IN
       /\ buf' = [buf EXCEPT ![recv'] = bb]
       /\ rops' = Append(rops, ReadOp(recv', bb, HeadLen))
  /\ UNCHANGED <<open, peerVars, rpos, again, handed, workVars>>

\* A bug: the old error code is looked at again and again.
HandleAgainSpins ==
  /\ rops # <<>> /\ Head(rops).st = "again"
  /\ rops' = Append(Tail(rops), Head(rops))
  /\ buf' = [buf EXCEPT ![recv] = Adjust(@, Head(rops).len)]
  /\ UNCHANGED <<open, peerVars, rpos, free, recv, chains, again, handed, workVars>>

\* handle_read with interrupted or try_again: the same read once more.
HandleAgain ==
  LET bb == Adjust(buf[recv], Head(rops).len) IN
  /\ rops # <<>> /\ Head(rops).st = "again"
  /\ buf' = [buf EXCEPT ![recv] = bb]
  /\ rops' = Append(Tail(rops), ReadOp(recv, bb, Head(rops).len))
  /\ UNCHANGED <<open, peerVars, rpos, free, recv, chains, again, handed, workVars>>

\* A bug: the read is repeated after any error.
HandleErrorRetries ==
  LET bb == Adjust(buf[recv], Head(rops).len) IN
  /\ rops # <<>> /\ Head(rops).st = "failed"
  /\ open' = FALSE
  /\ buf' = [buf EXCEPT ![recv] = bb]
  /\ rops' = Aborted(Append(Tail(rops), ReadOp(recv, bb, Head(rops).len)))
  /\ UNCHANGED <<peerVars, rpos, free, recv, chains, again, handed, workVars>>

\* handle_read with any other error: close, and no further read.
HandleError ==
  /\ rops # <<>> /\ Head(rops).st = "failed"
  /\ open' = FALSE
  /\ rops' = Aborted(Tail(rops))
  /\ UNCHANGED <<peerVars, rpos, buf, free, recv, chains, again, handed, workVars>>

\* The receive buffer after commit(bytes_transferred).
Committed == Commit(buf[recv], Head(rops).n)

HandleIncorrect(h) ==
  /\ rops # <<>> /\ Head(rops).st = "done"
  /\ h \in HeadersIn(Committed) /\ Check(Committed, h) = "INCORRECT"
  /\ buf' = [buf EXCEPT ![recv] = WithPackLen(Committed, h)]
  /\ open' = FALSE
  /\ rops' = Aborted(Tail(rops))
  /\ UNCHANGED <<peerVars, rpos, free, recv, chains, again, handed, workVars>>

\* NEED_HEAD and NEED_BODY: read the rest.
HandleNeedMore(h) ==
  LET b == WithPackLen(Committed, h)
      bb == Adjust(b, Expect(b)) IN
  /\ rops # <<>> /\ Head(rops).st = "done"
  /\ h \in HeadersIn(Committed) /\ Check(Committed, h) \in {"NEED_HEAD", "NEED_BODY"}
  /\ buf' = [buf EXCEPT ![recv] = bb]
  /\ rops' = Append(Tail(rops), ReadOp(recv, bb, Expect(b)))
  /\ UNCHANGED <<open, peerVars, rpos, free, recv, chains, again, handed, workVars>>

\* Server::handle_read (Client's is the same): the buffer is moved into a task
\* for the business threads.
HandOver ==
  /\ tasks' = tasks \cup {[buf |-> recv, frame |-> handed + 1]}
  /\ handed' = handed + 1

\* WHOLE: the frame is handed over, the next one gets another buffer.
HandleWhole(h) ==
  /\ rops # <<>> /\ Head(rops).st = "done"
  /\ h \in HeadersIn(Committed) /\ Check(Committed, h) = "WHOLE"
  /\ HandOver
  /\ \E b \in Buffers :
       LET bb == Adjust(buf[b], HeadLen) IN
       /\ PoolGet(b)
       /\ recv' = b
       /\ buf' = [buf EXCEPT ![recv] = WithPackLen(Committed, h), ![b] = bb]
       /\ rops' = Append(Tail(rops), ReadOp(b, bb, HeadLen))
  /\ UNCHANGED <<open, peerVars, rpos, chains, again, due, out>>

-----------------------------------------------------------------------------
(* The business threads (Application::set_context's handler) and the write   *)
(* half, as far as they use buffers and close the connection.                *)

FrameBytes(k) == [i \in 1 .. start[k + 1] - start[k] |-> start[k] + i]

Content(b) == SubSeq(b.mem, 1, b.tail)

\* parse_check and the switch on the command see what is in the buffer.
Verdicts(t) ==
  IF Content(buf[t.buf]) = FrameBytes(t.frame) THEN {sent[t.frame].body} ELSE Bodies

\* Server's handler owes the peer an answer, an invalid one if it refuses.
Owed(body) == IF Answering THEN [due EXCEPT ![body = "good"] = @ + 1] ELSE due

\* A bug: the buffer is recycled twice.
ParseRecyclesTwice(t, body) ==
  /\ t \in tasks /\ body \in Verdicts(t) /\ body # "bad_crc"
  /\ tasks' = tasks \ {t}
  /\ buf' = [buf EXCEPT ![t.buf] = Clear(@)]
  /\ free' = free \o <<t.buf, t.buf>>
  /\ due' = Owed(body)
  /\ UNCHANGED <<open, peerVars, rpos, readVars, out>>

\* handle_read_msg: the request is decoded and its buffer recycled; an unknown
\* command is answered with an invalid buffer.
Parse(t, body) ==
  /\ t \in tasks /\ body \in Verdicts(t) /\ body # "bad_crc"
  /\ tasks' = tasks \ {t}
  /\ Recycle(t.buf)
  /\ due' = Owed(body)
  /\ UNCHANGED <<open, peerVars, rpos, readVars, out>>

\* parse_check fails: the buffer is dropped, an invalid one will be the answer.
ParseBadCrc(t) ==
  /\ t \in tasks /\ "bad_crc" \in Verdicts(t)
  /\ tasks' = tasks \ {t}
  /\ buf' = [buf EXCEPT ![t.buf] = NewBuffer(@.gen + 1)]
  /\ due' = Owed("bad_crc")
  /\ UNCHANGED <<open, peerVars, rpos, free, readVars, out>>

\* handle_write_msg: a buffer from the pool, posted with async_write.
Answer(valid, b) ==
  /\ due[valid] > 0
  /\ PoolGet(b)
  /\ due' = [due EXCEPT ![valid] = @ - 1]
  /\ out' = out \cup {[buf |-> b, valid |-> valid]}
  /\ UNCHANGED <<open, peerVars, rpos, buf, readVars, tasks>>

\* A bug: an invalid buffer is dropped and the connection left open.
WriteRefusedOpen(o) ==
  /\ o \in out
  /\ ~o.valid \/ ~open
  /\ out' = out \ {o}
  /\ Recycle(o.buf)
  /\ UNCHANGED <<open, peerVars, rpos, readVars, tasks, due>>

\* async_write's closure with an invalid buffer or a closed socket.
WriteRefused(o) ==
  /\ o \in out
  /\ ~o.valid \/ ~open
  /\ out' = out \ {o}
  /\ Recycle(o.buf)
  /\ open' = FALSE
  /\ rops' = Aborted(rops)
  /\ UNCHANGED <<peerVars, rpos, recv, chains, again, handed, tasks, due>>

\* The write went through.
WriteDone(o) ==
  /\ o \in out
  /\ o.valid /\ open
  /\ out' = out \ {o}
  /\ Recycle(o.buf)
  /\ UNCHANGED <<open, peerVars, rpos, readVars, tasks, due>>

\* The write failed or was cancelled: the buffer is dropped and the connection closed.
WriteFailed(o) ==
  /\ o \in out
  /\ o.valid /\ (peerGone \/ ~open)
  /\ out' = out \ {o}
  /\ buf' = [buf EXCEPT ![o.buf] = NewBuffer(@.gen + 1)]
  /\ open' = FALSE
  /\ rops' = Aborted(rops)
  /\ UNCHANGED <<peerVars, rpos, free, recv, chains, again, handed, tasks, due>>

-----------------------------------------------------------------------------
Reactor ==
  \E i \in 1 .. Len(rops) :
    (\E n \in 1 .. MaxLen : PerformRead(i, n)) \/ PerformEof(i)

ReadHandler ==
  \/ HandleAgain
  \/ HandleError
  \/ \E h \in Headers : HandleIncorrect(h) \/ HandleNeedMore(h) \/ HandleWhole(h)

Business ==
  \E t \in tasks : (\E body \in Bodies : Parse(t, body)) \/ ParseBadCrc(t)

Writer == \E o \in out : WriteRefused(o) \/ WriteDone(o) \/ WriteFailed(o)

\* The peer is gone, the connection closed, and nothing is left to do.
Finished ==
  /\ peerGone /\ ~open
  /\ rops = <<>> /\ chains = MaxChains
  /\ tasks = {} /\ out = {} /\ due = [valid \in BOOLEAN |-> 0]
  /\ UNCHANGED vars

Next ==
  \/ \E h \in Headers : PeerSend(h)
  \/ PeerLeaves
  \/ Reactor
  \/ \E i \in 1 .. Len(rops) : PerformAgain(i)
  \/ StartRead
  \/ ReadHandler
  \/ Business
  \/ \E valid \in BOOLEAN, b \in Buffers : Answer(valid, b)
  \/ Writer
  \/ Finished

SafeSpec == Init /\ [][Next]_vars

(* The reactor and the io_context's thread keep running, so do the business   *)
(* threads.  Nothing obliges the peer to send or to leave, and a request may    *)
(* have no answer (a delivered message is answered later or never).             *)
Fairness ==
  /\ WF_vars(Reactor)
  /\ WF_vars(StartRead)
  /\ WF_vars(ReadHandler)
  /\ WF_vars(Business)
  /\ WF_vars(\E b \in Buffers : Answer(FALSE, b))
  /\ WF_vars(Writer)

Spec == SafeSpec /\ Fairness

-----------------------------------------------------------------------------
Ops ==
  [buf : Buffers, off : Nat, len : Nat, gen : Nat,
   st : {"waiting", "done", "again", "failed"}, n : Nat]

TypeOK ==
  /\ open \in BOOLEAN /\ peerGone \in BOOLEAN
  /\ sent \in Seq(Headers) /\ start \in Seq(Nat) /\ Len(start) = Len(sent) + 1
  /\ rpos \in Nat /\ handed \in Nat /\ chains \in Nat /\ again \in Nat
  /\ buf \in [Buffers -> [mem : Seq(Nat), cap : Nat, gen : Nat, tail : Nat, packlen : Nat]]
  /\ recv \in Buffers \cup {NoBuffer}
  /\ free \in Seq(Buffers)
  /\ rops \in Seq(Ops)
  /\ tasks \subseteq [buf : Buffers, frame : Nat]
  /\ out \subseteq [buf : Buffers, valid : BOOLEAN]
  /\ due \in [BOOLEAN -> Nat]

(* A business thread finds in its buffer exactly the bytes of one frame, the  *)
(* next one of the stream at hand-over, and only frames that PackageCheck      *)
(* accepts: whatever way the bytes arrived in, and whatever the connection     *)
(* does with its buffers while the thread works on it.                         *)
FrameIntact ==
  \A t \in tasks :
    /\ t.frame \in 1 .. Len(sent)
    /\ Acceptable(sent[t.frame])
    /\ Content(buf[t.buf]) = FrameBytes(t.frame)

(* The memory given to async_read_some stays where it is, and is large enough,  *)
(* until the handler is called.                                                  *)
ReadMemoryValid ==
  \A i \in 1 .. Len(rops) :
    LET op == rops[i] IN
    buf[op.buf].gen = op.gen /\ op.off + op.len <= Len(buf[op.buf].mem)

(* A buffer has one owner: the pool (once), the read in progress, one business   *)
(* thread or one write.                                                          *)
OneOwner ==
  /\ \A i, j \in 1 .. Len(free) : free[i] = free[j] => i = j
  /\ \A t, u \in tasks : t.buf = u.buf => t = u
  /\ \A o, q \in out : o.buf = q.buf => o = q
  /\ FreeSet \cap TaskBuffers = {} /\ FreeSet \cap OutBuffers = {}
  /\ TaskBuffers \cap OutBuffers = {}
  /\ recv \notin FreeSet \cup TaskBuffers \cup OutBuffers

(* A frame that has been sent, with all before it in order, reaches the         *)
(* business threads unless the connection ends first.                            *)
FrameDelivered ==
  \A k \in 1 .. MaxFrames :
    (k <= Len(sent) /\ \A j \in 1 .. k : j <= Len(sent) /\ Acceptable(sent[j]))
      ~> (handed >= k \/ peerGone \/ ~open)

(* A peer that leaves, or sends a frame that PackageCheck, the CRC or the        *)
(* command table refuses, is cut off.                                            *)
BadPeerClosed ==
  (peerGone \/ \E k \in 1 .. Len(sent) : ~(Acceptable(sent[k]) /\ sent[k].body = "good"))
    ~> ~open

(* After close() the last read ends and no other is started: the connection is   *)
(* not kept alive by its reads.                                                  *)
ClosedDrains == ~open ~> [](rops = <<>>)
=============================================================================
