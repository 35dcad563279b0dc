------------------------------- MODULE Sender -------------------------------
(***************************************************************************)
(* The write half of a Connection (net/connection.cpp): async_write from any  *)
(* thread, the closures it posts to the connection's io_context, the          *)
(* outstanding async_write_some operations, short writes, close, and who      *)
(* keeps the Connection object alive meanwhile.                               *)
(*                                                                            *)
(* Handlers and posted closures run on the one thread of the io_context, each *)
(* in one step; the reactor writes bytes of the oldest waiting operation       *)
(* whenever the socket takes some.  Byte i of message m on the wire is         *)
(* <<m, i>>.                                                                   *)
(***************************************************************************)
EXTENDS Integers, Sequences, FiniteSets

CONSTANTS
  Messages,   \* the buffers handed to async_write
  Size,       \* their length: available()
  Invalid     \* those marked MsgBuffer::invalid

ASSUME SenderAssumption ==
  /\ Size \in [Messages -> Nat \ {0}]
  /\ Invalid \subseteq Messages

VARIABLES
  open,       \* m_socket->is_open()
  peerGone,   \* the peer has reset the connection: it takes no more bytes
  managed,    \* the owner's m_conn_manager holds the connection
  reading,    \* a read operation holds the connection (its self)
  unsent,     \* messages nobody has called async_write with yet
  posted,     \* closures posted by async_write, oldest first
  list,       \* m_send_buffer_list
  wops,       \* outstanding async_write_some operations, oldest first
  left,       \* available() of each message's buffer
  wire,       \* the bytes the socket has taken
  told,       \* messages whose completion handler was called
  pool,       \* messages whose buffer went back to the pool
  short,      \* history: a write was short
  crowded,    \* history: a write was short while another message was outstanding
  ub          \* undefined behaviour: a handler used an object that is gone

connVars == <<open, peerGone, managed, reading>>
dataVars == <<left, wire, told, pool>>
history == <<short, crowded, ub>>
vars == <<connVars, unsent, posted, list, wops, dataVars, history>>

\* A bug: no operation captures self.
HoldersNone == {}

\* Operations of async_write capture self, the ones handle_write starts do not.
Holders == {i \in 1 .. Len(wops) : ~wops[i].resumed}

Alive == managed \/ reading \/ posted # <<>> \/ Holders # {}

WriteOp(m, resumed) ==
  [msg |-> m, resumed |-> resumed, st |-> IF open THEN "waiting" ELSE "failed", n |-> 0]

\* The socket has taken only a part of what the operation offered.
Short(op) == op.st = "done" /\ op.n < left[op.msg]

\* Connection::recycle
Recycle(m) == pool' = pool \cup {m}

\* Connection::close: the owner releases the connection,
Close == open' = FALSE /\ managed' = FALSE

\* and what still waits is cancelled.
Aborted(ops) ==
  [i \in DOMAIN ops |-> IF ops[i].st = "waiting" THEN [ops[i] EXCEPT !.st = "failed"] ELSE ops[i]]

-----------------------------------------------------------------------------
Init ==
  /\ open = TRUE /\ peerGone = FALSE /\ managed = TRUE /\ reading = TRUE
  /\ unsent = Messages /\ posted = <<>> /\ list = <<>> /\ wops = <<>>
  /\ left = Size /\ wire = <<>> /\ told = {} /\ pool = {}
  /\ short = FALSE /\ crowded = FALSE /\ ub = FALSE

-----------------------------------------------------------------------------
\* Connection::async_write, called by a business thread that could lock its
\* weak_ptr to the connection.
AsyncWrite(m) ==
  /\ m \in unsent /\ Alive
  /\ unsent' = unsent \ {m}
  /\ posted' = Append(posted, m)
  /\ UNCHANGED <<connVars, list, wops, dataVars, history>>

\* The posted closure, for an invalid buffer or a closed socket: recycle, close.
RunRefused ==
  /\ posted # <<>>
  /\ Head(posted) \in Invalid \/ ~open
  /\ posted' = Tail(posted)
  /\ Recycle(Head(posted))
  /\ Close
  /\ wops' = Aborted(wops)
  /\ UNCHANGED <<peerGone, reading, unsent, list, left, wire, told, history>>

\* A bug: the newest message is written first.
RunFirst ==
  /\ posted # <<>>
  /\ Head(posted) \notin Invalid /\ open
  /\ posted' = Tail(posted)
  /\ wops' = <<WriteOp(Head(posted), FALSE)>> \o wops
  /\ crowded' = (crowded \/ \E i \in 1 .. Len(wops) : Short(wops[i]))
  /\ UNCHANGED <<connVars, unsent, list, dataVars, short, ub>>

\* The posted closure otherwise: a write of its own if the list is empty.
Run ==
  /\ posted # <<>>
  /\ Head(posted) \notin Invalid /\ open
  /\ posted' = Tail(posted)
  /\ IF list = <<>>
       THEN wops' = Append(wops, WriteOp(Head(posted), FALSE)) /\ UNCHANGED list
       ELSE list' = Append(list, Head(posted)) /\ UNCHANGED wops
  /\ crowded' = (crowded \/ \E i \in 1 .. Len(wops) : Short(wops[i]))
  /\ UNCHANGED <<connVars, unsent, dataVars, short, ub>>

-----------------------------------------------------------------------------
(* The reactor, the peer and the read half.                                 *)
OldestWaiting(i) ==
  wops[i].st = "waiting" /\ \A j \in 1 .. i - 1 : wops[j].st # "waiting"

PerformWrite(i, n) ==
  LET m == wops[i].msg IN
  /\ OldestWaiting(i) /\ ~peerGone
  /\ n <= left[m]
  /\ wire' = wire \o [j \in 1 .. n |-> <<m, Size[m] - left[m] + j>>]
  /\ wops' = [wops EXCEPT ![i].st = "done", ![i].n = n]
  /\ short' = (short \/ n < left[m])
  /\ crowded' = (crowded \/ (n < left[m] /\ i < Len(wops)))
  /\ UNCHANGED <<connVars, unsent, posted, list, left, told, pool, ub>>

PerformError(i) ==
  /\ OldestWaiting(i) /\ peerGone
  /\ wops' = [wops EXCEPT ![i].st = "failed"]
  /\ UNCHANGED <<connVars, unsent, posted, list, dataVars, history>>

PeerLeaves ==
  /\ ~peerGone
  /\ peerGone' = TRUE
  /\ UNCHANGED <<open, managed, reading, unsent, posted, list, wops, dataVars, history>>

\* handle_read ends the chain of reads: an error, a frame refused, or close().
ReadEnds ==
  /\ reading
  /\ reading' = FALSE
  /\ Close
  /\ wops' = Aborted(wops)
  /\ UNCHANGED <<peerGone, unsent, posted, list, dataVars, history>>

-----------------------------------------------------------------------------
(* The completion handlers, as long as the operation is in wops.  The one of   *)
(* a resumed operation calls the user's handler through a reference into the    *)
(* operation before it, which is gone, and uses a connection that nothing may   *)
(* hold any more.                                                                *)
Front == Head(wops)

Resumes(l) == [i \in 1 .. Len(l) |-> WriteOp(l[i], TRUE)]

\* The whole rest was written: the completion handler, recycle, handle_write.
HandleWritten ==
  /\ wops # <<>> /\ Front.st = "done" /\ Front.n = left[Front.msg]
  /\ ub' = (Front.resumed \/ ~Alive)
  /\ left' = [left EXCEPT ![Front.msg] = 0]
  /\ told' = told \cup {Front.msg}
  /\ Recycle(Front.msg)
  /\ wops' = Tail(wops) \o Resumes(list)
  /\ list' = <<>>
  /\ UNCHANGED <<connVars, unsent, posted, wire, short, crowded>>

\* A bug: consume() is forgotten, the operation is repeated for all of the buffer.
HandleShortNoConsume ==
  /\ wops # <<>> /\ Short(Front)
  /\ ub' = ~Alive
  /\ wops' = Tail(wops) \o Resumes(<<Front.msg>> \o list)
  /\ list' = <<>>
  /\ UNCHANGED <<connVars, unsent, posted, left, wire, told, pool, short, crowded>>

\* A bug: the buffer is recycled although a part of it is still to be written.
HandleShortRecycles ==
  /\ wops # <<>> /\ Short(Front)
  /\ ub' = ~Alive
  /\ left' = [left EXCEPT ![Front.msg] = @ - Front.n]
  /\ Recycle(Front.msg)
  /\ wops' = Tail(wops) \o Resumes(<<Front.msg>> \o list)
  /\ list' = <<>>
  /\ UNCHANGED <<connVars, unsent, posted, wire, told, short, crowded>>

\* A bug: handle_write is not called, the rest waits in the list.
HandleShortWaits ==
  /\ wops # <<>> /\ Short(Front)
  /\ ub' = ~Alive
  /\ left' = [left EXCEPT ![Front.msg] = @ - Front.n]
  /\ wops' = Tail(wops)
  /\ list' = <<Front.msg>> \o list
  /\ UNCHANGED <<connVars, unsent, posted, wire, told, pool, short, crowded>>

\* A short write: consume, push_front, and handle_write starts the rest again,
\* behind whatever is outstanding by now.
HandleShort ==
  /\ wops # <<>> /\ Short(Front)
  /\ ub' = ~Alive
  /\ left' = [left EXCEPT ![Front.msg] = @ - Front.n]
  /\ wops' = Tail(wops) \o Resumes(<<Front.msg>> \o list)
  /\ list' = <<>>
  /\ UNCHANGED <<connVars, unsent, posted, wire, told, pool, short, crowded>>

\* An error (interrupted and try_again too, as no byte was transferred): close.
\* The buffer is dropped.
HandleWriteError ==
  /\ wops # <<>> /\ Front.st = "failed"
  /\ ub' = ~Alive
  /\ Close
  /\ wops' = Aborted(Tail(wops) \o Resumes(list))
  /\ list' = <<>>
  /\ UNCHANGED <<peerGone, reading, unsent, posted, dataVars, short, crowded>>

-----------------------------------------------------------------------------
Reactor ==
  \E i \in 1 .. Len(wops) :
    (\E n \in 1 .. left[wops[i].msg] : PerformWrite(i, n)) \/ PerformError(i)

WriteHandler == HandleWritten \/ HandleShort \/ HandleWriteError

\* The connection is closed and nothing of it is left.
Finished ==
  /\ ~Alive /\ wops = <<>> /\ peerGone
  /\ UNCHANGED vars

\* After undefined behaviour the model says nothing more.
Undefined == ub /\ UNCHANGED vars

Next ==
  \/ ~ub /\ \/ \E m \in Messages : AsyncWrite(m)
            \/ RunRefused
            \/ Run
            \/ Reactor
            \/ PeerLeaves
            \/ ReadEnds
            \/ WriteHandler
            \/ Finished
  \/ Undefined

SafeSpec == Init /\ [][Next]_vars

(* The io_context's thread keeps running its handlers and the socket takes     *)
(* bytes as long as the peer is there; when it is not, or the socket is closed, *)
(* the pending read fails.                                                       *)
Fairness ==
  /\ WF_vars(~ub /\ (RunRefused \/ Run))
  /\ WF_vars(~ub /\ Reactor)
  /\ WF_vars(~ub /\ WriteHandler)
  /\ WF_vars(~ub /\ ReadEnds /\ (peerGone \/ ~open))

Spec == SafeSpec /\ Fairness

-----------------------------------------------------------------------------
\* Bytes of message m that an operation has written and no handler has seen.
Unseen(m) ==
  {i \in 1 .. Len(wops) : wops[i].msg = m /\ wops[i].st = "done"}

\* Where on the wire the bytes of message m are.
Sent(m) == {i \in 1 .. Len(wire) : wire[i][1] = m}

(* However the socket cuts a message up, its bytes are written in order, none   *)
(* twice and none skipped, and its buffer counts exactly the ones to come.       *)
BytesExact ==
  \A m \in Messages :
    /\ \A i, j \in Sent(m) : i < j => wire[i][2] < wire[j][2]
    /\ \E seen \in {0} \cup {wops[i].n : i \in Unseen(m)} :
         {wire[i][2] : i \in Sent(m)} = 1 .. Size[m] - left[m] + seen

(* Unless a write was short while another message was outstanding, the frames    *)
(* are on the wire one after the other: a frame starts only when the one before   *)
(* it is complete.  (Connection does not wait for one write before it starts the   *)
(* next, and the rest of a short write goes behind what is outstanding.)            *)
FramesContiguous ==
  ~crowded =>
    \A i \in 1 .. Len(wire) - 1 :
      LET x == wire[i]  y == wire[i + 1] IN
      \/ y = <<x[1], x[2] + 1>>
      \/ x[2] = Size[x[1]] /\ y[1] # x[1] /\ y[2] = 1

(* The completion handler is called, and the buffer goes back to the pool, only   *)
(* when the message is on the wire (or was refused); no operation refers to a      *)
(* buffer the pool may give to somebody else.                                      *)
PoolBufferIdle ==
  /\ \A m \in told : m \in pool /\ left[m] = 0
  /\ \A m \in pool :
       /\ \A i \in 1 .. Len(wops) : wops[i].msg # m
       /\ \A i \in 1 .. Len(posted) : posted[i] # m
       /\ \A i \in 1 .. Len(list) : list[i] # m

(* A handler meets an object that is gone only after a short write: every other    *)
(* operation owns its handler and a reference to the connection.                    *)
SoundWithoutShortWrites == ub => short

(* A message given to async_write is written, or the connection closes, and its     *)
(* callback is not forgotten.                                                        *)
MessageSettled ==
  \A m \in Messages : m \notin unsent ~> (m \in told \/ ~open \/ ub)

=============================================================================
