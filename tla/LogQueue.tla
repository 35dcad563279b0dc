------------------------------ MODULE LogQueue ------------------------------
(***************************************************************************)
(* The guaranteed logger of util/nanolog.hpp: QueueBuffer, a queue of        *)
(* Buffers of Size slots that many threads fill and one thread empties, and   *)
(* NanoLogger, whose thread writes what it pops to the file.                  *)
(*                                                                            *)
(* Every access to an atomic is a step of its own.  The accesses are taken in  *)
(* program order, as on the x86 machines the build is for.  Buffers are        *)
(* numbered in the order in which they are made; a line is <<p, n>>, the n-th  *)
(* of thread p.                                                                *)
(***************************************************************************)
EXTENDS Integers, Sequences

CONSTANTS
  Producers,   \* the threads that log
  Lines,       \* bound: lines each of them logs
  Size,        \* Buffer::size
  MaxBuffers   \* bound: Buffers ever made

ASSUME LogQueueAssumption ==
  /\ Lines \in Nat /\ Size \in Nat \ {0} /\ MaxBuffers \in Nat \ {0}

Buffers == 1 .. MaxBuffers
Null == 0
NoLine == <<>>
LogLines == Producers \X (1 .. Lines)

VARIABLES
  windex,    \* m_write_index
  wbuf,      \* m_current_write_buffer
  queue,     \* m_buffers
  flag,      \* m_flag: the spin lock of m_buffers is held
  slot,      \* the Items of each Buffer, written where m_write_state is 1
  count,     \* m_write_state[size] of each Buffer
  made,      \* Buffers made so far
  freed,     \* Buffers deleted so far
  pc,        \* where each producer is in push
  seq,       \* lines each producer has begun to push
  idx,       \* its write_index
  target,    \* the Buffer whose push it is in
  state,     \* NanoLogger::m_state
  rpc,       \* where the popping thread is
  draining,  \* it has seen SHUTDOWN
  rbuf,      \* m_current_read_buffer
  rindex,    \* m_read_index
  file,      \* the lines written to the file
  ub         \* a deleted Buffer was used

sharedVars == <<windex, wbuf, queue, flag, slot, count, made, freed>>
producerVars == <<pc, seq, idx, target>>
readerVars == <<rpc, draining, rbuf, rindex, file>>
vars == <<sharedVars, producerVars, state, readerVars, ub>>

\* A Buffer as it is made: no m_write_state is set.
NewBuffer == [i \in 0 .. Size - 1 |-> NoLine]

\* What SpinLock waits for.
SpinLock == ~flag

Init ==
  /\ windex = 0 /\ wbuf = 1 /\ queue = <<1>> /\ flag = FALSE
  /\ slot = [b \in Buffers |-> NewBuffer]
  /\ count = [b \in Buffers |-> 0] /\ made = 1 /\ freed = {}
  /\ pc = [p \in Producers |-> "idle"] /\ seq = [p \in Producers |-> 0]
  /\ idx = [p \in Producers |-> 0] /\ target = [p \in Producers |-> Null]
  /\ state = "INIT"
  /\ rpc = "check" /\ draining = FALSE /\ rbuf = Null /\ rindex = 0 /\ file = <<>>
  /\ ub = FALSE

-----------------------------------------------------------------------------
(* QueueBuffer::push                                                        *)
Go(p, from, to) == pc[p] = from /\ pc' = [pc EXCEPT ![p] = to]

\* Logger::operator== with the thread's next line.
Log(p) ==
  /\ Go(p, "idle", "reserve")
  /\ state = "READY" /\ seq[p] < Lines
  /\ seq' = [seq EXCEPT ![p] = @ + 1]
  /\ UNCHANGED <<sharedVars, idx, target, state, readerVars, ub>>

Reserve(p) ==
  /\ Go(p, "reserve", IF windex < Size THEN "load" ELSE "spin")
  /\ idx' = [idx EXCEPT ![p] = windex]
  /\ windex' = windex + 1
  /\ UNCHANGED <<wbuf, queue, flag, slot, count, made, freed, seq, target, state, readerVars, ub>>

\* while (m_write_index >= size); then push again.
Spin(p) ==
  /\ windex < Size
  /\ Go(p, "spin", "reserve")
  /\ UNCHANGED <<sharedVars, seq, idx, target, state, readerVars, ub>>

Load(p) ==
  /\ Go(p, "load", "store")
  /\ target' = [target EXCEPT ![p] = wbuf]
  /\ UNCHANGED <<sharedVars, seq, idx, state, readerVars, ub>>

\* The Item is made and its m_write_state set.
Store(p) ==
  /\ Go(p, "store", "count")
  /\ slot' = [slot EXCEPT ![target[p]][idx[p]] = <<p, seq[p]>>]
  /\ ub' = (ub \/ target[p] \in freed)
  /\ UNCHANGED <<windex, wbuf, queue, flag, count, made, freed, seq, idx, target, state, readerVars>>

\* A bug: the buffer is changed one line too early.
CountEarly(p) ==
  /\ Go(p, "count", IF count[target[p]] + 1 = Size - 1 THEN "setup" ELSE "idle")
  /\ count' = [count EXCEPT ![target[p]] = @ + 1]
  /\ ub' = (ub \/ target[p] \in freed)
  /\ UNCHANGED <<windex, wbuf, queue, flag, slot, made, freed, seq, idx, target, state, readerVars>>

\* m_write_state[size].fetch_add.  If the Buffer has been deleted by now, the
\* increment is lost at best.
Count(p) ==
  /\ Go(p, "count",
        IF target[p] \notin freed /\ count[target[p]] + 1 = Size THEN "setup" ELSE "idle")
  /\ count' = IF target[p] \in freed THEN count ELSE [count EXCEPT ![target[p]] = @ + 1]
  /\ ub' = (ub \/ target[p] \in freed)
  /\ UNCHANGED <<windex, wbuf, queue, flag, slot, made, freed, seq, idx, target, state, readerVars>>

\* setup_next_write_buffer: new Buffer, stored in m_current_write_buffer,
SetupStore(p) ==
  /\ made < MaxBuffers
  /\ Go(p, "setup", "publish")
  /\ made' = made + 1
  /\ wbuf' = made + 1
  /\ UNCHANGED <<windex, queue, flag, slot, count, freed, seq, idx, target, state, readerVars, ub>>

\* A bug: the buffer is not queued.
SetupPushForgotten(p) ==
  /\ SpinLock
  /\ Go(p, "publish", "reset")
  /\ flag' = TRUE
  /\ UNCHANGED <<windex, wbuf, queue, slot, count, made, freed, seq, idx, target, state, readerVars, ub>>

\* pushed to m_buffers under the spin lock,
SetupPush(p) ==
  /\ SpinLock
  /\ Go(p, "publish", "reset")
  /\ flag' = TRUE
  /\ queue' = Append(queue, wbuf)
  /\ UNCHANGED <<windex, wbuf, slot, count, made, freed, seq, idx, target, state, readerVars, ub>>

\* and the index is reset, which lets the producers in again.
SetupReset(p) ==
  /\ Go(p, "reset", "idle")
  /\ windex' = 0
  /\ flag' = FALSE
  /\ UNCHANGED <<wbuf, queue, slot, count, made, freed, seq, idx, target, state, readerVars, ub>>

-----------------------------------------------------------------------------
(* NanoLogger: construction, destruction, and the thread that pops.          *)
Construct ==
  /\ state = "INIT"
  /\ state' = "READY"
  /\ UNCHANGED <<sharedVars, producerVars, readerVars, ub>>

\* ~NanoLogger, at exit: the threads that log have been joined by then.
Shutdown ==
  /\ state = "READY"
  /\ \A p \in Producers : pc[p] = "idle" /\ seq[p] = Lines
  /\ state' = "SHUTDOWN"
  /\ UNCHANGED <<sharedVars, producerVars, readerVars, ub>>

\* A bug: what is left is not written.
LoopCheckNoDrain ==
  /\ rpc = "check" /\ state # "INIT"
  /\ draining' = (state = "SHUTDOWN")
  /\ rpc' = IF state = "SHUTDOWN" THEN "done" ELSE "pop"
  /\ UNCHANGED <<sharedVars, producerVars, state, rbuf, rindex, file, ub>>

LoopCheck ==
  /\ rpc = "check" /\ state # "INIT"
  /\ draining' = (state = "SHUTDOWN")
  /\ rpc' = "pop"
  /\ UNCHANGED <<sharedVars, producerVars, state, rbuf, rindex, file, ub>>

AfterMiss == IF draining THEN "done" ELSE "check"
AfterHit == IF draining THEN "pop" ELSE "check"

\* get_next_read_buffer
NextBuffer ==
  /\ rpc = "pop" /\ rbuf = Null /\ SpinLock
  /\ IF queue = <<>>
       THEN rpc' = AfterMiss /\ UNCHANGED rbuf
       ELSE rbuf' = Head(queue) /\ UNCHANGED rpc
  /\ UNCHANGED <<sharedVars, producerVars, state, draining, rindex, file, ub>>

\* A bug: the last slot is taken to be the one before it.
LastSlotEarly == rindex + 1 >= Size - 1

LastSlot == rindex + 1 = Size

TryPopMiss ==
  /\ rpc = "pop" /\ rbuf # Null
  /\ slot[rbuf][rindex] = NoLine
  /\ rpc' = AfterMiss
  /\ UNCHANGED <<sharedVars, producerVars, state, draining, rbuf, rindex, file, ub>>

\* The line is moved out and will be written to the file.
TryPopHit ==
  /\ rpc = "pop" /\ rbuf # Null
  /\ slot[rbuf][rindex] # NoLine
  /\ file' = Append(file, slot[rbuf][rindex])
  /\ IF LastSlot
       THEN rindex' = 0 /\ rpc' = "free" /\ rbuf' = Null
       ELSE rindex' = rindex + 1 /\ rpc' = AfterHit /\ UNCHANGED rbuf
  /\ UNCHANGED <<sharedVars, producerVars, state, draining, ub>>

\* m_buffers.pop() deletes the Buffer that has been read.
PopBuffer ==
  /\ rpc = "free" /\ SpinLock
  /\ queue' = Tail(queue)
  /\ freed' = freed \cup {Head(queue)}
  /\ rpc' = AfterHit
  /\ UNCHANGED <<windex, wbuf, flag, slot, count, made, producerVars, state, draining,
                 rbuf, rindex, file, ub>>

-----------------------------------------------------------------------------
Push(p) ==
  \/ Reserve(p) \/ Spin(p) \/ Load(p) \/ Store(p) \/ Count(p)
  \/ SetupStore(p) \/ SetupPush(p) \/ SetupReset(p)

Popper == LoopCheck \/ NextBuffer \/ TryPopMiss \/ TryPopHit \/ PopBuffer

\* The logger has been destroyed.
Finished == rpc = "done" /\ UNCHANGED vars

Next ==
  \/ Construct \/ Shutdown
  \/ \E p \in Producers : Log(p) \/ Push(p)
  \/ Popper
  \/ Finished

SafeSpec == Init /\ [][Next]_vars

(* Every thread that is in push, and the popping thread, is scheduled again     *)
(* and again.  No thread has to log.                                            *)
Fairness == WF_vars(Construct) /\ WF_vars(Popper) /\ \A p \in Producers : WF_vars(Push(p))

Spec == SafeSpec /\ Fairness

-----------------------------------------------------------------------------
TypeOK ==
  /\ windex \in Nat /\ wbuf \in Buffers /\ queue \in Seq(Buffers) /\ flag \in BOOLEAN
  /\ slot \in [Buffers -> [0 .. Size - 1 -> LogLines \cup {NoLine}]]
  /\ count \in [Buffers -> 0 .. Size] /\ made \in Buffers /\ freed \subseteq Buffers
  /\ pc \in [Producers -> {"idle", "reserve", "spin", "load", "store", "count",
                           "setup", "publish", "reset"}]
  /\ seq \in [Producers -> 0 .. Lines] /\ idx \in [Producers -> Nat]
  /\ target \in [Producers -> Buffers \cup {Null}]
  /\ state \in {"INIT", "READY", "SHUTDOWN"}
  /\ rpc \in {"check", "pop", "free", "done"} /\ draining \in BOOLEAN
  /\ rbuf \in Buffers \cup {Null} /\ rindex \in 0 .. Size - 1
  /\ file \in Seq(LogLines) /\ ub \in BOOLEAN

Stored(p) == IF pc[p] \in {"reserve", "spin", "load", "store"} THEN seq[p] - 1 ELSE seq[p]

\* Lines in slots the popping thread has still to read.
Waiting ==
  {slot[b][i] : b \in {c \in Buffers \ freed :
                         c # rbuf /\ ~(rpc = "free" /\ c = Head(queue))},
                i \in 0 .. Size - 1}
  \cup IF rbuf = Null THEN {} ELSE {slot[rbuf][i] : i \in rindex .. Size - 1}

Service == INSTANCE LineLog WITH
  Threads <- Producers, Lossy <- FALSE,
  taken <- [p \in Producers |-> Stored(p)], pending <- Waiting \ {NoLine}, lost <- {},
  closed <- rpc = "done"

(* The guaranteed logger is a log without loss: each step of the threads in push    *)
(* and of the popping thread takes the next line of a thread, writes the oldest line *)
(* of a thread that is not written yet, closes the log with nothing left, or changes  *)
(* nothing that can be seen.                                                          *)
ImplementsLog == Service!SafeSpec

InFile(line) == \E i \in 1 .. Len(file) : file[i] = line

(* The slot a producer has reserved is in a Buffer that exists, and two          *)
(* producers never write the same slot: only the counter may be incremented       *)
(* too late.                                                                       *)
SlotSafe ==
  \A p \in Producers : pc[p] = "store" =>
    /\ target[p] \notin freed
    /\ slot[target[p]][idx[p]] = NoLine
    /\ \A q \in Producers \ {p} :
         pc[q] = "store" => target[q] # target[p] \/ idx[q] # idx[p]

(* A line that has been stored is in the file or in a slot that is still to be     *)
(* read: switching buffers, resetting the index and deleting buffers lose none.    *)
LineKept ==
  \A p \in Producers : \A n \in 1 .. Stored(p) :
    InFile(<<p, n>>) \/ <<p, n>> \in Waiting

(* The lines of a thread are in the file once each and in the order in which it    *)
(* logged them, none left out.                                                     *)
ThreadOrder ==
  \A j \in 1 .. Len(file) :
    /\ \A i \in 1 .. j - 1 : file[i][1] = file[j][1] => file[i][2] < file[j][2]
    /\ file[j][2] > 1 => \E i \in 1 .. j - 1 : file[i] = <<file[j][1], file[j][2] - 1>>

(* Unless a deleted Buffer was used, the destructor returns only when every line   *)
(* is in the file.                                                                  *)
DrainComplete ==
  rpc = "done" /\ ~ub => \A line \in LogLines : InFile(line)

(* A line that is logged reaches the file, also when its thread found the buffer   *)
(* full and had to wait for another one, unless a deleted Buffer was used.           *)
LineLogged ==
  \A p \in Producers : \A n \in 1 .. Lines : seq[p] >= n ~> (InFile(<<p, n>>) \/ ub)

(* What GuaranteedLogger promises: "a guarantee log lines will not be dropped".      *)
GuaranteeKept ==
  \A p \in Producers : \A n \in 1 .. Lines : seq[p] >= n ~> InFile(<<p, n>>)
=============================================================================
