# TLA+ models of sparrow

sparrow is a small C++17 server frame on top of asio: a `Server` and a `Client`
made of `Connection`s, a pool of I/O threads, a pool of business threads, a
logger and a database link pool. This directory models its concurrent core,
checks it with TLC on small instances and proves its safety with TLAPS for
every instance, the byte-level protocol excepted. Paths below are relative to the root of the repository.

## 1. The system

| Component | State | Operations | Talks to |
|---|---|---|---|
| Business thread pool: `util/threadpool.*`, `util/queue.h` | one bounded `Queue` per worker (`m_queue`, `m_stop`, two condition variables), `m_running` | `add_task`, `Queue::add`, `Queue::dequeue`, the worker loop, `stop` | called by the I/O threads with whole frames; runs the application's handler |
| Connection, read half: `net/connection.*`, `net/msgbuffer.*`, `net/objectpool.h` | socket, `m_recv_buffer` (vector, head, tail, `m_packlen`), pool of free buffers | `async_read`, `handle_read`, `PackageCheck`, `close`, `recycle` | asio's reactor below, `Server::handle_read` or `Client::handle_read` above |
| Connection, write half | `m_send_buffer_list`, outstanding `async_write_some` operations | `async_write` and the closure it posts, `handle_write`, `close` | called by business threads and timers; runs on the connection's I/O thread |
| Application: `src/application.*`, `main.cpp` | server, client, a thread-local `weak_ptr` to an audit connection | `handle_read_msg`, `parse_check`, `handle_write_msg`, requests and answers | the business threads call it, it calls `async_write` |
| Server: `net/server.*` | acceptors, thread-local connection table | `start`, `async_accept`, `handle_accept`, `release` | I/O context pool, thread pool, connections |
| Client: `net/client.*`, `net/repeattimer.h` | connection table under a mutex, counts per peer, reconnect and keep-alive timers | `async_connect`, `handle_connect`, `get_conn`, `handle_write`, timers | I/O context pool, the server's thread pool |
| I/O context pool: `net/iocpool.*` | `io_context`s, their threads, `m_ioc_pos` | `get_iocontext`, `stop` | Server, Client |
| Protocol: `src/protocol/*`, `net/msgbuffer.*` | none of its own; a `MsgBuffer` per message | head and body encoding and decoding, `makeup`, CRC, the typed readers and writers of `MsgBuffer` | application, client |
| Guaranteed logger: `QueueBuffer`, `Buffer`, `NanoLogger` in `util/nanolog.hpp` | write index, current write buffer, queue of buffers, slot flags and counter of a buffer | `push`, `try_pop`, the popping thread, the destructor | every thread logs |
| Non-guaranteed logger: `RingBuffer` | write and read index, slots with their own spin lock | the same | the same |
| Log file: `FileWriter` | stream, bytes written, file number | `write`, `roll_file` | the popping thread |
| Database link pool: `dao/*` | list of links at rest, some of them null; number of links made | `init`, `get_link` with a time-out, `LinkGuard`, `return_back`, `Dao` | not used by `main.cpp` |

A frame's way: the reactor fills `m_recv_buffer`; `handle_read` finds a whole
frame and `Server::handle_read` moves the buffer into a task for a random queue
of the thread pool; a business thread checks and decodes it, recycles the
buffer, takes another one for the answer and calls `Connection::async_write`,
which posts a closure to the connection's I/O thread; that starts a write and
recycles the buffer when it is done. All of them log.

What is hard here, and to test: notifications sent after the lock is released
and with `notify_one`; `stop` against callers blocked on full queues; frames in
pieces of any size with a reused, growing buffer under an outstanding read;
buffers that change owner between threads; several writes outstanding at once,
short writes and failures among them; a lock-free log queue whose buffers are
deleted by the reader; index wrap-around and overflow of the ring; a link pool
whose time-outs race with returned links; connection tables whose keys are
descriptors that the kernel gives out again before the entry is erased; a round
robin over the I/O contexts and a table that some threads use without the lock
the others take; accepts, connects and timers that go on only if each starts the
next.
`PROJECT.json` lists these hazards at their lines, with the properties about
each of them. A few things besides are hazards to a user of the code, but nothing in it promises
otherwise, so there is no property to state: requests of one peer go to random queues and may be
handled in another order (`server.cpp:121`), `Dao::init` keeps pointers to its caller's strings (`dao.h:59`), and what
section 5 notes of `get_conn`, the `weak_ptr` and the reconnect timer.

What makes each part correct, in a line:

* thread pool: tasks of a queue run once each and in order, no thread sleeps
  through its wake-up, `add_task` and `stop` return, nothing runs after `stop`;
* read half: a business thread gets exactly one acceptable frame, memory under a
  read stays valid, a buffer has one owner, a bad peer is cut off;
* write half: the bytes of a message are written once and in order, a recycled
  buffer is idle, every message is written or the connection closes;
* server: each I/O thread's table has exactly the open connections it serves, the
  accepts outstanding at each port are accounted for, a peer that connects is served;
* client: the table has the open connections, only as many threads are in it as its mutex
  allows, a server gets its connections, an open connection sends keep-alives;
* loggers: a logged line is written once, in its thread's order, also at exit;
* log file: rolling starts another file;
* link pool: a link has one user, a failed one is not handed on, a place in the
  pool is never lost, nobody waits beside a link at rest;
* protocol: what one side encodes the other accepts and decodes, in a buffer
  that grows and is used again.

## 2. Modules

| Module | Models | Instances |
|---|---|---|
| `TaskService` | what the thread pool promises: tasks taken once, started in order, run once, none started from a halted queue | |
| `ThreadPool` | `util/threadpool.*` over `util/queue.h` | `MCThreadPool` |
| `ThreadPoolProofs` | theorems about `ThreadPool` and its refinement of `TaskService` | |
| `Receiver` | read half of a connection, buffer pool, and what the business threads do with buffers | `MCReceiver` |
| `ReceiverProofs` | theorems about `Receiver` | |
| `Sender` | write half of a connection and who keeps it alive | `MCSender` |
| `SenderProofs` | theorems about `Sender` | |
| `Acceptor` | `net/server.*`, `IocPool::get_iocontext`, the server's connection tables | `MCAcceptor` |
| `AcceptorProofs` | theorems about `Acceptor` | |
| `Client` | `net/client.*` with its timers, its connection table and the business threads that use it | `MCClient` |
| `ClientProofs` | theorems about `Client` | |
| `LineLog` | what the loggers promise: lines are taken in their thread's order and written once, or, with `Lossy`, lost to one later line; after a loss, lines may also stay unwritten at exit | |
| `LogQueue` | guaranteed logger | `MCLogQueue` |
| `LogQueueProofs` | theorems about `LogQueue` and its refinement of `LineLog` | |
| `LogRing` | non-guaranteed logger | `MCLogRing` |
| `LogRingProofs` | theorems about `LogRing` and its refinement of `LineLog` | |
| `LogFile` | log file | itself |
| `LinkPool` | database link pool and `Dao`'s use of it | `MCLinkPool` |
| `LinkPoolProofs` | theorems about `LinkPool` | |
| `Codec` | messages, frames and CRC over `MsgBuffer` as a byte stream | `MCCodec` |

### ThreadPool

One queue and one worker per index, any number of callers, one thread in
`stop()`. What a thread does while it holds `Queue::m_mutex` is one action;
`notify_one` and `notify_all` come after the unlock and are actions of their
own. A blocked thread is `asleep`; a notification or a spurious wake-up sends it
back to the wait predicate. `AddTask` is `add_task` with its random queue,
`AddRefused`/`AddPush`/`AddWait`/`AddNotify` are `Queue::add`,
`DequeueStopped`/`DequeuePop`/`DequeueWait`/`DequeueNotify` are
`Queue::dequeue`, `LoopCheck` and `RunTask` the worker loop, and `StopCall`,
`StopSet`, `StopWakeWorkers`, `StopWakeProducers`, `StopClear`, `StopJoin` are
`stop_threadpool` with its loop over the queues. The history variables
`submitted`, `accepted`, `executed` and `refused` record what happened to tasks;
no action reads them except for `AddTask`, which hands over each task object
once. Tasks left in a queue at `stop` are abandoned and later calls of `add` drop theirs:
that is what the code does, and `TaskService` says so.

### Receiver

A stream byte is its position in the stream, so that "the buffer holds frame k"
is an equation; a header is a record with the three things the code looks at
(magic number, length, and what the application will say of the body). Buffers
are `MsgBuffer`s: contents, capacity, `m_tail`, `m_packlen`, and a generation that
counts allocations, so that "this read's memory is gone" can be said. A read
operation remembers buffer, offset, length and generation. `StartRead` is
`async_read`; `HandleAgain`, `HandleError`, `HandleIncorrect`, `HandleNeedMore`
and `HandleWhole` are the ways through `handle_read`, the last one with
`Server::handle_read`'s hand-over; `Parse`, `ParseBadCrc` and `Answer` are the
application on a business thread; `WriteRefused`, `WriteDone` and `WriteFailed`
are the write half as far as it recycles buffers and closes. Each of these runs on one
I/O thread or under the buffer pool's mutex and is one action. The reactor
(`PerformRead`, `PerformEof`, `PerformAgain`) and the peer are external. The
length is computed modulo `LenMod`, as `packlen+2` is in 32 bits. A `Server`
starts one chain of reads per connection, a `Client` one per completed write:
`MaxChains`. `Answering` tells a server's connection, whose requests are answered,
from a client's.

### Sender

Closures posted by `async_write` run in order on the connection's I/O thread;
`wops` are the outstanding `async_write_some` operations, of which the reactor
serves the oldest. `Run` is the closure: as `m_send_buffer_list` is empty whenever
it runs, it always starts a write of its own. `HandleWritten`, `HandleShort` and
`HandleWriteError` are the completion handlers with the `handle_write` they end
in, which restarts what is in the list, without a `shared_ptr` to the connection and
with a reference to a handler that is gone. `Alive` says that some `shared_ptr` to
the connection exists. When a handler uses an object that is gone, `ub` becomes
true and the model says no more: the behaviour of the program is undefined from
there.

### Acceptor

`start()` runs on the main thread, which starts the acceptor thread before it calls `async_accept`; from
then on `async_accept` runs in accept handlers on the acceptor thread. So both may be in its loop over the
acceptors at once, and the loop is five actions: `Index`, `Bump`, `Compare` and `Wrap` are the accesses of
`IocPool::get_iocontext` to the atomic `m_ioc_pos`, each of them one step; `Arm` is `acceptor->async_accept`. `Accept` and `AcceptFails` are the kernel completing the oldest
accept of a port; an accepted connection gets the lowest free descriptor, which is its `m_uuid`. `HandleAccept` and
`StartRead` are the rest of the handler on the acceptor thread, `Insert`, `CloseSocket` and `Release` run on the connection's I/O thread,
one after the other and in the order they were posted: that `m_conn_manager` is `thread_local` is `Table`. Between `CloseSocket` and `Release` the
descriptor is free and may be given to another connection. Two ways out of the model are `status`: `terminated`, when `set_conn_info`
throws as the peer is gone, and `undefined`, when `m_iocs` is indexed past its end. Three history variables count or
remember what the properties speak of (`elsewhere`, `failures`, `overlap`); no action reads them. The ports are bound and listening when `start()` is entered: if
`bind` gives an error, or an option or `listen` fails, there is no acceptor thread and no server.

### Client

A `Connection` object is a number, used again when the object is destroyed. The connector thread starts connects, at first and when
its timer finds too few (`Reconnect`, `Connect`); each I/O thread runs one handler after the other: a connect that fails
(`RunRefused`) or succeeds (`RunConnected`, `LockInsert`, `Insert`), a posted write (`RunWrite`), the end of a connection
(`RunEnd`), and the second half of `close()`, `Release`. A business thread with an audit request uses the connection its
`weak_ptr` still has, or asks `get_conn` (`Ask`, `LockPick`, `Pick`, `Copy`, `Send`). `m_manager_mutex` is a variable, taken where the code takes it, which
`release()` does not; `Race` says that two threads are in the table at once and one changes it. `get_conn` returns a reference, which `Copy` uses after the mutex is released.
A connect that failed is released with an `m_uuid` nobody has set: its key is arbitrary. `status` says how a behaviour left what C++ defines or ended:
`terminated` (an exception nothing catches), `empty` (`get_conn` without a connection), `dangling`, `race`. A connection whose timer was started is never
destroyed, as the timer's handler holds a `shared_ptr` to it; expiry and handler of a timer are one action, because the handler only posts
a write. `closes` and `loss` are history.

### LogQueue and LogRing

In `LogQueue` each access to an atomic variable is an action: `Reserve`, `Spin`, `Load`,
`Store`, `Count` are `QueueBuffer::push` and `Buffer::push`, `SetupStore`, `SetupPush`,
`SetupReset` are `setup_next_write_buffer`; `LoopCheck`, `NextBuffer`, `TryPopMiss`,
`TryPopHit`, `PopBuffer` are the popping thread. Atomic accesses are taken in program
order, which is what x86 gives this code; reorderings a weaker machine may make of the
relaxed stores are outside the model. A deleted buffer is in `freed`; using it sets `ub`,
and an increment of its counter has no effect (the mildest of its outcomes, and the one
that the memory allocator of the build makes likely; the safety invariants other than `DrainComplete`
hold with and without it). In `LogRing` a slot is only touched under its own lock, so
reserving an index and writing the slot are the two steps of `push`; indexes wrap at
`IndexMod` (2^32 in the code).

Both implement `LineLog` (`Service`, `ImplementsLog`). A line is taken when it is stored in its slot; pending lines are those in
slots that the popping thread has still to read, or in the ring; the log is closed when the popping thread has left its loop. The guaranteed
logger loses nothing and closes only with every line written; the other one loses the lines in `dropped`, each to the one that was written over it,
and closes with lines in the ring only if there were such losses: after one, `m_read_index` is behind and the drain may stop at an empty slot. `LineLog` has no fairness: that lines are written at all is `LineLogged`.

### LogFile

A line is its length; a file name is the hour and the file number, as
`get_real_logfilename` makes it.

### LinkPool

A `Dao` object is a call: it gets a link (`GetCall`, `GetPop`, `GetWait`, `GetNothing`), which is
pinged after the mutex is released and used (`Reuse`) or replaced by a new one (`Replace`);
statements may fail (`StatementFails`), and the destructor of `LinkGuard` puts the link back, a
failed one as another link or as null (`ReturnSame`, `ReturnOther`, `Put`, `Notify`). Whether a
ping, a connect or a statement succeeds is up to the database. A `connect` that fails an attempt, notes the error in the link's `m_db_err` and succeeds
when it tries again leaves the error there: the links of `stale`. Such a link goes into the pool like any new one, and is replaced when it is next
returned, whatever happened meanwhile; what never gets into the pool is a link on which a statement failed. The pool entry of a caller whose time ran
out is one that did not exist before: `return_back` pushes a null link for it, so the pool grows; the variable
`grown` counts these, and `EntriesConserved` says that entries never get fewer.

### Codec

A byte is a digit below `ByteMod`, so that the arithmetic of network order is real and integers stay small;
with two bits to a byte a 32-bit integer has eight. `Put`, `Reset`, `Fetch`, `Seek`, `Vomit`, `Consume`, `Adjust` and
`Clear` are the functions of `MsgBuffer`, `Bytes` and `GetField` its operators `<<` and `>>`. `Makeup`, `MakeupAct` and
`Answer` write answers, `KeepAlive` is `Client::handle_timeout`, and `Received` and `ReadMsg` are what the server does with a request:
it reads the head and then as much as the length in it asks for, with the refusals of `PackageCheck` (magic number, and both bounds on the length), and goes on with
`parse_check`, head and body. A write of `append` or `reset` past the end of the vector, which the code does not check, is noted in the buffer (`over`). Bodies are the types of their fields in the order of `encode` or `decode`. The CRC is the
code's loop with its table as a parameter. The other ends, peers that send requests and read answers, are not in the repository:
`PeerRequest` frames a request the way `KeepAlive` does, `PeerRead` steps over the magic number.

## 3. Runs

Bounds are small but let each of the interesting cases happen; they are named in
the `CONSTANTS` of each module.

| Run | Instance | What it shows |
|---|---|---|
| `pool` | 1 worker, queue of 2, 2 callers, 4 tasks, stop at any time | FIFO, no lost wake-up on either condition variable, nothing runs after `stop` has returned, refinement of `TaskService` with its fairness, `add_task` and `stop` return |
| `recv` | header of 2 bytes, frames of 4 and 5, buffers of 4, 4-bit lengths; 2 frames out of 9 kinds; 1 retried read; 4 buffers | frames arrive intact and are delivered, read memory is valid, one owner per buffer, bad peers are cut off, closed connections end their reads |
| `recv_client` | the same with 2 chains of reads and good frames only | **violated**: finding 1 |
| `send` | messages of 2, 3 and 2 bytes and an invalid one | bytes exactly once and in order, frames contiguous unless a short write was overtaken, recycled buffers idle, objects alive without short writes, messages settle |
| `log` | 2 threads, 3 lines each, buffers of 2, 4 buffers | slots written once and in live buffers, drained at exit, refinement of `LineLog` without loss (no stored line lost or written twice, each thread's order), lines reach the file |
| `log_guarantee` | 2 threads, 2 lines each | **violated**: finding 2 |
| `ring` | 2 threads, 4 lines each, 2 slots, indexes modulo 4 | the ring is a queue that delivers everything until it is lapped; lapped or not, refinement of `LineLog` with losses: no line is written twice, or both written and overwritten, and lines stay in the ring at exit only if one was overwritten |
| `links` | at most 1 link at first, 3 threads, 4 `Dao` objects | one user per link, entries conserved, no lost wake-up, `get_link` returns although no time-out is obliged to happen |
| `accept` | 2 ports, 2 I/O threads, 2 peers, 2 descriptors | each table has exactly the thread's open connections, `get_iocontext` in range unless a connection overtakes `start()`, outstanding accepts accounted for, a peer is served unless its port's accepts have failed |
| `client` | 1 server with 2 connections, 2 I/O threads, 1 business thread, 3 `Connection` objects, 1 write queued for each | the table has the open connections but for two named causes, nobody but `release()` races, missing connections are made, keep-alives go on |
| `codec` | bytes of 2 bits, buffers of 16 bytes, 202 messages of 7 commands | bytes appended or written by offset inside the vector, fields decoded as encoded with the same length on either side, a request or keep-alive accepted exactly if it is not longer than 61 bytes, the bound |
| `file_roll` | roll size 3, 3 hours, 12 bytes | **violated**: finding 3 |

Why the bounds are enough. `pool`: two places for two callers that sleep while both are freed
before one of them runs, and four tasks so that they come back; queues share nothing but the order in which `stop` visits them,
and the theorems of section 4 are about any number of them. `recv`: a frame of the default size and one that makes the buffer
grow, all the ways to be refused including the two lengths that wrap, and a second frame in the same
stream for what the first one leaves behind; more frames repeat the second. `send`: three messages
allow one in the middle of a short write, one outstanding and one posted. `log`: six lines fill three buffers,
so that a buffer is switched while the reader is in the one before, and deleted while a
producer is late; four buffers are never exhausted by six lines of a size of two.
`ring`: eight lines lap a ring of two several times and wrap an index of
period four. `links`: one link for three threads, so that one uses it while two wait, of which one may run out of time; a fourth object
meets what the others left in the pool. `accept`: two ports are what it takes for a connection to arm an acceptor that did not lose an accept, two I/O threads
for `m_ioc_pos` to pass its end, two peers for a descriptor that is used again while its entry waits to be erased, on the same I/O thread or
another one. `client`: of three objects two can be connected while a third is on its way or fails, and its descriptor can be one that was just closed; the
connector waits for free objects when the bound is reached. `codec`: messages that fit the buffer exactly, make it grow by doubling, and by
more than that in steps; strings of length 0 to 3; keep-alives of the least length that is accepted, requests of just the greatest and of more; every message is followed by every other in the recycled buffers.

Deadlock is not checked in `file_roll`, which ends at the bound on bytes. In
all other runs the only states without a step would be deadlocks of the program: the modules have
explicit final states (`Quiescent`, `Finished`, `Undefined`, `Ended`).

### Fairness

Weak fairness of each thread's own steps, as the operating system schedules all threads and no
task runs for ever: callers inside `add_task`, workers, the thread in `stop` (`ThreadPool`);
the reactor, the connection's handlers and posted closures, the business threads
(`Receiver`, `Sender`); a thread in the middle of `push`, and the popping thread
(`LogQueue`, `LogRing`); a thread with a `Dao` object (`LinkPool`, where running out of time and spurious wake-ups are not
fair); the threads of `Acceptor`; the connector, I/O and business threads and the timers of `Client`. Two things outside the program are strongly fair:
an accept completes if again and again there are a peer, an armed accept and a free descriptor (`Acceptor`), and of connects to a server that are tried again and
again one succeeds (`Client`, where that a server comes back is what the reconnect timer is for). No accept or connect has to fail, and no connection to break. `Codec` has safety properties only. Nobody is obliged to call `add_task`, `stop` or the logger; no peer is obliged to
send or to leave; spurious wake-ups, retries and valid answers (a message may have none) are
not fair. `Sender` assumes that the socket takes bytes while the peer is there, and that the pending read
ends when the peer is gone or the socket closed. `LogRing` destroys the logger once all threads have
logged their lines, as at exit.

## 4. Proofs

`ThreadPoolProofs` proves, for every number of workers, callers and tasks and every queue size,
from `PoolAssumption` alone (at least one worker, `m_maxsize` at least 1, finitely many callers,
`NoTask` not a task):

| Theorem | Statement |
|---|---|
| `TypeCorrect` | `TypeOK` is an invariant; no queue exceeds `m_maxsize` |
| `NoLostWorkerWakeup` | `WorkerWakeup`: a worker asleep beside a task or `m_stop` has a notification on its way |
| `NoLostProducerWakeup` | `ProducerWakeup`: the free places of a queue with a caller asleep are covered by callers awake or about to be notified |
| `QueueIsFifo` | `FifoExact`: what was pushed is what was run, is being run and is queued, in that order |
| `StopIsFinal` | `NothingRunsAfterJoin`: nothing runs after `stop` has returned |
| `PoolImplementsService` | every step of the pool is a step of `TaskService` or a stutter, and the initial states match |

The argument. `TypeOK` is inductive together with `HandsOK`, which says at which places a thread holds
a task: without it `DequeueNotify` or `RunTask` could append `NoTask` to a history. `WorkerWakeup` is inductive relative to
these. `ProducerWakeup` is a counting argument: a push takes one free place and one caller out of
`Trying`, a pop frees one place and makes its worker owe a notification, the notification turns a sleeper
into a caller that tries, and `stop` wakes them all; the lemmas on how `Sleepers`, `Trying` and
their cardinalities change are stated once and cited per action. `FifoExact` follows action by
action from what `Append`, `Tail` and concatenation do. `StopIsFinal` needs that once `spc` is `"joined"` all workers have
exited. The refinement needs that a task is in
one place only (`HandedOnce`: a task being handed over is in no queue), so that `TaskService`'s condition that a task is taken once is met.

`LinkPoolProofs` proves, for every number of threads, initial links and `Dao` objects, from `LinkPoolAssumption` (finitely many threads):

| Theorem | Statement |
|---|---|
| `TypeCorrect` | `TypeOK` is an invariant |
| `LinksAreExclusive` | `LinkExclusive`: a link is in the pool once or with one thread |
| `FailedLinksStayOut` | `PoolClean`: a link on which a statement failed is not in the pool |
| `NoEntryIsLost` | `EntriesConserved`: entries in the pool and with threads add up |
| `NoLostWaiterWakeup` | `WaiterWakeup`: with a thread waiting, the entries are covered by threads awake or about to notify |

The argument. `LinkExclusive` is inductive with `TypeOK`, which says that a new link's number is above all others. `PoolClean` needs
`PutClean` (no statement failed on a link about to be put back) and `LinkExclusive`, since a statement that fails on a link must not concern
one that is in the pool or about to be. The other two count: `Owing`, the threads that have an entry, and `Awake`, those that will take one
or notify, gain or lose the thread that acts, and `notify_one` exchanges the notifying thread for the one it wakes.

`AcceptorProofs` proves, for every number of ports, I/O threads, peers and descriptors, from `AcceptorAssumption` (at least one port and one I/O
thread, finite sets of peers and of descriptors, which are numbers):

| Theorem | Statement |
|---|---|
| `TypeCorrect` | `TypeOK` is an invariant |
| `AcceptsAccounted` | `ArmedExact`: accepts outstanding or due at a port are the first one, less the failed ones, and one for each connection accepted elsewhere |
| `IndexStaysInRange` | `IndexInRange`: no index past the end of `m_iocs` unless a connection overtakes `start()` |
| `TablesAreExact` | `TableExact`: each table has exactly the thread's open connections and the one it is closing |

The argument. `TypeOK` is inductive with `LoopOK` (outside its loop a thread is back at the first acceptor; the accept handler has a peer), which `ArmedExact` needs
as well: an accept makes every acceptor due again only if the loop starts at the first. `IndexInRange` needs `PosExact`: as long as no thread has taken
an index while the other was in the handler or the loop, at most one thread is between index and reset, and `m_ioc_pos` is what it took, or one more.
`TableExact` needs `ConnInv`: queues hold handlers of the thread's own connections only, a connection's insertion before its end and each once (`QueueOK`,
with the lemmas on `Append` and `Tail`), open connections have different descriptors (`FdsOK`), and a thread closes its own connections (`CloseOK`). Then an insertion finds the
entry of its descriptor empty, and a release that is late finds its own entry, since an insertion under the same descriptor waits behind it in the same thread's queue.

`ReceiverProofs` proves, for every header length, buffer size, length bound and set of headers and any number of buffers and frames, from `ReceiverAssumption` (a header
is not empty and fits a new buffer; the range of the 32-bit length is beyond the bound on lengths):

| Theorem | Statement |
|---|---|
| `OneOwnerHolds` | `TypeOK` and `OneOwner`: a buffer is with the pool (once), the connection, one business thread or one write |
| `FrameIntactHolds` | with `MaxChains = 1`, `FrameIntact`: a business thread's buffer holds exactly one acceptable frame |
| `ReadMemoryValidHolds` | with `MaxChains = 1`, `ReadMemoryValid`: the memory under a read stays where it is and is large enough |
| `ReadProgressHolds` | with `MaxChains = 1`, `ReadProgress`: an open connection always has a read, for at least one byte and none behind the frame at hand |
| `RefusedAnsweredHolds` | with `MaxChains = 1`, `RefusedAnswered`: until a server has closed the connection, a refused frame is with a business thread or the invalid answer is on its way |

The hypothesis `MaxChains = 1` is `Server`'s use of a connection; for `Client`'s, with a chain for each write, TLC refutes `ReadMemoryValid` (run `recv_client`). The argument. `OneOwner` is inductive
with `TypeOK` and "a read under way reads into the receive buffer". The other two follow from `FrameInv`: frames are in the stream one behind the other (`StreamInv`);
at most one read is under way (`ChainInv`); it goes into `m_recv_buffer`, behind `m_tail`, into memory the buffer has (`OpPlaced`); the buffer holds the first bytes of the next frame, which are all that was taken from the stream and not handed over (`Filled`); the read asks for the
rest of the header, or for the rest of a frame that `PackageCheck` has accepted (`Wanted`); other buffers are as new (`FreshInv`); and a frame that was handed over stays what it was, since by `OneOwner` nobody else has its buffer.
`ReadProgress` is carried by `ReadGoesOn` (a handler that does not close starts the next read, never for nothing); that a read stops at the end of the frame follows from `Filled`, `Wanted` and `StreamInv`. So a frame the peer has sent completely is read without
another byte of the peer's, which `FrameDelivered` rests on. `RefusedAnswered` passes on from the task to the counter of due answers to the write; that the business thread refuses the frame it was handed and no other is `FrameIntact`. It is the part of `BadPeerClosed` about steps that must not be lost.

`SenderProofs` proves, for any messages of any length, from `SenderAssumption` (messages are not empty):

| Theorem | Statement |
|---|---|
| `BytesExactHolds` | `BytesExact`: the bytes of a message are written in order, none twice, none skipped |
| `FramesContiguousHolds` | `FramesContiguous`: frames are not mixed unless a short write was overtaken |
| `PoolBufferIdleHolds` | `PoolBufferIdle`: a recycled buffer is in use nowhere |
| `SoundWithoutShortWritesHolds` | `SoundWithoutShortWrites`: objects that are gone are met only after a short write |
| `NothingForgottenHolds` | `NothingForgotten`: on an open connection a message whose handler was not called is in a posted closure or an outstanding operation |

The argument, `SenderInv`: `m_send_buffer_list` is empty between handlers, so a closure always starts a write of its own (`Types`); a buffer is in one place, posted, under one operation, or in the pool (`PlaceInv`);
only a short write leaves an operation without its owner (`ShortInv`); what is on the wire of a message is its first bytes, as many as its buffer has counted and its completed operation has still to count (`ByteInv`);
nothing waits on a closed socket (`OpenInv`); and, as long as no short write was overtaken, on an open connection a message that is partly written is the last one on the wire, and either no operation waits or the oldest one is its rest (`FrameInv`).
`NothingForgotten`, which `MessageSettled` rests on, is inductive with these: a closure turns into an operation, an operation into its rest behind the others or into the call of the handler.

`ClientProofs` proves, for any number of servers, connections, I/O threads and business threads, from `ClientAssumption` (finitely many of each, objects enough for all first connects):

| Theorem | Statement |
|---|---|
| `TableKeptHolds` | `TableKept`: the table has the open connections, but for the two named causes |
| `OnlyReleaseRacesHolds` | `OnlyReleaseRaces`: two threads meet in the table only while one of them is in `release()`, and until a connection is closed `get_conn`'s reference is valid |
| `ReferredExistHolds` | `ReferredExist`: the table, the business threads and posted writes never refer to a connection that was destroyed |
| `MutexExactHolds` | `MutexExact`: `m_manager_mutex` is held by a thread exactly while it is in its critical section, by the connector only while it has connects to start |
| `TypeCorrect` | if there is a server, `TypeOK` |

The argument. `TableKept` needs that a connection in the table has a started timer and is never destroyed (`TimerInv`), that open sockets have different descriptors (`FdInv`), that a handler works on a connection of its own
thread in the state it left it (`HandlerInv`), and that a key about to be released is nobody's descriptor until a loss (`LossInv`). `OnlyReleaseRaces` needs that who is in the table and not in `release()` has the mutex
(`MutexInv`), that an entry `get_conn` returned is there until it is erased (`RefInv`), and `TableKept` and `FdInv`, by which an insertion under the key of such an entry means that the entry's own connection is being released. `ReferredExist` follows from `TimerInv`: whatever refers to a connection refers to one whose timer was started, and the timer keeps it.
`MutexExact` is `MutexInv` with its converse (`HolderInv`): no handler returns with the mutex, so who waits for it waits for a thread that can go on. `TypeCorrect` needs a server because `Init` gives an object that is not in use some server.

`LogQueueProofs` proves, for any number of threads, lines and buffers and any size of a buffer:

| Theorem | Statement |
|---|---|
| `SlotSafeHolds` | `SlotSafe`: a reserved slot is empty, one thread's, and in a buffer that exists |
| `LineKeptHolds` | `LineKept`: a stored line is in the file or still to be read |
| `ThreadOrderHolds` | `ThreadOrder`: a thread's lines are in the file once, in order, none left out |
| `DrainCompleteHolds` | `DrainComplete`: unless a deleted buffer was used, all lines are in the file when the destructor returns |
| `QueueImplementsLog` | `ImplementsLog`: every step is a step of `LineLog` without loss or a stutter, and the initial states match |
| `NobodySpinsAlone` | `SpinEnds`: unless a deleted buffer was used, a full write index means that a thread has still to store, count or change the buffer; a held spin lock has a thread about to release it |
| `TypeCorrect` | `TypeOK` |

The argument, `LogInv`: each index is reserved by one thread and below the write index (`ReserveInv`); the counter of the current buffer is the number of slots reserved and counted, so that exactly one thread finds it
full, after all others have left, and changes the buffer (`ChangeInv`, where cardinalities are counted); a slot below the write index holds a line unless a thread has still to store it, and older buffers are full (`SlotInv`); buffers are queued in the order they were made and deleted from
the front, full and read (`QueueInv`, `ReadInv`); the lines in the file are those in the slots the reader has passed, the stored lines not in the file those in the others (`FileInv`); and of one thread's lines the earlier are in earlier buffers or lower slots (`OrderInv`). `DrainInv`: the popping thread leaves only after `SHUTDOWN`, and with nothing left to read. The increment that comes too late for a deleted buffer
(finding 2) is in the model: what is stored, read and written in the model stays right in spite of it (`SlotSafe`, the refinement), since its mildest outcome is to keep threads spinning. `QueueImplementsLog` adds to `LogInv` how `Waiting` changes: `Store` puts one line into a slot
that is still to be read, `TryPopHit` takes the first unread one, which by `OrderInv` is the oldest of its thread, and a buffer that is queued, opened or deleted changes no unread slot. `SpinEnds` says what `LineLogged` rests on: by the count of `ChangeInv` the last thread to leave a full buffer changes it; and it is exactly what the late increment breaks.

`LogRingProofs` proves, for any finite number of threads and any number of lines:

| Theorem | Statement |
|---|---|
| `RingImplementsLog` | for every size and period, `ImplementsLog`: every step is a step of `LineLog` with losses or a stutter, and the initial states match |
| `QueueUntilLappedHolds` | with `SizeDivides`, `QueueUntilLapped`: until a writer is a round ahead, the ring loses nothing, keeps each thread's order, and is empty at exit |

`SizeDivides` says that the number of slots divides the period of the indexes and is at most half of it. It is needed: with three slots and indexes modulo 4 TLC finds the property violated, see section 5.
The argument: as long as no writer is a round ahead, the `Ahead` slots from the read index on are those reserved, each with its line or with the one thread that will write it, and all others are empty (`RingInv`), which needs
that index modulo size goes on by one when the index wraps; a thread's lines are in order along the file, then the ring, then its hands (`OrderInv`); and what was written is in the file or the ring (`KeptInv`). The first part of the module
is the arithmetic of remainders this needs. `RingImplementsLog` needs no divisibility: a line is in one slot at most and only after its thread wrote it (`OnceInv`), and the popping thread leaves once all lines are written to their slots (`ExitInv`); so a `Write` loses the line
that was in its slot, if any, and `Pop` takes one that is nowhere else. That nothing is left at exit unless a line was lost is a count (`CountInv`): with both indexes counted on without wrapping,
each index from the reader's up to the writers' stands for one line in its slot or for one thread about to write it there, as long as every `Write` finds its slot empty. So if the reader's slot is empty and no thread is in `push`, the
two indexes are equal and every slot is empty.

Proved and not in a run's configuration: `PoolClean`, the `TypeOK` of the modules, `LineKept` and `ThreadOrder` (which `ImplementsLog` of the run `log` implies), and the properties that only the `Proofs` modules define (`ReadProgress`, `RefusedAnswered`, `NothingForgotten`,
`ReferredExist`, `MutexExact`, `SpinEnds`). TLC has found the inductive invariants to hold on the instances of the runs, `CountInv` excepted, whose numbers have no bound.

Only model-checked:

* everything under fairness: `AddTaskReturns`, `StopReturns`, the fairness of `TaskService`, `FrameDelivered`, `BadPeerClosed`, `ClosedDrains`, `MessageSettled`, both `LineLogged`, `GetServed`, `PeerServed`,
  `ReconnectComes` and `KeepAlive`: reasoning about `ENABLED` is out of the prover's reach. What these rest on is proved as invariants, where it is more than fairness: that no notification is lost (`WorkerWakeup`, `ProducerWakeup`, `WaiterWakeup`),
  that there is always a read, a closure, an operation or an answer that will go on (`ReadProgress`, `RefusedAnswered`, `NothingForgotten`), that locks are given back and spinning threads have somebody to wait for (`MutexExact`, `SpinEnds`), that accepts do not disappear (`ArmedExact`);
* `InBounds`, `RoundTrip` and `RequestAccepted` of `Codec`: encoding, decoding and CRC fold over the message and use bitwise operators; what a fold computes for every input takes an induction the provers cannot do, and the prover cannot be used on a module that reaches `Bitwise`.
  That a buffer grows to what was asked for is lemma `AdjustRoom` of `ReceiverProofs`;
* the two violations of `LogQueue` and `LogFile`, and that of `Receiver` with two chains, which are counterexamples.

## 5. Findings

1. `net/client.cpp:157`: `Client::handle_write` starts another chain of reads after every write, on
   the same receive buffer; when it grows, the other outstanding read points into freed memory (`recv_client`).
   With one chain, as `Server` uses it, the property holds (`recv`).
2. `util/nanolog.hpp:506`: in `Buffer::push` the slot is published before the counter is incremented; the popping thread
   may delete the buffer in between, the increment is lost, the next buffer is never set up, and producers spin for ever:
   lines of the "guaranteed" logger are not written (`log_guarantee`).
3. `util/nanolog.hpp:660`: a roll restarts the file number, and the name has only the hour besides, so it
   reopens the file it has just closed (`file_roll`).

Met on the way and stated as exceptions in properties that hold: the rest of a short write goes behind messages started meanwhile
(`FramesContiguous`), and is written by an operation that owns neither its handler nor the connection
(`SoundWithoutShortWrites`); after an overflow the ring's reader is a round behind the writers and stops at an empty slot, so that lines of the non-guaranteed
logger stay unread until the writers come round, or for ever, although `NanoLogger::pop` says of its last loop (`nanolog.hpp:748`) "Pop and log all remaining entries" (`QueueUntilLapped` and `LineLogged` of `LogRing`, and the guard of `LineLog`'s `Close`, which admits it after a loss only; TLC shows it with 2 slots, 2 threads and 2 lines each for the invariant `rpc = "done" => InRing = {}`); a connection that is accepted while `start()` still arms the acceptors shares
`m_ioc_pos` with it without a lock (`IndexInRange`); an accept that failed is not armed again, so that a port may become deaf, and a peer that has gone before
its address is asked for ends the process (`PeerServed`); a connect that failed releases a key that was never set, and a descriptor that is used again between `close()` and
`release()` loses the other connection its entry in the client's table, which all threads share (`TableKept`; in the server's tables it cannot, `TableExact`); `release()` uses that table without its
mutex (`OnlyReleaseRaces`).

Met in a proof: `LogRingProofs` needs a number of slots that divides 2^32. `m_size` is four times 1024 times the megabytes asked for (`nanolog.hpp:705`), which does so only for a
power of two. For any other size the slot after the one of index 2^32 - 1 is not the next one of the ring, so that at the wrap of the indexes writers overwrite lines although the ring is not full,
where the comment (`nanolog.hpp:679`) has lines dropped "When the ring gets full"; TLC shows it with `LogRing` for `Size = 3`, `IndexMod = 4`, one thread and seven lines.

Not contradicted by anything the repository says, and therefore only noted: the length of an answer
leaves out the magic number and its CRC the last four bytes (`application.cpp:101`), while `PackageCheck` and `parse_check`
count both, so that an answer of this server would not be accepted by this client; `handle_bind_msg` assigns
the answer's `uid` to itself (`application.cpp:152`), so it is always empty; `m_server_conns` is never decremented, so lost connections are
not made again, and a server that refuses the first connects is not tried again (`client.cpp:26`); a reconnect starts `m_per_conn_num` connects however many are missing; a business thread stays with a closed connection, which the
keep-alive timer holds in existence (`application.cpp:202`); `get_conn` dereferences `end()` when there is no connection (`client.cpp:76`); with several ports the outstanding accepts grow with every connection (`server.cpp:72`, exactly as `ArmedExact` says); `DELIVER_MSG_CMD_RSP` is `0x8000003`, a digit short of the other response commands.

## 6. Not modelled, and the plan

Left out for good:

* the vendored `asio/` and `json/`, which are nearly all of the repository's lines (some 220 thousand, against about four thousand of its own): they are
  third-party code, and asio's operations are modelled by how the program uses them;
* the MySQL binding (`dao/mysql_db.*`, `dao/field.*`), `Singleton` and the formatting of log lines: input, output and text without state shared between threads;
* traffic counters, which are only printed, and `Server::async_timeout` and `handle_timeout`, which nothing calls;
* `Queue::dequeue(std::list&)`, which nothing instantiates;
* the destructors of `Server`, `Client` and `IocPool` with what they stop and join: `main()` runs an `io_context` with work for ever and ignores the signals it listens for, so they never run.

A module `Session` that composes `Receiver`, `Sender` and `ThreadPool` was considered and is not worth its states: `Receiver` already has the business threads, the buffer pool and the write half as far
as buffers go through them, and the queue between them promises per-queue order only, which is `TaskService`.

Every invariant and every refinement a run checks is proved, the fairness of `TaskService` and the invariants of `Codec` excepted. What is left is out of the tools' reach (liveness for every instance, the induction over messages that `Codec` needs), or would say little more: an abstract specification of the
read half, a sequence of frames, would promise what `FrameIntact` and `ReadProgress` already say.

## 7. Running

    tlc -workers 2 -config MCThreadPool.cfg MCThreadPool
    tlapm ThreadPoolProofs.tla

and likewise for the other configurations, each with the module `PROJECT.json` names for it, and for the eight modules
whose names end in `Proofs`; each of these takes a few minutes.
