----------------------------- MODULE ThreadPool -----------------------------
(***************************************************************************)
(* The business thread pool: util/threadpool.{h,cpp} over the bounded       *)
(* blocking queue of util/queue.h.  One queue and one worker thread per     *)
(* index; the I/O threads are the producers that call add_task; one thread  *)
(* calls stop().                                                            *)
(*                                                                          *)
(* Everything a thread does while it holds Queue::m_mutex is one step.  The *)
(* notify calls come after the lock is released, so each is a step of its   *)
(* own.  A thread blocked in condition_variable::wait is "asleep"; when it  *)
(* is notified (or wakes spuriously) it goes back to evaluating the wait    *)
(* predicate under the lock.                                                *)
(***************************************************************************)
EXTENDS Naturals, Sequences, FiniteSets

CONSTANTS
  ThreadNums,   \* m_thread_nums
  QueueSize,    \* Queue::m_maxsize
  Producers,    \* threads that call add_task
  Tasks,        \* the std::function objects they hand over
  NoTask        \* an empty std::function

ASSUME PoolAssumption ==
  /\ ThreadNums \in Nat \ {0}
  /\ QueueSize \in Nat \ {0}
  /\ IsFiniteSet(Producers)
  /\ NoTask \notin Tasks

Workers == 0 .. ThreadNums - 1

VARIABLES
  mqueue,     \* m_queues[w]->m_queue
  mstop,      \* m_queues[w]->m_stop
  running,    \* m_running
  wpc,        \* where worker thread w is
  wtask,      \* the local variable task of worker w
  ppc,        \* where producer p is
  ptask,      \* the task p is handing over
  ptarget,    \* the queue p picked for it
  spc,        \* where the thread inside stop_threadpool() is
  scur,       \* its loop index
  submitted,  \* history: the tasks add_task was called with
  accepted,   \* history: the tasks pushed onto queue w, in order
  executed,   \* history: the tasks worker w ran, in order
  refused     \* history: the tasks add() dropped because of m_stop

queueVars == <<mqueue, mstop>>
workerVars == <<wpc, wtask>>
producerVars == <<ppc, ptask, ptarget>>
stopVars == <<running, spc, scur>>
history == <<submitted, accepted, executed, refused>>
vars == <<queueVars, workerVars, producerVars, stopVars, history>>

WorkerPc == {"check", "dequeue", "asleep", "notify", "run", "exited"}
ProducerPc == {"idle", "enqueue", "asleep", "notify"}
StopPc == {"idle", "set", "wake_workers", "wake_producers", "clear", "join", "joined"}

\* The threads blocked on m_not_full_cv of queue w, and those about to
\* evaluate its predicate.
Sleepers(w) == {p \in Producers : ppc[p] = "asleep" /\ ptarget[p] = w}
Trying(w) == {p \in Producers : ppc[p] = "enqueue" /\ ptarget[p] = w}

-----------------------------------------------------------------------------
(* The constructor: queues created, m_running set, worker threads started. *)
Init ==
  /\ mqueue = [w \in Workers |-> <<>>]
  /\ mstop = [w \in Workers |-> FALSE]
  /\ running = TRUE
  /\ wpc = [w \in Workers |-> "check"]
  /\ wtask = [w \in Workers |-> NoTask]
  /\ ppc = [p \in Producers |-> "idle"]
  /\ ptask = [p \in Producers |-> NoTask]
  /\ ptarget = [p \in Producers |-> 0]
  /\ spc = "idle"
  /\ scur = 0
  /\ submitted = {}
  /\ accepted = [w \in Workers |-> <<>>]
  /\ executed = [w \in Workers |-> <<>>]
  /\ refused = {}

-----------------------------------------------------------------------------
(* Producers: ThreadPool::add_task and Queue::add.                         *)

\* add_task picks a queue at random (index out of range) or takes the given one.
AddTask(p, t, w) ==
  /\ ppc[p] = "idle"
  /\ t \notin submitted
  /\ ppc' = [ppc EXCEPT ![p] = "enqueue"]
  /\ ptask' = [ptask EXCEPT ![p] = t]
  /\ ptarget' = [ptarget EXCEPT ![p] = w]
  /\ submitted' = submitted \cup {t}
  /\ UNCHANGED <<queueVars, workerVars, stopVars, accepted, executed, refused>>

NotFull(q) == Len(q) < QueueSize

\* The wait predicate is true because of m_stop: add() returns, the task is lost.
AddRefused(p) ==
  /\ ppc[p] = "enqueue"
  /\ mstop[ptarget[p]]
  /\ refused' = refused \cup {ptask[p]}
  /\ ppc' = [ppc EXCEPT ![p] = "idle"]
  /\ ptask' = [ptask EXCEPT ![p] = NoTask]
  /\ UNCHANGED <<queueVars, workerVars, ptarget, stopVars, submitted, accepted, executed>>

\* Bugs: push_front for push_back, and no notify_one after the push.
AddPushFront(p) ==
  LET w == ptarget[p] IN
  /\ ppc[p] = "enqueue"
  /\ ~mstop[w]
  /\ NotFull(mqueue[w])
  /\ mqueue' = [mqueue EXCEPT ![w] = <<ptask[p]>> \o @]
  /\ accepted' = [accepted EXCEPT ![w] = Append(@, ptask[p])]
  /\ ppc' = [ppc EXCEPT ![p] = "notify"]
  /\ ptask' = [ptask EXCEPT ![p] = NoTask]
  /\ UNCHANGED <<mstop, workerVars, ptarget, stopVars, submitted, executed, refused>>

AddPushSilent(p) ==
  LET w == ptarget[p] IN
  /\ ppc[p] = "enqueue"
  /\ ~mstop[w]
  /\ NotFull(mqueue[w])
  /\ mqueue' = [mqueue EXCEPT ![w] = Append(@, ptask[p])]
  /\ accepted' = [accepted EXCEPT ![w] = Append(@, ptask[p])]
  /\ ppc' = [ppc EXCEPT ![p] = "idle"]
  /\ ptask' = [ptask EXCEPT ![p] = NoTask]
  /\ UNCHANGED <<mstop, workerVars, ptarget, stopVars, submitted, executed, refused>>

AddPush(p) ==
  LET w == ptarget[p] IN
  /\ ppc[p] = "enqueue"
  /\ ~mstop[w]
  /\ NotFull(mqueue[w])
  /\ mqueue' = [mqueue EXCEPT ![w] = Append(@, ptask[p])]
  /\ accepted' = [accepted EXCEPT ![w] = Append(@, ptask[p])]
  /\ ppc' = [ppc EXCEPT ![p] = "notify"]
  /\ ptask' = [ptask EXCEPT ![p] = NoTask]
  /\ UNCHANGED <<mstop, workerVars, ptarget, stopVars, submitted, executed, refused>>

\* The queue is full: block on m_not_full_cv.
AddWait(p) ==
  /\ ppc[p] = "enqueue"
  /\ ~mstop[ptarget[p]]
  /\ ~NotFull(mqueue[ptarget[p]])
  /\ ppc' = [ppc EXCEPT ![p] = "asleep"]
  /\ UNCHANGED <<queueVars, workerVars, ptask, ptarget, stopVars, history>>

\* m_not_empty_cv.notify_one(): queue w has a single consumer, worker w.
AddNotify(p) ==
  LET w == ptarget[p] IN
  /\ ppc[p] = "notify"
  /\ wpc' = IF wpc[w] = "asleep" THEN [wpc EXCEPT ![w] = "dequeue"] ELSE wpc
  /\ ppc' = [ppc EXCEPT ![p] = "idle"]
  /\ UNCHANGED <<queueVars, wtask, ptask, ptarget, stopVars, history>>

-----------------------------------------------------------------------------
(* Worker threads: the loop of ThreadPool::start and Queue::dequeue.       *)

\* while(m_running)
LoopCheck(w) ==
  /\ wpc[w] = "check"
  /\ wpc' = [wpc EXCEPT ![w] = IF running THEN "dequeue" ELSE "exited"]
  /\ UNCHANGED <<queueVars, wtask, producerVars, stopVars, history>>

\* dequeue() returns with an empty task because of m_stop; what is queued stays.
DequeueStopped(w) ==
  /\ wpc[w] = "dequeue"
  /\ mstop[w]
  /\ wpc' = [wpc EXCEPT ![w] = "check"]
  /\ UNCHANGED <<queueVars, wtask, producerVars, stopVars, history>>

\* A bug: m_stop is not looked at once the queue has a task.
DequeuePopStopped(w) ==
  /\ wpc[w] = "dequeue"
  /\ mqueue[w] # <<>>
  /\ wtask' = [wtask EXCEPT ![w] = Head(mqueue[w])]
  /\ mqueue' = [mqueue EXCEPT ![w] = Tail(@)]
  /\ wpc' = [wpc EXCEPT ![w] = "notify"]
  /\ UNCHANGED <<mstop, producerVars, stopVars, history>>

DequeuePop(w) ==
  /\ wpc[w] = "dequeue"
  /\ ~mstop[w]
  /\ mqueue[w] # <<>>
  /\ wtask' = [wtask EXCEPT ![w] = Head(mqueue[w])]
  /\ mqueue' = [mqueue EXCEPT ![w] = Tail(@)]
  /\ wpc' = [wpc EXCEPT ![w] = "notify"]
  /\ UNCHANGED <<mstop, producerVars, stopVars, history>>

\* The queue is empty: block on m_not_empty_cv.
DequeueWait(w) ==
  /\ wpc[w] = "dequeue"
  /\ ~mstop[w]
  /\ mqueue[w] = <<>>
  /\ wpc' = [wpc EXCEPT ![w] = "asleep"]
  /\ UNCHANGED <<queueVars, wtask, producerVars, stopVars, history>>

\* A bug: the wake-up goes to nobody.
DequeueNotifyLost(w) ==
  /\ wpc[w] = "notify"
  /\ wpc' = [wpc EXCEPT ![w] = "run"]
  /\ UNCHANGED <<queueVars, wtask, producerVars, stopVars, history>>

\* m_not_full_cv.notify_one(): some blocked producer, if there is one.
DequeueNotify(w) ==
  /\ wpc[w] = "notify"
  /\ wpc' = [wpc EXCEPT ![w] = "run"]
  /\ IF Sleepers(w) = {}
       THEN UNCHANGED ppc
       ELSE \E p \in Sleepers(w) : ppc' = [ppc EXCEPT ![p] = "enqueue"]
  /\ UNCHANGED <<queueVars, wtask, ptask, ptarget, stopVars, history>>

\* task()
RunTask(w) ==
  /\ wpc[w] = "run"
  /\ executed' = [executed EXCEPT ![w] = Append(@, wtask[w])]
  /\ wtask' = [wtask EXCEPT ![w] = NoTask]
  /\ wpc' = [wpc EXCEPT ![w] = "check"]
  /\ UNCHANGED <<queueVars, producerVars, stopVars, submitted, accepted, refused>>

-----------------------------------------------------------------------------
(* condition_variable::wait may return without a notification.             *)
SpuriousWakeWorker(w) ==
  /\ wpc[w] = "asleep"
  /\ wpc' = [wpc EXCEPT ![w] = "dequeue"]
  /\ UNCHANGED <<queueVars, wtask, producerVars, stopVars, history>>

SpuriousWakeProducer(p) ==
  /\ ppc[p] = "asleep"
  /\ ppc' = [ppc EXCEPT ![p] = "enqueue"]
  /\ UNCHANGED <<queueVars, workerVars, ptask, ptarget, stopVars, history>>

-----------------------------------------------------------------------------
(* ThreadPool::stop (once, through std::call_once) and Queue::stop.        *)

StopCall ==
  /\ spc = "idle"
  /\ spc' = "set"
  /\ UNCHANGED <<queueVars, workerVars, producerVars, running, scur, history>>

StopSet ==
  /\ spc = "set"
  /\ mstop' = [mstop EXCEPT ![scur] = TRUE]
  /\ spc' = "wake_workers"
  /\ UNCHANGED <<mqueue, workerVars, producerVars, running, scur, history>>

\* m_not_empty_cv.notify_all()
StopWakeWorkers ==
  /\ spc = "wake_workers"
  /\ wpc' = IF wpc[scur] = "asleep" THEN [wpc EXCEPT ![scur] = "dequeue"] ELSE wpc
  /\ spc' = "wake_producers"
  /\ UNCHANGED <<queueVars, wtask, producerVars, running, scur, history>>

\* A bug: notify_one where notify_all is needed.
StopWakeOneProducer ==
  /\ spc = "wake_producers"
  /\ IF Sleepers(scur) = {}
       THEN UNCHANGED ppc
       ELSE \E p \in Sleepers(scur) : ppc' = [ppc EXCEPT ![p] = "enqueue"]
  /\ IF scur = ThreadNums - 1
       THEN spc' = "clear" /\ UNCHANGED scur
       ELSE spc' = "set" /\ scur' = scur + 1
  /\ UNCHANGED <<queueVars, workerVars, ptask, ptarget, running, history>>

\* m_not_full_cv.notify_all(), and on to the next queue.
StopWakeProducers ==
  /\ spc = "wake_producers"
  /\ ppc' = [p \in Producers |-> IF p \in Sleepers(scur) THEN "enqueue" ELSE ppc[p]]
  /\ IF scur = ThreadNums - 1
       THEN spc' = "clear" /\ UNCHANGED scur
       ELSE spc' = "set" /\ scur' = scur + 1
  /\ UNCHANGED <<queueVars, workerVars, ptask, ptarget, running, history>>

\* A bug: m_running keeps its value, so the workers poll their queues for ever.
StopClearForgotten ==
  /\ spc = "clear"
  /\ spc' = "join"
  /\ UNCHANGED <<queueVars, workerVars, producerVars, running, scur, history>>

\* m_running.store(false)
StopClear ==
  /\ spc = "clear"
  /\ running' = FALSE
  /\ spc' = "join"
  /\ UNCHANGED <<queueVars, workerVars, producerVars, scur, history>>

\* A bug: stop() returns without joining the workers.
StopNoJoin ==
  /\ spc = "join"
  /\ spc' = "joined"
  /\ UNCHANGED <<queueVars, workerVars, producerVars, running, scur, history>>

\* The joins return once every worker thread has ended.
StopJoin ==
  /\ spc = "join"
  /\ \A w \in Workers : wpc[w] = "exited"
  /\ spc' = "joined"
  /\ UNCHANGED <<queueVars, workerVars, producerVars, running, scur, history>>

-----------------------------------------------------------------------------
ProducerStep(p) == AddRefused(p) \/ AddPush(p) \/ AddWait(p) \/ AddNotify(p)

WorkerStep(w) ==
  \/ LoopCheck(w)
  \/ DequeueStopped(w)
  \/ DequeuePop(w)
  \/ DequeueWait(w)
  \/ DequeueNotify(w)
  \/ RunTask(w)

StopStep ==
  StopSet \/ StopWakeWorkers \/ StopWakeProducers \/ StopClear \/ StopJoin

\* The pool is stopped and no caller is inside add_task.
Quiescent ==
  /\ spc = "joined"
  /\ \A p \in Producers : ppc[p] = "idle"
  /\ UNCHANGED vars

Next ==
  \/ \E p \in Producers, t \in Tasks, w \in Workers : AddTask(p, t, w)
  \/ \E p \in Producers : ProducerStep(p) \/ SpuriousWakeProducer(p)
  \/ \E w \in Workers : WorkerStep(w) \/ SpuriousWakeWorker(w)
  \/ StopCall
  \/ StopStep
  \/ Quiescent

SafeSpec == Init /\ [][Next]_vars

(* Every thread keeps running: the OS scheduler starves none of them and no  *)
(* task runs for ever.  Nobody is obliged to call add_task or stop, and no   *)
(* liveness may rest on spurious wake-ups.                                   *)
Fairness ==
  /\ \A p \in Producers : WF_vars(ProducerStep(p))
  /\ \A w \in Workers : WF_vars(WorkerStep(w))
  /\ WF_vars(StopStep)

Spec == SafeSpec /\ Fairness

-----------------------------------------------------------------------------
TypeOK ==
  /\ mqueue \in [Workers -> Seq(Tasks)]
  /\ \A w \in Workers : Len(mqueue[w]) <= QueueSize
  /\ mstop \in [Workers -> BOOLEAN]
  /\ running \in BOOLEAN
  /\ wpc \in [Workers -> WorkerPc]
  /\ wtask \in [Workers -> Tasks \cup {NoTask}]
  /\ ppc \in [Producers -> ProducerPc]
  /\ ptask \in [Producers -> Tasks \cup {NoTask}]
  /\ ptarget \in [Producers -> Workers]
  /\ spc \in StopPc
  /\ scur \in Workers
  /\ submitted \in SUBSET Tasks
  /\ accepted \in [Workers -> Seq(Tasks)]
  /\ executed \in [Workers -> Seq(Tasks)]
  /\ refused \in SUBSET Tasks

\* The task worker w has dequeued and not finished, as a sequence.
InHand(w) == IF wtask[w] = NoTask THEN <<>> ELSE <<wtask[w]>>

(* A thread holds a task exactly while it is handing it over or running it.  *)
HandsOK ==
  /\ \A w \in Workers : wtask[w] # NoTask <=> wpc[w] \in {"notify", "run"}
  /\ \A p \in Producers : ptask[p] # NoTask <=> ppc[p] \in {"enqueue", "asleep"}

(* What was pushed onto a queue is what its worker has run, is running or   *)
(* has still to run, in that order: nothing is lost, run twice or overtaken *)
(* between Queue::add and task().                                           *)
FifoExact ==
  \A w \in Workers : accepted[w] = executed[w] \o InHand(w) \o mqueue[w]

(* A worker blocked in dequeue() with work to do (or told to stop) has a    *)
(* notification on its way: a producer between its push and its notify_one,  *)
(* or the thread inside Queue::stop before its notify_all.                   *)
WorkerWakeup ==
  \A w \in Workers :
    wpc[w] = "asleep" /\ (mqueue[w] # <<>> \/ mstop[w]) =>
      \/ \E p \in Producers : ppc[p] = "notify" /\ ptarget[p] = w
      \/ spc = "wake_workers" /\ scur = w

(* No producer stays blocked on a queue that has room: with a producer       *)
(* asleep in add(), there are as many producers awake, or about to be        *)
(* notified, as there are free places, and none sleeps through m_stop.       *)
ProducerWakeup ==
  \A w \in Workers :
    Sleepers(w) # {} =>
      IF mstop[w]
        THEN spc \in {"wake_workers", "wake_producers"} /\ scur = w
        ELSE QueueSize - Len(mqueue[w]) <=
               Cardinality(Trying(w)) + (IF wpc[w] = "notify" THEN 1 ELSE 0)

(* After stop() has returned no task starts or finishes: the callers may     *)
(* destroy what the tasks refer to.                                          *)
NothingRunsAfterJoin == [][spc = "joined" => executed' = executed]_vars

(* The pool implements the abstract task service.                            *)
Taken == UNION {{accepted[w][i] : i \in 1 .. Len(accepted[w])} : w \in Workers}

Service == INSTANCE TaskService WITH
  pending <- mqueue, current <- wtask, finished <- executed,
  halted <- mstop, taken <- Taken

ImplementsService == Service!Spec

(* A call of add_task always returns, with a full queue and with a pool that  *)
(* is being stopped under the caller too.                                     *)
AddTaskReturns == \A p \in Producers : ppc[p] # "idle" ~> ppc[p] = "idle"

(* Once called, stop() returns: every worker sees m_stop or m_running.        *)
StopReturns == spc = "set" ~> spc = "joined"
=============================================================================
