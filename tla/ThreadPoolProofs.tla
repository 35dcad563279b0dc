-------------------------- MODULE ThreadPoolProofs --------------------------
(***************************************************************************)
(* Proofs about ThreadPool for any number of workers, callers and tasks     *)
(* and any queue size.                                                      *)
(***************************************************************************)
EXTENDS ThreadPool, FiniteSetTheorems, SequenceTheorems, TLAPS

USE PoolAssumption

-----------------------------------------------------------------------------
(* Types.  TypeOK is not inductive by itself: that what a worker runs and a *)
(* caller pushes is a task and not an empty function follows from HandsOK.  *)

(* The pool the constructor leaves behind is well typed and nobody holds a task. *)
LEMMA InitType == Init => TypeOK /\ HandsOK
BY SMT DEF Init, TypeOK, HandsOK, Workers, WorkerPc, ProducerPc, StopPc

(* The steps of add_task and Queue::add keep the types.                     *)
LEMMA ProducerType ==
  ASSUME TypeOK, HandsOK, NEW p \in Producers,
         \/ \E t \in Tasks, w \in Workers : AddTask(p, t, w)
         \/ ProducerStep(p)
         \/ SpuriousWakeProducer(p)
  PROVE  TypeOK' /\ HandsOK'
<1> USE DEF TypeOK, HandsOK, WorkerPc, ProducerPc, StopPc, queueVars, workerVars,
            producerVars, stopVars, history
<1>1. ASSUME NEW t \in Tasks, NEW w \in Workers, AddTask(p, t, w)
      PROVE  TypeOK' /\ HandsOK'
  BY <1>1 DEF AddTask
<1>2. CASE AddRefused(p)
  BY <1>2 DEF AddRefused
<1>3. CASE AddPush(p)
  <2> DEFINE w == ptarget[p]
  <2>1. w \in Workers /\ ptask[p] \in Tasks
    BY <1>3 DEF AddPush
  <2>2. Append(mqueue[w], ptask[p]) \in Seq(Tasks)
    BY <2>1
  <2>3. Len(Append(mqueue[w], ptask[p])) <= QueueSize
    BY <1>3, <2>1 DEF AddPush, NotFull
  <2>4. Append(accepted[w], ptask[p]) \in Seq(Tasks)
    BY <2>1
  <2> QED
    BY <1>3, <2>1, <2>2, <2>3, <2>4 DEF AddPush
<1>4. CASE AddWait(p)
  BY <1>4 DEF AddWait
<1>5. CASE AddNotify(p)
  BY <1>5 DEF AddNotify
<1>6. CASE SpuriousWakeProducer(p)
  BY <1>6 DEF SpuriousWakeProducer
<1> QED
  BY <1>1, <1>2, <1>3, <1>4, <1>5, <1>6 DEF ProducerStep

(* So do the steps of a worker thread.                                      *)
LEMMA WorkerType ==
  ASSUME TypeOK, HandsOK, NEW w \in Workers, WorkerStep(w) \/ SpuriousWakeWorker(w)
  PROVE  TypeOK' /\ HandsOK'
<1> USE DEF TypeOK, HandsOK, WorkerPc, ProducerPc, StopPc, queueVars, workerVars,
            producerVars, stopVars, history
<1>1. CASE LoopCheck(w)
  BY <1>1 DEF LoopCheck
<1>2. CASE DequeueStopped(w)
  BY <1>2 DEF DequeueStopped
<1>3. CASE DequeuePop(w)
  <2>1. /\ Head(mqueue[w]) \in Tasks
        /\ Tail(mqueue[w]) \in Seq(Tasks)
        /\ Len(Tail(mqueue[w])) <= QueueSize
    BY <1>3 DEF DequeuePop
  <2> QED
    BY <1>3, <2>1 DEF DequeuePop
<1>4. CASE DequeueWait(w)
  BY <1>4 DEF DequeueWait
<1>5. CASE DequeueNotify(w)
  BY <1>5 DEF DequeueNotify, Sleepers
<1>6. CASE RunTask(w)
  <2>1. Append(executed[w], wtask[w]) \in Seq(Tasks)
    BY <1>6 DEF RunTask
  <2> QED
    BY <1>6, <2>1 DEF RunTask
<1>7. CASE SpuriousWakeWorker(w)
  BY <1>7 DEF SpuriousWakeWorker
<1> QED
  BY <1>1, <1>2, <1>3, <1>4, <1>5, <1>6, <1>7 DEF WorkerStep

(* And the steps of stop().                                                 *)
LEMMA StopType ==
  ASSUME TypeOK, HandsOK, StopCall \/ StopStep \/ UNCHANGED vars
  PROVE  TypeOK' /\ HandsOK'
<1> USE DEF TypeOK, HandsOK, WorkerPc, ProducerPc, StopPc, queueVars, workerVars,
            producerVars, stopVars, history
<1>1. CASE StopCall
  BY <1>1 DEF StopCall
<1>2. CASE StopSet
  BY <1>2 DEF StopSet
<1>3. CASE StopWakeWorkers
  BY <1>3 DEF StopWakeWorkers
<1>4. CASE StopWakeProducers
  <2>1. ppc' \in [Producers -> ProducerPc]
    BY <1>4 DEF StopWakeProducers
  <2>2. scur' \in Workers /\ spc' \in StopPc
    <3>1. scur \in 0 .. ThreadNums - 1 /\ ThreadNums \in Nat
      BY DEF Workers
    <3>2. \/ scur = ThreadNums - 1 /\ spc' = "clear" /\ scur' = scur
          \/ scur # ThreadNums - 1 /\ spc' = "set" /\ scur' = scur + 1
      BY <1>4 DEF StopWakeProducers
    <3>3. scur' \in 0 .. ThreadNums - 1 /\ spc' \in StopPc
      BY ONLY <3>1, <3>2 DEF StopPc
    <3> QED
      BY ONLY <3>3 DEF Workers
  <2> QED
    BY <1>4, <2>1, <2>2 DEF StopWakeProducers, Sleepers
<1>5. CASE StopClear
  BY <1>5 DEF StopClear
<1>6. CASE StopJoin
  BY <1>6 DEF StopJoin
<1>7. CASE UNCHANGED vars
  BY <1>7 DEF vars
<1> QED
  BY <1>1, <1>2, <1>3, <1>4, <1>5, <1>6, <1>7 DEF StopStep

(* Together: no step of any thread breaks the types.                            *)
LEMMA NextType ==
  TypeOK /\ HandsOK /\ [Next]_vars => TypeOK' /\ HandsOK'
BY ProducerType, WorkerType, StopType DEF Next, Quiescent

(* Every variable of the pool keeps its type, no queue grows beyond         *)
(* m_maxsize, and the threads' local tasks are what their place in the code  *)
(* says they are.                                                            *)
THEOREM TypeCorrect == SafeSpec => [](TypeOK /\ HandsOK)
<1>1. Init => TypeOK /\ HandsOK
  BY InitType
<1>2. TypeOK /\ HandsOK /\ [Next]_vars => (TypeOK /\ HandsOK)'
  BY NextType
<1> QED
  BY <1>1, <1>2, PTL DEF SafeSpec

-----------------------------------------------------------------------------
(* No worker sleeps through work or through stop.                           *)

(* The steps of the callers keep every sleeping worker's notification.       *)
LEMMA ProducerKeepsWorkerWakeup ==
  ASSUME TypeOK, WorkerWakeup, NEW p \in Producers,
         \/ \E t \in Tasks, w \in Workers : AddTask(p, t, w)
         \/ ProducerStep(p)
         \/ SpuriousWakeProducer(p)
  PROVE  WorkerWakeup'
<1> USE DEF TypeOK, WorkerWakeup, queueVars, workerVars, producerVars, stopVars, history
<1>1. ASSUME NEW t \in Tasks, NEW w \in Workers, AddTask(p, t, w)
      PROVE  WorkerWakeup'
  BY <1>1 DEF AddTask
<1>2. CASE AddRefused(p)
  BY <1>2 DEF AddRefused
<1>3. CASE AddPush(p)
  BY <1>3 DEF AddPush
<1>4. CASE AddWait(p)
  BY <1>4 DEF AddWait
<1>5. CASE AddNotify(p)
  BY <1>5 DEF AddNotify
<1>6. CASE SpuriousWakeProducer(p)
  BY <1>6 DEF SpuriousWakeProducer
<1> QED
  BY <1>1, <1>2, <1>3, <1>4, <1>5, <1>6 DEF ProducerStep

(* A worker only falls asleep on an empty queue that is not stopped.         *)
LEMMA WorkerKeepsWorkerWakeup ==
  ASSUME TypeOK, WorkerWakeup, NEW w \in Workers, WorkerStep(w) \/ SpuriousWakeWorker(w)
  PROVE  WorkerWakeup'
<1> USE DEF TypeOK, WorkerWakeup, queueVars, workerVars, producerVars, stopVars, history
<1>1. CASE LoopCheck(w)
  BY <1>1 DEF LoopCheck
<1>2. CASE DequeueStopped(w)
  BY <1>2 DEF DequeueStopped
<1>3. CASE DequeuePop(w)
  BY <1>3 DEF DequeuePop
<1>4. CASE DequeueWait(w)
  BY <1>4 DEF DequeueWait
<1>5. CASE DequeueNotify(w)
  BY <1>5 DEF DequeueNotify, Sleepers
<1>6. CASE RunTask(w)
  BY <1>6 DEF RunTask
<1>7. CASE SpuriousWakeWorker(w)
  BY <1>7 DEF SpuriousWakeWorker
<1> QED
  BY <1>1, <1>2, <1>3, <1>4, <1>5, <1>6, <1>7 DEF WorkerStep

(* Queue::stop notifies the worker after it has set m_stop.                  *)
LEMMA StopKeepsWorkerWakeup ==
  ASSUME TypeOK, WorkerWakeup, StopCall \/ StopStep \/ UNCHANGED vars
  PROVE  WorkerWakeup'
<1> USE DEF TypeOK, WorkerWakeup, queueVars, workerVars, producerVars, stopVars, history
<1>1. CASE StopCall
  BY <1>1 DEF StopCall
<1>2. CASE StopSet
  BY <1>2 DEF StopSet
<1>3. CASE StopWakeWorkers
  BY <1>3 DEF StopWakeWorkers
<1>4. CASE StopWakeProducers
  BY <1>4 DEF StopWakeProducers, Sleepers
<1>5. CASE StopClear
  BY <1>5 DEF StopClear
<1>6. CASE StopJoin
  BY <1>6 DEF StopJoin
<1>7. CASE UNCHANGED vars
  BY <1>7 DEF vars
<1> QED
  BY <1>1, <1>2, <1>3, <1>4, <1>5, <1>6, <1>7 DEF StopStep

(* No lost wake-up on m_not_empty_cv: a worker blocked in dequeue() although  *)
(* its queue has a task or is stopped always has a notification on its way.   *)
THEOREM NoLostWorkerWakeup == SafeSpec => []WorkerWakeup
<1>1. Init => WorkerWakeup
  BY DEF Init, WorkerWakeup
<1>2. TypeOK /\ WorkerWakeup /\ [Next]_vars => WorkerWakeup'
  BY ProducerKeepsWorkerWakeup, WorkerKeepsWorkerWakeup, StopKeepsWorkerWakeup
     DEF Next, Quiescent
<1> QED
  BY <1>1, <1>2, TypeCorrect, PTL DEF SafeSpec

-----------------------------------------------------------------------------
(* Order: what goes into a queue comes out of it, once and in order.        *)

(* Taking the front of the queue into the hand leaves the line as it was.    *)
LEMMA TakeFront ==
  ASSUME NEW S, NEW a \in Seq(S), NEW q \in Seq(S), q # <<>>
  PROVE  a \o <<>> \o q = a \o <<Head(q)>> \o Tail(q)
<1>1. <<Head(q)>> \in Seq(S) /\ Tail(q) \in Seq(S)
  BY HeadTailProperties
<1>2. <<Head(q)>> \o Tail(q) = q
  BY <1>1
<1>3. (a \o <<Head(q)>>) \o Tail(q) = a \o q
  BY <1>1, <1>2, ConcatAssociative
<1> QED
  BY <1>3, ConcatEmptySeq

(* So does moving the task in hand to the ones that have been run.           *)
LEMMA PutBehind ==
  ASSUME NEW S, NEW a \in Seq(S), NEW q \in Seq(S), NEW t \in S
  PROVE  a \o <<t>> \o q = Append(a, t) \o <<>> \o q
<1>1. Append(a, t) = a \o <<t>> /\ Append(a, t) \in Seq(S)
  BY AppendIsConcat, AppendProperties
<1> QED
  BY <1>1, ConcatEmptySeq

(* A push appends to the line, every other step only moves its parts along.     *)
LEMMA NextFifo ==
  TypeOK /\ HandsOK /\ FifoExact /\ [Next]_vars => FifoExact'
<1> SUFFICES ASSUME TypeOK, HandsOK, FifoExact, [Next]_vars, NEW v \in Workers
             PROVE  (accepted[v] = executed[v] \o InHand(v) \o mqueue[v])'
  BY DEF FifoExact
<1>0. /\ accepted[v] = executed[v] \o InHand(v) \o mqueue[v]
      /\ mqueue[v] \in Seq(Tasks) /\ executed[v] \in Seq(Tasks)
      /\ InHand(v) \in Seq(Tasks)
  BY DEF FifoExact, TypeOK, InHand
<1>1. ASSUME NEW p \in Producers, AddPush(p)
      PROVE  (accepted[v] = executed[v] \o InHand(v) \o mqueue[v])'
  <2> DEFINE w == ptarget[p]
             t == ptask[p]
  <2>1. w \in Workers /\ t \in Tasks
    BY <1>1 DEF TypeOK, HandsOK, AddPush
  <2>2. UNCHANGED <<executed, wtask>>
    BY <1>1 DEF AddPush, workerVars
  <2>3. CASE v = w
    <3>1. mqueue'[v] = Append(mqueue[v], t) /\ accepted'[v] = Append(accepted[v], t)
      BY <1>1, <2>1, <2>3 DEF AddPush, TypeOK
    <3>2. Append(executed[v] \o InHand(v) \o mqueue[v], t)
            = executed[v] \o InHand(v) \o Append(mqueue[v], t)
      <4>1. executed[v] \o InHand(v) \in Seq(Tasks)
        BY <1>0, ConcatProperties
      <4>2. mqueue[v] \in Seq(Tasks) /\ t \in Tasks
        BY <1>0, <2>1
      <4>3. ASSUME NEW a \in Seq(Tasks), NEW b \in Seq(Tasks), NEW e \in Tasks
            PROVE  Append(a \o b, e) = a \o Append(b, e)
        OBVIOUS
      <4> QED
        BY <4>1, <4>2, <4>3
    <3> QED
      BY <1>0, <2>2, <3>1, <3>2 DEF InHand
  <2>4. CASE v # w
    BY <1>0, <1>1, <2>1, <2>2, <2>4 DEF AddPush, TypeOK, InHand
  <2> QED
    BY <2>3, <2>4
<1>2. ASSUME NEW w \in Workers, DequeuePop(w)
      PROVE  (accepted[v] = executed[v] \o InHand(v) \o mqueue[v])'
  <2>1. UNCHANGED <<executed, accepted>>
    BY <1>2 DEF DequeuePop, history
  <2>2. CASE v = w
    <3>1. /\ mqueue[v] # <<>> /\ InHand(v) = <<>>
          /\ wtask'[v] = Head(mqueue[v]) /\ mqueue'[v] = Tail(mqueue[v])
      BY <1>2, <2>2 DEF DequeuePop, TypeOK, HandsOK, InHand
    <3>2. InHand(v)' = <<Head(mqueue[v])>>
      BY <1>0, <3>1 DEF InHand
    <3>3. executed[v] \o <<>> \o mqueue[v]
            = executed[v] \o <<Head(mqueue[v])>> \o Tail(mqueue[v])
      BY <1>0, <3>1, TakeFront
    <3> QED
      BY <1>0, <2>1, <3>1, <3>2, <3>3
  <2>3. CASE v # w
    BY <1>0, <1>2, <2>1, <2>3 DEF DequeuePop, TypeOK, InHand
  <2> QED
    BY <2>2, <2>3
<1>3. ASSUME NEW w \in Workers, RunTask(w)
      PROVE  (accepted[v] = executed[v] \o InHand(v) \o mqueue[v])'
  <2>1. UNCHANGED <<mqueue, accepted>>
    BY <1>3 DEF RunTask, queueVars
  <2>2. CASE v = w
    <3>1. /\ InHand(v) = <<wtask[v]>> /\ wtask[v] \in Tasks
          /\ executed'[v] = Append(executed[v], wtask[v]) /\ wtask'[v] = NoTask
      BY <1>3, <2>2 DEF RunTask, TypeOK, HandsOK, InHand
    <3>2. InHand(v)' = <<>>
      BY <3>1 DEF InHand
    <3>3. executed[v] \o <<wtask[v]>> \o mqueue[v]
            = Append(executed[v], wtask[v]) \o <<>> \o mqueue[v]
      <4>1. executed[v] \in Seq(Tasks) /\ mqueue[v] \in Seq(Tasks) /\ wtask[v] \in Tasks
        BY <1>0, <3>1
      <4> QED
        BY <4>1, PutBehind
    <3> QED
      BY <1>0, <2>1, <3>1, <3>2, <3>3
  <2>3. CASE v # w
    BY <1>0, <1>3, <2>1, <2>3 DEF RunTask, TypeOK, InHand
  <2> QED
    BY <2>2, <2>3
<1>4. CASE UNCHANGED <<mqueue, wtask, accepted, executed>>
  BY <1>0, <1>4 DEF InHand
<1>5. \/ \E p \in Producers : AddPush(p)
      \/ \E w \in Workers : DequeuePop(w) \/ RunTask(w)
      \/ UNCHANGED <<mqueue, wtask, accepted, executed>>
  BY DEF Next, vars, queueVars, workerVars, producerVars, stopVars, history,
         ProducerStep, WorkerStep, StopStep, AddTask, AddRefused, AddWait, AddNotify,
         SpuriousWakeProducer, SpuriousWakeWorker, LoopCheck, DequeueStopped,
         DequeueWait, DequeueNotify, StopCall, StopSet, StopWakeWorkers,
         StopWakeProducers, StopClear, StopJoin, Quiescent
<1> QED
  BY <1>1, <1>2, <1>3, <1>4, <1>5

(* Between Queue::add and task() nothing is lost, run twice or overtaken:    *)
(* what was pushed onto a queue is what its worker has run, is running and    *)
(* has still to run, in that order.                                           *)
THEOREM QueueIsFifo == SafeSpec => []FifoExact
<1>1. Init => FifoExact
  BY DEF Init, FifoExact, InHand
<1>2. TypeOK /\ HandsOK /\ FifoExact /\ [Next]_vars => FifoExact'
  BY NextFifo
<1> QED
  BY <1>1, <1>2, TypeCorrect, PTL DEF SafeSpec

-----------------------------------------------------------------------------
(* No caller sleeps beside a free place or through stop.                    *)

(* The callers that compete for queue w can be counted.                      *)
LEMMA TryingFinite ==
  ASSUME NEW w
  PROVE  IsFiniteSet(Trying(w)) /\ Cardinality(Trying(w)) \in Nat
<1>1. Trying(w) \subseteq Producers
  BY DEF Trying
<1> QED
  BY <1>1, FS_Subset, FS_CardinalityType, PoolAssumption

(* The same after a step.                                                       *)
LEMMA TryingFiniteNext ==
  ASSUME NEW w
  PROVE  IsFiniteSet(Trying(w)') /\ Cardinality(Trying(w)') \in Nat
<1>1. Trying(w)' \subseteq Producers
  BY DEF Trying
<1> QED
  BY <1>1, FS_Subset, FS_CardinalityType, PoolAssumption

(* More callers awake count for more.                                        *)
LEMMA TryingGrows ==
  ASSUME NEW w, Trying(w) \subseteq Trying(w)'
  PROVE  Cardinality(Trying(w)) <= Cardinality(Trying(w)')
BY TryingFinite, TryingFiniteNext, FS_Subset

(* A caller that starts to compete for a place counts one more.                 *)
LEMMA TryingGains ==
  ASSUME NEW w, NEW p, p \notin Trying(w), Trying(w)' = Trying(w) \cup {p}
  PROVE  Cardinality(Trying(w)') = Cardinality(Trying(w)) + 1
BY TryingFinite, FS_AddElement

(* A caller that gets its place, goes to sleep or gives up counts one fewer.    *)
LEMMA TryingLoses ==
  ASSUME NEW w, NEW p, p \in Trying(w), Trying(w)' = Trying(w) \ {p}
  PROVE  Cardinality(Trying(w)') = Cardinality(Trying(w)) - 1
BY TryingFinite, FS_RemoveElement

(* ProducerWakeup for one queue.                                             *)
Awake(w) == Cardinality(Trying(w)) + (IF wpc[w] = "notify" THEN 1 ELSE 0)

QueueWakeup(w) ==
  Sleepers(w) # {} =>
    IF mstop[w]
      THEN spc \in {"wake_workers", "wake_producers"} /\ scur = w
      ELSE QueueSize - Len(mqueue[w]) <= Awake(w)

(* The property is one of each queue by itself.                                 *)
LEMMA WakeupPerQueue == ProducerWakeup <=> \A w \in Workers : QueueWakeup(w)
BY DEF ProducerWakeup, QueueWakeup, Awake

(* A step that leaves queue w, its worker's notification and stop() alone,    *)
(* and only wakes callers, keeps the property.                                *)
LEMMA WakeupFrame ==
  ASSUME TypeOK, NEW w \in Workers, QueueWakeup(w),
         Sleepers(w)' \subseteq Sleepers(w), Trying(w) \subseteq Trying(w)',
         mqueue'[w] = mqueue[w], mstop'[w] = mstop[w],
         wpc'[w] = "notify" <=> wpc[w] = "notify",
         UNCHANGED <<spc, scur>>
  PROVE  QueueWakeup(w)'
<1>1. CASE Sleepers(w)' = {} \/ mstop[w]
  BY <1>1 DEF QueueWakeup
<1>2. CASE Sleepers(w)' # {} /\ ~mstop[w]
  <2>1. QueueSize - Len(mqueue[w]) <= Awake(w)
    BY <1>2 DEF QueueWakeup
  <2>2. /\ Cardinality(Trying(w)) \in Nat
        /\ Cardinality(Trying(w)') \in Nat
        /\ Cardinality(Trying(w)) <= Cardinality(Trying(w)')
    BY TryingFinite, TryingFiniteNext, TryingGrows
  <2>3. Len(mqueue[w]) \in Nat /\ QueueSize \in Nat
    BY DEF TypeOK
  <2>4. QueueSize - Len(mqueue'[w]) <= Awake(w)'
    BY <2>1, <2>2, <2>3 DEF Awake
  <2> QED
    BY <1>2, <2>4 DEF QueueWakeup
<1> QED
  BY <1>1, <1>2

(* A push uses up a free place and a caller that is awake; a caller falls asleep *)
(* only in front of a full queue.                                               *)
LEMMA ProducerKeepsWakeup ==
  ASSUME TypeOK, NEW w \in Workers, QueueWakeup(w), NEW p \in Producers,
         \/ \E t \in Tasks, v \in Workers : AddTask(p, t, v)
         \/ ProducerStep(p)
         \/ SpuriousWakeProducer(p)
  PROVE  QueueWakeup(w)'
<1> USE DEF queueVars, workerVars, producerVars, stopVars, history
<1>1. ASSUME NEW t \in Tasks, NEW v \in Workers, AddTask(p, t, v)
      PROVE  QueueWakeup(w)'
  BY <1>1, WakeupFrame DEF AddTask, TypeOK, Sleepers, Trying
<1>2. CASE AddRefused(p)
  <2>1. CASE ptarget[p] = w
    BY <1>2, <2>1 DEF AddRefused, QueueWakeup, TypeOK, Sleepers
  <2>2. CASE ptarget[p] # w
    BY <1>2, <2>2, WakeupFrame DEF AddRefused, TypeOK, Sleepers, Trying
  <2> QED
    BY <2>1, <2>2
<1>3. CASE AddPush(p)
  <2>1. CASE ptarget[p] = w
    <3>1. Sleepers(w)' = Sleepers(w) /\ UNCHANGED <<mstop, spc, scur, wpc>> /\ ~mstop[w]
      BY <1>3, <2>1 DEF AddPush, TypeOK, Sleepers
    <3>2. p \in Trying(w) /\ Trying(w)' = Trying(w) \ {p}
      BY <1>3, <2>1 DEF AddPush, TypeOK, Trying
    <3>3. Cardinality(Trying(w)') = Cardinality(Trying(w)) - 1
      BY <3>2, TryingLoses
    <3>4. Len(mqueue'[w]) = Len(mqueue[w]) + 1 /\ Len(mqueue[w]) \in Nat
      BY <1>3, <2>1 DEF AddPush, TypeOK
    <3>5. Cardinality(Trying(w)) \in Nat /\ QueueSize \in Nat
      BY TryingFinite
    <3>6. QueueSize - Len(mqueue[w]) <= Awake(w)
             => QueueSize - Len(mqueue'[w]) <= Awake(w)'
      BY <3>1, <3>3, <3>4, <3>5 DEF Awake
    <3> QED
      BY <3>1, <3>6 DEF QueueWakeup
  <2>2. CASE ptarget[p] # w
    BY <1>3, <2>2, WakeupFrame DEF AddPush, TypeOK, Sleepers, Trying
  <2> QED
    BY <2>1, <2>2
<1>4. CASE AddWait(p)
  <2>1. CASE ptarget[p] = w
    <3>1. Len(mqueue'[w]) = QueueSize /\ ~mstop'[w]
      BY <1>4, <2>1 DEF AddWait, NotFull, TypeOK
    <3>2. Awake(w)' \in Nat
      BY TryingFiniteNext DEF Awake
    <3>3. QueueSize \in Nat
      OBVIOUS
    <3>4. QueueSize - Len(mqueue'[w]) <= Awake(w)'
      BY <3>1, <3>2, <3>3
    <3> QED
      BY <3>1, <3>4 DEF QueueWakeup
  <2>2. CASE ptarget[p] # w
    BY <1>4, <2>2, WakeupFrame DEF AddWait, TypeOK, Sleepers, Trying
  <2> QED
    BY <2>1, <2>2
<1>5. CASE AddNotify(p)
  BY <1>5, WakeupFrame DEF AddNotify, TypeOK, Sleepers, Trying
<1>6. CASE SpuriousWakeProducer(p)
  BY <1>6, WakeupFrame DEF SpuriousWakeProducer, TypeOK, Sleepers, Trying
<1> QED
  BY <1>1, <1>2, <1>3, <1>4, <1>5, <1>6 DEF ProducerStep

(* A pop frees a place and owes the notification for it; the notification wakes a *)
(* caller if one sleeps.                                                        *)
LEMMA WorkerKeepsWakeup ==
  ASSUME TypeOK, NEW w \in Workers, QueueWakeup(w), NEW v \in Workers,
         WorkerStep(v) \/ SpuriousWakeWorker(v)
  PROVE  QueueWakeup(w)'
<1> USE DEF queueVars, workerVars, producerVars, stopVars, history
<1>1. CASE LoopCheck(v)
  BY <1>1, WakeupFrame DEF LoopCheck, TypeOK, Sleepers, Trying
<1>2. CASE DequeueStopped(v)
  BY <1>2, WakeupFrame DEF DequeueStopped, TypeOK, Sleepers, Trying
<1>3. CASE DequeuePop(v)
  <2>1. CASE v = w
    <3>1. /\ UNCHANGED <<mstop, spc, scur>> /\ ~mstop[w]
          /\ Sleepers(w)' = Sleepers(w) /\ Trying(w)' = Trying(w)
      BY <1>3, <2>1 DEF DequeuePop, Sleepers, Trying
    <3>2. /\ wpc[w] # "notify" /\ wpc'[w] = "notify"
          /\ Len(mqueue'[w]) = Len(mqueue[w]) - 1 /\ Len(mqueue[w]) \in Nat
      BY <1>3, <2>1 DEF DequeuePop, TypeOK
    <3>3. Cardinality(Trying(w)) \in Nat /\ QueueSize \in Nat
      BY TryingFinite
    <3>4. QueueSize - Len(mqueue[w]) <= Awake(w)
             => QueueSize - Len(mqueue'[w]) <= Awake(w)'
      BY <3>1, <3>2, <3>3 DEF Awake
    <3> QED
      BY <3>1, <3>4 DEF QueueWakeup
  <2>2. CASE v # w
    BY <1>3, <2>2, WakeupFrame DEF DequeuePop, TypeOK, Sleepers, Trying
  <2> QED
    BY <2>1, <2>2
<1>4. CASE DequeueWait(v)
  BY <1>4, WakeupFrame DEF DequeueWait, TypeOK, Sleepers, Trying
<1>5. CASE DequeueNotify(v)
  <2>1. CASE Sleepers(v) = {}
    <3>1. Sleepers(v)' = {}
      BY <1>5, <2>1 DEF DequeueNotify, Sleepers
    <3>2. CASE v = w
      BY <3>1, <3>2 DEF QueueWakeup
    <3>3. CASE v # w
      BY <1>5, <2>1, <3>3, WakeupFrame DEF DequeueNotify, TypeOK, Sleepers, Trying
    <3> QED
      BY <3>2, <3>3
  <2>2. CASE Sleepers(v) # {}
    <3>1. PICK p \in Sleepers(v) : ppc' = [ppc EXCEPT ![p] = "enqueue"]
      BY <1>5, <2>2 DEF DequeueNotify
    <3>2. p \in Producers /\ ppc[p] = "asleep" /\ ptarget[p] = v
      BY DEF Sleepers
    <3>3. CASE v = w
      <4>1. /\ Sleepers(w)' \subseteq Sleepers(w)
            /\ p \notin Trying(w) /\ Trying(w)' = Trying(w) \cup {p}
        BY <1>5, <3>1, <3>2, <3>3 DEF DequeueNotify, TypeOK, Sleepers, Trying
      <4>2. Cardinality(Trying(w)') = Cardinality(Trying(w)) + 1
        BY <4>1, TryingGains
      <4>3. /\ wpc[w] = "notify" /\ wpc'[w] # "notify"
            /\ UNCHANGED <<mqueue, mstop, spc, scur>>
        BY <1>5, <3>3 DEF DequeueNotify, TypeOK
      <4>4. Awake(w)' = Awake(w)
        BY <4>2, <4>3, TryingFinite DEF Awake
      <4> QED
        BY <4>1, <4>3, <4>4 DEF QueueWakeup
    <3>4. CASE v # w
      BY <1>5, <3>1, <3>2, <3>4, WakeupFrame DEF DequeueNotify, TypeOK, Sleepers, Trying
    <3> QED
      BY <3>3, <3>4
  <2> QED
    BY <2>1, <2>2
<1>6. CASE RunTask(v)
  BY <1>6, WakeupFrame DEF RunTask, TypeOK, Sleepers, Trying
<1>7. CASE SpuriousWakeWorker(v)
  BY <1>7, WakeupFrame DEF SpuriousWakeWorker, TypeOK, Sleepers, Trying
<1> QED
  BY <1>1, <1>2, <1>3, <1>4, <1>5, <1>6, <1>7 DEF WorkerStep

(* Queue::stop owes every sleeping caller its notify_all until it has done it.  *)
LEMMA StopKeepsWakeup ==
  ASSUME TypeOK, NEW w \in Workers, QueueWakeup(w),
         StopCall \/ StopStep \/ UNCHANGED vars
  PROVE  QueueWakeup(w)'
<1> USE DEF queueVars, workerVars, producerVars, stopVars, history
<1>1. CASE StopCall
  BY <1>1 DEF StopCall, QueueWakeup, Sleepers, Trying, Awake
<1>2. CASE StopSet
  BY <1>2 DEF StopSet, QueueWakeup, TypeOK, Sleepers, Trying, Awake
<1>3. CASE StopWakeWorkers
  <2>1. /\ Sleepers(w)' = Sleepers(w) /\ Trying(w)' = Trying(w)
        /\ wpc'[w] = "notify" <=> wpc[w] = "notify"
    BY <1>3 DEF StopWakeWorkers, TypeOK, Sleepers, Trying
  <2> QED
    BY <1>3, <2>1 DEF StopWakeWorkers, QueueWakeup, Awake
<1>4. CASE StopWakeProducers
  <2>1. Sleepers(w)' \subseteq Sleepers(w) /\ Trying(w) \subseteq Trying(w)'
    BY <1>4 DEF StopWakeProducers, TypeOK, Sleepers, Trying
  <2>2. CASE w = scur
    <3>1. Sleepers(w)' = {}
      BY <1>4, <2>2 DEF StopWakeProducers, TypeOK, Sleepers
    <3> QED
      BY <3>1 DEF QueueWakeup
  <2>3. CASE w # scur
    <3>1. UNCHANGED <<mqueue, mstop, wpc>>
      BY <1>4 DEF StopWakeProducers
    <3>2. CASE mstop[w]
      BY <2>1, <2>3, <3>1, <3>2 DEF QueueWakeup
    <3>3. CASE ~mstop[w]
      <4>1. Cardinality(Trying(w)) \in Nat /\ Cardinality(Trying(w)') \in Nat
            /\ Cardinality(Trying(w)) <= Cardinality(Trying(w)')
        BY <2>1, TryingFinite, TryingFiniteNext, TryingGrows
      <4>2. Awake(w) \in Nat /\ Awake(w)' \in Nat /\ Awake(w) <= Awake(w)'
        BY <3>1, <4>1 DEF Awake
      <4>3. Len(mqueue[w]) \in Nat /\ QueueSize \in Nat
        BY DEF TypeOK
      <4>4. QueueSize - Len(mqueue[w]) <= Awake(w)
               => QueueSize - Len(mqueue'[w]) <= Awake(w)'
        BY <3>1, <4>2, <4>3
      <4> QED
        BY <2>1, <3>1, <3>3, <4>4 DEF QueueWakeup
    <3> QED
      BY <3>2, <3>3
  <2> QED
    BY <2>2, <2>3
<1>5. CASE StopClear
  BY <1>5 DEF StopClear, QueueWakeup, Sleepers, Trying, Awake
<1>6. CASE StopJoin
  BY <1>6 DEF StopJoin, QueueWakeup, Sleepers, Trying, Awake
<1>7. CASE UNCHANGED vars
  BY <1>7 DEF vars, QueueWakeup, Sleepers, Trying, Awake
<1> QED
  BY <1>1, <1>2, <1>3, <1>4, <1>5, <1>6, <1>7 DEF StopStep

(* No lost wake-up on m_not_full_cv: while a caller is blocked in add() the   *)
(* free places of its queue are covered by callers that are awake or about to *)
(* be notified, and none stays blocked on a queue whose stop() has returned.  *)
THEOREM NoLostProducerWakeup == SafeSpec => []ProducerWakeup
<1>1. Init => ProducerWakeup
  BY DEF Init, ProducerWakeup, Sleepers
<1>2. TypeOK /\ ProducerWakeup /\ [Next]_vars => ProducerWakeup'
  <2> SUFFICES ASSUME TypeOK, ProducerWakeup, [Next]_vars, NEW w \in Workers
               PROVE  QueueWakeup(w)'
    BY DEF ProducerWakeup, QueueWakeup, Awake
  <2>1. QueueWakeup(w)
    BY WakeupPerQueue
  <2> QED
    BY <2>1, ProducerKeepsWakeup, WorkerKeepsWakeup, StopKeepsWakeup DEF Next, Quiescent
<1> QED
  BY <1>1, <1>2, TypeCorrect, PTL DEF SafeSpec

-----------------------------------------------------------------------------
(* stop() returns only when every worker thread has ended.                  *)
JoinedOK == spc = "joined" => \A w \in Workers : wpc[w] = "exited"

(* A worker thread that has ended does not come back.                           *)
LEMMA NextJoined == TypeOK /\ JoinedOK /\ [Next]_vars => JoinedOK'
<1> SUFFICES ASSUME TypeOK, JoinedOK, [Next]_vars PROVE JoinedOK'
  OBVIOUS
<1> USE DEF TypeOK, JoinedOK, queueVars, workerVars, producerVars, stopVars, history
<1>1. ASSUME NEW p \in Producers,
             \/ \E t \in Tasks, w \in Workers : AddTask(p, t, w)
             \/ ProducerStep(p) \/ SpuriousWakeProducer(p)
      PROVE  JoinedOK'
  BY <1>1 DEF AddTask, ProducerStep, AddRefused, AddPush, AddWait, AddNotify,
              SpuriousWakeProducer
<1>2. ASSUME NEW w \in Workers, WorkerStep(w) \/ SpuriousWakeWorker(w)
      PROVE  JoinedOK'
  BY <1>2 DEF WorkerStep, LoopCheck, DequeueStopped, DequeuePop, DequeueWait,
              DequeueNotify, RunTask, SpuriousWakeWorker
<1>3. CASE StopCall \/ StopStep \/ UNCHANGED vars
  BY <1>3 DEF StopCall, StopStep, StopSet, StopWakeWorkers, StopWakeProducers,
              StopClear, StopJoin, vars
<1> QED
  BY <1>1, <1>2, <1>3 DEF Next, Quiescent

(* After ThreadPool::stop has returned no task starts or finishes.           *)
THEOREM StopIsFinal == SafeSpec => NothingRunsAfterJoin
<1>1. Init => JoinedOK
  BY DEF Init, JoinedOK
<1>2. TypeOK /\ JoinedOK /\ [Next]_vars => [spc = "joined" => executed' = executed]_vars
  BY DEF TypeOK, JoinedOK, Next, vars, queueVars, workerVars, producerVars, stopVars,
         history, ProducerStep, WorkerStep, StopStep, AddTask, AddRefused, AddPush, AddWait,
         AddNotify, SpuriousWakeProducer, SpuriousWakeWorker, LoopCheck, DequeueStopped,
         DequeuePop, DequeueWait, DequeueNotify, RunTask, StopCall, StopSet,
         StopWakeWorkers, StopWakeProducers, StopClear, StopJoin, Quiescent
<1> QED
  BY <1>1, <1>2, NextJoined, TypeCorrect, PTL DEF SafeSpec, NothingRunsAfterJoin

-----------------------------------------------------------------------------
(* The pool implements the abstract task service.  A task enters a line at   *)
(* most once because add_task is handed each task once: what a caller still   *)
(* holds is in no line and in no other caller's hands.                        *)
HandedOnce ==
  /\ Taken \subseteq submitted
  /\ \A p \in Producers : ptask[p] # NoTask => ptask[p] \in submitted \ Taken
  /\ \A p, q \in Producers : p # q /\ ptask[p] # NoTask => ptask[p] # ptask[q]

(* Pushing a task adds that one task to the ones taken.                         *)
LEMMA TakenPush ==
  ASSUME TypeOK, NEW w \in Workers, NEW t \in Tasks,
         accepted' = [accepted EXCEPT ![w] = Append(@, t)]
  PROVE  Taken' = Taken \cup {t}
<1>1. /\ accepted[w] \in Seq(Tasks)
      /\ accepted'[w] = Append(accepted[w], t)
      /\ \A v \in Workers : v # w => accepted'[v] = accepted[v]
  BY DEF TypeOK
<1>2. /\ Len(accepted'[w]) = Len(accepted[w]) + 1 /\ Len(accepted[w]) \in Nat
      /\ \A i \in 1 .. Len(accepted[w]) : accepted'[w][i] = accepted[w][i]
      /\ accepted'[w][Len(accepted[w]) + 1] = t
  BY <1>1
<1>3. ASSUME NEW x PROVE x \in Taken' <=> x \in Taken \cup {t}
  <2>1. x \in Taken <=> \E v \in Workers : \E i \in 1 .. Len(accepted[v]) : accepted[v][i] = x
    BY DEF Taken
  <2>2. x \in Taken' <=>
          \E v \in Workers : \E i \in 1 .. Len(accepted'[v]) : accepted'[v][i] = x
    BY DEF Taken
  <2>3. (\E i \in 1 .. Len(accepted'[w]) : accepted'[w][i] = x) <=>
           (\E i \in 1 .. Len(accepted[w]) : accepted[w][i] = x) \/ x = t
    BY <1>2
  <2> QED
    BY <1>1, <2>1, <2>2, <2>3
<1> QED
  BY <1>3

(* No two callers hand over the same task, and none hands one over again.       *)
LEMMA NextHandedOnce ==
  TypeOK /\ HandsOK /\ HandedOnce /\ [Next]_vars => HandedOnce'
<1> SUFFICES ASSUME TypeOK, HandsOK, HandedOnce, [Next]_vars PROVE HandedOnce'
  OBVIOUS
<1> USE DEF queueVars, workerVars, producerVars, stopVars, history
<1>1. ASSUME NEW p \in Producers, NEW t \in Tasks, NEW w \in Workers, AddTask(p, t, w)
      PROVE  HandedOnce'
  <2>1. Taken' = Taken
    BY <1>1 DEF AddTask, Taken
  <2> QED
    BY <1>1, <2>1 DEF AddTask, HandedOnce, TypeOK, HandsOK
<1>2. ASSUME NEW p \in Producers, AddRefused(p)
      PROVE  HandedOnce'
  <2>1. Taken' = Taken
    BY <1>2 DEF AddRefused, Taken
  <2> QED
    BY <1>2, <2>1 DEF AddRefused, HandedOnce, TypeOK
<1>3. ASSUME NEW p \in Producers, AddPush(p)
      PROVE  HandedOnce'
  <2>1. Taken' = Taken \cup {ptask[p]} /\ ptask[p] \in Tasks
    BY <1>3, TakenPush DEF AddPush, TypeOK, HandsOK
  <2> QED
    BY <1>3, <2>1 DEF AddPush, HandedOnce, TypeOK, HandsOK
<1>4. CASE UNCHANGED <<accepted, submitted, ptask>>
  <2>1. Taken' = Taken
    BY <1>4 DEF Taken
  <2> QED
    BY <1>4, <2>1 DEF HandedOnce
<1>5. \/ \E p \in Producers :
           (\E t \in Tasks, w \in Workers : AddTask(p, t, w)) \/ AddRefused(p) \/ AddPush(p)
      \/ UNCHANGED <<accepted, submitted, ptask>>
  BY DEF Next, vars, ProducerStep, WorkerStep, StopStep, AddWait, AddNotify,
         SpuriousWakeProducer, SpuriousWakeWorker, LoopCheck, DequeueStopped, DequeuePop,
         DequeueWait, DequeueNotify, RunTask, StopCall, StopSet, StopWakeWorkers,
         StopWakeProducers, StopClear, StopJoin, Quiescent
<1> QED
  BY <1>1, <1>2, <1>3, <1>4, <1>5

(* Pushing is taking, popping is starting, running is finishing and setting   *)
(* m_stop (the first time) is halting; every other step changes nothing that   *)
(* the service shows.                                                          *)
LEMMA NextRefines ==
  TypeOK /\ HandsOK /\ HandedOnce /\ [Next]_vars => [Service!Next]_Service!vars
<1> SUFFICES ASSUME TypeOK, HandsOK, HandedOnce, [Next]_vars
             PROVE  Service!Next \/ UNCHANGED Service!vars
  OBVIOUS
<1> USE DEF queueVars, workerVars, producerVars, stopVars, history
<1>1. ASSUME NEW p \in Producers, AddPush(p)
      PROVE  Service!Next
  <2> DEFINE w == ptarget[p]
  <2>1. w \in Workers /\ ptask[p] \in Tasks /\ ptask[p] \notin Taken
    BY <1>1 DEF AddPush, TypeOK, HandsOK, HandedOnce
  <2>2. Taken' = Taken \cup {ptask[p]}
    BY <1>1, <2>1, TakenPush DEF AddPush
  <2>3. Service!Take(w, ptask[p])
    BY <1>1, <2>1, <2>2 DEF AddPush, NotFull, Service!Take
  <2> QED
    BY <2>1, <2>3 DEF Service!Next
<1>2. ASSUME NEW w \in Workers, DequeuePop(w)
      PROVE  Service!Next
  <2>1. Taken' = Taken
    BY <1>2 DEF DequeuePop, Taken
  <2>2. wtask[w] = NoTask
    BY <1>2 DEF DequeuePop, TypeOK, HandsOK
  <2>3. Service!Start(w)
    BY <1>2, <2>1, <2>2 DEF DequeuePop, Service!Start
  <2> QED
    BY <2>3 DEF Service!Next
<1>3. ASSUME NEW w \in Workers, RunTask(w)
      PROVE  Service!Next
  <2>1. Taken' = Taken
    BY <1>3 DEF RunTask, Taken
  <2>2. wtask[w] # NoTask
    BY <1>3 DEF RunTask, TypeOK, HandsOK
  <2>3. Service!Finish(w)
    BY <1>3, <2>1, <2>2 DEF RunTask, Service!Finish
  <2> QED
    BY <2>3 DEF Service!Next
<1>4. CASE StopSet
  <2>1. Taken' = Taken /\ scur \in Workers
    BY <1>4 DEF StopSet, Taken, TypeOK
  <2>2. CASE mstop[scur]
    <3>1. mstop' = mstop
      BY <1>4, <2>1, <2>2 DEF StopSet, TypeOK
    <3> QED
      BY <1>4, <2>1, <3>1 DEF StopSet, Service!vars
  <2>3. CASE ~mstop[scur]
    <3>1. Service!Halt(scur)
      BY <1>4, <2>1, <2>3 DEF StopSet, Service!Halt
    <3> QED
      BY <2>1, <3>1 DEF Service!Next
  <2> QED
    BY <2>2, <2>3
<1>5. CASE UNCHANGED <<mqueue, mstop, wtask, accepted, executed>>
  <2>1. Taken' = Taken
    BY <1>5 DEF Taken
  <2> QED
    BY <1>5, <2>1 DEF Service!vars
<1>6. \/ \E p \in Producers : AddPush(p)
      \/ \E w \in Workers : DequeuePop(w) \/ RunTask(w)
      \/ StopSet
      \/ UNCHANGED <<mqueue, mstop, wtask, accepted, executed>>
  BY DEF Next, vars, ProducerStep, WorkerStep, StopStep, AddTask, AddRefused, AddWait,
         AddNotify, SpuriousWakeProducer, SpuriousWakeWorker, LoopCheck, DequeueStopped,
         DequeueWait, DequeueNotify, StopCall, StopWakeWorkers, StopWakeProducers,
         StopClear, StopJoin, Quiescent
<1> QED
  BY <1>1, <1>2, <1>3, <1>4, <1>5, <1>6

(* Every behaviour of the pool is a behaviour of the task service: a task is  *)
(* taken at most once, started in the order it was taken, run exactly once,    *)
(* and none is started from a stopped queue.  (The service's fairness is left   *)
(* to TLC.)                                                                     *)
THEOREM PoolImplementsService == SafeSpec => Service!SafeSpec
<1>1. Init => HandedOnce /\ Service!Init
  <2> SUFFICES ASSUME Init PROVE HandedOnce /\ Service!Init
    OBVIOUS
  <2>1. Taken = {}
    BY DEF Init, Taken
  <2> QED
    BY <2>1 DEF Init, HandedOnce, Service!Init
<1> QED
  BY <1>1, NextHandedOnce, NextRefines, TypeCorrect, PTL DEF SafeSpec, Service!SafeSpec
=============================================================================
