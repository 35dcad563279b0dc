\* One worker with a queue of two tasks, two callers, four tasks; no symmetry, as liveness is checked.
SPECIFICATION Spec
CONSTANTS
  p1 = p1
  p2 = p2
  t1 = t1
  t2 = t2
  t3 = t3
  t4 = t4
  ThreadNums = 1
  QueueSize = 2
  Producers = {p1, p2}
  Tasks = {t1, t2, t3, t4}
  NoTask = NoTask
INVARIANTS
  FifoExact
  WorkerWakeup
  ProducerWakeup
PROPERTIES
  NothingRunsAfterJoin
  ImplementsService
  AddTaskReturns
  StopReturns
