\* Three threads and at most one link at first; four Dao objects.
SPECIFICATION Spec
CONSTANTS
  t1 = t1
  t2 = t2
  t3 = t3
  Threads = {t1, t2, t3}
  MaxSize = 1
  MaxCalls = 4
INVARIANTS
  LinkExclusive
  EntriesConserved
  WaiterWakeup
PROPERTY
  GetServed
