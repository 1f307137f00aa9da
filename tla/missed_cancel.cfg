SPECIFICATION AsyncSpec
CONSTANTS
  TaskID = {t1}
  Loadable = {}
  MaxQueued = 1
  MaxRetained = 1
  MaxTime = 1
  ClockStepsBack = FALSE
  Canceller = {c1}
  NoTask = NoTask
  Worker = {w1}
  Submitter = {s1}
  Waiter = {}
  HeapPush <- MCHeapPush
  HeapPop <- MCHeapPop
INVARIANTS CancelReachesWorker
