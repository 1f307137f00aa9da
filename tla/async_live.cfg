SPECIFICATION FairAsyncSpec
CONSTANTS
  TaskID = {t1, m1}
  Loadable = {m1}
  MaxQueued = 1
  MaxRetained = 1
  MaxTime = 1
  ClockStepsBack = FALSE
  Canceller = {c1}
  NoTask = NoTask
  Worker = {w1}
  Submitter = {s1}
  Waiter = {x1}
  HeapPush <- MCHeapPush
  HeapPop <- MCHeapPop
PROPERTIES EveryTaskEnds ShutdownCompletes
