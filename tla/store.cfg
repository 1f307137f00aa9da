SPECIFICATION Spec
CONSTANTS
  TaskID = {t1, t2, t3, m1}
  Loadable = {m1}
  MaxQueued = 2
  MaxRetained = 2
  MaxTime = 2
  ClockStepsBack = TRUE
  Canceller = {c1}
  NoTask = NoTask
  HeapPush <- MCHeapPush
  HeapPop <- MCHeapPop
SYMMETRY Symmetry
CHECK_DEADLOCK FALSE
INVARIANTS TypeOK Bookkeeping
PROPERTIES Implements OldestEvicted EndedUnchanged
