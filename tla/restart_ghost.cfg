SPECIFICATION DiskSpec
CONSTANTS
  TaskID = {t1}
  Loadable = {t1}
  MaxQueued = 2
  MaxRetained = 1
  MaxTime = 1
  ClockStepsBack = FALSE
  Canceller = {}
  NoTask = NoTask
  PID = {p1, p2}
  DiskFails = FALSE
  MaxRestarts = 1
  HeapPush <- MCHeapPush
  HeapPop <- MCHeapPop
CHECK_DEADLOCK FALSE
INVARIANTS RestartLeavesNoGhost
