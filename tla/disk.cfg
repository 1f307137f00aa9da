SPECIFICATION DiskSpec
CONSTANTS
  TaskID = {t1, t2}
  Loadable = {t1, t2}
  MaxQueued = 2
  MaxRetained = 1
  MaxTime = 2
  ClockStepsBack = FALSE
  Canceller = {c1}
  NoTask = NoTask
  PID = {p1, p2}
  DiskFails = TRUE
  MaxRestarts = 2
  HeapPush <- MCHeapPush
  HeapPop <- MCHeapPop
SYMMETRY Symmetry
CHECK_DEADLOCK FALSE
INVARIANTS DiskTypeOK ManifestsAgree DirectoryWithinWindow
PROPERTIES ManifestsMoveForward
