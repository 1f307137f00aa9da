SPECIFICATION AsyncSpec
CONSTANTS
  TaskID = {t1, t2}
  Loadable = {}
  MaxQueued = 1
  MaxRetained = 1
  MaxTime = 1
  ClockStepsBack = FALSE
  Canceller = {c1, c2}
  NoTask = NoTask
  Worker = {w1, w2}
  Submitter = {s1, s2}
  Waiter = {}
  HeapPush <- MCHeapPush
  HeapPop <- MCHeapPop
SYMMETRY Symmetry
INVARIANTS AsyncTypeOK NoGhostTask RunningIsPublished NoSendAfterClose FullOnlyOfStaleJobs CancelledIsOver ExitLeavesNoLiveTask
