---------------------------- MODULE MCAsyncTasks ----------------------------
\* AsyncTasks over Go's container/heap, on a small instance.
EXTENDS AsyncTasks, TLC

H == INSTANCE TerminalHeap

MCHeapPush(a, t, k) == H!Push(a, t, k)
MCHeapPop(a, k)     == H!Pop(a, k)

Symmetry == Permutations(Loadable) \cup Permutations(TaskID \ Loadable)
              \cup Permutations(Canceller) \cup Permutations(Worker)
              \cup Permutations(Submitter) \cup Permutations(Waiter)
=============================================================================
