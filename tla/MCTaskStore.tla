---------------------------- MODULE MCTaskStore ----------------------------
\* TaskStore over Go's container/heap, on a small instance.
EXTENDS TaskStore, TLC

H == INSTANCE TerminalHeap

MCHeapPush(a, t, k) == H!Push(a, t, k)
MCHeapPop(a, k)     == H!Pop(a, k)

\* Identifiers are random and the heap compares times alone: tasks are
\* interchangeable, and so are the concurrent cancel calls.
Symmetry == Permutations(Loadable) \cup Permutations(TaskID \ Loadable)
              \cup Permutations(Canceller)
=============================================================================
