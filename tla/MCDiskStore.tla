---------------------------- MODULE MCDiskStore ----------------------------
\* DiskStore over Go's container/heap, on a small instance.
EXTENDS DiskStore, TLC

H == INSTANCE TerminalHeap

MCHeapPush(a, t, k) == H!Push(a, t, k)
MCHeapPop(a, k)     == H!Pop(a, k)

\* Manifests are read in the order of their names, but nothing compares two
\* tasks other than by their times.
Symmetry == Permutations(TaskID) \cup Permutations(PID)
              \cup Permutations(Canceller)
=============================================================================
