---------------------------- MODULE TerminalHeap ----------------------------
(***************************************************************************)
(* The retention heap of internal/taskstore/memory.go: container/heap from *)
(* Go's library over terminalHeap, whose Less compares FinishedAt.  A heap *)
(* is the slice itself, a sequence of task identifiers; position i of the  *)
(* sequence is index i - 1 of the slice, so the parent of i is i \div 2    *)
(* and its children are 2*i and 2*i + 1.  key[t] is FinishedAt of t, read  *)
(* through the record pointer at the time of the call: a key that changes  *)
(* while its record is in the heap reorders nothing.                       *)
(***************************************************************************)
LOCAL INSTANCE Integers
LOCAL INSTANCE Sequences

Less(h, key, i, j) == key[h[i]] < key[h[j]]

Swap(h, i, j) == [h EXCEPT ![i] = h[j], ![j] = h[i]]

\* container/heap up: the element at j rises while it is less than its parent.
SiftUp(h, key, j) ==
  LET up[s \in Seq(DOMAIN key), k \in Nat] ==
        IF k > 1 /\ Less(s, key, k, k \div 2)
          THEN up[Swap(s, k, k \div 2), k \div 2]
          ELSE s
  IN  up[h, j]

\* container/heap down over the first n positions: the element at i sinks
\* below the lesser of its children, the left one on a tie.
SiftDown(h, key, i, n) ==
  LET down[s \in Seq(DOMAIN key), k \in Nat] ==
        LET least == IF 2 * k < n /\ Less(s, key, 2 * k + 1, 2 * k)
                       THEN 2 * k + 1 ELSE 2 * k
        IN  IF 2 * k <= n /\ Less(s, key, least, k)
              THEN down[Swap(s, k, least), least]
              ELSE s
  IN  down[h, i]

Push(h, t, key) == SiftUp(Append(h, t), key, Len(h) + 1)

\* heap.Pop returns the root, h[1]; this is the slice it leaves behind.
Pop(h, key) ==
  LET n == Len(h) - 1
  IN  SubSeq(SiftDown(Swap(h, 1, n + 1), key, 1, n), 1, n)
=============================================================================
