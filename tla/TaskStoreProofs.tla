-------------------------- MODULE TaskStoreProofs --------------------------
(***************************************************************************)
(* TaskStore for every set of tasks, every bound, every number of cancel   *)
(* calls and every heap that satisfies the two assumptions: its types, the *)
(* agreement of counters, heap, channels and stamps with the records, that *)
(* it implements StoreContract, and, as long as no two cancels of one task *)
(* overlap, that eviction takes the oldest and an ended record stays.      *)
(***************************************************************************)
EXTENDS TaskStore, FiniteSetTheorems, TLAPS

\* A cancel call that is under way knows its task.
CallsNameTasks ==
  \A c \in Canceller : call[c].pc # "idle" => call[c].task \in TaskID

\* The inductive invariant: Bookkeeping is inductive once the calls in flight
\* are known to be about tasks.
IInv == TypeOK /\ CallsNameTasks /\ Bookkeeping

-----------------------------------------------------------------------------
\* Sets of tasks are finite, so that they can be counted.
LEMMA InStateFinite ==
  ASSUME NEW s PROVE IsFiniteSet(InState(s)) /\ Cardinality(InState(s)) \in Nat
<1>1. InState(s) \subseteq TaskID
  BY DEF InState
<1>2. IsFiniteSet(InState(s))
  BY <1>1, ConstantsAssumption, FS_Subset DEF ConstantsAssumption
<1> QED BY <1>2, FS_CardinalityType

\* Removing a task from a set of tasks, as the counters do.
LEMMA CountRemove ==
  ASSUME NEW t \in TaskID, NEW s \in Live
  PROVE  Cardinality(InState(s) \ {t}) = Cardinality(InState(s)) - Count(t, s)
<1>1. IsFiniteSet(InState(s)) /\ Cardinality(InState(s)) \in Nat
  BY InStateFinite
<1>2. t \in InState(s) <=> state[t] = s
  BY DEF InState
<1>3. Cardinality(InState(s) \ {t}) =
        IF t \in InState(s) THEN Cardinality(InState(s)) - 1
                            ELSE Cardinality(InState(s))
  BY <1>1, FS_RemoveElement
<1> QED BY <1>1, <1>2, <1>3 DEF Count

\* Adding one that was in another state.
LEMMA CountAdd ==
  ASSUME NEW t \in TaskID, NEW s, state[t] # s
  PROVE  Cardinality(InState(s) \cup {t}) = Cardinality(InState(s)) + 1
<1>1. IsFiniteSet(InState(s)) /\ t \notin InState(s)
  BY InStateFinite DEF InState
<1> QED BY <1>1, FS_AddElement

-----------------------------------------------------------------------------
\* The slice on which a task that ends is pushed, and what is popped from it.
LEMMA EndHeap ==
  ASSUME IInv, NEW t \in TaskID, state[t] \notin Terminal \cup {"evicted"}, NEW at \in Time
  PROVE  LET keys == [finishedAt EXCEPT ![t] = at] IN
         /\ keys \in Key
         /\ t \notin Elements(heap)
         /\ heap \in HeapArray /\ Len(heap) <= MaxRetained /\ Len(heap) \in Nat
         /\ Pushed(t, at) \in HeapArray
         /\ Elements(Pushed(t, at)) = Elements(heap) \cup {t}
         /\ Len(Pushed(t, at)) = Len(heap) + 1
         /\ Pushed(t, at)[1] \in Elements(Pushed(t, at))
         /\ HeapPop(Pushed(t, at), keys) \in HeapArray
         /\ Elements(HeapPop(Pushed(t, at), keys)) = Elements(Pushed(t, at)) \ {Pushed(t, at)[1]}
         /\ Len(HeapPop(Pushed(t, at), keys)) = Len(Pushed(t, at)) - 1
<1> DEFINE keys    == [finishedAt EXCEPT ![t] = at]
           pushed  == HeapPush(heap, t, keys)
<1>1. keys \in Key
  BY DEF IInv, TypeOK, Key
<1>2. heap \in HeapArray /\ Len(heap) <= MaxRetained /\ Len(heap) \in Nat
  BY ConstantsAssumption
     DEF IInv, TypeOK, Bookkeeping, HeapWithinWindow, HeapArray, ConstantsAssumption
<1>3. t \notin Elements(heap)
  BY DEF IInv, Bookkeeping, HeapHoldsRetained, Retained
<1>4. /\ pushed \in HeapArray
      /\ Elements(pushed) = Elements(heap) \cup {t}
      /\ Len(pushed) = Len(heap) + 1
  BY <1>1, <1>2, <1>3, HeapAssumption DEF HeapAssumption
<1>5. /\ Len(pushed) > 0
      /\ pushed[1] \in Elements(pushed)
  <2>1. PICK n \in 0..(MaxRetained + 1) : pushed \in [1..n -> TaskID]
    BY <1>4 DEF HeapArray
  <2>2. Len(pushed) = n /\ DOMAIN pushed = 1..n /\ n \in Nat
    BY <2>1, ConstantsAssumption DEF ConstantsAssumption
  <2>3. n > 0
    BY <1>2, <1>4, <2>2
  <2>4. 1 \in DOMAIN pushed
    BY <2>2, <2>3
  <2> QED BY <2>2, <2>3, <2>4 DEF Elements
<1>6. /\ HeapPop(pushed, keys) \in HeapArray
      /\ Elements(HeapPop(pushed, keys)) = Elements(pushed) \ {pushed[1]}
      /\ Len(HeapPop(pushed, keys)) = Len(pushed) - 1
  BY <1>1, <1>4, <1>5, HeapAssumption DEF HeapAssumption
<1>7. pushed = Pushed(t, at)
  BY DEF Pushed
<1> HIDE DEF pushed, keys
<1>8. /\ keys \in Key
      /\ t \notin Elements(heap)
      /\ heap \in HeapArray /\ Len(heap) <= MaxRetained /\ Len(heap) \in Nat
      /\ Pushed(t, at) \in HeapArray
      /\ Elements(Pushed(t, at)) = Elements(heap) \cup {t}
      /\ Len(Pushed(t, at)) = Len(heap) + 1
      /\ Pushed(t, at)[1] \in Elements(Pushed(t, at))
      /\ HeapPop(Pushed(t, at), keys) \in HeapArray
      /\ Elements(HeapPop(Pushed(t, at), keys)) = Elements(Pushed(t, at)) \ {Pushed(t, at)[1]}
      /\ Len(HeapPop(Pushed(t, at), keys)) = Len(Pushed(t, at)) - 1
  BY <1>1, <1>2, <1>3, <1>4, <1>5, <1>6, <1>7
<1> QED BY <1>8 DEF keys

\* What Settle leaves behind when it ends a task that had not ended: the
\* record part of the invariant, the other live tasks where they were.
LEMMA SettleEnds ==
  ASSUME IInv, NEW t \in TaskID, state[t] \notin Terminal \cup {"evicted"},
         NEW to \in Terminal, NEW at \in Time, Settle(t, to, at)
  PROVE  /\ state' \in [TaskID -> Fate]
         /\ finishedAt' \in Key
         /\ done' \subseteq TaskID
         /\ attached' \subseteq TaskID
         /\ heap' \in HeapArray
         /\ HeapHoldsRetained'
         /\ HeapWithinWindow'
         /\ ReleasedWhenOver'
         /\ StampedWhenOver'
         /\ \A s \in Live : InState(s)' = InState(s) \ {t}
<1> DEFINE keys    == [finishedAt EXCEPT ![t] = at]
           pushed  == Pushed(t, at)
           full    == Len(pushed) > MaxRetained
           dropped == IF full THEN {pushed[1]} ELSE {}
<1>1. /\ keys \in Key
      /\ t \notin Elements(heap)
      /\ heap \in HeapArray /\ Len(heap) <= MaxRetained /\ Len(heap) \in Nat
  BY EndHeap
<1>2. /\ pushed \in HeapArray
      /\ Elements(pushed) = Elements(heap) \cup {t}
      /\ Len(pushed) = Len(heap) + 1
      /\ pushed[1] \in Elements(pushed)
  BY EndHeap
<1>3. /\ HeapPop(pushed, keys) \in HeapArray
      /\ Elements(HeapPop(pushed, keys)) = Elements(pushed) \ {pushed[1]}
      /\ Len(HeapPop(pushed, keys)) = Len(pushed) - 1
  BY EndHeap
<1>4. /\ heap' = IF full THEN HeapPop(pushed, keys) ELSE pushed
      /\ state' = [u \in TaskID |-> IF u \in dropped THEN "evicted"
                                    ELSE IF u = t THEN to ELSE state[u]]
      /\ finishedAt' = [u \in TaskID |-> IF u \in dropped THEN 0 ELSE keys[u]]
      /\ done' = done \cup {t}
      /\ attached' = attached \ {t}
  BY DEF Settle, Overfull
<1> HIDE DEF pushed, keys
<1>5. dropped \subseteq Retained \cup {t}
  BY <1>2 DEF IInv, Bookkeeping, HeapHoldsRetained
<1>6. state \in [TaskID -> Fate] /\ Terminal \subseteq Fate /\ "evicted" \in Fate
  BY DEF IInv, TypeOK, Fate, State
<1>7. heap' \in HeapArray /\ Len(heap') <= MaxRetained
  BY <1>1, <1>2, <1>3, <1>4, ConstantsAssumption DEF ConstantsAssumption
<1>8. Elements(heap') = (Retained \cup {t}) \ dropped
  BY <1>2, <1>3, <1>4 DEF IInv, Bookkeeping, HeapHoldsRetained
<1>9. state' \in [TaskID -> Fate]
  BY <1>4, <1>6
<1>10. Retained' = (Retained \cup {t}) \ dropped
  BY <1>4, <1>6 DEF Retained, Terminal
<1>11. finishedAt' \in Key
  BY <1>1, <1>4 DEF Key
<1>12. done' \subseteq TaskID /\ attached' \subseteq TaskID
  BY <1>4 DEF IInv, TypeOK
<1>13. ReleasedWhenOver'
  <2>1. done = {u \in TaskID : state[u] \in Terminal \cup {"evicted"}}
    BY DEF IInv, Bookkeeping, ReleasedWhenOver
  <2>2. done' = {u \in TaskID : state'[u] \in Terminal \cup {"evicted"}}
    BY <2>1, <1>4, <1>5, <1>6 DEF Retained
  <2>3. \A u \in attached' : state'[u] \in Live
    BY <1>4, <1>5, <1>6 DEF IInv, TypeOK, Bookkeeping, ReleasedWhenOver, Retained,
       Live, Terminal
  <2> QED BY <2>2, <2>3 DEF ReleasedWhenOver
<1>14. StampedWhenOver'
  <2> SUFFICES ASSUME NEW u \in TaskID
               PROVE  state'[u] \in Terminal <=> finishedAt'[u] # 0
    BY DEF StampedWhenOver
  <2>1. state[u] \in Terminal <=> finishedAt[u] # 0
    BY DEF IInv, Bookkeeping, StampedWhenOver
  <2>2. keys[u] = IF u = t THEN at ELSE finishedAt[u]
    BY DEF keys, IInv, TypeOK, Key
  <2>3. at # 0
    BY ConstantsAssumption DEF Time, ConstantsAssumption
  <2> QED BY <2>1, <2>2, <2>3, <1>4, <1>6 DEF Terminal
<1>15. ASSUME NEW s \in Live PROVE InState(s)' = InState(s) \ {t}
  BY <1>4, <1>5, <1>6 DEF InState, Retained, Live, Terminal
<1> QED BY <1>7, <1>8, <1>9, <1>10, <1>11, <1>12, <1>13, <1>14, <1>15
        DEF HeapHoldsRetained, HeapWithinWindow

\* The counters after a step that took t out of the live state it was in.
LEMMA CountersAfterEnd ==
  ASSUME IInv, NEW t \in TaskID, Uncount(t),
         \A s \in Live : InState(s)' = InState(s) \ {t}
  PROVE  CountersAgree' /\ queued' \in Int /\ running' \in Int
<1>1. /\ queued' = queued - Count(t, "queued")
      /\ running' = running - Count(t, "running")
  BY DEF Uncount
<1>2. /\ queued = Cardinality(InState("queued"))
      /\ running = Cardinality(InState("running"))
  BY DEF IInv, Bookkeeping, CountersAgree
<1>3. ASSUME NEW s \in Live
      PROVE  Cardinality(InState(s)') = Cardinality(InState(s)) - Count(t, s)
  BY CountRemove
<1>4. /\ Cardinality(InState("queued")') = Cardinality(InState("queued")) - Count(t, "queued")
      /\ Cardinality(InState("running")') = Cardinality(InState("running")) - Count(t, "running")
  BY <1>3 DEF Live
<1>5. queued \in Int /\ running \in Int /\ Count(t, "queued") \in Int
      /\ Count(t, "running") \in Int
  BY DEF IInv, TypeOK, Count
<1> QED BY <1>1, <1>2, <1>4, <1>5 DEF CountersAgree

\* A step that changes no record keeps what is said of the records.
LEMMA RecordsKept ==
  ASSUME Bookkeeping, UNCHANGED records
  PROVE  Bookkeeping'
BY DEF Bookkeeping, records, CountersAgree, HeapHoldsRetained, HeapWithinWindow,
   ReleasedWhenOver, StampedWhenOver, InState, Retained, Elements

-----------------------------------------------------------------------------
\* One lemma per operation that changes records.

LEMMA SubmitKeeps ==
  ASSUME IInv, NEW t \in TaskID, Submit(t) PROVE IInv'
<1> USE DEF IInv, TypeOK
<1>1. /\ state[t] = "unborn"
      /\ state' = [state EXCEPT ![t] = "queued"]
      /\ owner' = [owner EXCEPT ![t] = "self"]
      /\ queued' = queued + 1
      /\ UNCHANGED <<finishedAt, done, attached, fired, heap, running, closed,
                     stage, now, call>>
  BY DEF Submit
<1>2. TypeOK' /\ CallsNameTasks'
  BY <1>1 DEF Fate, State, Live, CallsNameTasks
<1>3. /\ InState("queued")' = InState("queued") \cup {t}
      /\ InState("running")' = InState("running")
      /\ Retained' = Retained
  BY <1>1 DEF InState, Retained, Terminal
<1>4. CountersAgree'
  BY <1>1, <1>3, CountAdd DEF Bookkeeping, CountersAgree
<1>5. HeapHoldsRetained' /\ HeapWithinWindow'
  BY <1>1, <1>3 DEF Bookkeeping, HeapHoldsRetained, HeapWithinWindow, Elements
<1>6. ReleasedWhenOver' /\ StampedWhenOver'
  BY <1>1 DEF Bookkeeping, ReleasedWhenOver, StampedWhenOver, Live, Terminal
<1> QED BY <1>2, <1>4, <1>5, <1>6 DEF Bookkeeping

LEMMA StartRunningKeeps ==
  ASSUME IInv, NEW t \in TaskID, StartRunning(t) PROVE IInv'
<1> USE DEF IInv, TypeOK
<1>1. /\ state[t] = "queued"
      /\ state' = [state EXCEPT ![t] = "running"]
      /\ queued' = queued - Count(t, "queued")
      /\ running' = running + 1
      /\ UNCHANGED <<owner, finishedAt, done, attached, fired, heap, closed,
                     stage, now, call>>
  BY DEF StartRunning, Accepts, CanTransition, AllowedTransitions, Terminal
<1>2. TypeOK' /\ CallsNameTasks'
  BY <1>1 DEF Fate, State, Live, CallsNameTasks, Count
<1>3. /\ InState("queued")' = InState("queued") \ {t}
      /\ InState("running")' = InState("running") \cup {t}
      /\ Retained' = Retained
  BY <1>1 DEF InState, Retained, Terminal
<1>4. Cardinality(InState("queued")') = Cardinality(InState("queued")) - Count(t, "queued")
  BY <1>3, CountRemove DEF Live
<1>5. Cardinality(InState("running")') = Cardinality(InState("running")) + 1
  BY <1>1, <1>3, CountAdd
<1>6. CountersAgree'
  BY <1>1, <1>4, <1>5 DEF Bookkeeping, CountersAgree
<1>7. HeapHoldsRetained' /\ HeapWithinWindow'
  BY <1>1, <1>3 DEF Bookkeeping, HeapHoldsRetained, HeapWithinWindow, Elements
<1>8. ReleasedWhenOver' /\ StampedWhenOver'
  BY <1>1 DEF Bookkeeping, ReleasedWhenOver, StampedWhenOver, Live, Terminal
<1> QED BY <1>2, <1>6, <1>7, <1>8 DEF Bookkeeping

LEMMA RegisterCancelKeeps ==
  ASSUME IInv, NEW t \in TaskID, RegisterCancel(t) PROVE IInv'
<1> USE DEF IInv, TypeOK, RegisterCancel
<1>1. TypeOK' /\ CallsNameTasks'
  BY DEF CallsNameTasks
<1>2. CountersAgree' /\ HeapHoldsRetained' /\ HeapWithinWindow'
  BY DEF Bookkeeping, CountersAgree, HeapHoldsRetained, HeapWithinWindow,
     InState, Retained, Elements
<1>3. ReleasedWhenOver' /\ StampedWhenOver'
  BY DEF Bookkeeping, ReleasedWhenOver, StampedWhenOver
<1> QED BY <1>1, <1>2, <1>3 DEF Bookkeeping

\* A Transition that ends a live task: the shape Finish, Cancel and replay share.
LEMMA EndKeeps ==
  ASSUME IInv, NEW t \in TaskID, NEW to \in Terminal, NEW at \in Time,
         state[t] \notin Terminal \cup {"evicted"},
         Settle(t, to, at), Uncount(t),
         owner' \in [TaskID -> {"self", "peer"}], call' \in [Canceller -> CallRecord],
         CallsNameTasks',
         UNCHANGED <<fired, closed, stage, now>>
  PROVE  IInv'
<1>1. TypeOK'
  BY SettleEnds, CountersAfterEnd DEF IInv, TypeOK
<1>2. Bookkeeping'
  BY SettleEnds, CountersAfterEnd DEF Bookkeeping
<1> QED BY <1>1, <1>2 DEF IInv

LEMMA StampType ==
  ASSUME TypeOK, NEW t \in TaskID PROVE Stamp(t) \in Time
BY DEF TypeOK, Stamp, Key

\* Accepts only ever moves a task that has not ended.
LEMMA AcceptsLive ==
  ASSUME NEW t, NEW to, Accepts(t, to) PROVE state[t] \in Live
BY DEF Accepts, CanTransition, AllowedTransitions, Live

LEMMA FinishKeeps ==
  ASSUME IInv, NEW t \in TaskID, NEW to, Finish(t, to) PROVE IInv'
<1>1. /\ to \in Terminal
      /\ state[t] \notin Terminal \cup {"evicted"}
      /\ Stamp(t) \in Time
  BY AcceptsLive, StampType DEF Finish, IInv, Live, Terminal
<1>2. /\ owner' \in [TaskID -> {"self", "peer"}]
      /\ call' \in [Canceller -> CallRecord]
      /\ CallsNameTasks'
  BY DEF Finish, IInv, TypeOK, CallsNameTasks
<1> QED BY <1>1, <1>2, EndKeeps DEF Finish

LEMMA CancelMarkKeeps ==
  ASSUME IInv, NEW c \in Canceller, CancelMark(c) PROVE IInv'
<1> DEFINE t == call[c].task
<1>1. t \in TaskID
  BY DEF CancelMark, IInv, CallsNameTasks
<1>2. call' \in [Canceller -> CallRecord] /\ CallsNameTasks'
  BY DEF CancelMark, IInv, TypeOK, CallRecord, Idle, CallsNameTasks
<1>3. UNCHANGED <<fired, closed, stage, now>> /\ Mark(t)
  BY DEF CancelMark
<1> HIDE DEF t
<1>4. CASE Accepts(t, "cancelled") /\ Settle(t, "cancelled", now) /\ Uncount(t)
           /\ UNCHANGED owner
  <2>1. state[t] \notin Terminal \cup {"evicted"} /\ "cancelled" \in Terminal
    BY <1>4, AcceptsLive DEF Live, Terminal
  <2>2. now \in Time /\ owner' \in [TaskID -> {"self", "peer"}]
    BY <1>4 DEF IInv, TypeOK
  <2> QED BY <1>1, <1>2, <1>3, <1>4, <2>1, <2>2, EndKeeps
<1>5. CASE /\ state[t] = "cancelled"
           /\ finishedAt' = [finishedAt EXCEPT ![t] = now]
           /\ UNCHANGED <<state, owner, done, attached, heap, queued, running>>
  <2>1. now \in Time /\ now # 0
    BY ConstantsAssumption DEF IInv, TypeOK, Time, ConstantsAssumption
  <2>2. TypeOK'
    BY <1>1, <1>2, <1>3, <1>5, <2>1 DEF IInv, TypeOK, Key
  <2>3. CountersAgree' /\ HeapHoldsRetained' /\ HeapWithinWindow' /\ ReleasedWhenOver'
    BY <1>5 DEF IInv, Bookkeeping, CountersAgree, HeapHoldsRetained,
       HeapWithinWindow, ReleasedWhenOver, InState, Retained, Elements
  <2>4. StampedWhenOver'
    BY <1>1, <1>5, <2>1
       DEF IInv, TypeOK, Key, Bookkeeping, StampedWhenOver, Terminal
  <2> QED BY <1>2, <2>2, <2>3, <2>4 DEF IInv, Bookkeeping
<1>6. CASE UNCHANGED records
  <2>1. TypeOK'
    BY <1>2, <1>3, <1>6 DEF IInv, TypeOK, records
  <2> QED BY <1>2, <1>6, <2>1, RecordsKept DEF IInv
<1> QED BY <1>3, <1>4, <1>5, <1>6 DEF Mark

LEMMA RestoreLiveKeeps ==
  ASSUME IInv, NEW t \in TaskID, NEW s, NEW who \in {"self", "peer"},
         RestoreLive(t, s, who)
  PROVE  IInv'
<1> USE DEF IInv, TypeOK
<1>1. /\ s \in Live
      /\ state[t] = "unborn"
      /\ state' = [state EXCEPT ![t] = s]
      /\ owner' = [owner EXCEPT ![t] = who]
      /\ queued' = IF s = "queued" THEN queued + 1 ELSE queued
      /\ running' = IF s = "running" THEN running + 1 ELSE running
      /\ UNCHANGED <<finishedAt, done, attached, fired, heap, closed, stage,
                     now, call>>
  BY DEF RestoreLive
<1>2. TypeOK' /\ CallsNameTasks'
  BY <1>1 DEF Fate, State, CallsNameTasks
<1>3. /\ InState(s)' = InState(s) \cup {t}
      /\ \A r \in Live : r # s => InState(r)' = InState(r)
      /\ Retained' = Retained
  BY <1>1 DEF InState, Retained, Live, Terminal
<1>4. Cardinality(InState(s)') = Cardinality(InState(s)) + 1
  BY <1>1, <1>3, CountAdd DEF Live
<1>5. CountersAgree'
  <2>1. CASE s = "queued"
    BY <1>1, <1>3, <1>4, <2>1 DEF Bookkeeping, CountersAgree, Live
  <2>2. CASE s = "running"
    BY <1>1, <1>3, <1>4, <2>2 DEF Bookkeeping, CountersAgree, Live
  <2> QED BY <1>1, <2>1, <2>2 DEF Live
<1>6. HeapHoldsRetained' /\ HeapWithinWindow'
  BY <1>1, <1>3 DEF Bookkeeping, HeapHoldsRetained, HeapWithinWindow, Elements
<1>7. ReleasedWhenOver' /\ StampedWhenOver'
  BY <1>1 DEF Bookkeeping, ReleasedWhenOver, StampedWhenOver, Live, Terminal
<1> QED BY <1>2, <1>5, <1>6, <1>7 DEF Bookkeeping

LEMMA RestoreTerminalKeeps ==
  ASSUME IInv, NEW t \in TaskID, NEW s, NEW who \in {"self", "peer"},
         NEW at \in {0} \cup Time, RestoreTerminal(t, s, who, at)
  PROVE  IInv'
<1>1. /\ state[t] \notin Terminal \cup {"evicted"}
      /\ s \in Terminal
      /\ (IF at = 0 THEN now ELSE at) \in Time
  BY DEF RestoreTerminal, IInv, TypeOK, Terminal
<1>2. Uncount(t)
  BY DEF RestoreTerminal, Uncount, Count, IInv, TypeOK
<1>3. /\ owner' \in [TaskID -> {"self", "peer"}]
      /\ call' \in [Canceller -> CallRecord]
      /\ CallsNameTasks'
  BY DEF RestoreTerminal, IInv, TypeOK, CallsNameTasks
<1> QED BY <1>1, <1>2, <1>3, EndKeeps DEF RestoreTerminal

-----------------------------------------------------------------------------
\* A store that has just been made, whatever the time.
Fresh ==
  /\ state = [t \in TaskID |-> "unborn"]
  /\ owner = [t \in TaskID |-> "self"]
  /\ finishedAt = [t \in TaskID |-> 0]
  /\ done = {} /\ attached = {} /\ fired = {}
  /\ heap = << >> /\ queued = 0 /\ running = 0
  /\ closed = FALSE /\ stage = "loading"
  /\ now \in Time
  /\ call = [c \in Canceller |-> Idle]

\* Such a store satisfies the invariant, be it the first or one made at a restart.
LEMMA FreshIInv == Fresh => IInv
<1> SUFFICES ASSUME Fresh PROVE IInv
  OBVIOUS
<1>1. heap \in HeapArray /\ Elements(heap) = {} /\ Len(heap) = 0
  <2>1. heap \in [1..0 -> TaskID] /\ DOMAIN heap = 1..0 /\ Len(heap) = 0
    BY DEF Fresh
  <2>2. 0 \in 0..(MaxRetained + 1)
    BY ConstantsAssumption DEF ConstantsAssumption
  <2>3. heap \in UNION {[1..n -> TaskID] : n \in 0..(MaxRetained + 1)}
    BY <2>1, <2>2
  <2>4. \A i, j \in DOMAIN heap : heap[i] = heap[j] => i = j
    BY <2>1
  <2> QED BY <2>1, <2>3, <2>4 DEF HeapArray, Elements
<1>2. TypeOK /\ CallsNameTasks
  <2>1. now \in Time /\ finishedAt \in Key
    BY ConstantsAssumption DEF Fresh, Key, Time, ConstantsAssumption
  <2>2. state \in [TaskID -> Fate] /\ owner \in [TaskID -> {"self", "peer"}]
    BY DEF Fresh, Fate
  <2>3. call \in [Canceller -> CallRecord] /\ CallsNameTasks
    BY DEF Fresh, CallRecord, Idle, CallsNameTasks
  <2>4. heap \in HeapArray
    BY <1>1
  <2>5. /\ done \subseteq TaskID /\ attached \subseteq TaskID
        /\ fired \subseteq TaskID
        /\ queued \in Int /\ running \in Int
        /\ stage \in {"loading", "settling", "serving"}
    BY DEF Fresh
  <2>6. closed \in BOOLEAN
    BY DEF Fresh
  <2> QED BY <2>1, <2>2, <2>3, <2>4, <2>5, <2>6 DEF TypeOK
<1>3. InState("queued") = {} /\ InState("running") = {} /\ Retained = {}
  BY DEF Fresh, InState, Retained, Terminal
<1>4. CountersAgree
  BY <1>3, FS_EmptySet DEF Fresh, CountersAgree
<1>5. HeapHoldsRetained /\ HeapWithinWindow
  BY <1>1, <1>3, ConstantsAssumption
     DEF HeapHoldsRetained, HeapWithinWindow, ConstantsAssumption
<1>6. ReleasedWhenOver /\ StampedWhenOver
  BY DEF Fresh, ReleasedWhenOver, StampedWhenOver, Terminal
<1> QED BY <1>2, <1>4, <1>5, <1>6 DEF IInv, Bookkeeping

\* The first state.
LEMMA InitIInv == Init => IInv
<1>1. 1 \in Time
  BY ConstantsAssumption DEF ConstantsAssumption, Time
<1> QED BY <1>1, FreshIInv DEF Init, Fresh

LEMMA NextIInv == IInv /\ [Next]_vars => IInv'
<1> SUFFICES ASSUME IInv, [Next]_vars PROVE IInv'
  OBVIOUS
<1>1. CASE UNCHANGED vars
  BY <1>1, RecordsKept DEF vars, records, IInv, TypeOK, CallsNameTasks
<1>2. CASE Tick
  <2>1. TypeOK' /\ CallsNameTasks'
    BY <1>2 DEF Tick, records, IInv, TypeOK, CallsNameTasks
  <2> QED BY <1>2, <2>1, RecordsKept DEF Tick, IInv
<1>3. CASE StartUp
  <2>1. CASE LoadManifest
    BY <1>3, <2>1, RestoreLiveKeeps, RestoreTerminalKeeps, ConstantsAssumption
       DEF LoadManifest, ConstantsAssumption
  <2>2. CASE Settling \/ Serve
    <3>1. TypeOK' /\ CallsNameTasks' /\ UNCHANGED records
      BY <2>2 DEF Settling, Serve, records, IInv, TypeOK, CallsNameTasks
    <3> QED BY <3>1, RecordsKept DEF IInv
  <2>3. CASE SettleOwn
    BY <2>3, FinishKeeps DEF SettleOwn
  <2> QED BY <1>3, <2>1, <2>2, <2>3 DEF StartUp
<1>4. CASE Close
  <2>1. TypeOK' /\ CallsNameTasks'
    BY <1>4 DEF Close, records, IInv, TypeOK, CallsNameTasks
  <2> QED BY <1>4, <2>1, RecordsKept DEF Close, IInv
<1>5. ASSUME NEW t \in TaskID, Submit(t) PROVE IInv'
  BY <1>5, SubmitKeeps
<1>6. ASSUME NEW t \in TaskID, StartRunning(t) PROVE IInv'
  BY <1>6, StartRunningKeeps
<1>7. ASSUME NEW t \in TaskID, RegisterCancel(t) PROVE IInv'
  BY <1>7, RegisterCancelKeeps
<1>8. ASSUME NEW t \in TaskID, NEW to \in Terminal, Finish(t, to) PROVE IInv'
  BY <1>8, FinishKeeps
<1>9. ASSUME NEW t \in TaskID, NEW c \in Canceller, CancelRead(c, t) PROVE IInv'
  <2>1. TypeOK' /\ CallsNameTasks'
    BY <1>9 DEF CancelRead, records, IInv, TypeOK, CallRecord, CallsNameTasks
  <2> QED BY <1>9, <2>1, RecordsKept DEF CancelRead, IInv
<1>10. ASSUME NEW c \in Canceller, CancelFire(c) PROVE IInv'
  <2>1. call[c].task \in TaskID /\ call[c] \in CallRecord
    BY <1>10 DEF CancelFire, IInv, TypeOK, CallsNameTasks
  <2>2. TypeOK'
    BY <1>10, <2>1 DEF CancelFire, records, IInv, TypeOK, CallRecord, Idle
  <2>3. CallsNameTasks'
    BY <1>10, <2>1 DEF CancelFire, IInv, TypeOK, CallRecord, Idle, CallsNameTasks
  <2> QED BY <1>10, <2>2, <2>3, RecordsKept DEF CancelFire, IInv
<1>11. ASSUME NEW c \in Canceller, CancelMark(c) PROVE IInv'
  BY <1>11, CancelMarkKeeps
<1> QED BY <1>1, <1>2, <1>3, <1>4, <1>5, <1>6, <1>7, <1>8, <1>9, <1>10, <1>11
        DEF Next

\* In every state the variables have their types.
THEOREM TypeCorrect == Spec => []TypeOK
<1>1. IInv => TypeOK
  BY DEF IInv
<1> QED BY InitIInv, NextIInv, <1>1, PTL DEF Spec

\* In every state counters, heap, done channels, cancel funcs and stamps agree
\* with the task records, for any number of tasks, callers and any bounds.
THEOREM BookkeepingAlways == Spec => []Bookkeeping
<1>1. IInv => Bookkeeping
  BY DEF IInv
<1> QED BY InitIInv, NextIInv, <1>1, PTL DEF Spec

-----------------------------------------------------------------------------
\* MemoryStore implements the contract of the Store interface: every step of
\* TaskStore is a step of StoreContract or leaves its variables alone.

\* What Settle leaves of a record that stays.
LEMMA SettleLeaves ==
  ASSUME TypeOK, NEW t \in TaskID, NEW to, NEW at, Settle(t, to, at)
  PROVE  \A u \in TaskID : state'[u] # "evicted" =>
           IF u = t THEN state'[u] = to /\ finishedAt'[u] = at
           ELSE state'[u] = state[u] /\ finishedAt'[u] = finishedAt[u]
<1> DEFINE keys    == [finishedAt EXCEPT ![t] = at]
           dropped == IF Overfull(Pushed(t, at)) THEN {Pushed(t, at)[1]}
                      ELSE {}
<1>1. /\ state' = [u \in TaskID |-> IF u \in dropped THEN "evicted"
                                    ELSE IF u = t THEN to ELSE state[u]]
      /\ finishedAt' = [u \in TaskID |-> IF u \in dropped THEN 0 ELSE keys[u]]
  BY Zenon DEF Settle
<1>2. \A u \in TaskID : keys[u] = IF u = t THEN at ELSE finishedAt[u]
  BY DEF TypeOK, Key
<1> HIDE DEF keys, dropped
<1> QED BY <1>1, <1>2

\* What Settle does to the states, read off the bookkeeping it leaves: others
\* stay, or are dropped after they had ended.
LEMMA SettleMoves ==
  ASSUME IInv, NEW t \in TaskID, state[t] \notin Terminal \cup {"evicted"},
         NEW to \in Terminal, NEW at \in Time, Settle(t, to, at)
  PROVE  /\ state'[t] \in {to, "evicted"}
         /\ \A u \in TaskID \ {t} : \/ state'[u] = state[u]
                                    \/ state[u] \in Terminal /\ state'[u] = "evicted"
<1>1. PICK dropped : state' = [u \in TaskID |-> IF u \in dropped THEN "evicted"
                                                ELSE IF u = t THEN to ELSE state[u]]
  BY DEF Settle
<1>2. done' = done \cup {t}
  BY DEF Settle
<1>3. ReleasedWhenOver' /\ \A s \in Live : InState(s)' = InState(s) \ {t}
  BY SettleEnds
<1>4. ASSUME NEW u \in TaskID \ {t}, u \in dropped
      PROVE  state[u] \in Terminal \cup {"evicted"}
  <2>1. u \in done'
    BY <1>1, <1>3, <1>4 DEF ReleasedWhenOver
  <2> QED BY <1>2, <2>1, <1>4 DEF IInv, Bookkeeping, ReleasedWhenOver
<1> QED BY <1>1, <1>4

\* The heap has no room for more ended records than the window.
LEMMA WithinWindow == ASSUME IInv PROVE Cardinality(Retained) <= MaxRetained
<1>1. PICK n \in 0..(MaxRetained + 1) : heap \in [1..n -> TaskID]
  BY DEF IInv, TypeOK, HeapArray
<1>2. n \in Nat /\ Len(heap) = n /\ DOMAIN heap = 1..n /\ n <= MaxRetained
  BY <1>1, ConstantsAssumption
     DEF ConstantsAssumption, IInv, Bookkeeping, HeapWithinWindow
<1>3. Retained = {heap[i] : i \in 1..n}
  BY <1>2 DEF IInv, Bookkeeping, HeapHoldsRetained, Elements
<1>4. IsFiniteSet(1..n) /\ Cardinality(1..n) = n
  BY <1>2, FS_Interval
<1>5. heap \in Surjection(1..n, Retained)
  BY <1>1, <1>3 DEF Surjection
<1>6. Cardinality(Retained) <= n
  BY <1>4, <1>5, FS_Surjection
<1>7. Cardinality(Retained) \in Nat
  BY <1>4, <1>5, FS_Surjection, FS_CardinalityType
<1> QED BY <1>2, <1>6, <1>7, ConstantsAssumption DEF ConstantsAssumption

-----------------------------------------------------------------------------
\* The contract's lifecycle is the store's.
LEMMA SameLifecycle ==
  /\ Contract!Live = Live /\ Contract!Terminal = Terminal /\ Contract!Fate = Fate
  /\ \A from, to : Contract!CanTransition(from, to) <=> CanTransition(from, to)
BY DEF Live, Terminal, State, Fate, AllowedTransitions, CanTransition, Contract!Live,
       Contract!Terminal, Contract!State, Contract!Fate, Contract!AllowedTransitions,
       Contract!CanTransition

LEMMA SameCardinality ==
  \A S : Contract!Cardinality(S) = Cardinality(S) /\ Contract!IsFiniteSet(S) = IsFiniteSet(S)
BY DEF Cardinality, IsFiniteSet, Contract!Cardinality, Contract!IsFiniteSet

\* What every state satisfies, in the words of the contract.
Promises == done = Contract!Ended /\ Cardinality(Contract!Retained) <= MaxRetained

LEMMA PromisesKept == IInv => Promises
BY WithinWindow, SameLifecycle
   DEF Promises, IInv, Bookkeeping, ReleasedWhenOver, Contract!Ended, Contract!Retained, Retained

LEMMA PromisesStay == IInv' => Promises'
BY PromisesKept, PTL

Abstract == [Contract!Next]_(Contract!vars)

LEMMA Stutters ==
  ASSUME UNCHANGED <<state, done>>, (stage = "serving") = (stage' = "serving")
  PROVE  Abstract
BY DEF Abstract, Contract!vars

LEMMA AdvancesByEnd ==
  ASSUME IInv, IInv', NEW t \in TaskID, NEW to \in Terminal, NEW at \in Time,
         state[t] \in Live, CanTransition(state[t], to),
         Settle(t, to, at), UNCHANGED stage
  PROVE  Abstract
<1>1. done' = Contract!Ended' /\ Cardinality(Contract!Retained') <= MaxRetained
  BY PromisesStay DEF Promises
<1>2. /\ state'[t] \in {to, "evicted"}
      /\ \A u \in TaskID \ {t} : \/ state'[u] = state[u]
                                 \/ state[u] \in Terminal /\ state'[u] = "evicted"
  BY SettleMoves DEF Live, Terminal
<1>3. \A u \in TaskID : state'[u] = state[u] \/ Contract!Moves(state[u], state'[u])
  BY <1>2, SameLifecycle DEF Contract!Moves, Live
<1> QED BY <1>1, <1>3, SameCardinality DEF Abstract, Contract!Next, Contract!Advance

LEMMA FinishAdvances ==
  ASSUME IInv, IInv', NEW t \in TaskID, NEW to, Finish(t, to) PROVE Abstract
<1>1. to \in Terminal /\ state[t] \in Live /\ CanTransition(state[t], to)
  BY AcceptsLive DEF Finish, Accepts
<1>2. Stamp(t) \in Time
  BY StampType DEF IInv
<1> QED BY <1>1, <1>2, AdvancesByEnd DEF Finish

LEMMA SubmitAdmits ==
  ASSUME IInv, NEW t \in TaskID, Submit(t) PROVE Abstract
<1>1. Cardinality(Contract!InState("queued")) < MaxQueued
  BY DEF Submit, Admissible, IInv, Bookkeeping, CountersAgree, InState, Contract!InState
<1> QED BY <1>1, SameCardinality DEF Submit, Abstract, Contract!Next, Contract!Admit

LEMMA StartAdvances ==
  ASSUME IInv, IInv', NEW t \in TaskID, StartRunning(t) PROVE Abstract
<1>1. done' = Contract!Ended' /\ Cardinality(Contract!Retained') <= MaxRetained
  BY PromisesStay DEF Promises
<1>2. \A u \in TaskID : state'[u] = state[u] \/ Contract!Moves(state[u], state'[u])
  BY SameLifecycle DEF StartRunning, Accepts, Contract!Moves, IInv, TypeOK
<1>3. UNCHANGED stage
  BY DEF StartRunning
<1> QED BY <1>1, <1>2, <1>3, SameCardinality DEF Abstract, Contract!Next, Contract!Advance

LEMMA ManifestLoads ==
  ASSUME IInv, IInv', NEW t \in TaskID, NEW s, NEW who \in {"self", "peer"},
         NEW at \in {0} \cup Time, RestoreLive(t, s, who) \/ RestoreTerminal(t, s, who, at)
  PROVE  Abstract
<1>1. done' = Contract!Ended' /\ Cardinality(Contract!Retained') <= MaxRetained
  BY PromisesStay DEF Promises
<1>2. stage = "loading" /\ stage' = stage /\ state[t] = "unborn" /\ state'[t] \in Fate
  BY DEF RestoreLive, RestoreTerminal, IInv, TypeOK
<1>3. ASSUME NEW u \in TaskID \ {t}
      PROVE  state'[u] = state[u] \/ (state[u] \in Terminal /\ state'[u] = "evicted")
  <2>1. CASE RestoreLive(t, s, who)
    BY <2>1, <1>3 DEF RestoreLive, IInv, TypeOK
  <2>2. CASE RestoreTerminal(t, s, who, at)
    <3>1. (IF at = 0 THEN now ELSE at) \in Time
      BY DEF IInv, TypeOK
    <3>2. s \in Terminal /\ state[t] \notin Terminal \cup {"evicted"}
      BY <2>2, <1>2 DEF RestoreTerminal, Terminal
    <3> QED BY <2>2, <1>3, <3>1, <3>2, SettleMoves DEF RestoreTerminal
  <2> QED BY <2>1, <2>2
<1>4. Contract!Load
  BY <1>1, <1>2, <1>3, SameLifecycle, SameCardinality DEF Contract!Load
<1> QED BY <1>4 DEF Abstract, Contract!Next

LEMMA MarkAdvances ==
  ASSUME IInv, IInv', NEW c \in Canceller, CancelMark(c) PROVE Abstract
<1> DEFINE t == call[c].task
<1>1. t \in TaskID /\ UNCHANGED stage /\ Mark(t)
  BY DEF CancelMark, IInv, CallsNameTasks
<1> HIDE DEF t
<1>2. CASE Accepts(t, "cancelled") /\ Settle(t, "cancelled", now)
  <2>1. state[t] \in Live /\ CanTransition(state[t], "cancelled") /\ "cancelled" \in Terminal
    BY <1>2, AcceptsLive DEF Accepts, Terminal
  <2>2. now \in Time
    BY DEF IInv, TypeOK
  <2> QED BY <1>1, <1>2, <2>1, <2>2, AdvancesByEnd
<1>3. CASE UNCHANGED <<state, done>>
  BY <1>1, <1>3, Stutters
<1> QED BY <1>1, <1>2, <1>3 DEF Mark, records

LEMMA StepImplements == IInv /\ [Next]_vars => Abstract
<1> SUFFICES ASSUME IInv, [Next]_vars PROVE Abstract
  OBVIOUS
<1>1. IInv'
  BY NextIInv
<1>2. CASE UNCHANGED vars \/ Tick \/ Close \/ Settling
  BY <1>2, Stutters DEF vars, records, Tick, Close, Settling
<1>3. CASE Serve
  BY <1>3 DEF Serve, records, Abstract, Contract!Next, Contract!Serve
<1>4. CASE LoadManifest
  BY <1>1, <1>4, ManifestLoads, ConstantsAssumption DEF LoadManifest, ConstantsAssumption
<1>5. CASE SettleOwn
  BY <1>1, <1>5, FinishAdvances DEF SettleOwn
<1>6. ASSUME NEW t \in TaskID, Submit(t) \/ StartRunning(t) PROVE Abstract
  BY <1>1, <1>6, SubmitAdmits, StartAdvances
<1>7. ASSUME NEW t \in TaskID, RegisterCancel(t) \/ (\E c \in Canceller : CancelRead(c, t))
      PROVE  Abstract
  BY <1>7, Stutters DEF RegisterCancel, CancelRead, records
<1>8. ASSUME NEW t \in TaskID, NEW to, Finish(t, to) PROVE Abstract
  BY <1>1, <1>8, FinishAdvances
<1>9. ASSUME NEW c \in Canceller, CancelFire(c) \/ CancelMark(c) PROVE Abstract
  BY <1>1, <1>9, MarkAdvances, Stutters DEF CancelFire, records
<1> QED BY <1>2, <1>3, <1>4, <1>5, <1>6, <1>7, <1>8, <1>9 DEF Next, StartUp

LEMMA InitImplements == Init => Contract!Init
BY DEF Init, Contract!Init

\* MemoryStore keeps the promises of the Store interface (store.go): tasks are
\* admitted up to the bound, move along the lifecycle, are forgotten only once
\* over, and a Wait is released exactly when its task has ended.
THEOREM StoreImplements == Spec => Implements
<1>1. Init => IInv
  BY InitIInv
<1>2. IInv /\ [Next]_vars => IInv'
  BY NextIInv
<1>3. IInv /\ [Next]_vars => [Contract!Next]_(Contract!vars)
  BY StepImplements DEF Abstract
<1> QED BY <1>1, <1>2, <1>3, InitImplements, PTL DEF Spec, Implements, Contract!Spec

-----------------------------------------------------------------------------
\* Eviction takes the oldest, and what has ended stays as it is.

\* A finite set of numbers has a least one.
LEMMA LeastElement ==
  ASSUME NEW S, S \subseteq Int, IsFiniteSet(S), S # {}
  PROVE  \E m \in S : \A k \in S : m <= k
<1> DEFINE Below(m) == {k \in S : k < m}
           T == {Below(m) : m \in S}
<1>1. IsWellFoundedOn(StrictSubsetOrdering(S), FiniteSubsetsOf(S))
  BY FS_StrictSubsetOrderingWellFounded
<1>2. T \subseteq FiniteSubsetsOf(S)
  <2>1. FiniteSubsetsOf(S) = SUBSET S
    BY FS_FiniteSubsetsOfFinite
  <2> QED BY <2>1
<1>3. T # {}
  OBVIOUS
<1>4. \A k \in S : Below(k) \in T
  OBVIOUS
<1> HIDE DEF T
<1>5. PICK B \in T : \A C \in T : ~ (<<C, B>> \in StrictSubsetOrdering(S))
  BY <1>1, <1>2, <1>3, WFMin
<1>6. PICK m \in S : B = Below(m)
  BY <1>5 DEF T
<1>7. ASSUME NEW k \in S, k < m PROVE FALSE
  <2>1. k \in Int /\ m \in Int /\ \A j \in S : j \in Int
    OBVIOUS
  <2>2. k \in Below(m) /\ k \notin Below(k)
    BY <1>7, <2>1
  <2>3. \A j \in S : j < k => j < m
    BY <1>7, <2>1
  <2>4. Below(k) \subseteq Below(m)
    BY <2>3
  <2>5. <<Below(k), Below(m)>> \in StrictSubsetOrdering(S)
    BY <2>2, <2>4 DEF StrictSubsetOrdering
  <2> QED BY <1>4, <1>5, <1>6, <2>5
<1> QED BY <1>7

\* In a heap nothing is before the root: an element that was, at the least
\* position, would be before its parent.
LEMMA RootLeast ==
  ASSUME NEW a \in HeapArray, NEW k \in Key, HeapInOrder(a, k)
  PROVE  \A t \in Elements(a) : k[a[1]] <= k[t]
<1>1. PICK n \in 0..(MaxRetained + 1) : a \in [1..n -> TaskID]
  BY DEF HeapArray
<1>2. n \in Nat /\ Len(a) = n /\ DOMAIN a = 1..n
  BY <1>1, ConstantsAssumption DEF ConstantsAssumption
<1>3. \A i \in 1..n : a[i] \in TaskID /\ k[a[i]] \in Int
  BY <1>1, ConstantsAssumption DEF Key, Time, ConstantsAssumption
<1> DEFINE Before == {i \in 1..n : k[a[i]] < k[a[1]]}
<1>4. Before = {}
  <2> SUFFICES ASSUME Before # {} PROVE FALSE
    OBVIOUS
  <2>1. IsFiniteSet(Before) /\ Before \subseteq Int
    <3>1. IsFiniteSet(1..n) /\ Before \subseteq 1..n
      BY <1>2, FS_Interval
    <3>2. IsFiniteSet(Before)
      BY <3>1, FS_Subset
    <3> QED BY <3>1, <3>2
  <2>2. PICK m \in Before : \A i \in Before : m <= i
    <3> HIDE DEF Before
    <3> QED BY <2>1, LeastElement
  <2>3. m \in 2..n /\ k[a[m]] < k[a[1]]
    <3>1. 1 \notin Before
      BY <1>2, <1>3
    <3>2. m # 1
      BY <3>1
    <3> QED BY <3>2, <1>2
  <2>4. m \div 2 \in 1..n /\ m \div 2 < m
    BY <2>3, <1>2
  <2>5. m \div 2 \notin Before
    BY <2>2, <2>4, <1>2
  <2>6. k[a[m \div 2]] <= k[a[m]]
    BY <2>3, <1>2 DEF HeapInOrder
  <2>7. k[a[1]] <= k[a[m \div 2]]
    BY <2>4, <2>5, <1>2, <1>3
  <2>8. k[a[m \div 2]] \in Int /\ k[a[m]] \in Int /\ k[a[1]] \in Int
    BY <2>3, <2>4, <1>2, <1>3
  <2> QED BY <2>3, <2>6, <2>7, <2>8
<1>5. \A i \in 1..n : ~(k[a[i]] < k[a[1]])
  BY <1>4
<1>6. \A i \in 1..n : k[a[1]] <= k[a[i]]
  BY <1>2, <1>3, <1>5
<1> QED BY <1>2, <1>6 DEF Elements

\* The order depends on the stamps of the elements only.
LEMMA OrderOfElements ==
  ASSUME NEW a \in HeapArray, NEW k, NEW l, \A t \in Elements(a) : k[t] = l[t],
         HeapInOrder(a, k)
  PROVE  HeapInOrder(a, l)
<1>1. PICK n \in 0..(MaxRetained + 1) : a \in [1..n -> TaskID]
  BY DEF HeapArray
<1>2. n \in Nat /\ Len(a) = n /\ DOMAIN a = 1..n
  BY <1>1, ConstantsAssumption DEF ConstantsAssumption
<1>3. \A i \in 2..n : i \div 2 \in 1..n /\ i \in 1..n
  BY <1>2
<1>4. \A i \in 1..n : k[a[i]] = l[a[i]]
  BY <1>2 DEF Elements
<1> QED BY <1>2, <1>3, <1>4 DEF HeapInOrder

\* Ending a task keeps the order, and evicts nothing that is after what stays.
LEMMA SettleInOrder ==
  ASSUME IInv, NEW t \in TaskID, state[t] \notin Terminal \cup {"evicted"},
         NEW to \in Terminal, NEW at \in Time, Settle(t, to, at),
         HeapInOrder(heap, finishedAt)
  PROVE  /\ HeapInOrder(heap', finishedAt')
         /\ \A v \in TaskID : state[v] # "evicted" /\ state'[v] = "evicted" =>
              \A u \in TaskID : state'[u] \in Terminal =>
                (IF v = t THEN at ELSE finishedAt[v]) <= finishedAt'[u]
<1> DEFINE keys    == [finishedAt EXCEPT ![t] = at]
           pushed  == Pushed(t, at)
           full    == Len(pushed) > MaxRetained
           dropped == IF full THEN {pushed[1]} ELSE {}
<1>1. /\ keys \in Key /\ t \notin Elements(heap)
      /\ heap \in HeapArray /\ Len(heap) <= MaxRetained /\ Len(heap) \in Nat
      /\ pushed \in HeapArray
      /\ Elements(pushed) = Elements(heap) \cup {t}
      /\ Len(pushed) = Len(heap) + 1
      /\ pushed[1] \in Elements(pushed)
  BY EndHeap
<1>2. Elements(HeapPop(pushed, keys)) = Elements(pushed) \ {pushed[1]}
  BY EndHeap
<1>3. HeapPop(pushed, keys) \in HeapArray
  BY EndHeap
<1>4. /\ heap' = IF full THEN HeapPop(pushed, keys) ELSE pushed
      /\ state' = [u \in TaskID |-> IF u \in dropped THEN "evicted"
                                    ELSE IF u = t THEN to ELSE state[u]]
      /\ finishedAt' = [u \in TaskID |-> IF u \in dropped THEN 0 ELSE keys[u]]
  BY DEF Settle, Overfull
<1>5. pushed = HeapPush(heap, t, keys)
  BY DEF Pushed
<1>6. \A u \in TaskID : keys[u] = IF u = t THEN at ELSE finishedAt[u]
  BY DEF IInv, TypeOK, Key
<1>7. Elements(heap) \subseteq TaskID /\ Elements(heap) = Retained
  BY DEF IInv, Bookkeeping, HeapHoldsRetained, Retained
<1> HIDE DEF keys, pushed
<1>8. HeapInOrder(heap, keys)
  <2>1. \A u \in Elements(heap) : finishedAt[u] = keys[u]
    BY <1>1, <1>6, <1>7
  <2> QED BY <1>1, <2>1, OrderOfElements
<1>9. HeapInOrder(pushed, keys)
  BY <1>1, <1>5, <1>8, HeapOrderAssumption DEF HeapOrderAssumption
<1>10. HeapInOrder(heap', keys) /\ heap' \in HeapArray
  <2>1. Len(pushed) > 0
    BY <1>1
  <2>2. HeapInOrder(HeapPop(pushed, keys), keys)
    BY <1>1, <1>9, <2>1, HeapOrderAssumption DEF HeapOrderAssumption
  <2> QED BY <1>1, <1>3, <1>4, <1>9, <2>2
<1>11. Elements(heap') = Elements(pushed) \ dropped
  BY <1>2, <1>4
<1>12. HeapInOrder(heap', finishedAt')
  <2>1. \A u \in Elements(heap') : keys[u] = finishedAt'[u]
    BY <1>1, <1>4, <1>7, <1>11
  <2> QED BY <1>10, <2>1, OrderOfElements
<1>13. ASSUME NEW v \in TaskID, state[v] # "evicted", state'[v] = "evicted",
              NEW u \in TaskID, state'[u] \in Terminal
       PROVE  (IF v = t THEN at ELSE finishedAt[v]) <= finishedAt'[u]
  <2>1. v \in dropped
    BY <1>4, <1>13 DEF Terminal
  <2>2. v = pushed[1]
    BY <2>1
  <2>3. u \in Elements(pushed) /\ finishedAt'[u] = keys[u]
    BY <1>1, <1>4, <1>7, <1>13 DEF Retained, Terminal
  <2>4. keys[pushed[1]] <= keys[u]
    BY <1>1, <1>9, <2>3, RootLeast
  <2> QED BY <1>6, <2>2, <2>3, <2>4
<1> QED BY <1>12, <1>13

\* No two cancels of one task are under way: each has read the record before the
\* other began, or after it was done.
CancelsApart ==
  \A c, d \in Canceller :
    c # d /\ call[c].pc # "idle" /\ call[d].pc # "idle" => call[c].task # call[d].task

\* A cancel that is under way is about a task no other has cancelled meanwhile.
CallsFresh ==
  \A c \in Canceller :
    /\ call[c].pc # "idle" => stage = "serving"
    /\ call[c].pc # "idle" /\ ~call[c].over => state[call[c].task] # "cancelled"
    /\ call[c].pc = "mark" => ~call[c].over

OInv == IInv /\ CallsFresh /\ HeapInOrder(heap, finishedAt)

\* What the action properties say of a step.
Oldest ==
  \A t \in TaskID :
    Present(t) /\ state'[t] = "evicted" =>
      \A u \in TaskID : state'[u] \in Terminal => Stamp(t) <= finishedAt'[u]

Unchanged ==
  \A t \in TaskID :
    state[t] \in Terminal =>
      state'[t] = "evicted" \/ (/\ state'[t] = state[t]
                                /\ finishedAt'[t] = finishedAt[t])

Ordered == HeapInOrder(heap', finishedAt') /\ Oldest /\ Unchanged

\* A step that ends no task and stamps none.
LEMMA OrderedBefore ==
  ASSUME OInv, UNCHANGED <<heap, finishedAt>>,
         \A t \in TaskID : state'[t] = state[t] \/ (state[t] \notin Terminal /\ state'[t] \in Live)
  PROVE  Ordered
BY DEF OInv, Ordered, Oldest, Unchanged, Present, State, Live, Terminal

\* A task that ends, at a time of its own or now.
LEMMA OrderedEnd ==
  ASSUME OInv, NEW t \in TaskID, NEW to \in Terminal, NEW at \in Time,
         state[t] = "unborn" \/ (state[t] \in Live /\ at = now), Settle(t, to, at)
  PROVE  Ordered
<1>1. IInv /\ TypeOK /\ HeapInOrder(heap, finishedAt) /\ state[t] \notin Terminal \cup {"evicted"}
  BY DEF OInv, IInv, Live, Terminal
<1>2. HeapInOrder(heap', finishedAt')
  BY <1>1, SettleInOrder
<1>3. \A v \in TaskID : state[v] # "evicted" /\ state'[v] = "evicted" =>
        \A u \in TaskID : state'[u] \in Terminal =>
          (IF v = t THEN at ELSE finishedAt[v]) <= finishedAt'[u]
  BY <1>1, SettleInOrder
<1>4. \A u \in TaskID : state'[u] # "evicted" =>
        IF u = t THEN state'[u] = to /\ finishedAt'[u] = at
        ELSE state'[u] = state[u] /\ finishedAt'[u] = finishedAt[u]
  BY <1>1, SettleLeaves
<1>5. /\ state'[t] \in {to, "evicted"}
      /\ \A u \in TaskID \ {t} : \/ state'[u] = state[u]
                                 \/ state[u] \in Terminal /\ state'[u] = "evicted"
  BY <1>1, SettleMoves
<1>6. \A u \in TaskID : state[u] \in Terminal <=> finishedAt[u] # 0
  BY <1>1 DEF IInv, Bookkeeping, StampedWhenOver
<1>7. ASSUME NEW v \in TaskID, Present(v), state'[v] = "evicted"
      PROVE  state[v] # "evicted" /\ Stamp(v) = IF v = t THEN at ELSE finishedAt[v]
  <2>1. state[v] # "evicted" /\ state[v] # "unborn"
    BY <1>7 DEF Present, State, Live, Terminal
  <2>2. CASE v = t
    <3>1. state[v] \in Live /\ at = now
      BY <2>1, <2>2
    <3> QED BY <1>1, <1>6, <2>1, <2>2, <3>1 DEF Stamp
  <2>3. CASE v # t
    BY <1>5, <1>6, <1>7, <2>1, <2>3 DEF Stamp
  <2> QED BY <2>2, <2>3
<1>8. Oldest
  BY <1>3, <1>7 DEF Oldest
<1>9. Unchanged
  BY <1>1, <1>4 DEF Unchanged
<1> QED BY <1>2, <1>8, <1>9 DEF Ordered

\* Finish stamps with the time it is.
LEMMA OrderedFinish ==
  ASSUME OInv, NEW t \in TaskID, NEW to, Finish(t, to) PROVE Ordered
<1>1. to \in Terminal /\ state[t] \in Live /\ Settle(t, to, Stamp(t))
  BY AcceptsLive DEF Finish
<1>2. Stamp(t) = now /\ now \in Time
  BY <1>1 DEF OInv, IInv, TypeOK, Bookkeeping, StampedWhenOver, Stamp, Live, Terminal
<1> QED BY <1>1, <1>2, OrderedEnd

\* So does Cancel, whose task no other cancel has ended.
LEMMA OrderedMark ==
  ASSUME OInv, NEW c \in Canceller, CancelMark(c) PROVE Ordered
<1>1. PICK t \in TaskID : t = call[c].task
  BY DEF CancelMark, OInv, IInv, CallsNameTasks
<1>2. Mark(t) /\ state[t] # "cancelled"
  BY <1>1 DEF CancelMark, OInv, CallsFresh
<1>3. CASE Accepts(t, "cancelled") /\ Settle(t, "cancelled", now)
  <2>1. state[t] \in Live /\ "cancelled" \in Terminal /\ now \in Time
    BY <1>3, AcceptsLive DEF Terminal, OInv, IInv, TypeOK
  <2> QED BY <1>3, <2>1, OrderedEnd
<1>4. CASE UNCHANGED records
  BY <1>4, OrderedBefore DEF records
<1> QED BY <1>2, <1>3, <1>4 DEF Mark

\* Every step keeps the order, evicts the oldest and leaves what has ended alone.
LEMMA NextOrdered == OInv /\ [Next]_vars => Ordered
<1> SUFFICES ASSUME OInv, [Next]_vars PROVE Ordered
  OBVIOUS
<1>0. state \in [TaskID -> Fate]
  BY DEF OInv, IInv, TypeOK
<1>1. CASE UNCHANGED vars \/ Tick \/ Settling \/ Serve \/ Close
  BY <1>1, OrderedBefore DEF vars, records, Tick, Settling, Serve, Close
<1>2. ASSUME NEW t \in TaskID, Submit(t) \/ StartRunning(t) \/ RegisterCancel(t) PROVE Ordered
  <2>1. UNCHANGED <<heap, finishedAt>>
    BY <1>2 DEF Submit, StartRunning, RegisterCancel
  <2>2. CASE Submit(t)
    BY <1>0, <2>1, <2>2, OrderedBefore DEF Submit, Live, Terminal
  <2>3. CASE StartRunning(t)
    <3>1. state[t] \in Live /\ state' = [state EXCEPT ![t] = "running"]
      BY <2>3, AcceptsLive DEF StartRunning
    <3> QED BY <1>0, <2>1, <3>1, OrderedBefore DEF Live, Terminal
  <2>4. CASE RegisterCancel(t)
    BY <2>1, <2>4, OrderedBefore DEF RegisterCancel
  <2> QED BY <1>2, <2>2, <2>3, <2>4
<1>3. CASE LoadManifest
  <2>1. PICK t \in Loadable, who \in {"self", "peer"} :
          \/ \E s \in Live : RestoreLive(t, s, who)
          \/ \E s \in Terminal, at \in {0} \cup Time : RestoreTerminal(t, s, who, at)
    BY <1>3 DEF LoadManifest
  <2>2. t \in TaskID
    BY ConstantsAssumption DEF ConstantsAssumption
  <2>3. ASSUME NEW s \in Live, RestoreLive(t, s, who) PROVE Ordered
    BY <1>0, <2>2, <2>3, OrderedBefore DEF RestoreLive, Terminal
  <2>4. ASSUME NEW s \in Terminal, NEW at \in {0} \cup Time, RestoreTerminal(t, s, who, at)
        PROVE  Ordered
    <3>1. PICK time : time = IF at = 0 THEN now ELSE at
      OBVIOUS
    <3>2. time \in Time /\ state[t] = "unborn" /\ Settle(t, s, time)
      BY <2>4, <3>1 DEF RestoreTerminal, OInv, IInv, TypeOK
    <3> QED BY <2>2, <3>2, OrderedEnd
  <2> QED BY <2>1, <2>3, <2>4
<1>4. CASE SettleOwn
  BY <1>4, OrderedFinish DEF SettleOwn
<1>5. ASSUME NEW t \in TaskID, NEW to \in Terminal, Finish(t, to) PROVE Ordered
  BY <1>5, OrderedFinish
<1>6. ASSUME NEW t \in TaskID, NEW c \in Canceller, CancelRead(c, t) PROVE Ordered
  BY <1>6, OrderedBefore DEF CancelRead, records
<1>7. ASSUME NEW c \in Canceller, CancelFire(c) PROVE Ordered
  BY <1>7, OrderedBefore DEF CancelFire, records
<1>8. ASSUME NEW c \in Canceller, CancelMark(c) PROVE Ordered
  BY <1>8, OrderedMark
<1> QED BY <1>1, <1>2, <1>3, <1>4, <1>5, <1>6, <1>7, <1>8 DEF Next, StartUp

\* Who is in a call stays in it, and nobody cancels its task.
LEMMA FreshKept ==
  ASSUME OInv, call' = call, stage' = "serving" \/ stage' = stage,
         \A t \in TaskID : state'[t] = "cancelled" =>
           state[t] = "cancelled" \/ \A c \in Canceller : call[c].pc = "idle"
  PROVE  CallsFresh'
<1>1. \A c \in Canceller : call[c].pc # "idle" => call[c].task \in TaskID
  BY DEF OInv, IInv, CallsNameTasks
<1> QED BY <1>1 DEF OInv, CallsFresh

LEMMA FinishFresh ==
  ASSUME OInv, NEW t \in TaskID, NEW to, Finish(t, to) PROVE CallsFresh'
<1>1. /\ to \in Terminal \ {"cancelled"} /\ state[t] \in Live /\ Settle(t, to, Stamp(t))
      /\ UNCHANGED <<call, stage>>
  BY AcceptsLive DEF Finish
<1>2. Stamp(t) \in Time /\ IInv /\ state[t] \notin Terminal \cup {"evicted"}
  BY <1>1, StampType DEF OInv, IInv, Live, Terminal
<1>3. /\ state'[t] \in {to, "evicted"}
      /\ \A u \in TaskID \ {t} : \/ state'[u] = state[u]
                                 \/ state[u] \in Terminal /\ state'[u] = "evicted"
  BY <1>1, <1>2, SettleMoves
<1> QED BY <1>1, <1>3, FreshKept

\* A cancel that ends its task: no other cancel of the task is under way.
LEMMA MarkFresh ==
  ASSUME OInv, CancelsApart, NEW c \in Canceller, CancelMark(c) PROVE CallsFresh'
<1>1. PICK t \in TaskID : t = call[c].task
  BY DEF CancelMark, OInv, IInv, CallsNameTasks
<1>2. /\ Mark(t) /\ call[c].pc = "mark" /\ UNCHANGED stage
      /\ \A d \in Canceller : call'[d] = IF d = c THEN Idle ELSE call[d]
  BY <1>1 DEF CancelMark, OInv, IInv, TypeOK
<1>3. \A u \in TaskID \ {t} : state'[u] = state[u] \/ state'[u] = "evicted"
  <2>1. CASE Accepts(t, "cancelled") /\ Settle(t, "cancelled", now)
    <3>1. /\ IInv /\ state[t] \notin Terminal \cup {"evicted"} /\ "cancelled" \in Terminal
          /\ now \in Time
      BY <2>1, AcceptsLive DEF OInv, IInv, TypeOK, Live, Terminal
    <3>2. /\ state'[t] \in {"cancelled", "evicted"}
          /\ \A u \in TaskID \ {t} : \/ state'[u] = state[u]
                                     \/ state[u] \in Terminal /\ state'[u] = "evicted"
      BY <2>1, <3>1, SettleMoves
    <3> QED BY <3>2
  <2>2. CASE UNCHANGED state
    BY <2>2
  <2> QED BY <1>2, <2>1, <2>2 DEF Mark, records
<1>4. ASSUME NEW d \in Canceller, d # c, call[d].pc # "idle"
      PROVE  call[d].task \in TaskID \ {t}
  BY <1>1, <1>2, <1>4 DEF CancelsApart, OInv, IInv, CallsNameTasks
<1>5. Idle.pc = "idle"
  BY DEF Idle
<1> QED BY <1>2, <1>3, <1>4, <1>5 DEF OInv, CallsFresh

\* What a cancel has read of a task.
LEMMA ReadOver ==
  ASSUME NEW r, NEW t, NEW s, NEW A, NEW T,
         r = [pc |-> "fire", task |-> t, fn |-> t \in A, over |-> s \in T]
  PROVE  r.over = (s \in T)
OBVIOUS

LEMMA NextFresh == OInv /\ CancelsApart /\ [Next]_vars => CallsFresh'
<1> SUFFICES ASSUME OInv, CancelsApart, [Next]_vars PROVE CallsFresh'
  OBVIOUS
<1>0. state \in [TaskID -> Fate] /\ call \in [Canceller -> CallRecord]
  BY DEF OInv, IInv, TypeOK
<1>1. CASE UNCHANGED vars \/ Tick \/ Close \/ Serve
  BY <1>1, FreshKept DEF vars, records, Tick, Close, Serve
<1>2. CASE Settling \/ LoadManifest
  <2>1. stage = "loading" /\ call' = call
    BY <1>2 DEF Settling, LoadManifest, RestoreLive, RestoreTerminal
  <2>2. \A c \in Canceller : call[c].pc = "idle"
    BY <2>1 DEF OInv, CallsFresh
  <2> QED BY <2>1, <2>2 DEF CallsFresh
<1>3. ASSUME NEW t \in TaskID, Submit(t) \/ StartRunning(t) \/ RegisterCancel(t)
      PROVE  CallsFresh'
  BY <1>0, <1>3, FreshKept DEF Submit, StartRunning, RegisterCancel
<1>4. CASE SettleOwn
  BY <1>4, FinishFresh DEF SettleOwn
<1>5. ASSUME NEW t \in TaskID, NEW to \in Terminal, Finish(t, to) PROVE CallsFresh'
  BY <1>5, FinishFresh
<1>6. ASSUME NEW t \in TaskID, NEW c \in Canceller, CancelRead(c, t) PROVE CallsFresh'
  <2>1. /\ stage = "serving" /\ UNCHANGED <<stage, state>>
        /\ \A d \in Canceller :
             call'[d] = IF d = c THEN [pc |-> "fire", task |-> t, fn |-> t \in attached,
                                       over |-> state[t] \in Terminal] ELSE call[d]
    BY <1>0, <1>6 DEF CancelRead, records
  <2>2. call'[c].pc = "fire" /\ call'[c].task = t
    BY <2>1
  <2>3. call'[c].over = (state[t] \in Terminal)
    <3>1. call'[c] = [pc |-> "fire", task |-> t, fn |-> t \in attached,
                      over |-> state[t] \in Terminal]
      BY <2>1
    <3> QED BY <3>1, ReadOver
  <2>4. ~call'[c].over => state[t] # "cancelled"
    BY <2>3 DEF Terminal
  <2>5. \A d \in Canceller \ {c} : call'[d] = call[d]
    BY <2>1
  <2> QED BY <2>1, <2>2, <2>4, <2>5 DEF OInv, CallsFresh
<1>7. ASSUME NEW c \in Canceller, CancelFire(c) PROVE CallsFresh'
  <2>1. /\ call[c].pc = "fire" /\ UNCHANGED <<stage, state>>
        /\ \A d \in Canceller : d # c => call'[d] = call[d]
        /\ call'[c] = IF call[c].over THEN Idle ELSE [call[c] EXCEPT !.pc = "mark"]
    BY <1>0, <1>7 DEF CancelFire, records
  <2>2. call[c].over => call'[c].pc = "idle"
    BY <2>1 DEF Idle
  <2>3. ~call[c].over =>
          call'[c].pc = "mark" /\ call'[c].over = call[c].over /\ call'[c].task = call[c].task
    BY <1>0, <2>1 DEF CallRecord
  <2>4. CallsFresh
    BY DEF OInv
  <2>5. ~call[c].over => state[call[c].task] # "cancelled" /\ stage = "serving"
    BY <2>1, <2>4 DEF CallsFresh
  <2>6. \A d \in Canceller \ {c} :
          /\ call[d].pc # "idle" => stage = "serving"
          /\ call[d].pc # "idle" /\ ~call[d].over => state[call[d].task] # "cancelled"
          /\ call[d].pc = "mark" => ~call[d].over
    BY <2>4 DEF CallsFresh
  <2>7. CASE call[c].over
    BY <2>1, <2>2, <2>6, <2>7 DEF CallsFresh
  <2>8. CASE ~call[c].over
    <3>1. /\ call'[c].pc = "mark" /\ ~call'[c].over
          /\ state'[call'[c].task] # "cancelled" /\ stage' = "serving"
      BY <2>1, <2>3, <2>5, <2>8
    <3>2. ASSUME NEW d \in Canceller
          PROVE  /\ call'[d].pc # "idle" => stage' = "serving"
                 /\ call'[d].pc # "idle" /\ ~call'[d].over => state'[call'[d].task] # "cancelled"
                 /\ call'[d].pc = "mark" => ~call'[d].over
      <4>1. CASE d = c
        BY <3>1, <4>1
      <4>2. CASE d # c
        <5>1. call'[d] = call[d] /\ d \in Canceller \ {c}
          BY <2>1, <4>2
        <5> QED BY <2>1, <2>6, <5>1
      <4> QED BY <4>1, <4>2
    <3> QED BY ONLY <3>2 DEF CallsFresh
  <2> QED BY <2>7, <2>8
<1>8. ASSUME NEW c \in Canceller, CancelMark(c) PROVE CallsFresh'
  BY <1>8, MarkFresh
<1> QED BY <1>1, <1>2, <1>3, <1>4, <1>5, <1>6, <1>7, <1>8 DEF Next, StartUp

LEMMA InitOInv == Init => OInv
<1> SUFFICES ASSUME Init PROVE OInv
  OBVIOUS
<1>1. CallsFresh
  BY DEF Init, CallsFresh, Idle
<1>2. HeapInOrder(heap, finishedAt)
  BY DEF Init, HeapInOrder
<1> QED BY <1>1, <1>2, InitIInv DEF OInv

LEMMA NextOInv == OInv /\ CancelsApart /\ [Next]_vars => OInv'
<1> SUFFICES ASSUME OInv, CancelsApart, [Next]_vars PROVE OInv'
  OBVIOUS
<1>1. IInv'
  BY NextIInv DEF OInv
<1>2. CallsFresh'
  BY NextFresh
<1>3. HeapInOrder(heap, finishedAt)'
  BY NextOrdered DEF Ordered
<1> QED BY <1>1, <1>2, <1>3 DEF OInv

\* As long as no two cancels of a task overlap, eviction takes the task that ended
\* first, of those retained and the one that ends, whatever the clock does.
THEOREM OldestGoes == Spec /\ []CancelsApart => OldestEvicted
<1>1. OInv /\ [Next]_vars => [Oldest]_vars
  BY NextOrdered DEF Ordered
<1> QED BY <1>1, InitOInv, NextOInv, PTL DEF Spec, OldestEvicted, Oldest

\* And a task that has ended is what it was for as long as it is retained.
THEOREM EndedStays == Spec /\ []CancelsApart => EndedUnchanged
<1>1. OInv /\ [Next]_vars => [Unchanged]_vars
  BY NextOrdered DEF Ordered
<1> QED BY <1>1, InitOInv, NextOInv, PTL DEF Spec, EndedUnchanged, Unchanged
=============================================================================
