----------------------------- MODULE TaskStore -----------------------------
(***************************************************************************)
(* MemoryStore of internal/taskstore/memory.go: the map of task records,   *)
(* the queued and running counters, the retention heap, the done channels  *)
(* and the cancel funcs, each operation one atomic step under the write    *)
(* lock except Cancel, which the code splits in three (read under RLock,   *)
(* fire the cancel func unlocked, Transition).                             *)
(*                                                                         *)
(* An operation the code refuses changes nothing, so its error return is a *)
(* stuttering step here; modules that EXTEND this one and need the error   *)
(* test the guard (Admissible, Accepts) themselves.  Transition reads the  *)
(* closed flag before it takes the lock; as Close changes nothing else, a  *)
(* Transition that Close overtakes there is one that came before it.       *)
(***************************************************************************)
EXTENDS Integers, Sequences, FiniteSets, TaskStates

CONSTANTS
  TaskID,          \* task identifiers
  Loadable,        \* those that manifests found at start-up may name
  MaxQueued,       \* admission bound: Submit refuses at this many queued tasks
  MaxRetained,     \* retention window: terminal records kept for queries
  MaxTime,         \* bound on the clock readings explored
  ClockStepsBack,  \* may the wall clock be set back?  (now() strips monotonic)
  Canceller,       \* concurrent calls of Store.Cancel
  NoTask,          \* the task of a Canceller that is not in a call
  HeapPush(_,_,_), \* heap.Push(array, task, keys): the array it leaves
  HeapPop(_,_)     \* heap.Pop(array, keys): the array left once [1] is removed

Time == 1..MaxTime
Key  == [TaskID -> {0} \cup Time]

ASSUME ConstantsAssumption ==
  /\ MaxQueued \in Nat \ {0}
  /\ MaxRetained \in Nat \ {0}
  /\ MaxTime \in Nat \ {0}
  /\ ClockStepsBack \in BOOLEAN
  /\ NoTask \notin TaskID
  /\ Loadable \subseteq TaskID
  /\ IsFiniteSet(TaskID)

Elements(a) == {a[i] : i \in DOMAIN a}

\* The slices the retention heap may hold: no task twice, never more than one
\* above the window.
HeapArray ==
  {a \in UNION {[1..n -> TaskID] : n \in 0..(MaxRetained + 1)} :
     \A i, j \in DOMAIN a : a[i] = a[j] => i = j}

\* What the store relies on container/heap for: Push adds its element, Pop
\* removes the root, and neither loses, duplicates or invents another.
ASSUME HeapAssumption ==
  \A a \in HeapArray, k \in Key :
    /\ \A t \in TaskID \ Elements(a) :
         Len(a) <= MaxRetained =>
           /\ HeapPush(a, t, k) \in HeapArray
           /\ Elements(HeapPush(a, t, k)) = Elements(a) \cup {t}
           /\ Len(HeapPush(a, t, k)) = Len(a) + 1
    /\ Len(a) > 0 =>
           /\ HeapPop(a, k) \in HeapArray
           /\ Elements(HeapPop(a, k)) = Elements(a) \ {a[1]}
           /\ Len(HeapPop(a, k)) = Len(a) - 1

\* No element is before its parent in time: Less, as the slice stores it.
HeapInOrder(a, k) == \A i \in 2..Len(a) : k[a[i \div 2]] <= k[a[i]]

\* And where the order of eviction matters: neither disturbs the order, and a
\* new element that is before none of the others stays last.
ASSUME HeapOrderAssumption ==
  \A a \in HeapArray, k \in Key :
    /\ \A t \in TaskID \ Elements(a) :
         Len(a) <= MaxRetained =>
           /\ HeapInOrder(a, k) => HeapInOrder(HeapPush(a, t, k), k)
           /\ (\A u \in Elements(a) : k[u] <= k[t]) => HeapPush(a, t, k) = Append(a, t)
    /\ Len(a) > 0 /\ HeapInOrder(a, k) => HeapInOrder(HeapPop(a, k), k)

VARIABLES
  state,       \* [TaskID -> Fate]: rec.task.State, or why there is no record
  owner,       \* rec.task.PID: this process ("self") or another ("peer")
  finishedAt,  \* rec.task.FinishedAt, 0 while zero or without a record
  done,        \* tasks whose done channel is closed
  attached,    \* tasks whose record holds a cancel func
  fired,       \* tasks whose job context has been cancelled
  heap,        \* the terminalHeap slice
  queued,      \* s.queued
  running,     \* s.running
  closed,      \* s.closed
  stage,       \* how far start-up is: NewDisk loads manifests, settles its own
  now,         \* what s.now() returns
  call         \* [Canceller -> where its Cancel call stands]

records == <<state, owner, finishedAt, done, attached, heap, queued, running>>
vars    == <<records, fired, closed, stage, now, call>>

Idle == [pc |-> "idle", task |-> NoTask, fn |-> FALSE, over |-> FALSE]

CallRecord ==
  [pc : {"idle", "fire", "mark"}, task : TaskID \cup {NoTask},
   fn : BOOLEAN, over : BOOLEAN]

TypeOK ==
  /\ state \in [TaskID -> Fate]
  /\ owner \in [TaskID -> {"self", "peer"}]
  /\ finishedAt \in Key
  /\ done \subseteq TaskID
  /\ attached \subseteq TaskID
  /\ fired \subseteq TaskID
  /\ heap \in HeapArray
  /\ queued \in Int
  /\ running \in Int
  /\ closed \in BOOLEAN
  /\ stage \in {"loading", "settling", "serving"}
  /\ now \in Time
  /\ call \in [Canceller -> CallRecord]

Init ==
  /\ state = [t \in TaskID |-> "unborn"]
  /\ owner = [t \in TaskID |-> "self"]
  /\ finishedAt = [t \in TaskID |-> 0]
  /\ done = {}
  /\ attached = {}
  /\ fired = {}
  /\ heap = << >>
  /\ queued = 0
  /\ running = 0
  /\ closed = FALSE
  /\ stage = "loading"
  /\ now = 1
  /\ call = [c \in Canceller |-> Idle]

-----------------------------------------------------------------------------
\* Lookups.

Present(t) == state[t] \in State
Mine(t)    == owner[t] = "self"
InState(s) == {t \in TaskID : state[t] = s}
Retained   == {t \in TaskID : state[t] \in Terminal}

Count(t, s) == IF state[t] = s THEN 1 ELSE 0

\* Mutant: one task more than the bound.
AdmissibleOneMore == ~closed /\ queued <= MaxQueued

\* Submit's guards, under the lock; the identifier it mints is fresh.
Admissible == ~closed /\ queued < MaxQueued

\* Mutant: the state machine is not consulted.
AcceptsAnyMove(t, to) == ~closed /\ Present(t) /\ Mine(t)

\* Transition's guards for a fn that moves t to another state.
Accepts(t, to) ==
  /\ ~closed
  /\ Present(t)
  /\ Mine(t)
  /\ CanTransition(state[t], to)

-----------------------------------------------------------------------------
\* The clock moves on its own, or back when it is set back.
Tick ==
  /\ \E t \in Time : /\ t > now \/ (ClockStepsBack /\ t < now)
                     /\ now' = t
  /\ UNCHANGED <<records, fired, closed, stage, call>>

-----------------------------------------------------------------------------
\* Mutant: the task is pushed before it is stamped.
PushedUnstamped(t, at) == HeapPush(heap, t, finishedAt)

\* heap.Push of a task that ends at a given time.
Pushed(t, at) == HeapPush(heap, t, [finishedAt EXCEPT ![t] = at])

\* Mutant: nothing is ever evicted.
NeverFull(a) == FALSE

\* The condition of evictUntilUnderRetention's loop.
Overfull(a) == Len(a) > MaxRetained

\* The terminal half of a state change, shared by Transition and restore: t
\* enters state `to` with FinishedAt `at`, is pushed on the heap, its channel
\* is closed and its cancel func dropped, and the retention window is trimmed.
\* The trimming loop runs at most once: the window was respected before the
\* push (HeapWithinWindow).
Settle(t, to, at) ==
  LET keys    == [finishedAt EXCEPT ![t] = at]
      pushed  == Pushed(t, at)
      full    == Overfull(pushed)
      dropped == IF full THEN {pushed[1]} ELSE {}
  IN  /\ heap' = IF full THEN HeapPop(pushed, keys) ELSE pushed
      /\ state' = [u \in TaskID |-> IF u \in dropped THEN "evicted"
                                    ELSE IF u = t THEN to ELSE state[u]]
      /\ finishedAt' = [u \in TaskID |-> IF u \in dropped THEN 0 ELSE keys[u]]
      /\ done' = done \cup {t}
      /\ attached' = attached \ {t}

\* FinishedAt is stamped unless it already holds a time.
Stamp(t) == IF finishedAt[t] = 0 THEN now ELSE finishedAt[t]

\* Mutant: a task that ends while running keeps its slot.
UncountQueued(t) ==
  /\ queued' = queued - Count(t, "queued")
  /\ UNCHANGED running

\* The slot of the state t leaves is given back.
Uncount(t) ==
  /\ queued' = queued - Count(t, "queued")
  /\ running' = running - Count(t, "running")

-----------------------------------------------------------------------------
Submit(t) ==
  /\ stage = "serving"
  /\ Admissible
  /\ state[t] = "unborn"
  /\ state' = [state EXCEPT ![t] = "queued"]
  /\ owner' = [owner EXCEPT ![t] = "self"]
  /\ queued' = queued + 1
  /\ UNCHANGED <<finishedAt, done, attached, fired, heap, running, closed,
                 stage, now, call>>

\* Transition with a fn that sets State to "running".
StartRunning(t) ==
  /\ stage = "serving"
  /\ Accepts(t, "running")
  /\ state' = [state EXCEPT ![t] = "running"]
  /\ queued' = queued - Count(t, "queued")
  /\ running' = running + 1
  /\ UNCHANGED <<owner, finishedAt, done, attached, fired, heap, closed,
                 stage, now, call>>

\* Transition with a fn that sets State to a terminal state and leaves
\* FinishedAt to the store: the worker, the submit handler and AbandonRunning.
\* Only Cancel moves a task to "cancelled".
Finish(t, to) ==
  /\ to \in Terminal \ {"cancelled"}
  /\ Accepts(t, to)
  /\ Settle(t, to, Stamp(t))
  /\ Uncount(t)
  /\ UNCHANGED <<owner, fired, closed, stage, now, call>>

\* RegisterCancel; on a terminal task it is a no-op.
RegisterCancel(t) ==
  /\ stage = "serving"
  /\ state[t] \in Live
  /\ Mine(t)
  /\ attached' = attached \cup {t}
  /\ UNCHANGED <<state, owner, finishedAt, done, fired, heap, queued, running,
                 closed, stage, now, call>>

-----------------------------------------------------------------------------
\* Cancel, first half of step 1: read the cancel func and whether the task has
\* already ended, under the read lock.
CancelRead(c, t) ==
  /\ stage = "serving"
  /\ call[c].pc = "idle"
  /\ Present(t)
  /\ Mine(t)
  /\ call' = [call EXCEPT ![c] = [pc |-> "fire", task |-> t,
                                  fn |-> t \in attached,
                                  over |-> state[t] \in Terminal]]
  /\ UNCHANGED <<records, fired, closed, stage, now>>

\* Second half: the cancel func runs with no lock held; a task that had ended
\* needs nothing more.
CancelFire(c) ==
  /\ call[c].pc = "fire"
  /\ fired' = IF call[c].fn THEN fired \cup {call[c].task} ELSE fired
  /\ call' = [call EXCEPT ![c] = IF call[c].over THEN Idle
                                 ELSE [call[c] EXCEPT !.pc = "mark"]]
  /\ UNCHANGED <<records, closed, stage, now>>

\* Mutant: a running task is left to its worker.
MarkQueued(t) ==
  \/ /\ Accepts(t, "cancelled") /\ state[t] = "queued"
     /\ Settle(t, "cancelled", now)
     /\ Uncount(t)
     /\ UNCHANGED owner
  \/ /\ ~(Accepts(t, "cancelled") /\ state[t] = "queued")
     /\ UNCHANGED records

\* Step 2 is a Transition whose fn sets State, CancelHint and FinishedAt.  On
\* a task another Cancel has ended meanwhile the State does not change, so the
\* state machine is not consulted and the stamp of the record in the heap is
\* overwritten where it stands.
Mark(t) ==
  \/ /\ Accepts(t, "cancelled")
     /\ Settle(t, "cancelled", now)
     /\ Uncount(t)
     /\ UNCHANGED owner
  \/ /\ ~closed
     /\ state[t] = "cancelled"
     /\ finishedAt' = [finishedAt EXCEPT ![t] = now]
     /\ UNCHANGED <<state, owner, done, attached, heap, queued, running>>
  \/ /\ ~Accepts(t, "cancelled")
     /\ closed \/ state[t] # "cancelled"
     /\ UNCHANGED records

CancelMark(c) ==
  /\ call[c].pc = "mark"
  /\ Mark(call[c].task)
  /\ call' = [call EXCEPT ![c] = Idle]
  /\ UNCHANGED <<fired, closed, stage, now>>

-----------------------------------------------------------------------------
\* restore: a manifest read at start-up becomes a record, verbatim, with no
\* hook called; a live record of another process takes a slot like our own.
RestoreLive(t, s, who) ==
  /\ stage = "loading"
  /\ t \in Loadable /\ state[t] = "unborn"
  /\ s \in Live
  /\ state' = [state EXCEPT ![t] = s]
  /\ owner' = [owner EXCEPT ![t] = who]
  /\ queued' = IF s = "queued" THEN queued + 1 ELSE queued
  /\ running' = IF s = "running" THEN running + 1 ELSE running
  /\ UNCHANGED <<finishedAt, done, attached, fired, heap, closed, stage,
                 now, call>>

RestoreTerminal(t, s, who, at) ==
  /\ stage = "loading"
  /\ t \in Loadable /\ state[t] = "unborn"
  /\ s \in Terminal
  /\ Settle(t, s, IF at = 0 THEN now ELSE at)
  /\ owner' = [owner EXCEPT ![t] = who]
  /\ UNCHANGED <<fired, queued, running, closed, stage, now, call>>

LoadManifest ==
  \E t \in Loadable, who \in {"self", "peer"} :
    \/ \E s \in Live : RestoreLive(t, s, who)
    \/ \E s \in Terminal, at \in {0} \cup Time : RestoreTerminal(t, s, who, at)

\* Every manifest is loaded.
Settling ==
  /\ stage = "loading"
  /\ stage' = "settling"
  /\ UNCHANGED <<records, fired, closed, now, call>>

\* What was live and carries this PID is abandoned.
SettleOwn ==
  /\ stage = "settling"
  /\ \E t \in TaskID : Finish(t, "abandoned")

\* The store is handed to its callers.
Serve ==
  /\ stage = "settling"
  /\ \A t \in TaskID : Mine(t) => state[t] \notin Live
  /\ stage' = "serving"
  /\ UNCHANGED <<records, fired, closed, now, call>>

StartUp == LoadManifest \/ Settling \/ SettleOwn \/ Serve

Close ==
  /\ stage = "serving"
  /\ closed' = TRUE
  /\ UNCHANGED <<records, fired, stage, now, call>>

-----------------------------------------------------------------------------
Next ==
  \/ Tick
  \/ StartUp
  \/ Close
  \/ \E t \in TaskID :
       \/ Submit(t)
       \/ StartRunning(t)
       \/ RegisterCancel(t)
       \/ \E to \in Terminal : stage = "serving" /\ Finish(t, to)
       \/ \E c \in Canceller : CancelRead(c, t)
  \/ \E c \in Canceller : CancelFire(c) \/ CancelMark(c)

Spec == Init /\ [][Next]_vars

-----------------------------------------------------------------------------
\* PROPERTIES

\* The counters Submit's admission check reads agree with the records: a task
\* is counted in exactly the state it is in, whoever owns it and however it
\* left its last one (applyStateChange, restore).
CountersAgree ==
  /\ queued = Cardinality(InState("queued"))
  /\ running = Cardinality(InState("running"))

\* The retention heap holds exactly the terminal records, each once, so that
\* no live task can be evicted and no ended one escapes eviction.
HeapHoldsRetained == Elements(heap) = Retained

\* The retention window is respected between operations.
HeapWithinWindow == Len(heap) <= MaxRetained

\* A waiter is released exactly when its task has ended, and a record that
\* has ended holds no cancel func (Wait, RegisterCancel, applyStateChange).
ReleasedWhenOver ==
  /\ done = {t \in TaskID : state[t] \in Terminal \cup {"evicted"}}
  /\ \A t \in attached : state[t] \in Live

\* An ended record is stamped: eviction order never meets a zero time.
StampedWhenOver ==
  \A t \in TaskID : state[t] \in Terminal <=> finishedAt[t] # 0

\* The bookkeeping of the store, as one statement.
Bookkeeping ==
  /\ CountersAgree
  /\ HeapHoldsRetained
  /\ HeapWithinWindow
  /\ ReleasedWhenOver
  /\ StampedWhenOver

\* Eviction takes the record that ended first, of the retained ones and the
\* one that has just ended (MemoryConfig.MaxRetained, memory.go:24-27).
OldestEvicted ==
  [][\A t \in TaskID :
       Present(t) /\ state'[t] = "evicted" =>
         \A u \in TaskID : state'[u] \in Terminal =>
           Stamp(t) <= finishedAt'[u]]_vars

\* An ended task is returned unchanged for as long as it is retained
\* (README.md:392, the description of cancel_task in async.go:166).
EndedUnchanged ==
  [][\A t \in TaskID :
       state[t] \in Terminal =>
         state'[t] = "evicted" \/ (/\ state'[t] = state[t]
                                   /\ finishedAt'[t] = finishedAt[t])]_vars

\* The store implements the contract of its interface.
Contract == INSTANCE StoreContract WITH serving <- stage = "serving"
Implements == Contract!Spec
=============================================================================
