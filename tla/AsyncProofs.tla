---------------------------- MODULE AsyncProofs ----------------------------
(***************************************************************************)
(* The asynchronous layer keeps the store's invariant, its own types, and  *)
(* the order of the shutdown (server.Run, main, Dispatcher.Close), for any *)
(* number of workers, calls, tasks and any bounds.                         *)
(*                                                                         *)
(* The inductive invariant is TInv: IInv of TaskStoreProofs, the types     *)
(* with the task that goes with each program counter, and what the phase   *)
(* of the shutdown says of the dispatcher's door, its workers and the      *)
(* calls in flight.                                                        *)
(***************************************************************************)
EXTENDS TaskStoreProofs, AsyncTasks

\* The program counters of runJob and of the three handlers, each with the
\* task it is about.
WorkerAt == [pc : {"idle", "register", "publish", "start", "run", "completed", "failed",
                   "cleanup", "exited"}, task : TaskID \cup {NoTask}]
SubmitAt == [pc : {"idle", "received", "dispatch", "send", "failed", "abandoned", "get"},
             task : TaskID \cup {NoTask}]
AskAt    == [pc : {"idle", "received", "cancel", "get"}, task : TaskID \cup {NoTask}]
WaitAt   == [pc : {"idle", "received", "blocked", "woken", "expired"},
             task : TaskID \cup {NoTask}]

\* Who is somewhere has a task.
WorkerPlaces ==
  /\ worker \in [Worker -> WorkerAt]
  /\ \A w \in Worker : IF worker[w].pc \in {"idle", "exited"} THEN worker[w].task = NoTask
                       ELSE worker[w].task \in TaskID

\* A call that is being served has a task.
SubmitPlaces ==
  /\ submit \in [Submitter -> SubmitAt]
  /\ \A s \in Submitter : IF submit[s].pc = "idle" THEN submit[s].task = NoTask
                          ELSE submit[s].task \in TaskID

\* A cancel_task call is in Store.Cancel exactly at its "cancel" step.
AskPlaces ==
  /\ ask \in [Canceller -> AskAt]
  /\ \A c \in Canceller : /\ ask[c].pc = "cancel" <=> call[c].pc # "idle"
                          /\ call[c].pc # "idle" => call[c].task = ask[c].task
                          /\ ask[c].pc # "idle" => ask[c].task \in TaskID

\* A long poll that is being served has a task.
WaitPlaces ==
  /\ wait \in [Waiter -> WaitAt]
  /\ \A x \in Waiter : wait[x].pc # "idle" => wait[x].task \in TaskID

\* The rest of the state.
PoolTypes ==
  /\ queue \in Seq(TaskID) /\ Len(queue) <= QueueSize
  /\ door \in {"open", "shut", "closed"}
  /\ published \subseteq TaskID
  /\ phase \in Phases
  /\ todo \subseteq TaskID
  /\ firing \in TaskID \cup {NoTask}

\* Types and places together.
Shapes == PoolTypes /\ WorkerPlaces /\ SubmitPlaces /\ AskPlaces /\ WaitPlaces

\* Nothing has happened yet to anything but the store.
Untouched ==
  /\ phase = "serving" /\ door = "open" /\ queue = << >>
  /\ published = {} /\ todo = {} /\ firing = NoTask /\ fired = {}
  /\ \A w \in Worker : worker[w].pc = "idle"
  /\ CallsServed

\* The phases in which calls may be in flight, the dispatcher's door is open
\* and the store is not closed; workers leave last.
Order ==
  /\ stage # "serving" => Untouched
  /\ phase \in {"closing", "joining", "exited"} => CallsServed
  /\ door = "closed" <=> phase \in {"joining", "exited"}
  /\ door = "shut" => phase = "closing"
  /\ \A w \in Worker : worker[w].pc = "exited" => door = "closed" /\ queue = << >>
  /\ phase = "exited" => \A w \in Worker : worker[w].pc = "exited"
  /\ closed <=> phase = "exited"

\* The inductive invariant of this module.
TInv == IInv /\ Shapes /\ Order
-----------------------------------------------------------------------------
\* Every step of the layer is a step of the store or leaves it alone.
LEMMA NextStore == TInv /\ [AsyncNext]_asyncVars => IInv'
<1> SUFFICES ASSUME TInv, [AsyncNext]_asyncVars PROVE IInv'
  OBVIOUS
<1>inv. IInv /\ Shapes
  BY DEF TInv
<1>1. CASE [Next]_vars
  BY <1>1, <1>inv, NextIInv
<1>2. CASE UNCHANGED storeVars
  BY <1>1, <1>2 DEF storeVars, vars
<1>3. ASSUME NEW t \in TaskID, NEW to, TryFinish(t, to) PROVE IInv'
  BY <1>2, <1>3, <1>inv, FinishKeeps DEF TryFinish
<1>4. CASE Boot
  BY <1>1, <1>4 DEF Boot, Next
<1>5. CASE Requests \/ StopReceiving \/ Gone \/ UNCHANGED asyncVars
  BY <1>2, <1>5
     DEF Requests, SubmitReceive, CancelReceive, WaitReceive, StopReceiving, Gone, asyncVars
<1>6. CASE ShutDown
  <2>1. CASE AbandonFire
    <3>1. firing \in TaskID
      BY <2>1, <1>inv DEF AbandonFire, Shapes, PoolTypes
    <3>2. TypeOK' /\ CallsNameTasks'
      BY <2>1, <3>1, <1>inv DEF AbandonFire, records, IInv, TypeOK, CallsNameTasks
    <3> QED BY <2>1, <3>2, <1>inv, RecordsKept DEF AbandonFire, IInv
  <2>2. CASE CloseStore
    <3>1. Close
      BY <2>2 DEF CloseStore
    <3> QED BY <1>1, <3>1 DEF Next
  <2>3. ASSUME NEW t \in TaskID, AbandonMark(t) PROVE IInv'
    BY <1>3, <2>3 DEF AbandonMark
  <2>4. CASE UNCHANGED storeVars
    BY <1>2, <2>4
  <2> QED BY <1>6, <2>1, <2>2, <2>3, <2>4
          DEF ShutDown, AbandonSnapshot, AbandonDone, RunReturns, ShutDoor, CloseQueue
<1>7. ASSUME NEW s \in Submitter, SubmitCall(s) PROVE IInv'
  <2>1. submit[s].pc # "idle" => submit[s].task \in TaskID
    BY <1>inv DEF Shapes, SubmitPlaces
  <2>2. CASE SubmitStore(s)
    BY <1>1, <1>2, <2>1, <2>2 DEF SubmitStore, SubmitStep, Next
  <2>3. CASE SubmitRollback(s)
    BY <1>3, <2>1, <2>3 DEF SubmitRollback, SubmitStep
  <2> QED BY <1>2, <1>7, <2>2, <2>3 DEF SubmitCall, DispatchCheck, DispatchSend, SubmitReply
<1>8. ASSUME NEW w \in Worker, WorkerRun(w) PROVE IInv'
  <2>1. worker[w].pc \notin {"idle", "exited"} => worker[w].task \in TaskID
    BY <1>inv DEF Shapes, WorkerPlaces
  <2>2. CASE WorkerRegister(w)
    BY <1>1, <1>2, <2>1, <2>2 DEF WorkerRegister, WorkerStep, Next
  <2>3. CASE WorkerStart(w)
    BY <1>1, <1>2, <2>1, <2>3 DEF WorkerStart, WorkerStep, Next
  <2>4. CASE WorkerFinish(w)
    BY <1>3, <2>1, <2>4 DEF WorkerFinish, WorkerStep
  <2> QED BY <1>2, <1>8, <2>2, <2>3, <2>4
          DEF WorkerRun, WorkerReceive, WorkerExit, WorkerPublish, HandlerReturns, WorkerCleanup
<1>9. ASSUME NEW c \in Canceller, CancelCall(c) PROVE IInv'
  <2>1. ask[c].pc # "idle" => ask[c].task \in TaskID
    BY <1>inv DEF Shapes, AskPlaces
  <2>2. CASE CancelLookup(c)
    BY <1>1, <1>2, <2>1, <2>2 DEF CancelLookup, AskStep, Next
  <2> QED BY <1>1, <1>2, <1>9, <2>2
          DEF CancelCall, CancelInterrupt, CancelRecord, CancelReply, Next
<1>10. ASSUME NEW x \in Waiter, WaitCall(x) PROVE IInv'
  BY <1>2, <1>10
     DEF WaitCall, WaitLookup, WaitWoken, WaitExpire, WaitAnswer, WaitStep
<1> QED BY <1>4, <1>5, <1>6, <1>7, <1>8, <1>9, <1>10 DEF AsyncNext

-----------------------------------------------------------------------------
\* A step of one caller keeps the places of its kind.
LEMMA WorkerMoves ==
  ASSUME WorkerPlaces, NEW w \in Worker, NEW from, NEW to,
         \/ to = "idle"
         \/ to = "exited" /\ from = "idle"
         \/ /\ to \in {"publish", "start", "run", "completed", "failed", "cleanup"}
            /\ from \notin {"idle", "exited"},
         WorkerStep(w, from, to)
  PROVE  WorkerPlaces'
<1>1. /\ worker[w] \in WorkerAt /\ worker[w].pc = from
      /\ worker' = [worker EXCEPT ![w] = IF to = "idle" THEN Resting ELSE [@ EXCEPT !.pc = to]]
  BY DEF WorkerPlaces, WorkerStep
<1>2. worker' \in [Worker -> WorkerAt]
  BY <1>1 DEF WorkerPlaces, WorkerAt, Resting
<1>3. ASSUME NEW v \in Worker
      PROVE  IF worker'[v].pc \in {"idle", "exited"} THEN worker'[v].task = NoTask
             ELSE worker'[v].task \in TaskID
  BY <1>1 DEF WorkerPlaces, WorkerAt, Resting
<1> QED BY <1>2, <1>3 DEF WorkerPlaces

\* The same of a submit call.
LEMMA SubmitMoves ==
  ASSUME SubmitPlaces, NEW s \in Submitter, NEW from, NEW to,
         \/ to = "idle"
         \/ to \in {"dispatch", "send", "failed", "abandoned", "get"} /\ from # "idle",
         SubmitStep(s, from, to)
  PROVE  SubmitPlaces'
<1>1. /\ submit[s] \in SubmitAt /\ submit[s].pc = from
      /\ submit' = [submit EXCEPT ![s] = IF to = "idle" THEN Resting ELSE [@ EXCEPT !.pc = to]]
  BY DEF SubmitPlaces, SubmitStep
<1>2. submit' \in [Submitter -> SubmitAt]
  BY <1>1 DEF SubmitPlaces, SubmitAt, Resting
<1>3. ASSUME NEW r \in Submitter
      PROVE  IF submit'[r].pc = "idle" THEN submit'[r].task = NoTask
             ELSE submit'[r].task \in TaskID
  BY <1>1 DEF SubmitPlaces, SubmitAt, Resting
<1> QED BY <1>2, <1>3 DEF SubmitPlaces

\* Types and places of everything but the store.
LEMMA NextShapes == TInv /\ [AsyncNext]_asyncVars => Shapes'
<1> SUFFICES ASSUME TInv, [AsyncNext]_asyncVars PROVE Shapes'
  OBVIOUS
<1> USE DEF storeVars, poolVars, toolVars, downVars
<1>inv. /\ PoolTypes /\ WorkerPlaces /\ SubmitPlaces /\ AskPlaces /\ WaitPlaces
        /\ call \in [Canceller -> CallRecord] /\ QueueSize \in Nat /\ NoTask \notin TaskID
  BY ConstantsAssumption DEF TInv, IInv, TypeOK, Shapes, QueueSize, ConstantsAssumption
<1> USE <1>inv
<1>pool. ASSUME UNCHANGED <<queue, door, published, phase, todo, firing>> PROVE PoolTypes'
  BY <1>pool DEF PoolTypes, QueueSize
<1>worker. ASSUME UNCHANGED worker PROVE WorkerPlaces'
  BY <1>worker DEF WorkerPlaces
<1>submit. ASSUME UNCHANGED submit PROVE SubmitPlaces'
  BY <1>submit DEF SubmitPlaces
<1>ask. ASSUME UNCHANGED <<ask, call>> PROVE AskPlaces'
  BY <1>ask DEF AskPlaces
<1>wait. ASSUME UNCHANGED wait PROVE WaitPlaces'
  BY <1>wait DEF WaitPlaces
<1> USE DEF Shapes
<1>still. ASSUME UNCHANGED <<poolVars, toolVars, downVars, call>> PROVE Shapes'
  BY <1>still, <1>pool, <1>worker, <1>submit, <1>ask, <1>wait
<1>1. CASE Boot
  BY <1>1, <1>still DEF Boot, StartUp, LoadManifest, RestoreLive, RestoreTerminal, Settling,
                        SettleOwn, Finish, Serve
<1>2. ASSUME NEW t \in TaskID, NEW s \in Submitter, SubmitReceive(s, t) PROVE Shapes'
  <2>1. SubmitPlaces'
    BY <1>2 DEF SubmitReceive, At, SubmitPlaces, SubmitAt
  <2> QED BY <1>2, <2>1, <1>pool, <1>worker, <1>ask, <1>wait DEF SubmitReceive
<1>3. ASSUME NEW t \in TaskID, NEW c \in Canceller, CancelReceive(c, t) PROVE Shapes'
  <2>1. AskPlaces'
    BY <1>3 DEF CancelReceive, At, AskPlaces, AskAt
  <2> QED BY <1>3, <2>1, <1>pool, <1>worker, <1>submit, <1>wait DEF CancelReceive
<1>4. ASSUME NEW t \in TaskID, NEW x \in Waiter, WaitReceive(x, t) PROVE Shapes'
  <2>1. WaitPlaces'
    BY <1>4 DEF WaitReceive, At, WaitPlaces, WaitAt
  <2> QED BY <1>4, <2>1, <1>pool, <1>worker, <1>submit, <1>ask DEF WaitReceive
<1>5. CASE StopReceiving \/ Gone \/ UNCHANGED asyncVars
  <2>1. PoolTypes'
    BY <1>5 DEF StopReceiving, DownStep, Gone, asyncVars, PoolTypes, QueueSize, Phases
  <2> QED BY <1>5, <2>1, <1>worker, <1>submit, <1>ask, <1>wait
          DEF StopReceiving, DownStep, Gone, asyncVars
<1>6. CASE ShutDown
  <2>1. CASE AbandonSnapshot \/ AbandonFire \/ AbandonDone \/ RunReturns \/ ShutDoor \/ CloseQueue
             \/ CloseStore
    <3>1. PoolTypes'
      BY <2>1 DEF AbandonSnapshot, AbandonFire, AbandonDone, RunReturns, ShutDoor, CloseQueue,
                  CloseStore, Close, DownStep, PoolTypes, QueueSize, Phases
    <3> QED BY <2>1, <3>1, <1>worker, <1>submit, <1>ask, <1>wait
            DEF AbandonSnapshot, AbandonFire, AbandonDone, RunReturns, ShutDoor, CloseQueue,
                CloseStore, Close, DownStep
  <2>2. ASSUME NEW t \in TaskID, AbandonMark(t) PROVE Shapes'
    <3>1. PoolTypes'
      BY <2>2 DEF AbandonMark, PoolTypes, QueueSize, Phases
    <3> QED BY <2>2, <3>1, <1>worker, <1>submit, <1>ask, <1>wait
            DEF AbandonMark, TryFinish, Finish
  <2> QED BY <1>6, <2>1, <2>2 DEF ShutDown
<1>7. ASSUME NEW s \in Submitter, SubmitCall(s) PROVE Shapes'
  <2>1. SubmitPlaces'
    BY <1>7, SubmitMoves
       DEF SubmitCall, SubmitStore, DispatchCheck, DispatchSend, SubmitRollback, SubmitReply
  <2>2. PoolTypes'
    <3>1. CASE queue' = Append(queue, submit[s].task) /\ Len(queue) < QueueSize
               /\ submit[s].pc = "send" /\ UNCHANGED <<door, published, phase, todo, firing>>
      <4>1. submit[s].task \in TaskID
        BY <3>1 DEF SubmitPlaces
      <4>2. queue \in Seq(TaskID) /\ Len(queue) \in Nat
        BY DEF PoolTypes
      <4>3. queue' \in Seq(TaskID) /\ Len(queue') <= QueueSize
        BY <3>1, <4>1, <4>2
      <4> QED BY <3>1, <4>3 DEF PoolTypes, QueueSize
    <3> QED BY <1>7, <3>1, <1>pool
            DEF SubmitCall, SubmitStore, DispatchCheck, DispatchSend, SubmitRollback,
                SubmitReply, SubmitStep
  <2> QED BY <1>7, <2>1, <2>2, <1>worker, <1>ask, <1>wait
          DEF SubmitCall, SubmitStore, DispatchCheck, DispatchSend, SubmitRollback,
              SubmitReply, SubmitStep, Submit, TryFinish, Finish
<1>8. ASSUME NEW w \in Worker, WorkerRun(w) PROVE Shapes'
  <2>1. CASE WorkerReceive(w)
    <3>1. Head(queue) \in TaskID /\ queue' \in Seq(TaskID) /\ Len(queue') <= QueueSize
      BY <2>1 DEF WorkerReceive, PoolTypes
    <3>2. WorkerPlaces' /\ PoolTypes'
      BY <2>1, <3>1 DEF WorkerReceive, At, WorkerPlaces, WorkerAt, PoolTypes, QueueSize
    <3> QED BY <2>1, <3>2, <1>submit, <1>ask, <1>wait DEF WorkerReceive
  <2>2. CASE WorkerRegister(w) \/ WorkerExit(w) \/ WorkerPublish(w)
    <3>1. WorkerPlaces'
      BY <2>2, WorkerMoves DEF WorkerRegister, WorkerExit, WorkerPublish
    <3>2. PoolTypes'
      BY <2>2 DEF WorkerRegister, WorkerExit, WorkerPublish, WorkerStep, WorkerPlaces,
                  PoolTypes, QueueSize
    <3> QED BY <2>2, <3>1, <3>2, <1>submit, <1>ask, <1>wait
            DEF WorkerRegister, WorkerExit, WorkerPublish, RegisterCancel, WorkerStep
  <2>3. CASE WorkerStart(w) \/ HandlerReturns(w)
    <3>1. WorkerPlaces'
      BY <2>3, WorkerMoves DEF WorkerStart, HandlerReturns
    <3> QED BY <2>3, <3>1, <1>pool, <1>submit, <1>ask, <1>wait
            DEF WorkerStart, HandlerReturns, WorkerStep, StartRunning
  <2>4. CASE WorkerFinish(w) \/ WorkerCleanup(w)
    <3>1. WorkerPlaces'
      BY <2>4, WorkerMoves DEF WorkerFinish, WorkerCleanup
    <3>2. PoolTypes'
      BY <2>4 DEF WorkerFinish, WorkerCleanup, WorkerStep, PoolTypes, QueueSize
    <3> QED BY <2>4, <3>1, <3>2, <1>submit, <1>ask, <1>wait
            DEF WorkerFinish, WorkerCleanup, WorkerStep, TryFinish, Finish
  <2> QED BY <1>8, <2>1, <2>2, <2>3, <2>4 DEF WorkerRun
<1>9. ASSUME NEW c \in Canceller, CancelCall(c) PROVE Shapes'
  <2>0. ask[c] \in AskAt /\ call[c] \in CallRecord
    BY DEF AskPlaces
  <2>1. AskPlaces'
    <3>1. CASE CancelLookup(c)
      <4>1. CASE AskStep(c, "received", "cancel") /\ CancelRead(c, ask[c].task)
        <5>1. /\ call'[c].pc = "fire" /\ call'[c].task = ask[c].task
              /\ \A d \in Canceller \ {c} : call'[d] = call[d]
          BY <4>1 DEF CancelRead, TInv, IInv, TypeOK
        <5>2. /\ ask' = [ask EXCEPT ![c] = [ask[c] EXCEPT !.pc = "cancel"]]
              /\ ask[c].pc = "received"
          BY <4>1 DEF AskStep
        <5>3. ask'[c] = [pc |-> "cancel", task |-> ask[c].task] /\ ask'[c] \in AskAt
          BY <2>0, <5>2 DEF AskPlaces, AskAt
        <5>4. ask' \in [Canceller -> AskAt] /\ \A d \in Canceller \ {c} : ask'[d] = ask[d]
          BY <5>2, <5>3 DEF AskPlaces
        <5>5. \A d \in Canceller \ {c} :
                /\ ask'[d].pc = "cancel" <=> call'[d].pc # "idle"
                /\ call'[d].pc # "idle" => call'[d].task = ask'[d].task
                /\ ask'[d].pc # "idle" => ask'[d].task \in TaskID
          BY <5>1, <5>4 DEF AskPlaces
        <5>6. ask'[c].pc = "cancel" /\ ask'[c].task = ask[c].task /\ ask[c].task \in TaskID
          BY <5>2, <5>3 DEF AskPlaces
        <5> QED BY <5>1, <5>4, <5>5, <5>6 DEF AskPlaces
      <4>2. CASE AskStep(c, "received", "idle") /\ UNCHANGED storeVars
        <5>1. ask' = [ask EXCEPT ![c] = Resting] /\ ask[c].pc = "received" /\ call' = call
          BY <4>2 DEF AskStep, storeVars
        <5>2. Resting.pc = "idle" /\ Resting \in AskAt
          BY DEF Resting, AskAt
        <5> QED BY <5>1, <5>2 DEF AskPlaces
      <4> QED BY <3>1, <4>1, <4>2 DEF CancelLookup
    <3>2. CASE CancelInterrupt(c)
      BY <2>0, <3>2 DEF CancelInterrupt, CancelFire, AskStep, Resting, Idle, CallRecord,
                        AskPlaces, AskAt
    <3>3. CASE CancelRecord(c)
      BY <2>0, <3>3 DEF CancelRecord, CancelMark, AskStep, Resting, Idle, AskPlaces, AskAt
    <3>4. CASE CancelReply(c)
      BY <2>0, <3>4 DEF CancelReply, AskStep, Resting, AskPlaces, AskAt
    <3> QED BY <1>9, <3>1, <3>2, <3>3, <3>4 DEF CancelCall
  <2> QED BY <1>9, <2>1, <1>pool, <1>worker, <1>submit, <1>wait
          DEF CancelCall, CancelLookup, CancelInterrupt, CancelRecord, CancelReply, AskStep
<1>10. ASSUME NEW x \in Waiter, WaitCall(x) PROVE Shapes'
  <2>1. WaitPlaces'
    BY <1>10 DEF WaitCall, WaitLookup, WaitWoken, WaitExpire, WaitAnswer, WaitStep, Resting,
                 WaitPlaces, WaitAt
  <2> QED BY <1>10, <2>1, <1>pool, <1>worker, <1>submit, <1>ask
          DEF WaitCall, WaitLookup, WaitWoken, WaitExpire, WaitAnswer, WaitStep
<1> QED BY <1>1, <1>2, <1>3, <1>4, <1>5, <1>6, <1>7, <1>8, <1>9, <1>10
        DEF AsyncNext, Requests

-----------------------------------------------------------------------------
\* Nobody but start-up does anything before the store serves.
LEMMA OnlyServing ==
  ASSUME TInv, [AsyncNext]_asyncVars, ~Boot, ~Gone, ~UNCHANGED asyncVars
  PROVE  stage = "serving" /\ stage' = "serving"
<1> USE DEF storeVars, poolVars, toolVars, downVars
<1>ord. stage # "serving" => Untouched
  BY DEF TInv, Order
<1>1. CASE Requests \/ StopReceiving
  BY <1>1 DEF Requests, SubmitReceive, CancelReceive, WaitReceive, StopReceiving, Receiving
<1>2. CASE ShutDown
  <2>1. stage = "serving"
    BY <1>2, <1>ord
       DEF ShutDown, AbandonSnapshot, AbandonMark, AbandonFire, AbandonDone, RunReturns, ShutDoor,
           CloseQueue, CloseStore, DownStep, Untouched
  <2>2. UNCHANGED stage
    BY <1>2 DEF ShutDown, AbandonSnapshot, AbandonMark, AbandonFire, AbandonDone, RunReturns,
                ShutDoor, CloseQueue, CloseStore, DownStep, TryFinish, Finish, Close
  <2> QED BY <2>1, <2>2
<1>3. ASSUME NEW s \in Submitter, SubmitCall(s) PROVE stage = "serving" /\ stage' = "serving"
  <2>1. submit[s].pc # "idle"
    BY <1>3 DEF SubmitCall, SubmitStore, DispatchCheck, DispatchSend, SubmitRollback,
                SubmitReply, SubmitStep
  <2>2. UNCHANGED stage
    BY <1>3 DEF SubmitCall, SubmitStore, DispatchCheck, DispatchSend, SubmitRollback,
                SubmitReply, Submit, TryFinish, Finish
  <2> QED BY <2>1, <2>2, <1>ord DEF Untouched, CallsServed
<1>4. ASSUME NEW w \in Worker, WorkerRun(w) PROVE stage = "serving" /\ stage' = "serving"
  <2>1. worker[w].pc # "idle" \/ queue # << >> \/ door = "closed"
    BY <1>4 DEF WorkerRun, WorkerReceive, WorkerExit, WorkerRegister, WorkerPublish,
                WorkerStart, HandlerReturns, WorkerFinish, WorkerCleanup, WorkerStep
  <2>2. UNCHANGED stage
    BY <1>4 DEF WorkerRun, WorkerReceive, WorkerExit, WorkerRegister, WorkerPublish,
                WorkerStart, HandlerReturns, WorkerFinish, WorkerCleanup, RegisterCancel,
                StartRunning, TryFinish, Finish
  <2> QED BY <2>1, <2>2, <1>ord DEF Untouched
<1>5. ASSUME NEW c \in Canceller, CancelCall(c) PROVE stage = "serving" /\ stage' = "serving"
  <2>1. ask[c].pc # "idle"
    BY <1>5 DEF CancelCall, CancelLookup, CancelInterrupt, CancelRecord, CancelReply, AskStep
  <2>2. UNCHANGED stage
    BY <1>5 DEF CancelCall, CancelLookup, CancelInterrupt, CancelRecord, CancelReply,
                CancelRead, CancelFire, CancelMark
  <2> QED BY <2>1, <2>2, <1>ord DEF Untouched, CallsServed
<1>6. ASSUME NEW x \in Waiter, WaitCall(x) PROVE stage = "serving" /\ stage' = "serving"
  <2>1. wait[x].pc # "idle" /\ UNCHANGED stage
    BY <1>6 DEF WaitCall, WaitLookup, WaitWoken, WaitExpire, WaitAnswer, WaitStep
  <2> QED BY <2>1, <1>ord DEF Untouched, CallsServed
<1> QED BY <1>1, <1>2, <1>3, <1>4, <1>5, <1>6 DEF AsyncNext

\* What start-up leaves alone.
LEMMA BootStill ==
  ASSUME Boot
  PROVE  /\ stage # "serving"
         /\ UNCHANGED <<queue, door, worker, published, submit, ask, wait, phase, todo, firing,
                        fired, call, closed>>
BY DEF Boot, poolVars, toolVars, downVars, StartUp, LoadManifest, RestoreLive, RestoreTerminal,
       Settling, SettleOwn, Finish, Serve

\* Each step of the shutdown waits for what the next one relies on.
LEMMA NextOrder == TInv /\ [AsyncNext]_asyncVars => Order'
<1> SUFFICES ASSUME TInv, [AsyncNext]_asyncVars PROVE Order'
  OBVIOUS
<1> USE DEF storeVars, poolVars, toolVars, downVars
<1>inv. Order /\ PoolTypes /\ WorkerPlaces /\ SubmitPlaces /\ AskPlaces /\ WaitPlaces
  BY DEF TInv, Shapes
<1>1. CASE Boot
  BY <1>1, <1>inv, BootStill DEF Order, Untouched, CallsServed
<1>2. CASE Gone \/ UNCHANGED asyncVars
  BY <1>2, <1>inv DEF Gone, asyncVars, Order, Untouched, CallsServed
<1> SUFFICES ASSUME stage = "serving", stage' = "serving" PROVE Order'
  BY <1>1, <1>2, OnlyServing
<1>same. ASSUME UNCHANGED <<phase, door, queue, closed, worker>>, CallsServed => CallsServed'
         PROVE  Order'
  BY <1>same, <1>inv DEF Order
<1>3. CASE Requests
  BY <1>3, <1>inv DEF Requests, SubmitReceive, CancelReceive, WaitReceive, Receiving, Order
<1>4. CASE StopReceiving
  BY <1>4, <1>inv DEF StopReceiving, DownStep, Order
<1>5. CASE ShutDown
  <2>1. CASE AbandonSnapshot \/ AbandonDone \/ RunReturns \/ ShutDoor \/ CloseQueue
    BY <2>1, <1>inv DEF AbandonSnapshot, AbandonDone, RunReturns, ShutDoor, CloseQueue, DownStep,
                        Order, CallsServed
  <2>2. CASE CloseStore
    BY <2>2, <1>inv DEF CloseStore, Close, DownStep, Order, CallsServed
  <2>3. CASE AbandonFire \/ \E t \in TaskID : AbandonMark(t)
    BY <2>3, <1>same DEF AbandonFire, AbandonMark, TryFinish, Finish, CallsServed
  <2> QED BY <1>5, <2>1, <2>2, <2>3 DEF ShutDown
<1>6. ASSUME NEW s \in Submitter, SubmitCall(s) PROVE Order'
  <2>1. submit[s].pc # "idle" /\ UNCHANGED <<phase, door, closed, worker>>
    BY <1>6 DEF SubmitCall, SubmitStore, DispatchCheck, DispatchSend, SubmitRollback, SubmitReply,
                SubmitStep, Submit, TryFinish, Finish
  <2>2. phase \notin {"closing", "joining", "exited"}
    BY <2>1, <1>inv DEF Order, CallsServed
  <2> QED BY <2>1, <2>2, <1>inv DEF Order
<1>7. ASSUME NEW w \in Worker, WorkerRun(w) PROVE Order'
  <2>1. worker[w].pc # "exited"
    BY <1>7 DEF WorkerRun, WorkerReceive, WorkerExit, WorkerRegister, WorkerPublish, WorkerStart,
                HandlerReturns, WorkerFinish, WorkerCleanup, WorkerStep
  <2>2. UNCHANGED <<phase, door, closed, submit, ask, wait>>
    BY <1>7 DEF WorkerRun, WorkerReceive, WorkerExit, WorkerRegister, WorkerPublish, WorkerStart,
                HandlerReturns, WorkerFinish, WorkerCleanup, WorkerStep, RegisterCancel,
                StartRunning, TryFinish, Finish
  <2>3. queue = << >> => queue' = << >>
    BY <1>7 DEF WorkerRun, WorkerReceive, WorkerExit, WorkerRegister, WorkerPublish, WorkerStart,
                HandlerReturns, WorkerFinish, WorkerCleanup, WorkerStep
  <2>4. ASSUME NEW v \in Worker, worker'[v].pc = "exited"
        PROVE  worker[v].pc = "exited" \/ (door = "closed" /\ queue = << >>)
    <3>1. worker[w] \in WorkerAt
      BY <1>inv DEF WorkerPlaces
    <3> QED BY <1>7, <2>4, <3>1, <1>inv
            DEF WorkerRun, WorkerReceive, WorkerExit, WorkerRegister, WorkerPublish, WorkerStart,
                HandlerReturns, WorkerFinish, WorkerCleanup, WorkerStep, WorkerPlaces, WorkerAt,
                Resting, At
  <2>5. phase # "exited"
    BY <2>1, <1>inv DEF Order
  <2> QED BY <2>2, <2>3, <2>4, <2>5, <1>inv DEF Order, CallsServed
<1>8. ASSUME NEW c \in Canceller, CancelCall(c) PROVE Order'
  <2>1. ask[c].pc # "idle" /\ UNCHANGED <<phase, door, queue, closed, worker>>
    BY <1>8 DEF CancelCall, CancelLookup, CancelInterrupt, CancelRecord, CancelReply, AskStep,
                CancelRead, CancelFire, CancelMark
  <2> QED BY <2>1, <1>same DEF CallsServed
<1>9. ASSUME NEW x \in Waiter, WaitCall(x) PROVE Order'
  <2>1. wait[x].pc # "idle" /\ UNCHANGED <<phase, door, queue, closed, worker>>
    BY <1>9 DEF WaitCall, WaitLookup, WaitWoken, WaitExpire, WaitAnswer, WaitStep
  <2> QED BY <2>1, <1>same DEF CallsServed
<1> QED BY <1>1, <1>2, <1>3, <1>4, <1>5, <1>6, <1>7, <1>8, <1>9 DEF AsyncNext

\* The layer starts in the invariant ...
LEMMA InitTInv == AsyncInit => TInv
<1> SUFFICES ASSUME AsyncInit PROVE TInv
  OBVIOUS
<1>1. IInv
  BY InitIInv DEF AsyncInit
<1>2. NoTask \notin TaskID /\ QueueSize \in Nat
  BY ConstantsAssumption DEF ConstantsAssumption, QueueSize
<1>3. Shapes
  BY <1>2 DEF AsyncInit, Init, Shapes, PoolTypes, WorkerPlaces, SubmitPlaces, AskPlaces,
              WaitPlaces, WorkerAt, SubmitAt, AskAt, WaitAt, Resting, Idle, Phases
<1>4. Order
  BY DEF AsyncInit, Init, Order, Untouched, CallsServed, Resting
<1> QED BY <1>1, <1>3, <1>4 DEF TInv

\* ... and never leaves it.
LEMMA TInvAlways == AsyncSpec => []TInv
<1>1. TInv /\ [AsyncNext]_asyncVars => TInv'
  BY NextStore, NextShapes, NextOrder DEF TInv
<1> QED BY InitTInv, <1>1, PTL DEF AsyncSpec

-----------------------------------------------------------------------------
\* THEOREMS

\* Every variable of the layer keeps its type: in particular the channel
\* never holds more jobs than it has room for.
THEOREM AsyncTypeCorrect == AsyncSpec => []AsyncTypeOK
<1>1. TInv => AsyncTypeOK
  BY DEF TInv, IInv, Shapes, PoolTypes, WorkerPlaces, SubmitPlaces, AskPlaces, WaitPlaces,
         WorkerAt, SubmitAt, AskAt, WaitAt, AsyncTypeOK
<1> QED BY TInvAlways, <1>1, PTL

\* No submit_image_task call stands between Dispatch's check of the closed
\* flag and its send once the channel is closed, where the send would panic
\* (dispatcher.go:166-171 against 224-228): Run returns only when its calls
\* have been served, and main closes the dispatcher after Run.
THEOREM SendsBeforeClose == AsyncSpec => []NoSendAfterClose
<1>1. TInv => NoSendAfterClose
  BY DEF TInv, Order, CallsServed, NoSendAfterClose
<1> QED BY TInvAlways, <1>1, PTL
=============================================================================
