----------------------------- MODULE AsyncTasks -----------------------------
(***************************************************************************)
(* The asynchronous task layer: the tools of internal/tools/async.go, the  *)
(* worker pool of internal/tools/dispatcher.go and the shutdown sequence   *)
(* of server.Run and main, over the store of TaskStore.  Every goroutine   *)
(* is a process with a program counter; a step is what it does between two *)
(* points where another can interfere (a lock taken and released, a        *)
(* channel operation, a cancel func called, a return from the handler).    *)
(***************************************************************************)
EXTENDS TaskStore

CONSTANTS Worker,     \* goroutines of the dispatcher's pool
          Submitter,  \* concurrent submit_image_task calls
          Waiter      \* concurrent get_task_result calls with wait > 0

\* NewDispatcher puts the default in for no workers at all.
ASSUME WorkerAssumption == Worker # {}

\* bootstrapTaskstore gives the dispatcher's channel the store's bound.
QueueSize == MaxQueued

VARIABLES
  queue,      \* d.workQueue, the tasks of the buffered jobs
  door,       \* d.closed and the channel: "open", "shut" (flag set), "closed"
  worker,     \* [Worker -> where its runJob stands]
  published,  \* the keys of d.running
  submit,     \* [Submitter -> where the handler stands]
  ask,        \* [Canceller -> where its cancel_task handler stands]
  wait,       \* [Waiter -> where its get_task_result handler stands]
  phase,      \* how far Run and main are in the shutdown sequence
  todo,       \* AbandonRunning: tasks of its snapshot not handled yet
  firing      \* AbandonRunning: the task marked, its ctx not yet cancelled

storeVars == <<records, fired, closed, stage, now, call>>
poolVars  == <<queue, door, worker, published>>
toolVars  == <<submit, ask, wait>>
downVars  == <<phase, todo, firing>>
asyncVars == <<storeVars, poolVars, toolVars, downVars>>

Resting == [pc |-> "idle", task |-> NoTask]
At(p, t) == [pc |-> p, task |-> t]

Phases == {"serving", "snapshot", "abandoning", "draining", "closing",
           "joining", "exited"}

AsyncTypeOK ==
  /\ TypeOK
  /\ queue \in Seq(TaskID) /\ Len(queue) <= QueueSize
  /\ door \in {"open", "shut", "closed"}
  /\ worker \in [Worker ->
       [pc : {"idle", "register", "publish", "start", "run", "completed",
              "failed", "cleanup", "exited"}, task : TaskID \cup {NoTask}]]
  /\ published \subseteq TaskID
  /\ submit \in [Submitter ->
       [pc : {"idle", "received", "dispatch", "send", "failed", "abandoned",
              "get"}, task : TaskID \cup {NoTask}]]
  /\ ask \in [Canceller ->
       [pc : {"idle", "received", "cancel", "get"},
        task : TaskID \cup {NoTask}]]
  /\ wait \in [Waiter ->
       [pc : {"idle", "received", "blocked", "woken", "expired"},
        task : TaskID \cup {NoTask}]]
  /\ phase \in Phases
  /\ todo \subseteq TaskID
  /\ firing \in TaskID \cup {NoTask}

AsyncInit ==
  /\ Init
  /\ queue = << >>
  /\ door = "open"
  /\ worker = [w \in Worker |-> Resting]
  /\ published = {}
  /\ submit = [s \in Submitter |-> Resting]
  /\ ask = [c \in Canceller |-> Resting]
  /\ wait = [x \in Waiter |-> Resting]
  /\ phase = "serving"
  /\ todo = {}
  /\ firing = NoTask

\* What the store does before the tools exist.  Times order only what is
\* evicted, which TaskStore's runs check: the clock stands still here.
Boot == StartUp /\ UNCHANGED <<poolVars, toolVars, downVars>>

\* A Transition whose error the caller only logs.
TryFinish(t, to) ==
  \/ Finish(t, to)
  \/ ~Accepts(t, to) /\ UNCHANGED storeVars

\* The recv loop hands calls over while it runs; a call it has handed over is
\* served to its end, also during the shutdown.
Receiving == stage = "serving" /\ phase = "serving"

-----------------------------------------------------------------------------
\* submit_image_task.

SubmitStep(s, from, to) ==
  /\ submit[s].pc = from
  /\ submit' = [submit EXCEPT ![s] = IF to = "idle" THEN Resting
                                     ELSE [@ EXCEPT !.pc = to]]
  /\ UNCHANGED <<ask, wait, downVars>>

\* The identifier the call's Submit will mint is chosen here; it is fresh.
SubmitReceive(s, t) ==
  /\ Receiving
  /\ submit[s].pc = "idle"
  /\ t \in TaskID \ Loadable /\ state[t] = "unborn"
  /\ \A o \in Submitter : submit[o].task # t
  /\ submit' = [submit EXCEPT ![s] = At("received", t)]
  /\ UNCHANGED <<storeVars, poolVars, ask, wait, downVars>>

SubmitStore(s) ==
  \/ /\ SubmitStep(s, "received", "dispatch")
     /\ Submit(submit[s].task)
     /\ UNCHANGED poolVars
  \/ /\ ~Admissible
     /\ SubmitStep(s, "received", "idle")
     /\ UNCHANGED <<storeVars, poolVars>>

\* Mutant: the buffer takes one job more than its size.
SendOverSize(s) ==
  /\ Len(queue) <= QueueSize
  /\ queue' = Append(queue, submit[s].task)
  /\ SubmitStep(s, "send", "get")
  /\ UNCHANGED <<storeVars, door, worker, published>>

\* Dispatch: the closed flag, then a send that does not block.  A send after
\* close(d.workQueue) would panic: NoSendAfterClose says it cannot happen.
DispatchCheck(s) ==
  /\ SubmitStep(s, "dispatch", IF door = "open" THEN "send" ELSE "abandoned")
  /\ UNCHANGED <<storeVars, poolVars>>

DispatchSend(s) ==
  /\ door # "closed"
  /\ \/ /\ Len(queue) < QueueSize
        /\ queue' = Append(queue, submit[s].task)
        /\ SubmitStep(s, "send", "get")
     \/ /\ Len(queue) = QueueSize
        /\ SubmitStep(s, "send", "failed")
        /\ UNCHANGED queue
  /\ UNCHANGED <<storeVars, door, worker, published>>

\* Mutant: the error is returned and the task left queued.
SubmitGivesUp(s) ==
  /\ \E to \in {"failed", "abandoned"} : SubmitStep(s, to, "idle")
  /\ UNCHANGED <<storeVars, poolVars>>

\* On a failed Dispatch the handler ends the task itself.
SubmitRollback(s) ==
  /\ \E to \in {"failed", "abandoned"} :
       /\ SubmitStep(s, to, "idle")
       /\ TryFinish(submit[s].task, to)
  /\ UNCHANGED poolVars

\* The reply is built from a Get whose error is dropped.
SubmitReply(s) ==
  /\ SubmitStep(s, "get", "idle")
  /\ UNCHANGED <<storeVars, poolVars>>

-----------------------------------------------------------------------------
\* Dispatcher.worker and runJob.

WorkerStep(w, from, to) ==
  /\ worker[w].pc = from
  /\ worker' = [worker EXCEPT ![w] = IF to = "idle" THEN Resting
                                     ELSE [@ EXCEPT !.pc = to]]
  /\ UNCHANGED <<door, toolVars, downVars>>

WorkerReceive(w) ==
  /\ worker[w].pc = "idle"
  /\ queue # << >>
  /\ worker' = [worker EXCEPT ![w] = At("register", Head(queue))]
  /\ queue' = Tail(queue)
  /\ UNCHANGED <<storeVars, door, published, toolVars, downVars>>

\* The channel is closed and drained.
WorkerExit(w) ==
  /\ queue = << >> /\ door = "closed"
  /\ WorkerStep(w, "idle", "exited")
  /\ UNCHANGED <<storeVars, queue, published>>

\* RegisterCancel; only an unknown task is refused.
WorkerRegister(w) ==
  LET t == worker[w].task
  IN  /\ \/ WorkerStep(w, "register", "publish") /\ RegisterCancel(t)
         \/ /\ WorkerStep(w, "register", "publish")
            /\ state[t] \in Terminal
            /\ UNCHANGED storeVars
         \/ /\ WorkerStep(w, "register", "idle")
            /\ ~Present(t)
            /\ UNCHANGED storeVars
      /\ UNCHANGED <<queue, published>>

WorkerPublish(w) ==
  /\ WorkerStep(w, "publish", "start")
  /\ published' = published \cup {worker[w].task}
  /\ UNCHANGED <<storeVars, queue>>

WorkerStart(w) ==
  /\ \/ /\ WorkerStep(w, "start", "run")
        /\ StartRunning(worker[w].task)
     \/ /\ WorkerStep(w, "start", "cleanup")
        /\ ~Accepts(worker[w].task, "running")
        /\ UNCHANGED storeVars
  /\ UNCHANGED <<queue, published>>

\* Mutant: the job leaves d.running before its result is recorded.
UnpublishOnReturn(w) ==
  /\ worker[w].pc = "run"
  /\ IF worker[w].task \in fired
       THEN WorkerStep(w, "run", "cleanup")
       ELSE \E out \in {"completed", "failed"} : WorkerStep(w, "run", out)
  /\ published' = published \ {worker[w].task}
  /\ UNCHANGED <<storeVars, queue>>

\* The image handler returns, with a result or an error (a panic is one).  If
\* the job context is cancelled by then, the end is left to the canceller.
HandlerReturns(w) ==
  /\ worker[w].pc = "run"
  /\ IF worker[w].task \in fired
       THEN WorkerStep(w, "run", "cleanup")
       ELSE \E out \in {"completed", "failed"} : WorkerStep(w, "run", out)
  /\ UNCHANGED <<storeVars, queue, published>>

\* Mutant: a failure is logged and not recorded.
RecordSuccess(w) ==
  /\ \/ WorkerStep(w, "completed", "cleanup") /\ TryFinish(worker[w].task, "completed")
     \/ WorkerStep(w, "failed", "cleanup") /\ UNCHANGED storeVars
  /\ UNCHANGED <<queue, published>>

\* The result, or the failure, is recorded.
WorkerFinish(w) ==
  /\ \E out \in {"completed", "failed"} :
       /\ WorkerStep(w, out, "cleanup")
       /\ TryFinish(worker[w].task, out)
  /\ UNCHANGED <<queue, published>>

WorkerCleanup(w) ==
  /\ WorkerStep(w, "cleanup", "idle")
  /\ published' = published \ {worker[w].task}
  /\ UNCHANGED <<storeVars, queue>>

-----------------------------------------------------------------------------
\* cancel_task.

AskStep(c, from, to) ==
  /\ ask[c].pc = from
  /\ ask' = [ask EXCEPT ![c] = IF to = "idle" THEN Resting
                               ELSE [@ EXCEPT !.pc = to]]
  /\ UNCHANGED <<poolVars, submit, wait, downVars>>

CancelReceive(c, t) ==
  /\ Receiving
  /\ ask[c].pc = "idle"
  /\ state[t] # "unborn"
  /\ ask' = [ask EXCEPT ![c] = At("received", t)]
  /\ UNCHANGED <<storeVars, poolVars, submit, wait, downVars>>

\* An unknown or foreign task is reported at once.
CancelLookup(c) ==
  \/ /\ AskStep(c, "received", "cancel")
     /\ CancelRead(c, ask[c].task)
  \/ /\ AskStep(c, "received", "idle")
     /\ ~(Present(ask[c].task) /\ Mine(ask[c].task))
     /\ UNCHANGED storeVars

CancelInterrupt(c) ==
  /\ CancelFire(c)
  /\ AskStep(c, "cancel", IF call[c].over THEN "get" ELSE "cancel")

CancelRecord(c) ==
  /\ CancelMark(c)
  /\ AskStep(c, "cancel", IF closed THEN "idle" ELSE "get")

\* The reply is built from a Get whose error is dropped.
CancelReply(c) ==
  /\ AskStep(c, "get", "idle")
  /\ UNCHANGED storeVars

-----------------------------------------------------------------------------
\* get_task_result with a wait.

WaitStep(x, from, to) ==
  /\ wait[x].pc = from
  /\ wait' = [wait EXCEPT ![x] = IF to = "idle" THEN Resting
                                 ELSE [@ EXCEPT !.pc = to]]
  /\ UNCHANGED <<storeVars, poolVars, submit, ask, downVars>>

WaitReceive(x, t) ==
  /\ Receiving
  /\ wait[x].pc = "idle"
  /\ state[t] # "unborn"
  /\ wait' = [wait EXCEPT ![x] = At("received", t)]
  /\ UNCHANGED <<storeVars, poolVars, submit, ask, downVars>>

\* An ended or unknown task is answered at once.
WaitLookup(x) ==
  /\ wait[x].pc = "received"
  /\ WaitStep(x, "received",
              IF state[wait[x].task] \in Live THEN "blocked" ELSE "idle")

\* The select of Wait: the done channel is closed, or the context is done.
WaitWoken(x)  == wait[x].task \in done /\ WaitStep(x, "blocked", "woken")
WaitExpire(x) == WaitStep(x, "blocked", "expired")

\* Both branches read the record again and answer.
WaitAnswer(x) == WaitStep(x, "woken", "idle") \/ WaitStep(x, "expired", "idle")

-----------------------------------------------------------------------------
\* The shutdown: server.Run from the end of its recv loop, then main.

DownStep(from, to) ==
  /\ phase = from
  /\ phase' = to
  /\ UNCHANGED toolVars

\* A signal or the end of the input ends the recv loop.
StopReceiving ==
  /\ Receiving
  /\ DownStep("serving", "snapshot")
  /\ UNCHANGED <<storeVars, poolVars, todo, firing>>

\* AbandonRunning copies d.running under its mutex, then handles the tasks in
\* map order: Transition to abandoned, then the cancel func.
AbandonSnapshot ==
  /\ DownStep("snapshot", "abandoning")
  /\ todo' = published
  /\ UNCHANGED <<storeVars, poolVars, firing>>

AbandonMark(t) ==
  /\ phase = "abandoning" /\ t \in todo /\ firing = NoTask
  /\ TryFinish(t, "abandoned")
  /\ firing' = t
  /\ todo' = todo \ {t}
  /\ UNCHANGED <<poolVars, toolVars, phase>>

AbandonFire ==
  /\ firing # NoTask
  /\ fired' = fired \cup {firing}
  /\ firing' = NoTask
  /\ UNCHANGED <<records, closed, stage, now, call, poolVars, toolVars, phase,
                 todo>>

\* The request queue is closed; the calls in it are still served.
AbandonDone ==
  /\ todo = {} /\ firing = NoTask
  /\ DownStep("abandoning", "draining")
  /\ UNCHANGED <<storeVars, poolVars, todo, firing>>

\* Mutant: Run does not wait for the submit_image_task calls.
CancelsServed == \A c \in Canceller : ask[c].pc = "idle"

\* Run returns once its workers have served every call (workersWG.Wait).
CallsServed == /\ \A s \in Submitter : submit[s].pc = "idle"
               /\ \A c \in Canceller : ask[c].pc = "idle"
               /\ \A x \in Waiter : wait[x].pc = "idle"

RunReturns ==
  /\ CallsServed
  /\ DownStep("draining", "closing")
  /\ UNCHANGED <<storeVars, poolVars, todo, firing>>

\* Dispatcher.Close: the flag, then the channel, then wait for the workers.
ShutDoor ==
  /\ phase = "closing" /\ door = "open"
  /\ door' = "shut"
  /\ UNCHANGED <<storeVars, queue, worker, published, toolVars, downVars>>

\* Mutant: the flag is all that is set.
LeaveQueueOpen ==
  /\ door = "shut"
  /\ DownStep("closing", "joining")
  /\ UNCHANGED <<storeVars, poolVars, todo, firing>>

CloseQueue ==
  /\ door = "shut" /\ door' = "closed"
  /\ DownStep("closing", "joining")
  /\ UNCHANGED <<storeVars, queue, worker, published, todo, firing>>

\* Mutant: main does not wait for the workers.
CloseStoreAtOnce ==
  /\ DownStep("joining", "exited")
  /\ Close
  /\ UNCHANGED <<poolVars, todo, firing>>

\* The workers have returned: main closes the store and the process ends.
CloseStore ==
  /\ \A w \in Worker : worker[w].pc = "exited"
  /\ DownStep("joining", "exited")
  /\ Close
  /\ UNCHANGED <<poolVars, todo, firing>>

Gone == phase = "exited" /\ UNCHANGED asyncVars

-----------------------------------------------------------------------------
SubmitCall(s) == \/ SubmitStore(s) \/ DispatchCheck(s) \/ DispatchSend(s)
                 \/ SubmitRollback(s) \/ SubmitReply(s)

WorkerRun(w) == \/ WorkerReceive(w) \/ WorkerExit(w) \/ WorkerRegister(w)
                \/ WorkerPublish(w) \/ WorkerStart(w) \/ HandlerReturns(w)
                \/ WorkerFinish(w) \/ WorkerCleanup(w)

CancelCall(c) == \/ CancelLookup(c) \/ CancelInterrupt(c) \/ CancelRecord(c)
                 \/ CancelReply(c)

WaitCall(x) == WaitLookup(x) \/ WaitWoken(x) \/ WaitExpire(x) \/ WaitAnswer(x)

ShutDown == \/ AbandonSnapshot \/ AbandonFire \/ AbandonDone \/ RunReturns
            \/ ShutDoor \/ CloseQueue \/ CloseStore
            \/ \E t \in TaskID : AbandonMark(t)

Requests == \E t \in TaskID : \/ \E s \in Submitter : SubmitReceive(s, t)
                              \/ \E c \in Canceller : CancelReceive(c, t)
                              \/ \E x \in Waiter : WaitReceive(x, t)

AsyncNext ==
  \/ Boot
  \/ Requests
  \/ StopReceiving
  \/ ShutDown
  \/ Gone
  \/ \E s \in Submitter : SubmitCall(s)
  \/ \E w \in Worker : WorkerRun(w)
  \/ \E c \in Canceller : CancelCall(c)
  \/ \E x \in Waiter : WaitCall(x)

AsyncSpec == AsyncInit /\ [][AsyncNext]_asyncVars

\* Goroutines that can run do run; a handler returns because the provider's
\* HTTP client has a timeout (config.go:14, openai.go:46), and a long poll on a
\* task that never ends because its timeout does (async.go:325, 338).  Nothing
\* is assumed of clients or of signals.
Fairness ==
  /\ WF_asyncVars(Boot)
  /\ WF_asyncVars(ShutDown)
  /\ \A s \in Submitter : WF_asyncVars(SubmitCall(s))
  /\ \A w \in Worker : WF_asyncVars(WorkerRun(w))
  /\ \A c \in Canceller : WF_asyncVars(CancelCall(c))
  /\ \A x \in Waiter : WF_asyncVars(WaitCall(x))

FairAsyncSpec == AsyncSpec /\ Fairness

-----------------------------------------------------------------------------
\* PROPERTIES

\* Nobody is left behind: every task of this process that has not ended is in
\* the hands of someone who will end it.  A queued one is buffered, or held by
\* the submit call or the worker that moves it on; a running one has a worker
\* in its handler or about to record its result, or a cancel_task call that
\* has interrupted it and has yet to record it.
CarriedBy(t) ==
  \/ \E w \in Worker : worker[w].task = t /\ worker[w].pc \notin {"cleanup", "exited"}
  \/ \E c \in Canceller : call[c].task = t /\ call[c].pc = "mark"
  \/ /\ state[t] = "queued"
     /\ \/ t \in Elements(queue)
        \/ \E s \in Submitter : submit[s].task = t

NoGhostTask ==
  stage = "serving" =>
    \A t \in TaskID : state[t] \in Live /\ Mine(t) => CarriedBy(t)

\* AbandonRunning can reach every running task whose worker still has to be
\* told: it is in d.running until the worker has left it.
RunningIsPublished ==
  \A w \in Worker : worker[w].pc \in {"start", "run", "completed", "failed"} =>
    worker[w].task \in published

\* No Dispatch is between its check and its send once the channel is closed,
\* where the send would panic (dispatcher.go:166-171 against 224-228).
NoSendAfterClose ==
  door = "closed" => \A s \in Submitter : submit[s].pc # "send"

\* The channel has room for every admitted task that still waits: a send finds
\* it full only because cancelled jobs still occupy it (main.go:208).
FullOnlyOfStaleJobs ==
  \A s \in Submitter :
    /\ submit[s].pc = "send"
    /\ state[submit[s].task] = "queued"
    /\ Len(queue) = QueueSize
    => \E t \in Elements(queue) : state[t] # "queued"

\* A cancel_task call that reports success leaves no live task behind.
CancelledIsOver ==
  \A c \in Canceller : ask[c].pc = "get" => state[ask[c].task] \notin Live

\* When the process ends, no task of its own is left queued or running, so
\* no manifest claims otherwise (README.md:449).
ExitLeavesNoLiveTask ==
  phase = "exited" => \A t \in TaskID : Mine(t) => state[t] \notin Live

\* Every submitted task ends.
EveryTaskEnds ==
  \A t \in TaskID :
    (state[t] \in Live /\ Mine(t)) ~> (state[t] \in Terminal \cup {"evicted"})

\* Once the input ends, the process ends: Run, Dispatcher.Close and main wait
\* for nobody who waits for them.
ShutdownCompletes == phase # "serving" ~> phase = "exited"

\* What the documentation says, and the code does not do:

\* A task that cancel_task has recorded as cancelled has had its context
\* cancelled, so its worker is being released (README.md:453).
CancelReachesWorker ==
  \A w \in Worker : worker[w].pc = "run" /\ state[worker[w].task] = "cancelled"
    => worker[w].task \in fired

\* The reply of a tool shows the task it was asked about (README.md:389-392).
ReplyNamesTask ==
  /\ \A s \in Submitter : submit[s].pc = "get" => Present(submit[s].task)
  /\ \A c \in Canceller : ask[c].pc = "get" => Present(ask[c].task)
  /\ \A x \in Waiter : wait[x].pc = "expired" => Present(wait[x].task)
=============================================================================
