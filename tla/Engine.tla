------------------------------- MODULE Engine -------------------------------
(***************************************************************************)
(* The request engine of internal/server/server.go: the recv loop, the     *)
(* bounded work queue with its synchronous fallback, the worker pool and   *)
(* the graceful shutdown, together with what it drives in other packages:  *)
(* the cancellation registry and the initialized flag of the protocol      *)
(* handler, and Write and Close of the stdio connection.                   *)
(*                                                                         *)
(* A goroutine that executes requests is an actor: a worker, or the recv   *)
(* loop, which serves short messages and, when the queue is full, a call.  *)
(***************************************************************************)
EXTENDS Integers, Sequences, FiniteSets

CONSTANTS Call,              \* tools/call requests a client may send
          Key,               \* request ids as normalizeID renders them
          KeyOf,             \* [Call -> its key, or NoKey for a null id]
          Worker,            \* goroutines of the pool
          Loop,              \* the goroutine of Run and recvLoop
          RequestQueueSize,  \* capacity of the work queue
          RequestTimeout,    \* whether a per-request timeout is configured
          NoCall, NoKey

ASSUME EngineAssumption ==
  /\ IsFiniteSet(Call) /\ NoCall \notin Call
  /\ NoKey \notin Key /\ KeyOf \in [Call -> Key \cup {NoKey}]
  /\ IsFiniteSet(Worker) /\ Loop \notin Worker
  /\ RequestQueueSize \in Nat \ {0}
  /\ RequestTimeout \in BOOLEAN
  /\ Key \cap {"query", "initialized", "shutdown"} = {}

Actor == Worker \cup {Loop}

\* Messages served on the recv loop: one that is answered and changes nothing
\* (initialize, tools/list, unknown, malformed), the two that move the flag,
\* and notifications/cancelled, which is named by the key of its requestId.
Message == {"query", "initialized", "shutdown"} \cup Key

VARIABLES
  at,            \* [Actor -> where it stands]
  job,           \* [Actor -> the call it holds, or NoCall]
  message,       \* the message the recv loop is serving
  ctx,           \* [Call -> its context: "none" before it is read, "live",
                 \*  "cancelled", or "over" once its job has released it]
  pending,       \* [Key -> the call whose cancel func is registered]
  interrupting,  \* the cancel func taken from the registry, not yet called
  queue,         \* s.workQueue
  inflight,      \* the WaitGroup s.inflight
  completed,     \* the calls counted by metrics.completed
  initialized,   \* MCPHandler.initialized
  written,       \* calls whose response is on the wire
  failed,        \* calls that were left without a response by a panic, an
                 \*  error of HandleMessage, the encoder or the writer
  stopping,      \* the context of Run is cancelled
  engineDone,    \* the engine context is cancelled
  abandoned,     \* server.shutdown_force_abandon has been logged
  phase          \* how far Run is

actorVars  == <<at, job, message>>
cancelVars == <<ctx, pending, interrupting>>
countVars  == <<queue, inflight, completed>>
replyVars  == <<initialized, written, failed>>
runVars    == <<stopping, engineDone, abandoned, phase>>
vars       == <<actorVars, cancelVars, countVars, replyVars, runVars>>

\* An actor in one of these places has been counted by inflight.Add.
Serving == {"notice", "interrupt", "handle", "tool", "write", "lock", "send",
            "done", "count", "release"}
LoopAlone == {"check", "read", "register", "supersede", "enqueue", "ended"}
Phases == {"serving", "draining", "forced", "closing", "joining", "stopped"}

TypeOK ==
  /\ at \in [Actor -> Serving \cup LoopAlone \cup {"idle", "exited"}]
  /\ job \in [Actor -> Call \cup {NoCall}]
  /\ message \in Message
  /\ ctx \in [Call -> {"none", "live", "cancelled", "over"}]
  /\ pending \in [Key -> Call \cup {NoCall}]
  /\ interrupting \in Call \cup {NoCall}
  /\ queue \in Seq(Call) /\ Len(queue) <= RequestQueueSize
  /\ inflight \in Nat
  /\ completed \subseteq Call
  /\ written \subseteq Call /\ failed \subseteq Call
  /\ initialized \in BOOLEAN /\ stopping \in BOOLEAN
  /\ engineDone \in BOOLEAN /\ abandoned \in BOOLEAN
  /\ phase \in Phases

Init ==
  /\ at = [a \in Actor |-> IF a = Loop THEN "check" ELSE "idle"]
  /\ job = [a \in Actor |-> NoCall]
  /\ message = "query"
  /\ ctx = [c \in Call |-> "none"]
  /\ pending = [k \in Key |-> NoCall]
  /\ interrupting = NoCall
  /\ queue = << >> /\ inflight = 0 /\ completed = {}
  /\ initialized = FALSE /\ written = {} /\ failed = {}
  /\ stopping = FALSE /\ engineDone = FALSE /\ abandoned = FALSE
  /\ phase = "serving"

Step(a, from, to) == at[a] = from /\ at' = [at EXCEPT ![a] = to]

\* Mutant: the connection is closed as soon as the recv loop returns.
ClosedWithLoop == phase # "serving"

\* Run closes the connection between "closing" and "joining".
ConnClosed == phase \in {"joining", "stopped"}

\* Err() of the context an actor works under: a call's, or the engine's.
CtxDone(a) == engineDone \/ (job[a] # NoCall /\ ctx[job[a]] = "cancelled")

-----------------------------------------------------------------------------
\* The recv loop.

\* recvLoop returns; Run calls the abandon hook, which touches nothing here and
\* whose panic is contained, and closes the work queue.
EndLoop ==
  /\ at' = [at EXCEPT ![Loop] = "ended"]
  /\ phase' = "draining"
  /\ UNCHANGED <<job, message, cancelVars, countVars, replyVars, stopping,
                 engineDone, abandoned>>

LoopCheck ==
  /\ at[Loop] = "check"
  /\ \/ stopping /\ EndLoop
     \/ /\ ~stopping /\ Step(Loop, "check", "read")
        /\ UNCHANGED <<job, message, cancelVars, countVars, replyVars, runVars>>

\* Mutant: a pending Read does not observe its context.
ReadIgnoresCtx == FALSE

ReadCancelled == at[Loop] = "read" /\ stopping /\ EndLoop

\* The end of the input, or a read error, which Run returns at its end.
ReadEOF == at[Loop] = "read" /\ EndLoop

ReadCall(c) ==
  /\ ctx[c] = "none"
  /\ Step(Loop, "read", IF KeyOf[c] = NoKey THEN "enqueue" ELSE "register")
  /\ job' = [job EXCEPT ![Loop] = c]
  /\ ctx' = [ctx EXCEPT ![c] = "live"]
  /\ UNCHANGED <<message, pending, interrupting, countVars, replyVars, runVars>>

ReadMessage(m) ==
  /\ Step(Loop, "read", "notice")
  /\ message' = m
  /\ inflight' = inflight + 1
  /\ UNCHANGED <<job, cancelVars, queue, completed, replyVars, runVars>>

\* Mutant: a call is registered only on its way to the queue.
RegisterIfRoom ==
  LET k == KeyOf[job[Loop]]
  IN  /\ Step(Loop, "register", IF pending[k] = NoCall THEN "enqueue"
                                ELSE "supersede")
      /\ interrupting' = pending[k]
      /\ pending' = IF Len(queue) < RequestQueueSize
                      THEN [pending EXCEPT ![k] = job[Loop]] ELSE pending
      /\ UNCHANGED <<job, message, ctx, countVars, replyVars, runVars>>

\* CancellationRegistry.Register, and the cancel func it displaces.
Register ==
  LET k == KeyOf[job[Loop]]
  IN  /\ Step(Loop, "register", IF pending[k] = NoCall THEN "enqueue"
                                ELSE "supersede")
      /\ interrupting' = pending[k]
      /\ pending' = [pending EXCEPT ![k] = job[Loop]]
      /\ UNCHANGED <<job, message, ctx, countVars, replyVars, runVars>>

\* Mutant: the cancel func is looked up and not called.
DropInterrupt == UNCHANGED ctx /\ interrupting' = NoCall

\* Calling a cancel func; it has no effect on a context that is done.
Interrupt ==
  /\ ctx' = [ctx EXCEPT ![interrupting] = IF @ = "live" THEN "cancelled" ELSE @]
  /\ interrupting' = NoCall

Supersede ==
  /\ Step(Loop, "supersede", "enqueue")
  /\ Interrupt
  /\ UNCHANGED <<job, message, pending, countVars, replyVars, runVars>>

\* Mutant: the queue takes one job more than its size.
SendOverSize ==
  /\ at[Loop] = "enqueue" /\ Len(queue) <= RequestQueueSize
  /\ queue' = Append(queue, job[Loop])
  /\ at' = [at EXCEPT ![Loop] = "check"]
  /\ job' = [job EXCEPT ![Loop] = NoCall]
  /\ inflight' = inflight + 1
  /\ UNCHANGED <<message, cancelVars, completed, replyVars, runVars>>

\* Mutant: only a job that is sent to the queue is counted.
CountQueued ==
  /\ at[Loop] = "enqueue"
  /\ \/ /\ Len(queue) < RequestQueueSize
        /\ queue' = Append(queue, job[Loop])
        /\ at' = [at EXCEPT ![Loop] = "check"]
        /\ job' = [job EXCEPT ![Loop] = NoCall]
        /\ inflight' = inflight + 1
     \/ /\ Len(queue) = RequestQueueSize
        /\ at' = [at EXCEPT ![Loop] = "handle"]
        /\ UNCHANGED <<queue, job, inflight>>
  /\ UNCHANGED <<message, cancelVars, completed, replyVars, runVars>>

\* The send that does not block, or the fallback on the recv loop.
Enqueue ==
  /\ inflight' = inflight + 1
  /\ \/ /\ Len(queue) < RequestQueueSize
        /\ Step(Loop, "enqueue", "check")
        /\ queue' = Append(queue, job[Loop])
        /\ job' = [job EXCEPT ![Loop] = NoCall]
     \/ /\ Len(queue) = RequestQueueSize
        /\ Step(Loop, "enqueue", "handle")
        /\ UNCHANGED <<queue, job>>
  /\ UNCHANGED <<message, cancelVars, completed, replyVars, runVars>>

\* HandleMessage for what the loop serves itself.
Answer ==
  /\ message \in {"query", "shutdown"}
  /\ Step(Loop, "notice", "write")
  /\ initialized' = (initialized /\ message # "shutdown")
  /\ UNCHANGED <<pending, interrupting>>

Initialized ==
  /\ message = "initialized"
  /\ Step(Loop, "notice", "release")
  /\ initialized' = TRUE
  /\ UNCHANGED <<pending, interrupting>>

\* CancellationRegistry.Cancel takes the entry under its mutex.
Cancel ==
  /\ message \in Key
  /\ Step(Loop, "notice",
          IF pending[message] = NoCall THEN "release" ELSE "interrupt")
  /\ interrupting' = pending[message]
  /\ pending' = [pending EXCEPT ![message] = NoCall]
  /\ UNCHANGED initialized

HandleNotice ==
  /\ Answer \/ Initialized \/ Cancel
  /\ UNCHANGED <<job, message, ctx, countVars, written, failed, runVars>>

CancelFire ==
  /\ Step(Loop, "interrupt", "release")
  /\ Interrupt
  /\ UNCHANGED <<job, message, pending, countVars, replyVars, runVars>>

-----------------------------------------------------------------------------
\* Executing a request: worker, runJob, runOnLoop, execute, ioConn.Write.

WorkerReceive(w) ==
  /\ queue # << >>
  /\ Step(w, "idle", "handle")
  /\ job' = [job EXCEPT ![w] = Head(queue)]
  /\ queue' = Tail(queue)
  /\ UNCHANGED <<message, cancelVars, inflight, completed, replyVars, runVars>>

\* The queue is closed and drained.
WorkerExit(w) ==
  /\ queue = << >> /\ phase # "serving"
  /\ Step(w, "idle", "exited")
  /\ UNCHANGED <<job, message, cancelVars, countVars, replyVars, runVars>>

\* Before the handshake a call is refused, with an answer of its own.
Gate(a) ==
  /\ Step(a, "handle", IF initialized THEN "tool" ELSE "write")
  /\ UNCHANGED <<job, message, cancelVars, countVars, replyVars, runVars>>

\* The tool returns, with a result or an error, which both make a response; or
\* it panics, or HandleMessage fails or the response cannot be encoded.
ToolReturns(a) ==
  /\ \/ Step(a, "tool", "write") /\ UNCHANGED failed
     \/ Step(a, "tool", "done") /\ failed' = failed \cup {job[a]}
  /\ UNCHANGED <<job, message, cancelVars, countVars, initialized, written,
                 runVars>>

Executed(a) == IF job[a] = NoCall THEN "release" ELSE "done"

WriteCheck(a) ==
  /\ Step(a, "write", IF CtxDone(a) \/ ConnClosed THEN Executed(a) ELSE "lock")
  /\ UNCHANGED <<job, message, cancelVars, countVars, replyVars, runVars>>

\* writeMu is held by the actor that stands at "send".
WriteLock(a) ==
  /\ \A b \in Actor : at[b] # "send"
  /\ Step(a, "lock", IF ConnClosed THEN Executed(a) ELSE "send")
  /\ UNCHANGED <<job, message, cancelVars, countVars, replyVars, runVars>>

\* The frame is written, or the writer fails.
WriteSend(a) ==
  LET c == {job[a]} \ {NoCall}
  IN  /\ Step(a, "send", Executed(a))
      /\ \/ written' = written \cup c /\ UNCHANGED failed
         \/ failed' = failed \cup c /\ UNCHANGED written
      /\ UNCHANGED <<job, message, cancelVars, countVars, initialized, runVars>>

\* Mutant: the entry is removed only when the call was not cancelled.
DoneIfLive(a) ==
  LET k == KeyOf[job[a]]
  IN  /\ Step(a, "done", "count")
      /\ pending' = [i \in Key |-> IF i = k /\ ~CtxDone(a) THEN NoCall
                                   ELSE pending[i]]
      /\ UNCHANGED <<job, message, ctx, interrupting, countVars, replyVars,
                     runVars>>

\* CancellationRegistry.Done deletes whatever stands under the key.
RegistryDone(a) ==
  LET k == KeyOf[job[a]]
  IN  /\ Step(a, "done", "count")
      /\ pending' = [i \in Key |-> IF i = k THEN NoCall ELSE pending[i]]
      /\ UNCHANGED <<job, message, ctx, interrupting, countVars, replyVars,
                     runVars>>

\* j.cancel() and the metrics.
JobCount(a) ==
  /\ Step(a, "count", "release")
  /\ ctx' = [ctx EXCEPT ![job[a]] = IF @ = "live" THEN "over" ELSE @]
  /\ completed' = completed \cup {job[a]}
  /\ UNCHANGED <<job, message, pending, interrupting, queue, inflight,
                 replyVars, runVars>>

\* inflight.Done()
Release(a) ==
  /\ Step(a, "release", IF a = Loop THEN "check" ELSE "idle")
  /\ job' = [job EXCEPT ![a] = NoCall]
  /\ inflight' = inflight - 1
  /\ UNCHANGED <<message, cancelVars, queue, completed, replyVars, runVars>>

-----------------------------------------------------------------------------
\* Signals, timers and the shutdown of Run.

Signal ==
  /\ ~stopping /\ stopping' = TRUE
  /\ UNCHANGED <<actorVars, cancelVars, countVars, replyVars, engineDone,
                 abandoned, phase>>

\* The timer starts when the call is read and also runs while it is queued.
RequestExpires(c) ==
  /\ RequestTimeout /\ ctx[c] = "live"
  /\ ctx' = [ctx EXCEPT ![c] = "cancelled"]
  /\ UNCHANGED <<actorVars, pending, interrupting, countVars, replyVars, runVars>>

RunStep(from, to) ==
  /\ phase = from /\ phase' = to
  /\ UNCHANGED <<actorVars, cancelVars, countVars, replyVars, stopping>>

\* Mutant: Run waits for the queue and not for the calls under way.
QueueDrained ==
  /\ queue = << >>
  /\ RunStep("draining", "closing") \/ RunStep("forced", "closing")
  /\ UNCHANGED <<engineDone, abandoned>>

\* inflight.Wait() returns.
Drained ==
  /\ inflight = 0
  /\ RunStep("draining", "closing") \/ RunStep("forced", "closing")
  /\ UNCHANGED <<engineDone, abandoned>>

\* Mutant: the timeout is logged and nothing is cancelled.
TimeoutOnlyLogs ==
  /\ RunStep("draining", "forced")
  /\ UNCHANGED <<engineDone, abandoned>>

ShutdownTimeout ==
  /\ RunStep("draining", "forced")
  /\ engineDone' = TRUE
  /\ UNCHANGED abandoned

ForceCancelGrace ==
  /\ RunStep("forced", "closing")
  /\ abandoned' = TRUE
  /\ UNCHANGED engineDone

CloseConn ==
  /\ RunStep("closing", "joining")
  /\ UNCHANGED <<engineDone, abandoned>>

\* workersWG.Wait() returns, then Run.
Joined ==
  /\ \A w \in Worker : at[w] = "exited"
  /\ RunStep("joining", "stopped")
  /\ engineDone' = TRUE
  /\ UNCHANGED abandoned

Stopped == phase = "stopped" /\ UNCHANGED vars

-----------------------------------------------------------------------------
Reads == ReadEOF \/ (\E c \in Call : ReadCall(c)) \/ \E m \in Message : ReadMessage(m)

LoopRuns == \/ LoopCheck \/ ReadCancelled \/ Register \/ Supersede \/ Enqueue
            \/ HandleNotice \/ CancelFire

WorkerRuns(w) == WorkerReceive(w) \/ WorkerExit(w)

Executes(a) == \/ Gate(a) \/ WriteCheck(a) \/ WriteLock(a) \/ WriteSend(a)
               \/ RegistryDone(a) \/ JobCount(a) \/ Release(a)

ShutDown == \/ Drained \/ ShutdownTimeout \/ ForceCancelGrace \/ CloseConn
            \/ Joined

Next ==
  \/ Reads \/ LoopRuns \/ Signal \/ ShutDown \/ Stopped
  \/ \E w \in Worker : WorkerRuns(w)
  \/ \E a \in Actor : Executes(a) \/ ToolReturns(a)
  \/ \E c \in Call : RequestExpires(c)

\* Goroutines that can run do, timers elapse, and the client reads what is
\* written; a mutex is not withheld from a waiter for ever (Go's starvation
\* mode).  A tool need not return until its context is done: it passes the
\* context to every request it makes (README.md:303).  Nothing is assumed of
\* clients, of signals or of a request timeout.
Fairness ==
  /\ WF_vars(LoopRuns)
  /\ WF_vars(ShutDown)
  /\ \A w \in Worker : WF_vars(WorkerRuns(w))
  /\ \A a \in Actor : /\ WF_vars(Executes(a))
                      /\ SF_vars(WriteLock(a))
                      /\ WF_vars(CtxDone(a) /\ ToolReturns(a))

Spec == Init /\ [][Next]_vars /\ Fairness

-----------------------------------------------------------------------------
\* PROPERTIES

Elements(s) == {s[i] : i \in 1..Len(s)}

Held(c)     == \E a \in Actor : job[a] = c
Underway(c) == c \in Elements(queue) \/ Held(c)

Counted == {a \in Actor : at[a] \in Serving}

\* The WaitGroup counts the jobs in the queue and in the hands of an actor, so
\* that Wait neither returns over a job nor waits for none (server.go:373-375,
\* 402-406).
InflightExact == inflight = Len(queue) + Cardinality(Counted)

\* Unless the grace period has run out, nobody is executing a request and none
\* is queued when the connection is closed: drain first, then close, as the code
\* and its comment have it (server.go:293-296, 336-338) and README.md:317-322.  The
\* package comment (server.go:15-18) still has the opposite order.
ClosedAfterDrain ==
  ConnClosed /\ ~abandoned =>
    /\ queue = << >>
    /\ \A a \in Actor : at[a] \notin Serving

\* No request is lost (README.md:301): when the connection is closed within
\* the shutdown budget, every call that was read has its response on the wire,
\* unless it was cancelled, or failed in one of the ways execute logs.
NoReplyLost ==
  phase = "joining" /\ ~engineDone =>
    \A c \in Call : ctx[c] # "none" =>
      c \in written \cup failed \/ ctx[c] = "cancelled"

\* The ledger never leaks (server.go:439-448): a call that is counted as
\* completed has no entry left, so no later notification can act on it.
CompletedLeavesNoEntry ==
  \A k \in Key : pending[k] # NoCall =>
    /\ pending[k] \notin completed
    /\ KeyOf[pending[k]] = k

\* A call a notification can still cancel: the recv loop is on its way to the queue
\* with it, it is in the queue, or a worker has it.  What the loop runs itself is
\* out of reach, for nobody reads a notification then.
Cancellable(c) ==
  /\ ctx[c] = "live" /\ KeyOf[c] # NoKey
  /\ \/ c \in Elements(queue)
     \/ \E w \in Worker : job[w] = c /\ at[w] \notin {"count", "release"}
     \/ job[Loop] = c /\ at[Loop] \in {"supersede", "enqueue"}

Reached(c) == pending[KeyOf[c]] = c \/ interrupting = c

\* The job of another call of the same id ends, and Done deletes by id.
OtherEnds(c) ==
  \E a \in Actor : /\ at[a] = "done" /\ at'[a] = "count"
                   /\ job[a] # c /\ KeyOf[job[a]] = KeyOf[c]

\* A step that leaves a call to be cancelled leaves its cancel func in the registry,
\* or in the hands of the loop, unless another call of its id ends.
KeptReached ==
  \A c \in Call : (Cancellable(c) => Reached(c)) /\ Cancellable(c)' =>
    Reached(c)' \/ OtherEnds(c)

\* A func is taken out for the id of the notification, or of the new call, and is
\* not the new call's own.
RightCall ==
  interrupting' \notin {NoCall, interrupting} =>
    /\ interrupting' # job[Loop]
    /\ KeyOf[interrupting'] =
         IF at[Loop] = "register" THEN KeyOf[job[Loop]] ELSE message

\* The cancel func of a queued or running call stays in the registry, or is about
\* to be called, from the call's registration until its job is done, whatever
\* duplicates of its id, notifications and ends of other calls come in between
\* (README.md:303); only the end of another call of its own id may drop it.  And no
\* notification and no duplicate cancels a call of another id, nor a duplicate
\* itself (cancellation.go:59-94).
ReachableByCancel == [][KeptReached /\ RightCall]_vars

\* The shutdown ends even if every tool hangs until it is cancelled, in the
\* queue, with a worker, or behind a write (server.go:312-339).
RunReturns == phase # "serving" ~> phase = "stopped"

\* Nothing but a tool that the recv loop runs itself, for want of room in the
\* queue, keeps a signal from ending the loop (server.go:352, 415-425).
StopHeeded == stopping ~> phase # "serving" \/ at[Loop] = "tool"

\* A cancelled call that a worker executes is interrupted and releases it,
\* though nothing else would make its tool return (README.md:303).
InterruptFrees ==
  \A c \in Call :
    (interrupting = c /\ \E w \in Worker : job[w] = c) ~> ~Held(c)
=============================================================================
