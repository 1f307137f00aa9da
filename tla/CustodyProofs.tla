--------------------------- MODULE CustodyProofs ---------------------------
(***************************************************************************)
(* Who has a task in hand: every task of the process that has not ended is *)
(* carried by exactly one submit call, the dispatcher's buffer or a worker *)
(* until it ends, or by the cancel_task call that interrupted it, for any  *)
(* number of workers, calls and tasks and any bounds.                      *)
(*                                                                         *)
(* The inductive invariant is Custody: TInv of AsyncProofs, one holder per *)
(* task, what state a holder's task may be in, and that nothing live is    *)
(* without one.                                                            *)
(***************************************************************************)
EXTENDS AsyncProofs

\* Where a task is that has ended.
Over == Terminal \cup {"evicted"}

\* Where a submit call has admitted its task and not handed it over.
Sending == {"dispatch", "send", "failed", "abandoned"}

\* No task twice.
Distinct(q) == \A i, j \in DOMAIN q : q[i] = q[j] => i = j

\* A task is in the buffer, with a worker or with the call that submits it,
\* and only once.
OneHolder ==
  /\ Distinct(queue)
  /\ \A v, w \in Worker : worker[v].task = worker[w].task => v = w \/ worker[v].task = NoTask
  /\ \A r, s \in Submitter : submit[r].task = submit[s].task => r = s \/ submit[r].task = NoTask
  /\ \A w \in Worker : worker[w].task \notin Elements(queue)
  /\ \A s \in Submitter : submit[s].pc \in Sending =>
       /\ submit[s].task \notin Elements(queue)
       /\ \A w \in Worker : worker[w].task # submit[s].task

\* How far the task has come that someone works on.
Stands ==
  /\ \A s \in Submitter :
       /\ submit[s].pc = "received" => state[submit[s].task] = "unborn"
       /\ submit[s].pc \in Sending =>
            state[submit[s].task] \notin {"unborn", "running"} /\ Mine(submit[s].task)
  /\ \A t \in Elements(queue) : state[t] \notin {"unborn", "running"}
  /\ \A w \in Worker :
       /\ worker[w].pc \in {"register", "publish", "start"} =>
            state[worker[w].task] \notin {"unborn", "running"}
       /\ worker[w].pc \in {"run", "completed", "failed"} =>
            state[worker[w].task] \notin {"unborn", "queued"}
       /\ worker[w].pc = "cleanup" => state[worker[w].task] # "unborn"
  /\ \A c \in Canceller :
       /\ call[c].pc # "idle" => state[call[c].task] # "unborn" /\ Mine(call[c].task)
       /\ call[c].pc # "idle" /\ call[c].over => state[call[c].task] \in Over
       /\ ask[c].pc = "get" => state[ask[c].task] \in Over
  /\ \A t \in published \cup todo \cup fired : state[t] # "unborn"
  /\ firing # NoTask => state[firing] \in Over \/ (state[firing] # "unborn" /\ ~Mine(firing))

\* A cancel_task call has run the task's cancel func and will record it.
Marking(t) == \E c \in Canceller : call[c].task = t /\ call[c].pc = "mark"

\* A job whose context is cancelled has ended, or its canceller will end it.
FiredOver == \A t \in fired : state[t] \in Live /\ Mine(t) => Marking(t)

\* Who will end a task, or pass it on.
Handled(t) ==
  \/ \E w \in Worker : worker[w].task = t /\ worker[w].pc \notin {"cleanup", "exited"}
  \/ Marking(t)
  \/ t \in Elements(queue)
  \/ \E s \in Submitter : submit[s].task = t /\ submit[s].pc \in Sending

\* Nothing live is without someone who has it.
LiveHandled ==
  stage = "serving" => \A t \in TaskID : state[t] \in Live /\ Mine(t) => Handled(t)

\* While a task of this process waits, the queued tasks are within the bound
\* (those of other processes may exceed it when they are loaded).
Admitted ==
  stage = "serving" => \A t \in TaskID : state[t] = "queued" /\ Mine(t) => queued <= MaxQueued

-----------------------------------------------------------------------------
\* What a step of the layer does to one task.

\* What a step of the store does to a task that is not its subject: it stays,
\* or ends, or is dropped.
Kept(t) ==
  /\ owner'[t] = owner[t]
  /\ state'[t] = state[t] \/ (state[t] \in State /\ state'[t] \in Over)

\* A Transition to an ended state ends its task and keeps the others.
LEMMA FinishKept ==
  ASSUME IInv, NEW t \in TaskID, NEW to, Finish(t, to)
  PROVE  state'[t] \in Over /\ \A u \in TaskID : Kept(u)
<1>1. to \in Terminal /\ state[t] \in Live /\ Stamp(t) \in Time
  BY AcceptsLive, StampType DEF Finish, IInv
<1>2. /\ state'[t] \in {to, "evicted"}
      /\ \A u \in TaskID \ {t} : \/ state'[u] = state[u]
                                 \/ state[u] \in Terminal /\ state'[u] = "evicted"
  BY <1>1, SettleMoves DEF Finish, Live, Terminal
<1> QED BY <1>1, <1>2 DEF Finish, Kept, Over, State

\* Whether or not it is accepted.
LEMMA TryFinishKept ==
  ASSUME IInv, NEW t \in TaskID, NEW to, TryFinish(t, to)
  PROVE  \A u \in TaskID : Kept(u)
<1>1. CASE Finish(t, to)
  BY <1>1, FinishKept
<1>2. CASE UNCHANGED storeVars
  BY <1>2 DEF storeVars, records, Kept
<1> QED BY <1>1, <1>2 DEF TryFinish

\* Cancel leaves its task over, unless the store is closed.
LEMMA MarkKept ==
  ASSUME IInv, NEW c \in Canceller, CancelMark(c)
  PROVE  /\ \A u \in TaskID : Kept(u)
         /\ ~closed /\ Mine(call[c].task) /\ state[call[c].task] # "unborn" =>
              state'[call[c].task] \in Over
<1> DEFINE t == call[c].task
<1>1. t \in TaskID /\ Mark(t)
  BY DEF CancelMark, IInv, CallsNameTasks
<1>2. state[t] \in Fate
  BY <1>1 DEF IInv, TypeOK
<1> HIDE DEF t
<1>3. CASE Accepts(t, "cancelled") /\ Settle(t, "cancelled", now) /\ UNCHANGED owner
  <2>1. state[t] \in Live /\ "cancelled" \in Terminal /\ now \in Time
    BY <1>3, AcceptsLive DEF Terminal, IInv, TypeOK
  <2>2. /\ state'[t] \in {"cancelled", "evicted"}
        /\ \A u \in TaskID \ {t} : \/ state'[u] = state[u]
                                   \/ state[u] \in Terminal /\ state'[u] = "evicted"
    BY <1>1, <1>3, <2>1, SettleMoves DEF Live, Terminal
  <2> QED BY <1>3, <2>1, <2>2 DEF Kept, Over, State, t
<1>4. CASE state[t] = "cancelled" /\ UNCHANGED <<state, owner>>
  BY <1>4 DEF Kept, Over, Terminal, t
<1>5. CASE ~Accepts(t, "cancelled") /\ UNCHANGED records
  BY <1>2, <1>5
     DEF Accepts, Present, Fate, State, Live, CanTransition, AllowedTransitions,
         Terminal, records, Kept, Over, t
<1> QED BY <1>1, <1>3, <1>4, <1>5 DEF Mark

\* A submit call admits the task.
Begun(t) ==
  /\ state[t] = "unborn" /\ state'[t] = "queued" /\ owner'[t] = "self"
  /\ queued < MaxQueued /\ queued' = queued + 1
  /\ \E s \in Submitter : submit[s] = At("received", t) /\ submit'[s] = At("dispatch", t)

\* A worker starts it.
Started(t) ==
  /\ state[t] = "queued" /\ state'[t] = "running" /\ owner'[t] = owner[t]
  /\ \E w \in Worker : worker[w] = At("start", t) /\ worker'[w] = At("run", t)

\* Nothing else happens to a task.
TaskMoves == \A t \in TaskID : Kept(t) \/ Begun(t) \/ Started(t)

-----------------------------------------------------------------------------
\* The buffer as a set.
LEMMA AppendElements ==
  ASSUME NEW q \in Seq(TaskID), NEW t \in TaskID, t \notin Elements(q), Distinct(q)
  PROVE  Elements(Append(q, t)) = Elements(q) \cup {t} /\ Distinct(Append(q, t))
<1>1. /\ DOMAIN Append(q, t) = 1..(Len(q) + 1) /\ DOMAIN q = 1..Len(q) /\ Len(q) \in Nat
      /\ Append(q, t)[Len(q) + 1] = t
      /\ \A i \in 1..Len(q) : Append(q, t)[i] = q[i]
  OBVIOUS
<1>2. \A i \in 1..Len(q) : q[i] \in Elements(q)
  BY <1>1 DEF Elements
<1>3. \A i \in 1..(Len(q) + 1) : i = Len(q) + 1 \/ i \in 1..Len(q)
  BY <1>1
<1>4. ASSUME NEW i \in DOMAIN Append(q, t), NEW j \in DOMAIN Append(q, t),
             Append(q, t)[i] = Append(q, t)[j]
      PROVE  i = j
  BY <1>1, <1>2, <1>3, <1>4 DEF Distinct
<1>5. ASSUME NEW x \in Elements(Append(q, t)) PROVE x \in Elements(q) \cup {t}
  BY <1>1, <1>3, <1>5 DEF Elements
<1>6. ASSUME NEW x \in Elements(q) \cup {t} PROVE x \in Elements(Append(q, t))
  BY <1>1, <1>6 DEF Elements
<1> QED BY <1>4, <1>5, <1>6 DEF Distinct

\* Taking the head takes its task and no other.
LEMMA TailElements ==
  ASSUME NEW q \in Seq(TaskID), q # << >>, Distinct(q)
  PROVE  /\ Elements(Tail(q)) = Elements(q) \ {Head(q)}
         /\ Head(q) \in Elements(q)
         /\ Distinct(Tail(q))
<1>1. /\ Len(q) \in Nat \ {0} /\ DOMAIN q = 1..Len(q) /\ DOMAIN Tail(q) = 1..(Len(q) - 1)
      /\ Head(q) = q[1]
      /\ \A i \in 1..(Len(q) - 1) : Tail(q)[i] = q[i + 1]
  OBVIOUS
<1>2. \A i \in 1..(Len(q) - 1) : i + 1 \in 1..Len(q) /\ i + 1 # 1
  BY <1>1
<1>3. ASSUME NEW x \in Elements(Tail(q)) PROVE x \in Elements(q) \ {Head(q)}
  <2>1. PICK i \in 1..(Len(q) - 1) : Tail(q)[i] = x
    BY <1>1, <1>3 DEF Elements
  <2>2. i + 1 \in DOMAIN q /\ 1 \in DOMAIN q /\ i + 1 # 1 /\ q[i + 1] = x
    BY <1>1, <1>2, <2>1
  <2>3. q[i + 1] # q[1]
    BY <2>2 DEF Distinct
  <2> QED BY <1>1, <2>2, <2>3 DEF Elements
<1>4. ASSUME NEW x \in Elements(q) \ {Head(q)} PROVE x \in Elements(Tail(q))
  <2>1. PICK i \in 1..Len(q) : q[i] = x
    BY <1>1 DEF Elements
  <2>2. i - 1 \in 1..(Len(q) - 1) /\ (i - 1) + 1 = i
    BY <1>1, <2>1
  <2>3. Tail(q)[i - 1] = x
    BY <1>1, <2>1, <2>2
  <2> QED BY <1>1, <2>2, <2>3 DEF Elements
<1>5. ASSUME NEW i \in DOMAIN Tail(q), NEW j \in DOMAIN Tail(q), Tail(q)[i] = Tail(q)[j]
      PROVE  i = j
  <2>1. i + 1 = j + 1
    BY <1>1, <1>2, <1>5 DEF Distinct
  <2> QED BY <1>1, <2>1
<1>6. Head(q) \in Elements(q)
  BY <1>1 DEF Elements
<1> QED BY <1>3, <1>4, <1>5, <1>6 DEF Distinct

\* The buffer holds tasks.
LEMMA QueueTasks == ASSUME Shapes PROVE Elements(queue) \subseteq TaskID
BY DEF Shapes, PoolTypes, Elements

\* A step of one actor leaves the others alone, and its own task until it is done.
LEMMA SubmitStays ==
  ASSUME Shapes, NEW s \in Submitter, NEW from, NEW to, SubmitStep(s, from, to)
  PROVE  /\ submit[s].pc = from
         /\ submit'[s] = IF to = "idle" THEN Resting ELSE At(to, submit[s].task)
         /\ \A r \in Submitter \ {s} : submit'[r] = submit[r]
         /\ UNCHANGED <<ask, wait, phase, todo, firing>>
<1>1. submit[s] \in SubmitAt
  BY DEF Shapes, SubmitPlaces
<1> QED BY <1>1 DEF SubmitStep, Shapes, SubmitPlaces, SubmitAt, At, downVars

\* The same of a worker.
LEMMA WorkerStays ==
  ASSUME Shapes, NEW w \in Worker, NEW from, NEW to, WorkerStep(w, from, to)
  PROVE  /\ worker[w].pc = from
         /\ worker'[w] = IF to = "idle" THEN Resting ELSE At(to, worker[w].task)
         /\ \A v \in Worker \ {w} : worker'[v] = worker[v]
         /\ UNCHANGED <<door, submit, ask, wait, phase, todo, firing>>
<1>1. worker[w] \in WorkerAt
  BY DEF Shapes, WorkerPlaces
<1> QED BY <1>1 DEF WorkerStep, Shapes, WorkerPlaces, WorkerAt, At, downVars, toolVars

\* The same of a cancel_task call.
LEMMA AskStays ==
  ASSUME Shapes, NEW c \in Canceller, NEW from, NEW to, AskStep(c, from, to)
  PROVE  /\ ask[c].pc = from
         /\ ask'[c] = IF to = "idle" THEN Resting ELSE At(to, ask[c].task)
         /\ \A b \in Canceller \ {c} : ask'[b] = ask[b]
         /\ UNCHANGED <<queue, door, worker, published, submit, wait, phase, todo, firing>>
<1>1. ask[c] \in AskAt
  BY DEF Shapes, AskPlaces
<1> QED BY <1>1 DEF AskStep, Shapes, AskPlaces, AskAt, At, downVars, poolVars

\* What is in a worker's hands or in the buffer has been admitted.
LEMMA HeldIsBorn ==
  ASSUME Shapes, Stands, NEW t \in TaskID, state[t] = "unborn"
  PROVE  t \notin Elements(queue) /\ \A w \in Worker : worker[w].task # t
<1>1. \A w \in Worker : worker[w] \in WorkerAt
  BY DEF Shapes, WorkerPlaces
<1>2. ASSUME NEW w \in Worker, worker[w].task = t PROVE FALSE
  BY <1>1, <1>2, ConstantsAssumption DEF Stands, Shapes, WorkerPlaces, WorkerAt, ConstantsAssumption
<1> QED BY <1>2 DEF Stands


\* A task changes hands in one step: who gives it lets go of it.
LEMMA NextOneHolder ==
  TInv /\ OneHolder /\ Stands /\ [AsyncNext]_asyncVars => OneHolder'
<1> SUFFICES ASSUME TInv, OneHolder, Stands, [AsyncNext]_asyncVars PROVE OneHolder'
  OBVIOUS
<1> USE DEF storeVars, poolVars, toolVars, downVars
<1>inv. Shapes /\ PoolTypes /\ WorkerPlaces /\ SubmitPlaces
  BY DEF TInv, Shapes
<1>none. NoTask \notin TaskID /\ Elements(queue) \subseteq TaskID
  BY <1>inv, QueueTasks, ConstantsAssumption DEF ConstantsAssumption
<1>same. ASSUME UNCHANGED <<queue, worker, submit>> PROVE OneHolder'
  BY <1>same DEF OneHolder, Elements
<1>1. CASE Boot
  BY <1>1, <1>same, BootStill
<1>2. ASSUME NEW t \in TaskID, NEW s \in Submitter, SubmitReceive(s, t) PROVE OneHolder'
  BY <1>2, <1>inv, <1>none DEF SubmitReceive, At, OneHolder, Elements, Sending, SubmitPlaces
<1>3. CASE Requests /\ ~(\E t \in TaskID, s \in Submitter : SubmitReceive(s, t))
  BY <1>3, <1>same DEF Requests, CancelReceive, WaitReceive
<1>4. CASE StopReceiving \/ Gone \/ ShutDown \/ UNCHANGED asyncVars
  BY <1>4, <1>same
     DEF StopReceiving, Gone, asyncVars, ShutDown, AbandonSnapshot, AbandonMark, AbandonFire,
         AbandonDone, RunReturns, ShutDoor, CloseQueue, CloseStore, DownStep
<1>5. ASSUME NEW s \in Submitter, SubmitCall(s) PROVE OneHolder'
  <2>move. ASSUME NEW from, NEW to, SubmitStep(s, from, to), UNCHANGED <<queue, worker>>,
                  from # "idle",
                  to \in Sending => from \in Sending \/ state[submit[s].task] = "unborn"
           PROVE  OneHolder'
    <3>1. /\ submit[s].pc = from
          /\ submit'[s] = IF to = "idle" THEN Resting ELSE At(to, submit[s].task)
          /\ \A r \in Submitter \ {s} : submit'[r] = submit[r]
      BY <2>move, <1>inv, SubmitStays
    <3>2. to \in Sending => /\ submit[s].task \notin Elements(queue)
                            /\ \A w \in Worker : worker[w].task # submit[s].task
      BY <2>move, <3>1, <1>inv, <1>none, HeldIsBorn DEF OneHolder, SubmitPlaces, Stands
    <3>3. /\ submit'[s].task \in {submit[s].task, NoTask}
          /\ submit'[s].pc \in Sending => to \in Sending /\ submit'[s].task = submit[s].task
      BY <3>1 DEF Resting, At, Sending
    <3> QED BY <2>move, <3>1, <3>2, <3>3, <1>none DEF OneHolder, Elements
  <2>1. CASE SubmitStore(s)
    <3>1. SubmitStep(s, "received", "dispatch") => state[submit[s].task] = "unborn"
      BY <1>inv, SubmitStays DEF Stands
    <3> QED BY <2>1, <3>1, <2>move DEF SubmitStore, Sending
  <2>2. CASE DispatchCheck(s) \/ SubmitRollback(s) \/ SubmitReply(s)
    BY <2>2, <2>move DEF DispatchCheck, SubmitRollback, SubmitReply, Sending
  <2>3. CASE DispatchSend(s)
    <3>1. CASE SubmitStep(s, "send", "failed") /\ UNCHANGED queue
      BY <2>3, <3>1, <2>move DEF DispatchSend, Sending
    <3>2. CASE SubmitStep(s, "send", "get") /\ queue' = Append(queue, submit[s].task)
      <4> DEFINE t == submit[s].task
      <4>1. /\ submit[s].pc = "send" /\ submit'[s] = At("get", t)
            /\ \A r \in Submitter \ {s} : submit'[r] = submit[r]
        BY <3>2, <1>inv, SubmitStays
      <4>2. t \in TaskID /\ t \notin Elements(queue) /\ \A w \in Worker : worker[w].task # t
        BY <4>1, <1>inv DEF SubmitPlaces, OneHolder, Sending
      <4>3. /\ Elements(queue') = Elements(queue) \cup {t}
            /\ Distinct(queue')
        BY <3>2, <4>2, <1>inv, AppendElements DEF OneHolder, PoolTypes
      <4>4. UNCHANGED worker
        BY <2>3 DEF DispatchSend
      <4>5. \A r \in Submitter \ {s} : submit[r].task # t
        BY <4>2, <1>none DEF OneHolder
      <4> QED BY <4>1, <4>2, <4>3, <4>4, <4>5, <1>none DEF OneHolder, At, Sending
    <3> QED BY <2>3, <3>1, <3>2 DEF DispatchSend
  <2> QED BY <1>5, <2>1, <2>2, <2>3 DEF SubmitCall
<1>6. ASSUME NEW w \in Worker, WorkerRun(w) PROVE OneHolder'
  <2>1. CASE WorkerReceive(w)
    <3>1. /\ Elements(queue') = Elements(queue) \ {Head(queue)} /\ Head(queue) \in Elements(queue)
          /\ Distinct(queue')
      BY <2>1, <1>inv, TailElements DEF WorkerReceive, OneHolder, PoolTypes
    <3>2. /\ worker'[w].task = Head(queue) /\ UNCHANGED submit
          /\ \A v \in Worker \ {w} : worker'[v] = worker[v]
      BY <2>1, <1>inv DEF WorkerReceive, At, WorkerPlaces
    <3>3. \A s \in Submitter : submit[s].pc \in Sending =>
            submit[s].task # Head(queue) /\ submit[s].task \notin Elements(queue')
      BY <3>1 DEF OneHolder
    <3>4. \A v \in Worker : worker'[v].task \notin Elements(queue')
      BY <3>1, <3>2 DEF OneHolder
    <3> QED BY <3>1, <3>2, <3>3, <3>4, <1>none DEF OneHolder
  <2>2. ASSUME NEW from, NEW to, WorkerStep(w, from, to), UNCHANGED queue PROVE OneHolder'
    <3>0. /\ worker'[w] = IF to = "idle" THEN Resting ELSE At(to, worker[w].task)
          /\ \A v \in Worker \ {w} : worker'[v] = worker[v]
          /\ UNCHANGED submit
      BY <2>2, <1>inv, WorkerStays
    <3>1. worker'[w].task \in {worker[w].task, NoTask}
      BY <3>0 DEF Resting, At
    <3>2. \A s \in Submitter : submit[s].pc \in Sending => submit[s].task \in TaskID
      BY <1>inv DEF SubmitPlaces, Sending
    <3> QED BY <2>2, <3>0, <3>1, <3>2, <1>none DEF OneHolder
  <2> QED BY <1>6, <2>1, <2>2
          DEF WorkerRun, WorkerExit, WorkerRegister, WorkerPublish, WorkerStart, HandlerReturns,
              WorkerFinish, WorkerCleanup
<1>7. ASSUME NEW c \in Canceller, CancelCall(c) PROVE OneHolder'
  BY <1>7, <1>same
     DEF CancelCall, CancelLookup, CancelInterrupt, CancelRecord, CancelReply, AskStep
<1>8. ASSUME NEW x \in Waiter, WaitCall(x) PROVE OneHolder'
  BY <1>8, <1>same DEF WaitCall, WaitLookup, WaitWoken, WaitExpire, WaitAnswer, WaitStep
<1> QED BY <1>1, <1>2, <1>3, <1>4, <1>5, <1>6, <1>7, <1>8 DEF AsyncNext, Requests

-----------------------------------------------------------------------------
\* A step that leaves the records alone.
LEMMA StoreStays ==
  ASSUME UNCHANGED <<state, owner>> PROVE TaskMoves
BY DEF TaskMoves, Kept

\* Every step admits one task, starts one, or keeps all.
LEMMA NextTaskMoves ==
  ASSUME TInv, stage = "serving", [AsyncNext]_asyncVars PROVE TaskMoves
<1> USE DEF storeVars, records
<1>inv. IInv /\ Shapes /\ WorkerPlaces /\ SubmitPlaces /\ AskPlaces
  BY DEF TInv, Shapes
<1>kept. ASSUME \A t \in TaskID : Kept(t) PROVE TaskMoves
  BY <1>kept DEF TaskMoves
<1>1. CASE Boot \/ Requests \/ StopReceiving \/ Gone \/ UNCHANGED asyncVars
  BY <1>1, StoreStays, BootStill
     DEF Requests, SubmitReceive, CancelReceive, WaitReceive, StopReceiving, Gone, asyncVars
<1>2. CASE ShutDown
  <2>1. ASSUME NEW t \in TaskID, AbandonMark(t) PROVE TaskMoves
    BY <2>1, <1>inv, <1>kept, TryFinishKept DEF AbandonMark
  <2>2. CASE UNCHANGED <<state, owner>>
    BY <2>2, StoreStays
  <2> QED BY <1>2, <2>1, <2>2
          DEF ShutDown, AbandonSnapshot, AbandonFire, AbandonDone, RunReturns, ShutDoor,
              CloseQueue, CloseStore, Close
<1>3. ASSUME NEW s \in Submitter, SubmitCall(s) PROVE TaskMoves
  <2>1. submit[s].pc # "idle" => submit[s].task \in TaskID
    BY <1>inv DEF SubmitPlaces
  <2>2. CASE SubmitStep(s, "received", "dispatch") /\ Submit(submit[s].task)
    <3> DEFINE u == submit[s].task
    <3>1. /\ u \in TaskID /\ submit'[s] = At("dispatch", u) /\ submit[s] = At("received", u)
      BY <2>1, <2>2, <1>inv, SubmitStays DEF SubmitPlaces, SubmitAt, At
    <3>2. Submit(u)
      BY <2>2
    <3> HIDE DEF u
    <3>3. Begun(u)
      <4>1. \E r \in Submitter : submit[r] = At("received", u) /\ submit'[r] = At("dispatch", u)
        BY <3>1
      <4> QED BY <3>1, <3>2, <4>1, <1>inv DEF Begun, Submit, Admissible, IInv, TypeOK
    <3>4. ASSUME NEW t \in TaskID \ {u} PROVE Kept(t)
      BY <3>1, <3>2, <3>4, <1>inv DEF Submit, Kept, IInv, TypeOK
    <3> QED BY <3>3, <3>4 DEF TaskMoves
  <2>3. CASE SubmitRollback(s)
    BY <2>1, <2>3, <1>inv, <1>kept, TryFinishKept DEF SubmitRollback, SubmitStep
  <2>4. CASE UNCHANGED <<state, owner>>
    BY <2>4, StoreStays
  <2> QED BY <1>3, <2>2, <2>3, <2>4
          DEF SubmitCall, SubmitStore, DispatchCheck, DispatchSend, SubmitReply
<1>4. ASSUME NEW w \in Worker, WorkerRun(w) PROVE TaskMoves
  <2>1. worker[w].pc \notin {"idle", "exited"} => worker[w].task \in TaskID
    BY <1>inv DEF WorkerPlaces
  <2>2. CASE WorkerStep(w, "start", "run") /\ StartRunning(worker[w].task)
    <3> DEFINE u == worker[w].task
    <3>1. u \in TaskID /\ worker'[w] = At("run", u) /\ worker[w] = At("start", u)
      BY <2>1, <2>2, <1>inv, WorkerStays DEF WorkerPlaces, WorkerAt, At
    <3>2. StartRunning(u)
      BY <2>2
    <3> HIDE DEF u
    <3>3. Started(u)
      <4>1. \E v \in Worker : worker[v] = At("start", u) /\ worker'[v] = At("run", u)
        BY <3>1
      <4>2. state[u] = "queued"
        BY <3>2 DEF StartRunning, Accepts, CanTransition, AllowedTransitions, Terminal
      <4> QED BY <3>1, <3>2, <4>1, <4>2, <1>inv DEF Started, StartRunning, IInv, TypeOK
    <3>4. ASSUME NEW t \in TaskID \ {u} PROVE Kept(t)
      BY <3>1, <3>2, <3>4, <1>inv DEF StartRunning, Kept, IInv, TypeOK
    <3> QED BY <3>3, <3>4 DEF TaskMoves
  <2>3. CASE WorkerFinish(w)
    BY <2>1, <2>3, <1>inv, <1>kept, TryFinishKept DEF WorkerFinish, WorkerStep
  <2>4. CASE UNCHANGED <<state, owner>>
    BY <2>4, StoreStays
  <2> QED BY <1>4, <2>2, <2>3, <2>4
          DEF WorkerRun, WorkerReceive, WorkerExit, WorkerRegister, WorkerPublish, WorkerStart,
              HandlerReturns, WorkerCleanup, RegisterCancel
<1>5. ASSUME NEW c \in Canceller, CancelCall(c) PROVE TaskMoves
  <2>1. CASE CancelMark(c)
    BY <2>1, <1>inv, <1>kept, MarkKept
  <2>2. CASE UNCHANGED <<state, owner>>
    BY <2>2, StoreStays
  <2> QED BY <1>5, <2>1, <2>2
          DEF CancelCall, CancelLookup, CancelInterrupt, CancelRecord, CancelReply, CancelRead,
              CancelFire
<1>6. ASSUME NEW x \in Waiter, WaitCall(x) PROVE TaskMoves
  BY <1>6, StoreStays DEF WaitCall, WaitLookup, WaitWoken, WaitExpire, WaitAnswer, WaitStep
<1> QED BY <1>1, <1>2, <1>3, <1>4, <1>5, <1>6 DEF AsyncNext

-----------------------------------------------------------------------------
\* What a step of the layer does to one worker, one call, the buffer and the
\* tables.  A caller that moves leaves everybody else of its kind alone.

\* runJob.
WorkerGoes(w) ==
  LET t == worker[w].task
  IN  \/ /\ worker[w].pc = "idle" /\ queue # << >>
         /\ worker'[w] = At("register", Head(queue)) /\ queue' = Tail(queue)
      \/ worker[w].pc = "idle" /\ worker'[w] = At("exited", t)
      \/ worker[w].pc = "register" /\ worker'[w] = At("publish", t)
      \/ worker[w].pc = "register" /\ worker'[w] = Resting /\ ~Present(t) /\ UNCHANGED state
      \/ worker[w].pc = "publish" /\ worker'[w] = At("start", t)
           /\ published' = published \cup {t}
      \/ worker[w].pc = "start" /\ worker'[w] = At("run", t) /\ state'[t] = "running"
      \/ worker[w].pc = "start" /\ worker'[w] = At("cleanup", t)
           /\ ~Accepts(t, "running") /\ UNCHANGED state
      \/ \E out \in {"completed", "failed"} :
           worker[w].pc = "run" /\ worker'[w] = At(out, t)
      \/ worker[w].pc = "run" /\ worker'[w] = At("cleanup", t)
           /\ t \in fired /\ UNCHANGED <<state, owner, call>>
      \/ \E out \in {"completed", "failed"} :
           worker[w].pc = out /\ worker'[w] = At("cleanup", t) /\ TryFinish(t, out)
      \/ worker[w].pc = "cleanup" /\ worker'[w] = Resting

\* Workers move only by their own steps.
WorkerStaysOrGoes == \A w \in Worker : worker'[w] = worker[w] \/ WorkerGoes(w)

\* submit_image_task.
SubmitGoes(s) ==
  LET t == submit[s].task
  IN  \/ \E u \in TaskID : submit[s].pc = "idle" /\ submit'[s] = At("received", u)
                             /\ state[u] = "unborn" /\ UNCHANGED state
      \/ submit[s].pc = "received" /\ submit'[s] = At("dispatch", t) /\ Begun(t)
      \/ submit[s].pc \in {"received", "get"} /\ submit'[s] = Resting
      \/ submit[s].pc = "dispatch" /\ \E to \in {"send", "abandoned"} : submit'[s] = At(to, t)
      \/ submit[s].pc = "send" /\ submit'[s] = At("failed", t)
      \/ submit[s].pc = "send" /\ submit'[s] = At("get", t) /\ queue' = Append(queue, t)
      \/ \E from \in {"failed", "abandoned"} :
           submit[s].pc = from /\ submit'[s] = Resting /\ TryFinish(t, from)

\* Submit calls move only by their own steps.
SubmitStaysOrGoes == \A s \in Submitter : submit'[s] = submit[s] \/ SubmitGoes(s)

\* Every step moves each worker as runJob does, or not at all.
LEMMA NextWorker ==
  ASSUME TInv, stage = "serving", [AsyncNext]_asyncVars PROVE WorkerStaysOrGoes
<1> USE DEF storeVars, poolVars, toolVars, downVars
<1>inv. Shapes /\ WorkerPlaces
  BY DEF TInv, Shapes
<1>1. CASE UNCHANGED worker
  BY <1>1 DEF WorkerStaysOrGoes
<1>2. ASSUME NEW v \in Worker, WorkerRun(v) PROVE WorkerStaysOrGoes
  <2>1. \A w \in Worker \ {v} : worker'[w] = worker[w]
    <3>1. CASE WorkerReceive(v)
      BY <3>1, <1>inv DEF WorkerReceive, WorkerPlaces
    <3>2. ASSUME NEW from, NEW to, WorkerStep(v, from, to)
          PROVE  \A w \in Worker \ {v} : worker'[w] = worker[w]
      BY <3>2, <1>inv, WorkerStays
    <3> QED BY <1>2, <3>1, <3>2
            DEF WorkerRun, WorkerExit, WorkerRegister, WorkerPublish, WorkerStart,
                HandlerReturns, WorkerFinish, WorkerCleanup
  <2>2. WorkerGoes(v)
    <3> DEFINE t == worker[v].task
    <3>step. ASSUME NEW from, NEW to, WorkerStep(v, from, to)
             PROVE  worker[v].pc = from
                    /\ worker'[v] = IF to = "idle" THEN Resting ELSE At(to, t)
      BY <3>step, <1>inv, WorkerStays
    <3>1. CASE WorkerReceive(v)
      BY <3>1, <1>inv DEF WorkerReceive, WorkerPlaces, WorkerGoes
    <3>2. CASE WorkerExit(v)
      BY <3>2, <3>step DEF WorkerExit, WorkerGoes
    <3>3. CASE WorkerRegister(v)
      BY <3>3, <3>step DEF WorkerRegister, records, WorkerGoes
    <3>4. CASE WorkerPublish(v)
      BY <3>4, <3>step DEF WorkerPublish, WorkerGoes
    <3>5. CASE WorkerStart(v)
      <4>1. StartRunning(t) => t \notin TaskID \/ state'[t] = "running"
        BY <1>inv DEF StartRunning, TInv, IInv, TypeOK
      <4>2. worker[v].pc = "start" => t \in TaskID
        BY <1>inv DEF WorkerPlaces
      <4> QED BY <3>5, <3>step, <4>1, <4>2 DEF WorkerStart, records, WorkerGoes
    <3>6. CASE HandlerReturns(v)
      BY <3>6, <3>step DEF HandlerReturns, records, WorkerGoes
    <3>7. CASE WorkerFinish(v)
      BY <3>7, <3>step DEF WorkerFinish, WorkerGoes
    <3>8. CASE WorkerCleanup(v)
      BY <3>8, <3>step DEF WorkerCleanup, WorkerGoes
    <3> QED BY <1>2, <3>1, <3>2, <3>3, <3>4, <3>5, <3>6, <3>7, <3>8 DEF WorkerRun
  <2> QED BY <2>1, <2>2 DEF WorkerStaysOrGoes
<1>3. CASE Boot
  BY <1>3, <1>1, BootStill
<1>4. CASE Requests \/ StopReceiving \/ Gone \/ ShutDown \/ UNCHANGED asyncVars
  BY <1>4, <1>1
     DEF Requests, SubmitReceive, CancelReceive, WaitReceive, StopReceiving, Gone, asyncVars,
         ShutDown, AbandonSnapshot, AbandonMark, AbandonFire, AbandonDone, RunReturns, ShutDoor,
         CloseQueue, CloseStore, DownStep
<1>5. ASSUME NEW s \in Submitter, SubmitCall(s) PROVE UNCHANGED worker
  BY <1>5 DEF SubmitCall, SubmitStore, DispatchCheck, DispatchSend, SubmitRollback, SubmitReply
<1>6. ASSUME NEW c \in Canceller, CancelCall(c) PROVE UNCHANGED worker
  BY <1>6 DEF CancelCall, CancelLookup, CancelInterrupt, CancelRecord, CancelReply, AskStep
<1>7. ASSUME NEW x \in Waiter, WaitCall(x) PROVE UNCHANGED worker
  BY <1>7 DEF WaitCall, WaitLookup, WaitWoken, WaitExpire, WaitAnswer, WaitStep
<1> QED BY <1>1, <1>2, <1>3, <1>4, <1>5, <1>6, <1>7 DEF AsyncNext

\* Every step moves each submit call as the handler does, or not at all.
LEMMA NextSubmit ==
  ASSUME TInv, stage = "serving", [AsyncNext]_asyncVars PROVE SubmitStaysOrGoes
<1> USE DEF storeVars, poolVars, toolVars, downVars
<1>inv. IInv /\ Shapes /\ SubmitPlaces
  BY DEF TInv, Shapes
<1>1. CASE UNCHANGED submit
  BY <1>1 DEF SubmitStaysOrGoes
<1>2. ASSUME NEW r \in Submitter, SubmitCall(r) PROVE SubmitStaysOrGoes
  <2>step. ASSUME NEW from, NEW to, SubmitStep(r, from, to)
           PROVE  /\ submit[r].pc = from
                  /\ submit'[r] = IF to = "idle" THEN Resting ELSE At(to, submit[r].task)
                  /\ \A s \in Submitter \ {r} : submit'[s] = submit[s]
    BY <2>step, <1>inv, SubmitStays
  <2>go. ASSUME SubmitGoes(r), \A s \in Submitter \ {r} : submit'[s] = submit[s]
         PROVE  SubmitStaysOrGoes
    BY <2>go DEF SubmitStaysOrGoes
  <2> DEFINE t == submit[r].task
  <2>1. CASE SubmitStore(r)
    <3>1. CASE SubmitStep(r, "received", "dispatch") /\ Submit(t)
      <4>1. t \in TaskID /\ submit[r] = At("received", t) /\ submit'[r] = At("dispatch", t)
        BY <3>1, <2>step, <1>inv DEF SubmitPlaces, SubmitAt, At
      <4>2. Submit(t)
        BY <3>1
      <4> HIDE DEF t
      <4>3. \E s \in Submitter : submit[s] = At("received", t) /\ submit'[s] = At("dispatch", t)
        BY <4>1
      <4>4. Begun(t)
        BY <4>1, <4>2, <4>3, <1>inv DEF Begun, Submit, Admissible, IInv, TypeOK
      <4>5. SubmitGoes(r)
        BY <3>1, <2>step, <4>4 DEF SubmitGoes, t
      <4> QED BY <3>1, <2>step, <2>go, <4>5
    <3>2. CASE SubmitStep(r, "received", "idle")
      BY <3>2, <2>step, <2>go DEF SubmitGoes
    <3> QED BY <2>1, <3>1, <3>2 DEF SubmitStore
  <2>2. CASE DispatchCheck(r)
    BY <2>2, <2>step, <2>go DEF DispatchCheck, SubmitGoes
  <2>3. CASE DispatchSend(r)
    BY <2>3, <2>step, <2>go DEF DispatchSend, SubmitGoes
  <2>4. CASE SubmitRollback(r)
    BY <2>4, <2>step, <2>go DEF SubmitRollback, SubmitGoes
  <2>5. CASE SubmitReply(r)
    BY <2>5, <2>step, <2>go DEF SubmitReply, SubmitGoes
  <2> QED BY <1>2, <2>1, <2>2, <2>3, <2>4, <2>5 DEF SubmitCall
<1>3. ASSUME NEW t \in TaskID, NEW r \in Submitter, SubmitReceive(r, t) PROVE SubmitStaysOrGoes
  <2>1. /\ submit[r].pc = "idle" /\ submit'[r] = At("received", t)
        /\ state[t] = "unborn" /\ UNCHANGED state
        /\ \A s \in Submitter \ {r} : submit'[s] = submit[s]
    BY <1>3, <1>inv DEF SubmitReceive, SubmitPlaces, records
  <2>2. SubmitGoes(r)
    BY <2>1 DEF SubmitGoes
  <2> QED BY <2>1, <2>2 DEF SubmitStaysOrGoes
<1>4. CASE Boot
  BY <1>4, <1>1, BootStill
<1>5. CASE Requests \/ StopReceiving \/ Gone \/ ShutDown \/ UNCHANGED asyncVars
  BY <1>5, <1>1, <1>3
     DEF Requests, CancelReceive, WaitReceive, StopReceiving, Gone, asyncVars,
         ShutDown, AbandonSnapshot, AbandonMark, AbandonFire, AbandonDone, RunReturns, ShutDoor,
         CloseQueue, CloseStore, DownStep
<1>6. ASSUME NEW w \in Worker, WorkerRun(w) PROVE UNCHANGED submit
  BY <1>6 DEF WorkerRun, WorkerReceive, WorkerExit, WorkerRegister, WorkerPublish, WorkerStart,
              HandlerReturns, WorkerFinish, WorkerCleanup, WorkerStep
<1>7. ASSUME NEW c \in Canceller, CancelCall(c) PROVE UNCHANGED submit
  BY <1>7 DEF CancelCall, CancelLookup, CancelInterrupt, CancelRecord, CancelReply, AskStep
<1>8. ASSUME NEW x \in Waiter, WaitCall(x) PROVE UNCHANGED submit
  BY <1>8 DEF WaitCall, WaitLookup, WaitWoken, WaitExpire, WaitAnswer, WaitStep
<1> QED BY <1>1, <1>2, <1>4, <1>5, <1>6, <1>7, <1>8 DEF AsyncNext

\* cancel_task: the handler and the call of Store.Cancel it makes.
AskGoes(c) ==
  LET t == ask[c].task
  IN  \/ \E u \in TaskID : /\ ask[c].pc = "idle" /\ ask'[c] = At("received", u)
                           /\ state[u] # "unborn" /\ UNCHANGED <<state, call>>
      \/ /\ ask[c].pc = "received" /\ ask'[c] = At("cancel", t)
         /\ Present(t) /\ Mine(t) /\ UNCHANGED <<state, owner>>
         /\ call'[c].pc = "fire" /\ call'[c].task = t
         /\ call'[c].over => state[t] \in Terminal
      \/ ask[c].pc \in {"received", "get"} /\ ask'[c] = Resting /\ UNCHANGED call
      \/ /\ call[c].pc = "fire" /\ call[c].over
         /\ ask'[c] = At("get", t) /\ call'[c] = Idle /\ UNCHANGED state
      \/ /\ call[c].pc = "fire" /\ ~call[c].over /\ UNCHANGED ask
         /\ call'[c].pc = "mark" /\ call'[c].task = call[c].task /\ ~call'[c].over
      \/ /\ call[c].pc = "mark" /\ call'[c] = Idle
         /\ ask'[c] = At("get", call[c].task)
         /\ state'[call[c].task] \in Over

\* Cancel calls move only by their own steps.
AskStaysOrGoes ==
  \A c \in Canceller : (ask'[c] = ask[c] /\ call'[c] = call[c]) \/ AskGoes(c)

\* Every step moves each cancel_task call as the handler does, or not at all.
LEMMA NextAsk ==
  ASSUME TInv, Stands, stage = "serving", [AsyncNext]_asyncVars PROVE AskStaysOrGoes
<1> USE DEF storeVars, poolVars, toolVars, downVars
<1>inv. IInv /\ Shapes /\ AskPlaces /\ call \in [Canceller -> CallRecord]
  BY DEF TInv, Shapes, IInv, TypeOK
<1>1. CASE UNCHANGED <<ask, call>>
  BY <1>1 DEF AskStaysOrGoes
<1>2. ASSUME NEW b \in Canceller, CancelCall(b) PROVE AskStaysOrGoes
  <2>step. ASSUME NEW from, NEW to, AskStep(b, from, to)
           PROVE  /\ ask[b].pc = from
                  /\ ask'[b] = IF to = "idle" THEN Resting ELSE At(to, ask[b].task)
                  /\ \A c \in Canceller \ {b} : ask'[c] = ask[c]
    BY <2>step, <1>inv, AskStays
  <2>go. ASSUME AskGoes(b), \A c \in Canceller \ {b} : ask'[c] = ask[c] /\ call'[c] = call[c]
         PROVE  AskStaysOrGoes
    BY <2>go DEF AskStaysOrGoes
  <2> DEFINE t == ask[b].task
  <2>1. CASE CancelLookup(b)
    <3>1. CASE AskStep(b, "received", "cancel") /\ CancelRead(b, t)
      <4>1. /\ call'[b] = [pc |-> "fire", task |-> t, fn |-> t \in attached,
                           over |-> state[t] \in Terminal]
            /\ \A c \in Canceller \ {b} : call'[c] = call[c]
            /\ Present(t) /\ Mine(t) /\ UNCHANGED <<state, owner>>
        BY <3>1, <1>inv DEF CancelRead, records
      <4>2. ask[b].pc = "received" /\ ask'[b] = At("cancel", t)
        BY <3>1, <2>step
      <4>3. call'[b].pc = "fire" /\ call'[b].task = t /\ (call'[b].over => state[t] \in Terminal)
        <5> DEFINE fn == t \in attached
                   over == state[t] \in Terminal
        <5>1. call'[b] = [pc |-> "fire", task |-> t, fn |-> fn, over |-> over]
          BY <4>1
        <5> HIDE DEF fn, over
        <5>2. call'[b].pc = "fire" /\ call'[b].task = t /\ call'[b].over = over
          BY <5>1
        <5> QED BY <5>2 DEF over
      <4>4. AskGoes(b)
        BY <4>1, <4>2, <4>3 DEF AskGoes
      <4> QED BY <3>1, <4>1, <4>4, <2>step, <2>go
    <3>2. CASE AskStep(b, "received", "idle") /\ UNCHANGED storeVars
      BY <3>2, <2>step, <2>go DEF AskGoes
    <3> QED BY <2>1, <3>1, <3>2 DEF CancelLookup
  <2>2. CASE CancelInterrupt(b)
    <3>1. CancelFire(b) /\ call[b].pc = "fire" /\ UNCHANGED state
          /\ AskStep(b, "cancel", IF call[b].over THEN "get" ELSE "cancel")
      BY <2>2 DEF CancelInterrupt, CancelFire, records
    <3>2. /\ call'[b] = IF call[b].over THEN Idle ELSE [call[b] EXCEPT !.pc = "mark"]
          /\ \A c \in Canceller \ {b} : call'[c] = call[c]
      BY <3>1, <1>inv DEF CancelFire
    <3>3. call[b] \in CallRecord
      BY <1>inv
    <3>4. CASE call[b].over
      BY <3>1, <3>2, <3>4, <2>step, <2>go DEF AskGoes
    <3>5. CASE ~call[b].over
      <4>1. call'[b].pc = "mark" /\ call'[b].task = call[b].task /\ ~call'[b].over
        BY <3>2, <3>3, <3>5 DEF CallRecord
      <4>2. ask[b].pc = "cancel" /\ ask'[b] = At("cancel", t) /\ ask[b] \in AskAt
        BY <3>1, <3>5, <2>step, <1>inv DEF AskPlaces
      <4>3. UNCHANGED ask
        BY <4>2, <3>1, <3>5, <1>inv DEF At, AskAt, AskStep, AskPlaces
      <4>4. AskGoes(b)
        BY <3>1, <3>5, <4>1, <4>3 DEF AskGoes
      <4> QED BY <3>2, <4>3, <4>4, <2>go
    <3> QED BY <3>4, <3>5
  <2>3. CASE CancelRecord(b)
    <3>1. /\ CancelMark(b) /\ call[b].pc = "mark"
          /\ AskStep(b, "cancel", IF closed THEN "idle" ELSE "get")
      BY <2>3 DEF CancelRecord, CancelMark
    <3>2. call'[b] = Idle /\ \A c \in Canceller \ {b} : call'[c] = call[c]
      BY <3>1, <1>inv DEF CancelMark
    <3>3. ask[b].pc = "cancel" /\ call[b].task = t /\ t \in TaskID
      BY <3>1, <2>step, <1>inv DEF AskPlaces
    <3>4. ~closed
      BY <3>3 DEF TInv, Order, CallsServed
    <3>5. state'[call[b].task] \in Over
      BY <3>1, <3>4, <1>inv, MarkKept DEF Stands
    <3>6. ask'[b] = At("get", call[b].task)
      BY <3>1, <3>3, <3>4, <2>step
    <3>7. AskGoes(b)
      BY <3>1, <3>2, <3>5, <3>6 DEF AskGoes
    <3> QED BY <3>1, <3>2, <3>7, <2>step, <2>go
  <2>4. CASE CancelReply(b)
    BY <2>4, <2>step, <2>go DEF CancelReply, AskGoes
  <2> QED BY <1>2, <2>1, <2>2, <2>3, <2>4 DEF CancelCall
<1>3. ASSUME NEW t \in TaskID, NEW b \in Canceller, CancelReceive(b, t) PROVE AskStaysOrGoes
  <2>1. /\ ask[b].pc = "idle" /\ ask'[b] = At("received", t)
        /\ state[t] # "unborn" /\ UNCHANGED <<state, call>>
        /\ \A c \in Canceller \ {b} : ask'[c] = ask[c]
    BY <1>3, <1>inv DEF CancelReceive, AskPlaces, records
  <2>2. AskGoes(b)
    BY <2>1 DEF AskGoes
  <2> QED BY <2>1, <2>2 DEF AskStaysOrGoes
<1>4. CASE Boot
  BY <1>4, <1>1, BootStill
<1>5. CASE Requests \/ StopReceiving \/ Gone \/ UNCHANGED asyncVars
  BY <1>5, <1>1, <1>3
     DEF Requests, SubmitReceive, WaitReceive, StopReceiving, Gone, asyncVars, DownStep
<1>6. CASE ShutDown
  BY <1>6, <1>1
     DEF ShutDown, AbandonSnapshot, AbandonMark, AbandonFire, AbandonDone, RunReturns, ShutDoor,
         CloseQueue, CloseStore, DownStep, TryFinish, Finish, Close
<1>7. ASSUME NEW s \in Submitter, SubmitCall(s) PROVE UNCHANGED <<ask, call>>
  BY <1>7 DEF SubmitCall, SubmitStore, DispatchCheck, DispatchSend, SubmitRollback, SubmitReply,
              SubmitStep, Submit, TryFinish, Finish
<1>8. ASSUME NEW w \in Worker, WorkerRun(w) PROVE UNCHANGED <<ask, call>>
  BY <1>8 DEF WorkerRun, WorkerReceive, WorkerExit, WorkerRegister, WorkerPublish, WorkerStart,
              HandlerReturns, WorkerFinish, WorkerCleanup, WorkerStep, RegisterCancel,
              StartRunning, TryFinish, Finish
<1>9. ASSUME NEW x \in Waiter, WaitCall(x) PROVE UNCHANGED <<ask, call>>
  BY <1>9 DEF WaitCall, WaitLookup, WaitWoken, WaitExpire, WaitAnswer, WaitStep
<1> QED BY <1>1, <1>2, <1>4, <1>5, <1>6, <1>7, <1>8, <1>9 DEF AsyncNext

\* The buffer, d.running, and who has been told to stop.
QueueGoes ==
  \A t \in TaskID :
    /\ t \in Elements(queue') => \/ t \in Elements(queue)
                                 \/ \E s \in Submitter : submit[s].pc = "send" /\ submit[s].task = t
    /\ t \in Elements(queue) => \/ t \in Elements(queue')
                                \/ \E w \in Worker : worker'[w] = At("register", t)

\* A job enters d.running after RegisterCancel and leaves it in the cleanup.
PublishedGoes ==
  \/ UNCHANGED published
  \/ \E w \in Worker : worker[w].pc = "publish" /\ published' = published \cup {worker[w].task}
  \/ \E w \in Worker : /\ worker[w].pc = "cleanup" /\ worker'[w] = Resting
                       /\ published' = published \ {worker[w].task}

\* A job is told to stop by AbandonRunning or by a cancel call that found its
\* cancel func.
FiredGoes ==
  /\ todo' \subseteq todo \cup published
  /\ \A t \in fired' : \/ t \in fired
                       \/ t = firing
                       \/ \E c \in Canceller : /\ call[c].pc = "fire" /\ call[c].task = t
                                               /\ ~call[c].over => call'[c].pc = "mark"
                                               /\ ~call[c].over => call'[c].task = t
  /\ \/ firing' \in {firing, NoTask}
     \/ firing' \in todo /\ TryFinish(firing', "abandoned") /\ ~closed

\* Every step moves the tables as these say.
LEMMA NextTables ==
  ASSUME TInv, OneHolder, stage = "serving", [AsyncNext]_asyncVars
  PROVE  QueueGoes /\ PublishedGoes /\ FiredGoes
<1> USE DEF storeVars, poolVars, toolVars, downVars
<1>inv. IInv /\ Shapes /\ PoolTypes /\ WorkerPlaces /\ SubmitPlaces
        /\ call \in [Canceller -> CallRecord]
  BY DEF TInv, Shapes, IInv, TypeOK
<1>q. ASSUME UNCHANGED queue PROVE QueueGoes
  BY <1>q DEF QueueGoes, Elements
<1>p. ASSUME UNCHANGED published PROVE PublishedGoes
  BY <1>p DEF PublishedGoes
<1>f. ASSUME UNCHANGED <<todo, fired, firing>> PROVE FiredGoes
  BY <1>f DEF FiredGoes
<1>1. CASE Boot
  BY <1>1, <1>q, <1>p, <1>f, BootStill
<1>2. CASE Requests \/ StopReceiving \/ Gone \/ UNCHANGED asyncVars
  BY <1>2, <1>q, <1>p, <1>f
     DEF Requests, SubmitReceive, CancelReceive, WaitReceive, StopReceiving, Gone, asyncVars
<1>3. CASE ShutDown
  <2>1. UNCHANGED <<queue, published>>
    BY <1>3 DEF ShutDown, AbandonSnapshot, AbandonMark, AbandonFire, AbandonDone, RunReturns,
                ShutDoor, CloseQueue, CloseStore
  <2>2. FiredGoes
    <3>1. CASE AbandonSnapshot
      BY <3>1 DEF AbandonSnapshot, FiredGoes
    <3>2. CASE AbandonFire
      BY <3>2 DEF AbandonFire, FiredGoes
    <3>3. ASSUME NEW t \in TaskID, AbandonMark(t) PROVE FiredGoes
      <4>1. /\ firing' = t /\ t \in todo /\ todo' \subseteq todo /\ UNCHANGED fired
            /\ TryFinish(t, "abandoned") /\ ~closed
        BY <3>3 DEF AbandonMark, TryFinish, Finish, TInv, Order
      <4> QED BY <4>1 DEF FiredGoes
    <3>4. CASE UNCHANGED <<todo, fired, firing>>
      BY <3>4, <1>f
    <3> QED BY <1>3, <3>1, <3>2, <3>3, <3>4
            DEF ShutDown, AbandonDone, RunReturns, ShutDoor, CloseQueue, CloseStore, Close
  <2> QED BY <2>1, <2>2, <1>q, <1>p
<1>4. ASSUME NEW s \in Submitter, SubmitCall(s) PROVE QueueGoes /\ PublishedGoes /\ FiredGoes
  <2>1. UNCHANGED <<published, todo, fired, firing>>
    BY <1>4 DEF SubmitCall, SubmitStore, DispatchCheck, DispatchSend, SubmitRollback,
                SubmitReply, SubmitStep, Submit, TryFinish, Finish
  <2>2. CASE SubmitStep(s, "send", "get") /\ queue' = Append(queue, submit[s].task)
    <3>1. /\ submit[s].pc = "send" /\ submit[s].task \in TaskID
          /\ submit[s].task \notin Elements(queue)
      BY <2>2, <1>inv, SubmitStays DEF SubmitPlaces, OneHolder, Sending
    <3>2. Elements(queue') = Elements(queue) \cup {submit[s].task}
      BY <2>2, <3>1, <1>inv, AppendElements DEF OneHolder, PoolTypes
    <3> QED BY <2>1, <3>1, <3>2, <1>p, <1>f DEF QueueGoes
  <2>3. CASE UNCHANGED queue
    BY <2>1, <2>3, <1>q, <1>p, <1>f
  <2> QED BY <1>4, <2>2, <2>3
          DEF SubmitCall, SubmitStore, DispatchCheck, DispatchSend, SubmitRollback, SubmitReply
<1>5. ASSUME NEW w \in Worker, WorkerRun(w) PROVE QueueGoes /\ PublishedGoes /\ FiredGoes
  <2>1. UNCHANGED <<todo, fired, firing>>
    BY <1>5 DEF WorkerRun, WorkerReceive, WorkerExit, WorkerRegister, WorkerPublish,
                WorkerStart, HandlerReturns, WorkerFinish, WorkerCleanup, WorkerStep,
                RegisterCancel, StartRunning, TryFinish, Finish
  <2>2. CASE WorkerReceive(w)
    <3>1. /\ Elements(queue') = Elements(queue) \ {Head(queue)}
          /\ worker'[w] = At("register", Head(queue)) /\ UNCHANGED published
      BY <2>2, <1>inv, TailElements DEF WorkerReceive, OneHolder, PoolTypes, WorkerPlaces
    <3> QED BY <2>1, <3>1, <1>p, <1>f DEF QueueGoes
  <2>3. CASE WorkerPublish(w)
    BY <2>1, <2>3, <1>q, <1>f, <1>inv, WorkerStays DEF WorkerPublish, PublishedGoes
  <2>4. CASE WorkerCleanup(w)
    BY <2>1, <2>4, <1>q, <1>f, <1>inv, WorkerStays DEF WorkerCleanup, PublishedGoes
  <2>5. CASE UNCHANGED <<queue, published>>
    BY <2>1, <2>5, <1>q, <1>p, <1>f
  <2> QED BY <1>5, <2>2, <2>3, <2>4, <2>5
          DEF WorkerRun, WorkerExit, WorkerRegister, WorkerStart, HandlerReturns, WorkerFinish
<1>6. ASSUME NEW c \in Canceller, CancelCall(c) PROVE QueueGoes /\ PublishedGoes /\ FiredGoes
  <2>1. UNCHANGED <<queue, published, todo, firing>>
    BY <1>6 DEF CancelCall, CancelLookup, CancelInterrupt, CancelRecord, CancelReply, AskStep
  <2>2. CASE CancelFire(c)
    <3>1. /\ call[c].pc = "fire" /\ fired' \subseteq fired \cup {call[c].task}
          /\ call'[c] = IF call[c].over THEN Idle ELSE [call[c] EXCEPT !.pc = "mark"]
          /\ call[c] \in CallRecord
      BY <2>2, <1>inv DEF CancelFire
    <3>2. ~call[c].over => call'[c].pc = "mark" /\ call'[c].task = call[c].task
      BY <3>1 DEF CallRecord
    <3> QED BY <2>1, <3>1, <3>2, <1>q, <1>p DEF FiredGoes
  <2>3. CASE UNCHANGED fired
    BY <2>1, <2>3, <1>q, <1>p, <1>f
  <2> QED BY <1>6, <2>1, <2>2, <2>3
          DEF CancelCall, CancelLookup, CancelInterrupt, CancelRecord, CancelReply, CancelRead,
              CancelMark
<1>7. ASSUME NEW x \in Waiter, WaitCall(x) PROVE QueueGoes /\ PublishedGoes /\ FiredGoes
  BY <1>7, <1>q, <1>p, <1>f
     DEF WaitCall, WaitLookup, WaitWoken, WaitExpire, WaitAnswer, WaitStep
<1> QED BY <1>1, <1>2, <1>3, <1>4, <1>5, <1>6, <1>7 DEF AsyncNext

-----------------------------------------------------------------------------
\* What the moves of the tasks leave true.
LEMMA TaskFacts ==
  ASSUME TypeOK, TaskMoves, NEW t \in TaskID
  PROVE  /\ state[t] # "unborn" => state'[t] # "unborn" /\ owner'[t] = owner[t]
         /\ state[t] \in Over => state'[t] \in Over
         /\ state[t] \notin {"unborn", "queued"} => state'[t] \notin {"unborn", "queued"}
         /\ state[t] \notin {"unborn", "running"} =>
              state'[t] \notin {"unborn", "running"} \/ Started(t)
         /\ state[t] = "unborn" => state'[t] = "unborn" \/ Begun(t)
         /\ state'[t] \in Live => Begun(t) \/ (state[t] \in Live /\ owner'[t] = owner[t])
<1>1. Kept(t) \/ Begun(t) \/ Started(t)
  BY DEF TaskMoves
<1>2. state[t] \in Fate
  BY DEF TypeOK
<1> QED BY <1>1, <1>2 DEF Kept, Begun, Started, Fate, State, Over, Live, Terminal

\* The steps of a live layer, from a state of the invariant.
Steps ==
  /\ TInv /\ TInv' /\ OneHolder /\ Stands /\ stage = "serving"
  /\ TaskMoves /\ WorkerStaysOrGoes /\ SubmitStaysOrGoes /\ AskStaysOrGoes
  /\ QueueGoes /\ PublishedGoes /\ FiredGoes

\* Only the worker that starts a task makes it run.
LEMMA OnlyHolderStarts ==
  ASSUME Steps, NEW t \in TaskID, Started(t)
  PROVE  /\ t \notin Elements(queue)
         /\ \A s \in Submitter : submit[s].pc \in Sending => submit[s].task # t
         /\ \A w \in Worker : worker[w].task = t => worker[w].pc = "start" /\ worker'[w].pc = "run"
<1>1. PICK v \in Worker : worker[v] = At("start", t) /\ worker'[v] = At("run", t)
  BY DEF Started
<1>2. worker[v].task = t /\ worker[v].pc = "start" /\ worker'[v].pc = "run"
  BY <1>1 DEF At
<1>3. t # NoTask
  BY ConstantsAssumption DEF ConstantsAssumption
<1> QED BY <1>2, <1>3 DEF Steps, OneHolder

\* A submit call holds a task it has yet to admit, or one that waits.
LEMMA SubmitStands ==
  ASSUME Steps, NEW s \in Submitter
  PROVE  /\ submit'[s].pc = "received" => state'[submit'[s].task] = "unborn"
         /\ submit'[s].pc \in Sending =>
              /\ state'[submit'[s].task] \notin {"unborn", "running"}
              /\ owner'[submit'[s].task] = "self"
<1> DEFINE t == submit[s].task
<1>inv. TypeOK /\ TaskMoves /\ SubmitPlaces /\ NoTask \notin TaskID
  BY ConstantsAssumption DEF Steps, TInv, IInv, Shapes, ConstantsAssumption
<1>t. submit[s].pc # "idle" => t \in TaskID
  BY <1>inv DEF SubmitPlaces
<1>1. CASE submit'[s] = submit[s]
  <2>1. CASE submit[s].pc = "received"
    <3>1. state[t] = "unborn"
      BY <2>1 DEF Steps, Stands
    <3>2. ~Begun(t)
      <4>1. ASSUME NEW r \in Submitter,
                    submit[r] = At("received", t), submit'[r] = At("dispatch", t)
            PROVE  FALSE
        <5>1. submit[r].task = submit[s].task /\ submit'[r].pc = "dispatch"
          BY <4>1 DEF At
        <5>2. r = s
          BY <5>1, <1>t, <2>1, <1>inv DEF Steps, OneHolder
        <5> QED BY <1>1, <2>1, <5>1, <5>2
      <4> QED BY <4>1 DEF Begun
    <3> QED BY <1>1, <2>1, <3>1, <3>2, <1>t, <1>inv, TaskFacts DEF Sending
  <2>2. CASE submit[s].pc \in Sending
    <3>1. t \in TaskID /\ state[t] \notin {"unborn", "running"} /\ Mine(t)
      BY <2>2, <1>t DEF Steps, Stands, Sending
    <3>2. ~Started(t)
      BY <2>2, <3>1, OnlyHolderStarts
    <3> QED BY <1>1, <2>2, <3>1, <3>2, <1>inv, TaskFacts DEF Sending, Mine
  <2> QED BY <1>1, <2>1, <2>2
<1>2. ASSUME NEW u \in TaskID, submit'[s] = At("received", u), state[u] = "unborn", UNCHANGED state
      PROVE  submit'[s].pc = "received" /\ state'[submit'[s].task] = "unborn"
  BY <1>2 DEF At
<1>3. CASE submit[s].pc = "received" /\ submit'[s] = At("dispatch", t) /\ Begun(t)
  BY <1>3 DEF Begun, At, Sending
<1>4. CASE submit'[s] = Resting
  BY <1>4 DEF Resting, Sending
<1>5. ASSUME submit[s].pc \in Sending, NEW to, submit'[s] = At(to, t), to # "received"
      PROVE  /\ submit'[s].pc # "received"
             /\ state'[submit'[s].task] \notin {"unborn", "running"}
             /\ owner'[submit'[s].task] = "self"
  <2>1. t \in TaskID /\ state[t] \notin {"unborn", "running"} /\ Mine(t)
    BY <1>5, <1>t DEF Steps, Stands, Sending
  <2>2. ~Started(t)
    BY <1>5, <2>1, OnlyHolderStarts
  <2> QED BY <1>5, <2>1, <2>2, <1>inv, TaskFacts DEF Mine, At
<1>6. CASE SubmitGoes(s)
  BY <1>6, <1>2, <1>3, <1>4, <1>5 DEF SubmitGoes, Sending
<1> QED BY <1>1, <1>6 DEF Steps, SubmitStaysOrGoes

\* A worker holds a task that waits until it has started it.
LEMMA WorkerStands ==
  ASSUME Steps, NEW w \in Worker
  PROVE  /\ worker'[w].pc \in {"register", "publish", "start"} =>
              state'[worker'[w].task] \notin {"unborn", "running"}
         /\ worker'[w].pc \in {"run", "completed", "failed"} =>
              state'[worker'[w].task] \notin {"unborn", "queued"}
         /\ worker'[w].pc = "cleanup" => state'[worker'[w].task] # "unborn"
<1> DEFINE t == worker[w].task
           early == {"register", "publish", "start"}
           late == {"run", "completed", "failed"}
<1>inv. /\ TypeOK /\ TaskMoves /\ WorkerPlaces /\ Elements(queue) \subseteq TaskID
        /\ PoolTypes /\ OneHolder
  BY QueueTasks DEF Steps, TInv, IInv, Shapes
<1>t. worker[w].pc \in early \cup late \cup {"cleanup"} => t \in TaskID
  BY <1>inv DEF WorkerPlaces
<1>early. ASSUME worker[w].pc \in early, worker'[w].pc # "run"
          PROVE  state'[t] \notin {"unborn", "running"}
  <2>1. t \in TaskID /\ state[t] \notin {"unborn", "running"}
    BY <1>early, <1>t DEF Steps, Stands
  <2>2. ~Started(t)
    BY <1>early, <2>1, OnlyHolderStarts
  <2> QED BY <2>1, <2>2, <1>inv, TaskFacts
<1>late. ASSUME worker[w].pc \in late PROVE state'[t] \notin {"unborn", "queued"}
  <2>1. t \in TaskID /\ state[t] \notin {"unborn", "queued"}
    BY <1>late, <1>t DEF Steps, Stands
  <2> QED BY <2>1, <1>inv, TaskFacts
<1>1. CASE worker'[w] = worker[w]
  <2>1. CASE worker[w].pc \in early
    BY <1>1, <2>1, <1>early
  <2>2. CASE worker[w].pc \in late
    BY <1>1, <2>2, <1>late
  <2>3. CASE worker[w].pc = "cleanup"
    <3>1. t \in TaskID /\ state[t] # "unborn"
      BY <2>3, <1>t DEF Steps, Stands
    <3> QED BY <1>1, <2>3, <3>1, <1>inv, TaskFacts
  <2> QED BY <1>1, <2>1, <2>2, <2>3
<1>2. CASE queue # << >> /\ worker'[w] = At("register", Head(queue))
  <2> DEFINE h == Head(queue)
  <2>1. h \in TaskID /\ h \in Elements(queue)
    BY <1>2, <1>inv, TailElements DEF OneHolder, PoolTypes
  <2>2. state[h] \notin {"unborn", "running"} /\ ~Started(h)
    BY <2>1, OnlyHolderStarts DEF Steps, Stands
  <2>3. state'[h] \notin {"unborn", "running"}
    BY <2>1, <2>2, <1>inv, TaskFacts
  <2> QED BY <1>2, <2>3 DEF At
<1>3. CASE worker'[w] = Resting \/ worker'[w] = At("exited", t)
  BY <1>3 DEF Resting, At
<1>4. CASE /\ worker[w].pc \in early
               /\ \E to \in {"publish", "start", "cleanup"} : worker'[w] = At(to, t)
  BY <1>4, <1>early DEF At
<1>5. CASE worker[w].pc = "start" /\ worker'[w] = At("run", t) /\ state'[t] = "running"
  BY <1>5 DEF At
<1>6. CASE /\ worker[w].pc \in late
               /\ \E to \in {"completed", "failed", "cleanup"} : worker'[w] = At(to, t)
  BY <1>6, <1>late DEF At
<1>7. CASE WorkerGoes(w)
  BY <1>7, <1>2, <1>3, <1>4, <1>5, <1>6 DEF WorkerGoes
<1> QED BY <1>1, <1>7 DEF Steps, WorkerStaysOrGoes

\* A cancel_task call leaves its task over.
LEMMA AskStands ==
  ASSUME Steps, NEW c \in Canceller
  PROVE  /\ call'[c].pc # "idle" => /\ state'[call'[c].task] # "unborn"
                                    /\ owner'[call'[c].task] = "self"
         /\ call'[c].pc # "idle" /\ call'[c].over => state'[call'[c].task] \in Over
         /\ ask'[c].pc = "get" => state'[ask'[c].task] \in Over
<1>inv. /\ TypeOK /\ TaskMoves /\ AskPlaces /\ CallsNameTasks
        /\ call[c] \in CallRecord /\ call'[c] \in CallRecord
  BY DEF Steps, TInv, IInv, Shapes, TypeOK
<1> DEFINE t == call[c].task
           a == ask[c].task
<1>call. ASSUME call[c].pc # "idle"
         PROVE  /\ t \in TaskID /\ t = a /\ state'[t] # "unborn" /\ owner'[t] = "self"
                /\ call[c].over => state'[t] \in Over
  <2>1. t \in TaskID /\ t = a /\ state[t] # "unborn" /\ Mine(t)
        /\ (call[c].over => state[t] \in Over)
    BY <1>call, <1>inv DEF Steps, Stands, AskPlaces
  <2> QED BY <2>1, <1>inv, TaskFacts DEF Mine
<1>get. ASSUME ask[c].pc = "get" PROVE state'[a] \in Over
  <2>1. a \in TaskID /\ state[a] \in Over
    BY <1>get, <1>inv DEF Steps, Stands, AskPlaces
  <2> QED BY <2>1, <1>inv, TaskFacts
<1>1. CASE ask'[c] = ask[c] /\ call'[c] = call[c]
  BY <1>1, <1>call, <1>get
<1>2. CASE AskGoes(c)
  <2>1. ASSUME NEW u \in TaskID, ask[c].pc = "idle", ask'[c] = At("received", u), UNCHANGED call
        PROVE  call'[c].pc = "idle" /\ ask'[c].pc # "get"
    BY <2>1, <1>inv DEF At, AskPlaces
  <2>2. CASE /\ ask[c].pc = "received" /\ ask'[c] = At("cancel", a)
             /\ Present(a) /\ Mine(a) /\ UNCHANGED <<state, owner>>
             /\ call'[c].task = a
             /\ call'[c].over => state[a] \in Terminal
    BY <2>2 DEF At, Present, State, Live, Terminal, Mine, Over
  <2>3. CASE ask[c].pc \in {"received", "get"} /\ ask'[c] = Resting /\ UNCHANGED call
    BY <2>3, <1>inv DEF Resting, AskPlaces
  <2>4. CASE /\ call[c].pc = "fire" /\ call[c].over
             /\ ask'[c] = At("get", a) /\ call'[c] = Idle
    BY <2>4, <1>call DEF At, Idle
  <2>5. CASE /\ call[c].pc = "fire" /\ ~call[c].over /\ UNCHANGED ask
             /\ call'[c].pc = "mark" /\ call'[c].task = t /\ ~call'[c].over
    BY <2>5, <1>call, <1>inv DEF AskPlaces
  <2>6. CASE /\ call[c].pc = "mark" /\ call'[c] = Idle
             /\ ask'[c] = At("get", t) /\ state'[t] \in Over
    BY <2>6 DEF At, Idle
  <2> QED BY <1>2, <2>1, <2>2, <2>3, <2>4, <2>5, <2>6 DEF AskGoes
<1> QED BY <1>1, <1>2 DEF Steps, AskStaysOrGoes

\* A Transition that is refused changes nothing.
LEMMA FinishEnds ==
  ASSUME TInv, NEW t \in TaskID, NEW to, TryFinish(t, to)
  PROVE  state'[t] \in Over \/ (~Accepts(t, to) /\ UNCHANGED <<state, owner>>)
BY FinishKept DEF TInv, TryFinish, storeVars, records

\* What ends a task that has not ended: nobody else's, and the store is open.
LEMMA FinishAccepted ==
  ASSUME TInv, NEW t \in TaskID, NEW to, TryFinish(t, to), Mine(t), ~closed,
         \/ state[t] = "queued" /\ to \in {"failed", "abandoned"}
         \/ state[t] = "running" /\ to \in Terminal
  PROVE  state'[t] \in Over
<1>1. Accepts(t, to)
  BY DEF Accepts, Present, State, Live, CanTransition, AllowedTransitions
<1> QED BY <1>1, FinishEnds

\* Every step leaves the tasks in the states their holders rely on.
LEMMA NextStands == Steps => Stands'
<1> SUFFICES ASSUME Steps PROVE Stands'
  OBVIOUS
<1>inv. /\ TInv /\ Stands /\ TypeOK /\ TaskMoves /\ Elements(queue) \subseteq TaskID
        /\ PoolTypes /\ PoolTypes' /\ Shapes' /\ WorkerPlaces /\ AskPlaces /\ CallsNameTasks
        /\ fired \subseteq TaskID /\ fired' \subseteq TaskID /\ NoTask \notin TaskID
  BY QueueTasks, ConstantsAssumption DEF Steps, TInv, IInv, TypeOK, Shapes, ConstantsAssumption
<1>born. ASSUME NEW t \in TaskID, state[t] # "unborn" PROVE state'[t] # "unborn"
  BY <1>born, <1>inv, TaskFacts
<1>1. ASSUME NEW t \in Elements(queue') PROVE state'[t] \notin {"unborn", "running"}
  <2>0. t \in TaskID
    BY <1>1, <1>inv DEF PoolTypes, Elements
  <2>1. t \in Elements(queue) \/ \E s \in Submitter : submit[s].pc = "send" /\ submit[s].task = t
    BY <1>1, <2>0 DEF Steps, QueueGoes
  <2>2. state[t] \notin {"unborn", "running"} /\ ~Started(t)
    BY <2>0, <2>1, <1>inv, OnlyHolderStarts DEF Stands, Sending
  <2> QED BY <2>0, <2>2, <1>inv, TaskFacts
<1>2. ASSUME NEW t \in published' PROVE state'[t] # "unborn"
  <2>0. t \in TaskID
    BY <1>2, <1>inv DEF PoolTypes
  <2>1. t \in published \/ \E w \in Worker : worker[w].pc = "publish" /\ t = worker[w].task
    BY <1>2 DEF Steps, PublishedGoes
  <2> QED BY <2>0, <2>1, <1>born, <1>inv DEF Stands
<1>3. ASSUME NEW t \in todo' PROVE state'[t] # "unborn"
  <2>1. t \in TaskID /\ t \in todo \cup published
    BY <1>3, <1>inv DEF PoolTypes, Steps, FiredGoes
  <2> QED BY <2>1, <1>born, <1>inv DEF Stands
<1>firing. ASSUME firing # NoTask
           PROVE  \/ state'[firing] \in Over
                  \/ state'[firing] # "unborn" /\ ~(owner'[firing] = "self")
  <2>1. /\ firing \in TaskID
        /\ state[firing] \in Over \/ (state[firing] # "unborn" /\ ~Mine(firing))
    BY <1>firing, <1>inv DEF PoolTypes, Stands
  <2> QED BY <2>1, <1>inv, TaskFacts DEF Mine
<1>4. ASSUME NEW t \in fired' PROVE state'[t] # "unborn"
  <2>0. t \in TaskID
    BY <1>4, <1>inv
  <2>1. \/ t \in fired
        \/ t = firing
        \/ \E c \in Canceller : call[c].pc = "fire" /\ call[c].task = t
    BY <1>4 DEF Steps, FiredGoes
  <2>2. CASE t = firing
    BY <2>0, <2>2, <1>inv, <1>firing DEF Over, Terminal
  <2> QED BY <2>0, <2>1, <2>2, <1>born, <1>inv DEF Stands
<1>5. ASSUME firing' # NoTask
      PROVE  state'[firing'] \in Over \/ (state'[firing'] # "unborn" /\ ~(owner'[firing'] = "self"))
  <2>1. CASE firing' = firing
    BY <1>5, <2>1, <1>firing
  <2>2. CASE firing' \in todo /\ TryFinish(firing', "abandoned") /\ ~closed
    <3> DEFINE t == firing'
    <3>1. t \in TaskID /\ t \in todo /\ state[t] # "unborn" /\ TryFinish(t, "abandoned")
      BY <2>2, <1>inv DEF PoolTypes, Stands
    <3>2. ~closed
      BY <2>2
    <3> HIDE DEF t
    <3>3. state[t] \in Fate
      BY <3>1, <1>inv DEF TypeOK
    <3>4. CASE state'[t] \in Over
      BY <3>4 DEF t
    <3>5. CASE ~Accepts(t, "abandoned") /\ UNCHANGED <<state, owner>>
      BY <3>1, <3>2, <3>3, <3>5
         DEF Accepts, Present, Fate, State, Live, Over, Terminal, CanTransition,
             AllowedTransitions, Mine, t
    <3> QED BY <3>1, <3>4, <3>5, <1>inv, FinishEnds
  <2> QED BY <1>5, <2>1, <2>2 DEF Steps, FiredGoes
<1>6. /\ \A s \in Submitter :
           /\ submit'[s].pc = "received" => state'[submit'[s].task] = "unborn"
           /\ submit'[s].pc \in Sending =>
                /\ state'[submit'[s].task] \notin {"unborn", "running"}
                /\ owner'[submit'[s].task] = "self"
  BY SubmitStands
<1>7. \A w \in Worker :
        /\ worker'[w].pc \in {"register", "publish", "start"} =>
             state'[worker'[w].task] \notin {"unborn", "running"}
        /\ worker'[w].pc \in {"run", "completed", "failed"} =>
             state'[worker'[w].task] \notin {"unborn", "queued"}
        /\ worker'[w].pc = "cleanup" => state'[worker'[w].task] # "unborn"
  BY WorkerStands
<1>8. \A c \in Canceller :
        /\ call'[c].pc # "idle" => /\ state'[call'[c].task] # "unborn"
                                   /\ owner'[call'[c].task] = "self"
        /\ call'[c].pc # "idle" /\ call'[c].over => state'[call'[c].task] \in Over
        /\ ask'[c].pc = "get" => state'[ask'[c].task] \in Over
  BY AskStands
<1> QED BY <1>1, <1>2, <1>3, <1>4, <1>5, <1>6, <1>7, <1>8 DEF Stands, Mine, Elements

-----------------------------------------------------------------------------
\* A job leaves d.running only when the worker that holds it has cleaned up.
LEMMA NextPublished == Steps /\ RunningIsPublished => RunningIsPublished'
<1> SUFFICES ASSUME Steps, RunningIsPublished,
                    NEW w \in Worker, worker'[w].pc \in {"start", "run", "completed", "failed"}
             PROVE  worker'[w].task \in published'
  BY DEF RunningIsPublished
<1> DEFINE t == worker[w].task
<1>inv. WorkerPlaces /\ NoTask \notin TaskID
  BY ConstantsAssumption DEF Steps, TInv, Shapes, ConstantsAssumption
<1>1. /\ worker[w].pc \in {"publish", "start", "run", "completed", "failed"}
      /\ worker'[w].task = t
      /\ worker[w].pc = "publish" => worker'[w] = worker[w] \/ published' = published \cup {t}
  <2>1. CASE worker'[w] = worker[w]
    BY <2>1
  <2>2. CASE WorkerGoes(w)
    BY <2>2 DEF WorkerGoes, At, Resting
  <2> QED BY <2>1, <2>2 DEF Steps, WorkerStaysOrGoes
<1>2. t \in TaskID
  BY <1>1, <1>inv DEF WorkerPlaces
<1>3. t \in published \/ published' = published \cup {t}
  BY <1>1 DEF RunningIsPublished
<1>4. ASSUME NEW v \in Worker, worker[v].pc = "cleanup", worker'[v] = Resting,
             published' = published \ {worker[v].task}
      PROVE  worker[v].task # t
  BY <1>1, <1>2, <1>4, <1>inv DEF Steps, OneHolder, Resting
<1> QED BY <1>1, <1>3, <1>4 DEF Steps, PublishedGoes

\* An interrupted job ends: its canceller records it, or found it over.
LEMMA NextFired == Steps /\ FiredOver => FiredOver'
<1> SUFFICES ASSUME Steps, FiredOver, NEW t \in fired', state'[t] \in Live, owner'[t] = "self"
             PROVE  Marking(t)'
  BY DEF FiredOver, Mine
<1>inv. /\ TypeOK /\ TaskMoves /\ fired \subseteq TaskID /\ fired' \subseteq TaskID /\ Stands
        /\ t \in TaskID
  BY DEF Steps, TInv, IInv, TypeOK
<1>over. Over \cap Live = {}
  BY DEF Over, Live, Terminal
<1>goes. \A c \in Canceller : (ask'[c] = ask[c] /\ call'[c] = call[c]) \/ AskGoes(c)
  BY DEF Steps, AskStaysOrGoes
<1>1. ASSUME state[t] # "unborn" PROVE state[t] \in Live /\ Mine(t)
  BY <1>1, <1>inv, TaskFacts DEF Begun, Mine
<1>2. ASSUME Marking(t) PROVE Marking(t)'
  <2>1. PICK c \in Canceller : call[c].task = t /\ call[c].pc = "mark"
    BY <1>2 DEF Marking
  <2>2. call'[c].task = t /\ call'[c].pc = "mark"
    <3>0. ask[c].pc = "cancel"
      BY <2>1 DEF Steps, TInv, Shapes, AskPlaces
    <3>1. CASE AskGoes(c)
      BY <2>1, <3>0, <3>1, <1>over DEF AskGoes
    <3> QED BY <2>1, <3>1, <1>goes
  <2> QED BY <2>2 DEF Marking
<1>3. CASE t \in fired
  BY <1>1, <1>2, <1>3, <1>inv DEF Stands, FiredOver
<1>4. CASE t = firing
  <2>1. state[t] \in Over \/ (state[t] # "unborn" /\ ~Mine(t))
    BY <1>4, <1>inv, ConstantsAssumption DEF Stands, ConstantsAssumption
  <2> QED BY <2>1, <1>1, <1>inv, <1>over, TaskFacts
<1>5. ASSUME NEW c \in Canceller, call[c].pc = "fire", call[c].task = t,
             ~call[c].over => call'[c].pc = "mark",
             ~call[c].over => call'[c].task = t
      PROVE  Marking(t)'
  <2>1. ~call[c].over
    BY <1>5, <1>inv, <1>over, TaskFacts DEF Stands
  <2> QED BY <1>5, <2>1 DEF Marking
<1> QED BY <1>3, <1>4, <1>5 DEF Steps, FiredGoes

\* A live task changes hands and is never let go of.
LEMMA NextHandled == Steps /\ FiredOver /\ LiveHandled => LiveHandled'
<1> SUFFICES ASSUME Steps, FiredOver, LiveHandled,
                    NEW t \in TaskID, state'[t] \in Live, owner'[t] = "self"
             PROVE  Handled(t)'
  BY DEF LiveHandled, Mine
<1>inv. /\ TypeOK /\ TaskMoves /\ Stands /\ WorkerPlaces /\ Order /\ TInv
        /\ state[t] \in Fate /\ t # NoTask
  BY ConstantsAssumption DEF Steps, TInv, IInv, TypeOK, Shapes, ConstantsAssumption
<1>over. state'[t] \notin Over
  BY DEF Over, Live, Terminal
<1>mark. ASSUME Marking(t) PROVE Marking(t)'
  <2>1. PICK c \in Canceller : call[c].task = t /\ call[c].pc = "mark"
    BY <1>mark DEF Marking
  <2>2. call'[c].task = t /\ call'[c].pc = "mark"
    <3>0. ask[c].pc = "cancel"
      BY <2>1 DEF Steps, TInv, Shapes, AskPlaces
    <3>1. CASE AskGoes(c)
      BY <2>1, <3>0, <3>1, <1>over DEF AskGoes
    <3> QED BY <2>1, <3>1 DEF Steps, AskStaysOrGoes
  <2> QED BY <2>2 DEF Marking
<1>1. CASE Begun(t)
  <2>1. PICK s \in Submitter : submit'[s] = At("dispatch", t)
    BY <1>1 DEF Begun
  <2> QED BY <2>1 DEF Handled, Sending, At
<1>2. CASE ~Begun(t)
  <2>1. state[t] \in Live /\ Mine(t) /\ Handled(t)
    BY <1>2, <1>inv, TaskFacts DEF Mine, LiveHandled, Steps
  <2>2. ASSUME NEW w \in Worker, worker[w].task = t, worker[w].pc \notin {"cleanup", "exited"}
        PROVE  Handled(t)'
    <3>1. worker[w].pc # "idle" /\ ~closed
      BY <2>2, <1>inv DEF WorkerPlaces, Order
    <3>2. ASSUME NEW to, worker'[w] = At(to, t), to \notin {"cleanup", "exited"} PROVE Handled(t)'
      BY <3>2 DEF Handled, At
    <3>3. ~(worker[w].pc = "register" /\ ~Present(t))
      BY <2>1 DEF Present, State
    <3>4. ~(worker[w].pc = "start" /\ ~Accepts(t, "running"))
      BY <2>1, <2>2, <3>1, <1>inv
         DEF Stands, Accepts, Present, State, Live, CanTransition, AllowedTransitions
    <3>5. CASE worker[w].pc = "run" /\ t \in fired
      BY <2>1, <3>5, <1>mark DEF FiredOver, Handled
    <3>6. ASSUME NEW out \in {"completed", "failed"}, worker[w].pc = out, TryFinish(t, out)
          PROVE  FALSE
      <4>1. state[t] = "running"
        BY <2>1, <2>2, <3>6, <1>inv DEF Stands, Live
      <4> QED BY <2>1, <3>1, <3>6, <4>1, <1>inv, <1>over, FinishAccepted DEF Terminal
    <3>7. CASE worker'[w] = worker[w]
      BY <2>2, <3>7 DEF Handled
    <3>8. CASE WorkerGoes(w)
      BY <2>2, <3>1, <3>2, <3>3, <3>4, <3>5, <3>6, <3>8 DEF WorkerGoes
    <3> QED BY <3>7, <3>8 DEF Steps, WorkerStaysOrGoes
  <2>3. CASE t \in Elements(queue)
    <3>1. CASE t \in Elements(queue')
      BY <3>1 DEF Handled, Elements
    <3>2. ASSUME NEW w \in Worker, worker'[w] = At("register", t) PROVE Handled(t)'
      BY <3>2 DEF Handled, At
    <3> QED BY <2>3, <3>1, <3>2 DEF Steps, QueueGoes
  <2>4. ASSUME NEW s \in Submitter, submit[s].task = t, submit[s].pc \in Sending
        PROVE  Handled(t)'
    <3>1. ~closed
      BY <2>4, <1>inv DEF Order, CallsServed, Sending
    <3>2. state[t] = "queued"
      BY <2>1, <2>4, <1>inv DEF Stands, Live
    <3>3. ASSUME NEW to \in Sending, submit'[s] = At(to, t) PROVE Handled(t)'
      BY <3>3 DEF Handled, At
    <3>4. CASE submit[s].pc = "send" /\ submit'[s] = At("get", t) /\ queue' = Append(queue, t)
      <4>1. t \in Elements(queue')
        BY <2>4, <3>4, <1>inv, AppendElements DEF Steps, OneHolder, TInv, Shapes, PoolTypes
      <4> QED BY <4>1 DEF Handled, Elements
    <3>5. ASSUME NEW from \in {"failed", "abandoned"}, TryFinish(t, from) PROVE FALSE
      BY <2>1, <3>1, <3>2, <3>5, <1>inv, <1>over, FinishAccepted
    <3>6. CASE submit'[s] = submit[s]
      BY <2>4, <3>6 DEF Handled
    <3>7. CASE SubmitGoes(s)
      BY <2>4, <3>3, <3>4, <3>5, <3>7 DEF SubmitGoes, Sending
    <3> QED BY <3>6, <3>7 DEF Steps, SubmitStaysOrGoes
  <2>5. CASE Marking(t)
    BY <2>5, <1>mark DEF Handled
  <2> QED BY <2>1, <2>2, <2>3, <2>4, <2>5 DEF Handled
<1> QED BY <1>1, <1>2

\* Admission keeps the bound while a task of this process waits.
LEMMA NextAdmitted == Steps /\ Admitted => Admitted'
<1> SUFFICES ASSUME Steps, Admitted, NEW t \in TaskID, state'[t] = "queued", owner'[t] = "self"
             PROVE  queued' <= MaxQueued
  BY DEF Admitted, Mine
<1>inv. TypeOK /\ TypeOK' /\ TaskMoves /\ CountersAgree /\ CountersAgree' /\ MaxQueued \in Nat
  BY ConstantsAssumption DEF Steps, TInv, IInv, Bookkeeping, ConstantsAssumption
<1>1. CASE \E u \in TaskID : Begun(u)
  BY <1>1, <1>inv DEF Begun, TypeOK
<1>2. CASE ~\E u \in TaskID : Begun(u)
  <2>1. state[t] = "queued" /\ Mine(t)
    <3>1. Kept(t) \/ Started(t)
      BY <1>2 DEF Steps, TaskMoves
    <3> QED BY <3>1 DEF Kept, Started, Over, Terminal, Mine
  <2>2. queued <= MaxQueued
    BY <2>1 DEF Admitted, Steps
  <2>3. InState("queued")' \subseteq InState("queued")
    BY <1>2 DEF Steps, TaskMoves, Kept, Started, Over, Terminal, InState
  <2>4. IsFiniteSet(InState("queued")) /\ Cardinality(InState("queued")) \in Nat
    BY InStateFinite
  <2>5. /\ Cardinality(InState("queued")') <= Cardinality(InState("queued"))
        /\ Cardinality(InState("queued")') \in Nat
    BY <2>3, <2>4, FS_Subset, FS_CardinalityType
  <2> QED BY <2>2, <2>4, <2>5, <1>inv DEF CountersAgree
<1> QED BY <1>1, <1>2

-----------------------------------------------------------------------------
\* The inductive invariant of this module.
Custody ==
  /\ TInv /\ OneHolder /\ Stands
  /\ RunningIsPublished /\ FiredOver /\ LiveHandled /\ Admitted

\* Before anyone has asked for anything nobody holds anything.
LEMMA StillCustody ==
  Untouched /\ TInv => OneHolder /\ Stands /\ RunningIsPublished /\ FiredOver
<1> SUFFICES ASSUME Untouched, TInv
             PROVE  OneHolder /\ Stands /\ RunningIsPublished /\ FiredOver
  OBVIOUS
<1>1. /\ \A w \in Worker : worker[w].pc = "idle" /\ worker[w].task = NoTask
      /\ \A s \in Submitter : submit[s].pc = "idle" /\ submit[s].task = NoTask
      /\ \A c \in Canceller : ask[c].pc = "idle" /\ call[c].pc = "idle"
  BY DEF Untouched, CallsServed, TInv, Shapes, WorkerPlaces, SubmitPlaces, AskPlaces
<1>2. /\ queue = << >> /\ DOMAIN queue = {} /\ Elements(queue) = {} /\ published = {} /\ todo = {}
      /\ fired = {} /\ firing = NoTask
  BY DEF Untouched, Elements
<1>3. OneHolder
  BY <1>1, <1>2 DEF OneHolder, Distinct, Sending
<1>4. Stands
  BY <1>1, <1>2 DEF Stands, Sending
<1>5. RunningIsPublished /\ FiredOver
  BY <1>1, <1>2 DEF RunningIsPublished, FiredOver
<1> QED BY <1>3, <1>4, <1>5

\* The same after a step.
LEMMA StillCustodyNext ==
  (Untouched /\ TInv)' => (OneHolder /\ Stands /\ RunningIsPublished /\ FiredOver)'
BY StillCustody, PTL

\* The layer starts in custody ...
LEMMA InitCustody == AsyncInit => Custody
<1> SUFFICES ASSUME AsyncInit PROVE Custody
  OBVIOUS
<1>1. TInv /\ stage = "loading"
  BY InitTInv DEF AsyncInit, Init
<1>2. Untouched
  BY <1>1 DEF TInv, Order
<1> QED BY <1>1, <1>2, StillCustody DEF Custody, LiveHandled, Admitted

\* ... every step keeps it ...
LEMMA NextCustody == Custody /\ [AsyncNext]_asyncVars => Custody'
<1> SUFFICES ASSUME Custody, [AsyncNext]_asyncVars PROVE Custody'
  OBVIOUS
<1>1. TInv /\ TInv'
  BY NextStore, NextShapes, NextOrder DEF Custody, TInv
<1>2. CASE stage = "serving"
  <2>1. Steps
    BY <1>1, <1>2, NextTaskMoves, NextWorker, NextSubmit, NextAsk, NextTables DEF Custody, Steps
  <2>2. OneHolder'
    BY NextOneHolder DEF Custody
  <2> QED BY <1>1, <2>1, <2>2, NextStands, NextPublished, NextFired, NextHandled, NextAdmitted
          DEF Custody
<1>3. CASE stage # "serving"
  <2>1. Untouched
    BY <1>1, <1>3 DEF TInv, Order
  <2>2. CASE UNCHANGED asyncVars
    <3>1. Untouched'
      BY <2>1, <2>2 DEF asyncVars, storeVars, poolVars, toolVars, downVars, Untouched, CallsServed
    <3>2. stage' # "serving"
      BY <1>3, <2>2 DEF asyncVars, storeVars
    <3> QED BY <1>1, <3>1, <3>2, StillCustodyNext DEF Custody, LiveHandled, Admitted
  <2>3. CASE Boot
    <3>1. Untouched'
      BY <2>1, <2>3, BootStill DEF Untouched, CallsServed
    <3>2. stage' = "serving" => \A t \in TaskID : owner'[t] = "self" => state'[t] \notin Live
      BY <1>3, <2>3 DEF Boot, StartUp, LoadManifest, RestoreLive, RestoreTerminal, Settling,
                        SettleOwn, Finish, Serve, records, Mine, Live
    <3>3. LiveHandled' /\ Admitted'
      BY <3>2 DEF LiveHandled, Admitted, Mine, Live
    <3> QED BY <1>1, <3>1, <3>3, StillCustodyNext DEF Custody
  <2>4. ~Gone
    BY <2>1 DEF Gone, Untouched
  <2> QED BY <1>1, <1>3, <2>2, <2>3, <2>4, OnlyServing
<1> QED BY <1>2, <1>3

\* ... so it always holds.
LEMMA CustodyAlways == AsyncSpec => []Custody
BY InitCustody, NextCustody, PTL DEF AsyncSpec

\* The number of jobs in the buffer is the number of tasks in it.
LEMMA QueueCount ==
  ASSUME Shapes, Distinct(queue)
  PROVE  IsFiniteSet(Elements(queue)) /\ Cardinality(Elements(queue)) = Len(queue)
<1> DEFINE n == Len(queue)
<1>1. n \in Nat /\ DOMAIN queue = 1..n
  BY DEF Shapes, PoolTypes
<1>2. queue \in [1..n -> Elements(queue)]
  BY <1>1 DEF Elements, Shapes, PoolTypes
<1> HIDE DEF n
<1>3. IsFiniteSet(1..n) /\ Cardinality(1..n) = n
  BY <1>1, FS_Interval
<1>4. queue \in Injection(1..n, Elements(queue))
  BY <1>1, <1>2 DEF Distinct, Injection, IsInjective
<1>5. queue \in Surjection(1..n, Elements(queue))
  BY <1>1, <1>2 DEF Elements, Surjection
<1>6. queue \in Bijection(1..n, Elements(queue))
  BY <1>4, <1>5 DEF Bijection
<1>7. ExistsBijection(1..n, Elements(queue))
  BY <1>6 DEF ExistsBijection
<1> QED BY <1>3, <1>7, FS_Bijection DEF n

-----------------------------------------------------------------------------
\* THEOREMS

\* Nobody is left behind: every task of this process that has not ended is in
\* the hands of someone who will end it (dispatcher.go:189-330, async.go,
\* memory.go:240-281).
THEOREM NoGhostAlways == AsyncSpec => []NoGhostTask
<1>1. Custody => NoGhostTask
  <2> SUFFICES ASSUME Custody, stage = "serving", NEW t \in TaskID, state[t] \in Live, Mine(t)
               PROVE  CarriedBy(t)
    BY DEF NoGhostTask
  <2>1. Handled(t)
    BY DEF Custody, LiveHandled
  <2>2. ASSUME \/ t \in Elements(queue)
               \/ \E s \in Submitter : submit[s].task = t /\ submit[s].pc \in Sending
        PROVE  state[t] = "queued"
    BY <2>2 DEF Custody, Stands, Live
  <2> QED BY <2>1, <2>2 DEF Handled, Marking, CarriedBy
<1> QED BY CustodyAlways, <1>1, PTL

\* AbandonRunning can reach every running task whose worker has to be told: it
\* is in d.running from before it starts until its worker has left it.
THEOREM PublishedAlways == AsyncSpec => []RunningIsPublished
<1>1. Custody => RunningIsPublished
  BY DEF Custody
<1> QED BY CustodyAlways, <1>1, PTL

\* A cancel_task call that reports success leaves no live task behind.
THEOREM CancelEnds == AsyncSpec => []CancelledIsOver
<1>1. Custody => CancelledIsOver
  BY DEF Custody, Stands, CancelledIsOver, Over, Live, Terminal
<1> QED BY CustodyAlways, <1>1, PTL

\* The channel has room for every admitted task that waits: Dispatch finds it
\* full only of jobs whose tasks have ended.
THEOREM RoomForAdmitted == AsyncSpec => []FullOnlyOfStaleJobs
<1>1. Custody => FullOnlyOfStaleJobs
  <2> SUFFICES ASSUME Custody, NEW s \in Submitter, submit[s].pc = "send",
                      state[submit[s].task] = "queued", Len(queue) = QueueSize,
                      \A t \in Elements(queue) : state[t] = "queued"
               PROVE  FALSE
    BY DEF FullOnlyOfStaleJobs
  <2> DEFINE t == submit[s].task
             waiting == Elements(queue) \cup {t}
  <2>inv. /\ TInv /\ Shapes /\ CountersAgree /\ MaxQueued \in Nat /\ Len(queue) = MaxQueued
    BY ConstantsAssumption
       DEF Custody, TInv, IInv, Bookkeeping, ConstantsAssumption, QueueSize
  <2>1. t \in TaskID /\ t \notin Elements(queue) /\ Mine(t) /\ Distinct(queue)
    BY <2>inv DEF Shapes, SubmitPlaces, Custody, OneHolder, Stands, Sending
  <2>2. stage = "serving"
    BY <2>inv DEF TInv, Order, Untouched, CallsServed
  <2>3. queued <= MaxQueued
    BY <2>1, <2>2 DEF Custody, Admitted
  <2>4. IsFiniteSet(Elements(queue)) /\ Cardinality(Elements(queue)) = MaxQueued
    BY <2>inv, <2>1, QueueCount
  <2>5. Cardinality(waiting) = MaxQueued + 1
    BY <2>1, <2>4, FS_AddElement
  <2>6. waiting \subseteq InState("queued")
    BY <2>1, <2>inv, QueueTasks DEF InState
  <2>7. IsFiniteSet(InState("queued")) /\ Cardinality(InState("queued")) \in Nat
    BY InStateFinite
  <2>8. Cardinality(waiting) <= Cardinality(InState("queued"))
    BY <2>6, <2>7, FS_Subset
  <2> QED BY <2>inv, <2>3, <2>5, <2>7, <2>8 DEF CountersAgree
<1> QED BY CustodyAlways, <1>1, PTL

\* When the process ends, no task of its own is left queued or running, so no
\* manifest claims otherwise (README.md:449).
THEOREM ExitIsClean == AsyncSpec => []ExitLeavesNoLiveTask
<1>1. Custody => ExitLeavesNoLiveTask
  <2> SUFFICES ASSUME Custody, phase = "exited", NEW t \in TaskID, Mine(t), state[t] \in Live
               PROVE  FALSE
    BY DEF ExitLeavesNoLiveTask
  <2>inv. Order /\ CallsServed /\ AskPlaces
    BY DEF Custody, TInv, Order, Shapes
  <2>1. \A w \in Worker : worker[w].pc = "exited"
    BY <2>inv DEF Order
  <2>2. queue = << >> /\ Elements(queue) = {}
    BY <2>inv, <2>1, WorkerAssumption DEF Order, WorkerAssumption, Elements
  <2>3. stage = "serving" /\ Handled(t)
    BY <2>inv DEF Order, Untouched, Custody, LiveHandled
  <2> QED BY <2>inv, <2>1, <2>2, <2>3 DEF Handled, Marking, CallsServed, AskPlaces, Sending
<1> QED BY CustodyAlways, <1>1, PTL
=============================================================================
