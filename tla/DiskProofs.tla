----------------------------- MODULE DiskProofs -----------------------------
(***************************************************************************)
(* DiskStore for every set of tasks and process identifiers, every heap    *)
(* that satisfies the assumptions, and any number of kills and restarts:   *)
(* its types, the agreement of the manifests with the records, and, if the *)
(* clock is not set back, that manifests only move forward and that the    *)
(* directory keeps within the retention window.                            *)
(*                                                                         *)
(* The inductive invariant DInv says what the disk will hold once the      *)
(* hooks under way have run, so that it survives a kill between two hooks; *)
(* WInv adds what the clock orders.                                        *)
(***************************************************************************)
EXTENDS TaskStoreProofs, DiskStore, SequenceTheorems

\* What a hook is to do: remove the manifest of an evicted task, or write one.
Put == [task : TaskID, put : Manifest \cup {NoManifest}]

Last == hooks[Len(hooks)]

\* One transition fires at most one eviction, before its own write.
HookShape ==
  \/ hooks = << >>
  \/ \E h \in Put : hooks = << h >>
  \/ \E g, h \in Put : /\ hooks = << g, h >>
                       /\ g.put = NoManifest
                       /\ ~Present(g.task)

\* A manifest bears a stamp exactly when its task has ended.
Stamped(m) == m.state \in Terminal <=> m.at # 0

Agree(t, m) ==
  /\ m.state = state[t]
  /\ m.at = finishedAt[t]
  /\ m.pid = pid <=> Mine(t)

\* What the disk will hold for a task.
Pending(t) == IF hooks # << >> /\ Last.task = t THEN Last.put ELSE disk[t]

DiskShape ==
  /\ disk \in [TaskID -> Manifest \cup {NoManifest}]
  /\ HookShape
  /\ pid \in PID
  /\ minted \subseteq TaskID
  /\ failed \subseteq minted
  /\ restarts \in 0..MaxRestarts
  /\ \A t \in TaskID : Stamped(disk[t])
  /\ \A i \in DOMAIN hooks : Stamped(hooks[i].put)

\* Only identifiers that were handed out have a record, a manifest or a hook.
MintedFirst ==
  /\ \A t \in TaskID : state[t] # "unborn" \/ disk[t] # NoManifest => t \in minted
  /\ \A i \in DOMAIN hooks : hooks[i].task \in minted

\* Calls are made of a store that serves, about tasks of its process.
CallsServe ==
  /\ stage = "loading" => hooks = << >>
  /\ \A c \in Canceller : call[c].pc # "idle" => stage = "serving" /\ Mine(call[c].task)

PendingAgree == \A t \in TaskID \ failed : Present(t) => Agree(t, Pending(t))

DInv == IInv /\ DiskShape /\ MintedFirst /\ CallsServe /\ PendingAgree

-----------------------------------------------------------------------------
\* The store of a process that starts is as it was at the very first start.
\* Every step keeps the shape of the disk, and what it will hold in agreement.
LEMMA NextDiskStore == DInv /\ [DiskNext]_allVars => IInv'
<1> SUFFICES ASSUME DInv, [DiskNext]_allVars PROVE IInv'
  OBVIOUS
<1>inv. IInv
  BY DEF DInv
<1>1. CASE [Next]_vars
  BY <1>1, <1>inv, NextIInv
<1>2. CASE UNCHANGED vars
  BY <1>1, <1>2
<1>3. CASE Restart
  <2>1. Fresh'
    BY <1>3, <1>inv DEF Restart, Fresh, IInv, TypeOK
  <2> QED BY <2>1, FreshIInv, PTL
<1>4. ASSUME NEW t \in TaskID, DiskLoad(t) PROVE IInv'
  <2>1. Owner(t) \in {"self", "peer"} /\ disk[t].at \in {0} \cup Time
    BY <1>4 DEF Owner, DiskLoad, DInv, DiskShape, Manifest
  <2>2. CASE RestoreLive(t, disk[t].state, Owner(t))
    BY <2>1, <2>2, <1>inv, RestoreLiveKeeps
  <2>3. CASE RestoreTerminal(t, disk[t].state, Owner(t), disk[t].at)
    BY <2>1, <2>3, <1>inv, RestoreTerminalKeeps
  <2> QED BY <1>4, <2>2, <2>3 DEF DiskLoad
<1>5. CASE DiskSettling \/ DiskSettleOwn \/ DiskServe \/ (Tick /\ Quiet) \/ (Close /\ Quiet)
  BY <1>1, <1>5 DEF DiskSettling, DiskSettleOwn, DiskServe, DiskFinish, Next, StartUp, SettleOwn
<1>6. ASSUME NEW t \in TaskID,
             \/ DiskSubmit(t)
             \/ DiskStartRunning(t)
             \/ RegisterCancel(t)
             \/ \E to \in Terminal : stage = "serving" /\ DiskFinish(t, to)
             \/ \E c \in Canceller : CancelRead(c, t)
      PROVE  IInv'
  BY <1>1, <1>6 DEF DiskSubmit, DiskStartRunning, DiskFinish, Next
<1>7. ASSUME NEW c \in Canceller, CancelFire(c) \/ DiskCancelMark(c) PROVE IInv'
  BY <1>1, <1>7 DEF DiskCancelMark, Next
<1> QED BY <1>2, <1>3, <1>4, <1>5, <1>6, <1>7 DEF DiskNext, RunHook, allVars

-----------------------------------------------------------------------------
\* What a step does to a record that is not its subject: it stays, or is dropped
\* after it had been there.
Others(t) ==
  \A u \in TaskID \ {t} :
    /\ state[u] = "unborn" => state'[u] = "unborn"
    /\ Present(u)' => /\ state'[u] = state[u]
                      /\ finishedAt'[u] = finishedAt[u]
                      /\ owner'[u] = owner[u]

\* The calls of OnEvict of a step.
LEMMA EvictionsShape ==
  \/ Evictions = << >>
  \/ \E u \in TaskID : Evictions = << Remove(u) >> /\ Present(u) /\ ~Present(u)'
<1> DEFINE out == {u \in TaskID : Present(u) /\ state'[u] = "evicted"}
           one == CHOOSE u \in out : TRUE
<1>1. CASE out = {}
  BY <1>1 DEF Evictions
<1>2. CASE out # {}
  <2>1. one \in out
    BY <1>2
  <2>2. Evictions = << Remove(one) >>
    BY <1>2 DEF Evictions
  <2>3. one \in TaskID /\ Present(one) /\ state'[one] = "evicted"
    BY <2>1
  <2> HIDE DEF one
  <2> QED BY <2>2, <2>3 DEF Present, State, Live, Terminal
<1> QED BY <1>1, <1>2

\* Two hooks in a row are a pair.
LEMMA PairConcat ==
  ASSUME NEW S, NEW a \in S, NEW b \in S PROVE << a >> \o << b >> = << a, b >>
<1> DEFINE p == << a >>
           q == << b >>
           r == << a, b >>
<1>1. p \in Seq(S) /\ q \in Seq(S) /\ r \in Seq(S)
  OBVIOUS
<1>2. Len(p) = 1 /\ p[1] = a /\ Len(q) = 1 /\ q[1] = b /\ Len(r) = 2 /\ r[1] = a /\ r[2] = b
  OBVIOUS
<1> HIDE DEF p, q, r
<1>3. /\ p \o q \in Seq(S) /\ Len(p \o q) = Len(p) + Len(q)
      /\ \A i \in 1..Len(p) + Len(q) :
           (p \o q)[i] = IF i <= Len(p) THEN p[i] ELSE q[i - Len(p)]
  BY <1>1, ConcatProperties
<1>4. \A i \in 1..Len(p \o q) : (p \o q)[i] = r[i]
  BY <1>2, <1>3
<1>5. p \o q = r
  BY <1>1, <1>2, <1>3, <1>4, SeqEqual
<1> QED BY <1>5 DEF p, q, r

\* A step that writes what it makes of its task leaves the disk to agree.
LEMMA PersistKeeps ==
  ASSUME DInv, NEW t \in TaskID, NEW s \in State, NEW at \in {0} \cup Time,
         Persist(t, s, at), s \in Terminal <=> at # 0,
         t \in minted, stage # "loading",
         owner'[t] = "self", Others(t),
         Present(t)' => state'[t] = s /\ finishedAt'[t] = at
  PROVE  DiskShape' /\ MintedFirst' /\ PendingAgree'
<1>1. /\ hooks = << >> /\ hooks' = Evictions \o << Write(t, s, at) >>
      /\ UNCHANGED <<disk, pid, minted, failed, restarts>>
  BY DEF Persist, Unlocked
<1>2. Write(t, s, at) \in Put /\ Stamped(Write(t, s, at).put)
  BY DEF Write, Put, Manifest, Stamped, DInv, DiskShape
<1>3. \A u \in TaskID : Remove(u) \in Put /\ Stamped(Remove(u).put) /\ Remove(u).put = NoManifest
                          /\ Remove(u).task = u
  BY DEF Remove, Put, NoManifest, Stamped, Terminal
<1>4. \/ hooks' = << Write(t, s, at) >>
      \/ \E u \in TaskID : /\ hooks' = << Remove(u), Write(t, s, at) >>
                           /\ Present(u) /\ ~Present(u)'
  <2>1. << >> \o << Write(t, s, at) >> = << Write(t, s, at) >>
    OBVIOUS
  <2>2. \A u \in TaskID :
          << Remove(u) >> \o << Write(t, s, at) >> = << Remove(u), Write(t, s, at) >>
    BY <1>2, <1>3, PairConcat
  <2> QED BY <1>1, <2>1, <2>2, EvictionsShape
<1>5. Write(t, s, at).task = t
  BY DEF Write
<1>6. HookShape' /\ \A i \in DOMAIN hooks' : Stamped(hooks'[i].put)
  <2>1. CASE hooks' = << Write(t, s, at) >>
    BY <2>1, <1>2 DEF HookShape
  <2>2. ASSUME NEW u \in TaskID, hooks' = << Remove(u), Write(t, s, at) >>, ~Present(u)'
        PROVE  HookShape' /\ \A i \in DOMAIN hooks' : Stamped(hooks'[i].put)
    BY <2>2, <1>2, <1>3 DEF HookShape
  <2> QED BY <1>4, <2>1, <2>2
<1>7. DiskShape'
  BY <1>1, <1>6 DEF DInv, DiskShape
<1>8. MintedFirst'
  <2>1. \A u \in TaskID : state'[u] # "unborn" \/ disk'[u] # NoManifest => u \in minted'
    BY <1>1 DEF DInv, MintedFirst, Others
  <2>2. \A i \in DOMAIN hooks' : hooks'[i].task \in minted'
    <3>1. CASE hooks' = << Write(t, s, at) >>
      BY <3>1, <1>1, <1>5
    <3>2. ASSUME NEW u \in TaskID, hooks' = << Remove(u), Write(t, s, at) >>, Present(u)
          PROVE  \A i \in DOMAIN hooks' : hooks'[i].task \in minted'
      <4>1. u \in minted
        BY <3>2 DEF Present, State, Live, Terminal, DInv, MintedFirst
      <4> QED BY <3>2, <4>1, <1>1, <1>3, <1>5
    <3> QED BY <1>4, <3>1, <3>2
  <2> QED BY <2>1, <2>2 DEF MintedFirst
<1>9. PendingAgree'
  <2>1. hooks' # << >> /\ Last' = Write(t, s, at)
    <3>1. CASE hooks' = << Write(t, s, at) >>
      BY <3>1 DEF Last
    <3>2. ASSUME NEW u \in TaskID, hooks' = << Remove(u), Write(t, s, at) >>
          PROVE  hooks' # << >> /\ Last' = Write(t, s, at)
      BY <3>2 DEF Last
    <3> QED BY <1>4, <3>1, <3>2
  <2>2. ASSUME NEW u \in TaskID \ failed, Present(u)' PROVE Agree(u, Pending(u))'
    <3>1. CASE u = t
      <4>1. Pending(u)' = [state |-> s, pid |-> pid, at |-> at]
        BY <2>1, <3>1 DEF Pending, Write
      <4> QED BY <4>1, <2>2, <3>1, <1>1 DEF Agree, Mine
    <3>2. CASE u # t
      <4>1. Pending(u)' = disk[u] /\ Pending(u) = disk[u]
        BY <2>1, <1>5, <1>1, <3>2 DEF Pending
      <4>2. Agree(u, Pending(u))
        BY <2>2, <3>2 DEF Others, Present, DInv, PendingAgree
      <4> QED BY <4>1, <4>2, <2>2, <3>2, <1>1 DEF Others, Agree, Mine
    <3> QED BY <3>1, <3>2
  <2> QED BY <2>2, <1>1 DEF PendingAgree
<1> QED BY <1>7, <1>8, <1>9

\* A step without hooks leaves the disk to agree when it touches no record but
\* that of a task it has read from it.
LEMMA QuietKeeps ==
  ASSUME DInv, Quiet, HookShape',
         \A u \in TaskID : \/ state'[u] # "unborn" => state[u] # "unborn"
                           \/ disk[u] # NoManifest,
         \A u \in TaskID : Present(u)' =>
           \/ Present(u) /\ state'[u] = state[u] /\ finishedAt'[u] = finishedAt[u]
                          /\ owner'[u] = owner[u]
           \/ hooks = << >> /\ Agree(u, disk[u])'
  PROVE  DiskShape' /\ MintedFirst' /\ PendingAgree'
<1>1. UNCHANGED <<disk, hooks, pid, minted, failed, restarts>>
  BY DEF Quiet, diskVars
<1>2. DiskShape'
  BY <1>1 DEF DInv, DiskShape
<1>3. MintedFirst'
  BY <1>1 DEF DInv, MintedFirst
<1>4. ASSUME NEW u \in TaskID \ failed, Present(u)' PROVE Agree(u, Pending(u))'
  <2>1. Pending(u)' = Pending(u)
    BY <1>1 DEF Pending, Last
  <2>2. CASE Present(u) /\ state'[u] = state[u] /\ finishedAt'[u] = finishedAt[u]
                       /\ owner'[u] = owner[u]
    <3>1. Agree(u, Pending(u))
      BY <2>2 DEF DInv, PendingAgree
    <3> QED BY <2>1, <2>2, <3>1, <1>1 DEF Agree, Mine
  <2>3. CASE hooks = << >> /\ Agree(u, disk[u])'
    BY <2>3, <1>1 DEF Pending
  <2> QED BY <1>4, <2>2, <2>3
<1> QED BY <1>1, <1>2, <1>3, <1>4 DEF PendingAgree

\* A transition to an ended state, as the disk will be told of it.
LEMMA SettleOthers ==
  ASSUME IInv, NEW t \in TaskID, state[t] \in Live \cup {"unborn"}, NEW to \in Terminal,
         NEW at \in Time, Settle(t, to, at), \A u \in TaskID \ {t} : owner'[u] = owner[u]
  PROVE  /\ Others(t)
         /\ Present(t)' => state'[t] = to /\ finishedAt'[t] = at
<1>1. /\ state'[t] \in {to, "evicted"}
      /\ \A u \in TaskID \ {t} : \/ state'[u] = state[u]
                                 \/ state[u] \in Terminal /\ state'[u] = "evicted"
  BY SettleMoves DEF Live, Terminal
<1>2. TypeOK
  BY DEF IInv
<1>3. \A u \in TaskID : state'[u] # "evicted" =>
        IF u = t THEN state'[u] = to /\ finishedAt'[u] = at
        ELSE state'[u] = state[u] /\ finishedAt'[u] = finishedAt[u]
  BY <1>2, SettleLeaves
<1> QED BY <1>1, <1>3 DEF Others, Present, State, Live, Terminal

\* One hook, or its failure.
LEMMA RunHookKeeps ==
  ASSUME DInv, RunHook PROVE DiskShape' /\ MintedFirst' /\ PendingAgree'
<1> DEFINE h == Head(hooks)
<1>1. /\ hooks # << >> /\ hooks' = Tail(hooks)
      /\ UNCHANGED <<vars, pid, minted, restarts>>
  BY DEF RunHook
<1>2. \/ disk' = [disk EXCEPT ![h.task] = h.put] /\ UNCHANGED failed
      \/ failed' = failed \cup {h.task} /\ UNCHANGED disk
  BY DEF RunHook
<1>3. /\ h \in Put /\ h = hooks[1] /\ h.task \in minted /\ Stamped(h.put)
      /\ HookShape' /\ \A i \in DOMAIN hooks' : hooks'[i] = hooks[i + 1] /\ i + 1 \in DOMAIN hooks
      /\ \/ hooks' = << >> /\ Last = h
         \/ hooks' # << >> /\ Last' = Last /\ ~Present(h.task)
  <2>1. CASE \E a \in Put : hooks = << a >>
    <3>1. PICK a \in Put : hooks = << a >>
      BY <2>1
    <3>2. h = a /\ hooks' = << >> /\ Last = a /\ 1 \in DOMAIN hooks /\ hooks[1] = a
      BY <3>1, <1>1 DEF Last
    <3> QED BY <3>1, <3>2 DEF DInv, MintedFirst, DiskShape, HookShape
  <2>2. CASE \E g, a \in Put : hooks = << g, a >> /\ ~Present(g.task)
    <3>1. PICK g, a \in Put : hooks = << g, a >> /\ ~Present(g.task)
      BY <2>2
    <3>2. /\ h = g /\ hooks' = << a >> /\ Last = a /\ Last' = a /\ 1 \in DOMAIN hooks
          /\ hooks[1] = g /\ hooks[2] = a /\ DOMAIN hooks = 1..2 /\ DOMAIN hooks' = 1..1
      BY <3>1, <1>1 DEF Last
    <3> QED BY <3>1, <3>2 DEF DInv, MintedFirst, DiskShape, HookShape
  <2> QED BY <1>1, <2>1, <2>2 DEF DInv, DiskShape, HookShape
<1> HIDE DEF h
<1>4. h.task \in TaskID /\ h.put \in Manifest \cup {NoManifest}
  BY <1>3 DEF Put
<1>5. /\ disk' \in [TaskID -> Manifest \cup {NoManifest}]
      /\ failed' \subseteq minted
      /\ \A u \in TaskID : disk'[u] = disk[u] \/ (u = h.task /\ disk'[u] = h.put)
  BY <1>2, <1>3, <1>4 DEF DInv, DiskShape
<1>6. DiskShape'
  BY <1>1, <1>3, <1>5 DEF DInv, DiskShape, Stamped
<1>7. MintedFirst'
  BY <1>1, <1>3, <1>5 DEF DInv, MintedFirst, vars, records
<1>8. ASSUME NEW u \in TaskID \ failed', Present(u)' PROVE Agree(u, Pending(u))'
  <2>1. u \in TaskID \ failed /\ Present(u) /\ Agree(u, Pending(u))
    BY <1>1, <1>2, <1>8 DEF vars, records, Present, DInv, PendingAgree
  <2>2. Pending(u)' = Pending(u)
    <3>1. CASE hooks' = << >> /\ Last = h
      BY <3>1, <1>1, <1>2, <1>4, <1>8 DEF Pending, DInv, DiskShape
    <3>2. CASE hooks' # << >> /\ Last' = Last /\ ~Present(h.task)
      <4>1. disk'[u] = disk[u]
        BY <3>2, <2>1, <1>5
      <4> QED BY <3>2, <4>1, <1>1 DEF Pending
    <3> QED BY <3>1, <3>2, <1>3
  <2> QED BY <2>1, <2>2, <1>1 DEF Agree, Mine, vars, records
<1> QED BY <1>6, <1>7, <1>8 DEF PendingAgree

\* Submit writes the first manifest of a task.
LEMMA SubmitWrites ==
  ASSUME DInv, NEW t \in TaskID, DiskSubmit(t)
  PROVE  DiskShape' /\ MintedFirst' /\ PendingAgree'
<1>1. /\ hooks = << >> /\ hooks' = << Write(t, "queued", 0) >>
      /\ minted' = minted \cup {t} /\ t \notin minted
      /\ UNCHANGED <<disk, pid, failed, restarts>>
  BY DEF DiskSubmit, Unlocked
<1>2. /\ state[t] = "unborn" /\ state' = [state EXCEPT ![t] = "queued"]
      /\ owner' = [owner EXCEPT ![t] = "self"] /\ finishedAt' = finishedAt
  BY DEF DiskSubmit, Submit
<1>3. state \in [TaskID -> Fate] /\ owner \in [TaskID -> {"self", "peer"}] /\ finishedAt[t] = 0
  BY <1>2 DEF DInv, IInv, TypeOK, Bookkeeping, StampedWhenOver, Terminal
<1>4. /\ Write(t, "queued", 0) \in Put /\ Stamped(Write(t, "queued", 0).put)
      /\ Write(t, "queued", 0) = [task |-> t, put |-> [state |-> "queued", pid |-> pid, at |-> 0]]
  BY DEF Write, Put, Manifest, Stamped, State, Live, Terminal, DInv, DiskShape
<1>5. DiskShape'
  <2>1. HookShape' /\ \A i \in DOMAIN hooks' : Stamped(hooks'[i].put)
    BY <1>1, <1>4 DEF HookShape
  <2> QED BY <1>1, <2>1 DEF DInv, DiskShape
<1>6. MintedFirst'
  <2>1. \A i \in DOMAIN hooks' : hooks'[i].task = t
    BY <1>1, <1>4
  <2> QED BY <1>1, <1>2, <1>3, <2>1 DEF DInv, MintedFirst
<1>7. ASSUME NEW u \in TaskID \ failed', Present(u)' PROVE Agree(u, Pending(u))'
  <2>1. hooks' # << >> /\ Last' = Write(t, "queued", 0)
    BY <1>1 DEF Last
  <2>2. CASE u = t
    BY <2>1, <2>2, <1>1, <1>2, <1>3, <1>4 DEF Pending, Agree, Mine
  <2>3. CASE u # t
    <3>1. Pending(u)' = disk[u] /\ Pending(u) = disk[u]
      BY <2>1, <2>3, <1>1, <1>4 DEF Pending
    <3>2. Agree(u, Pending(u))
      BY <2>3, <1>1, <1>2, <1>3, <1>7 DEF Present, DInv, PendingAgree
    <3> QED BY <3>1, <3>2, <2>3, <1>1, <1>2, <1>3 DEF Agree, Mine
  <2> QED BY <2>2, <2>3
<1> QED BY <1>5, <1>6, <1>7 DEF PendingAgree

\* A start writes the manifest of a running task.
LEMMA StartWrites ==
  ASSUME DInv, NEW t \in TaskID, DiskStartRunning(t)
  PROVE  DiskShape' /\ MintedFirst' /\ PendingAgree'
<1>1. /\ Persist(t, "running", finishedAt[t]) /\ stage # "loading"
      /\ state' = [state EXCEPT ![t] = "running"]
      /\ owner' = owner /\ finishedAt' = finishedAt /\ Mine(t)
  BY DEF DiskStartRunning, StartRunning, Accepts
<1>2. state[t] \in Live
  BY AcceptsLive DEF DiskStartRunning, StartRunning
<1>3. state \in [TaskID -> Fate] /\ finishedAt[t] = 0
  BY <1>2 DEF DInv, IInv, TypeOK, Bookkeeping, StampedWhenOver, Live, Terminal, Key
<1>4. t \in minted
  BY <1>2 DEF DInv, MintedFirst, Live
<1>5. Others(t) /\ (Present(t)' => state'[t] = "running" /\ finishedAt'[t] = finishedAt[t])
  BY <1>1, <1>3 DEF Others, Present
<1>6. "running" \in State /\ ("running" \in Terminal <=> finishedAt[t] # 0)
  BY <1>3 DEF State, Live, Terminal
<1>7. owner'[t] = "self" /\ finishedAt[t] \in {0} \cup Time
  BY <1>1, <1>3 DEF Mine
<1> QED BY <1>1, <1>4, <1>5, <1>6, <1>7, PersistKeeps

\* An end writes the manifest of its task, after the removal of what it evicts.
LEMMA FinishWrites ==
  ASSUME DInv, NEW t \in TaskID, NEW to, DiskFinish(t, to), stage # "loading"
  PROVE  DiskShape' /\ MintedFirst' /\ PendingAgree'
<1>1. /\ Persist(t, to, Stamp(t)) /\ Settle(t, to, Stamp(t)) /\ to \in Terminal
      /\ owner' = owner /\ owner[t] = "self" /\ state[t] \in Live
  BY AcceptsLive DEF DiskFinish, Finish, Accepts, Mine
<1>2. IInv /\ Stamp(t) \in Time
  BY StampType DEF DInv, IInv
<1>3. Others(t) /\ (Present(t)' => state'[t] = to /\ finishedAt'[t] = Stamp(t))
  BY <1>1, <1>2, SettleOthers
<1>4. t \in minted
  BY <1>1 DEF DInv, MintedFirst, Live
<1>5. to \in State /\ (to \in Terminal <=> Stamp(t) # 0)
  BY <1>1, <1>2 DEF State, Time
<1> QED BY <1>1, <1>2, <1>3, <1>4, <1>5, PersistKeeps

\* The last step of Cancel, on a task that ends or has ended, or refused.
LEMMA MarkWrites ==
  ASSUME DInv, NEW c \in Canceller, DiskCancelMark(c)
  PROVE  DiskShape' /\ MintedFirst' /\ PendingAgree'
<1>0. PICK t \in TaskID : t = call[c].task
  BY DEF DiskCancelMark, CancelMark, DInv, IInv, CallsNameTasks
<1>1. /\ Mark(t) /\ Mine(t) /\ stage = "serving"
      /\ IF Accepts(t, "cancelled") \/ (~closed /\ state[t] = "cancelled")
           THEN Persist(t, "cancelled", now) ELSE Unlocked /\ Quiet
  BY <1>0 DEF DiskCancelMark, CancelMark, DInv, CallsServe
<1>2. IInv /\ TypeOK /\ now \in Time /\ now # 0 /\ "cancelled" \in State /\ "cancelled" \in Terminal
  BY DEF DInv, IInv, TypeOK, Time, State, Terminal
<1>3. CASE Accepts(t, "cancelled")
  <2>1. state[t] \in Live
    BY <1>3, AcceptsLive
  <2>2. Settle(t, "cancelled", now) /\ owner' = owner
    BY <1>1, <1>3, <2>1 DEF Mark, Live
  <2>3. Others(t) /\ (Present(t)' => state'[t] = "cancelled" /\ finishedAt'[t] = now)
    <3>1. state[t] \in Live \cup {"unborn"} /\ \A u \in TaskID \ {t} : owner'[u] = owner[u]
      BY <2>1, <2>2
    <3> QED BY <1>1, <1>2, <2>2, <3>1, SettleOthers
  <2>4. t \in minted
    BY <1>1, <2>1 DEF DInv, MintedFirst, Live
  <2>5. Persist(t, "cancelled", now) /\ owner'[t] = "self" /\ stage # "loading"
    BY <1>1, <1>3, <2>2 DEF Mine
  <2>6. now \in {0} \cup Time /\ ("cancelled" \in Terminal <=> now # 0)
    BY <1>2
  <2> QED BY <1>1, <1>2, <2>3, <2>4, <2>5, <2>6, PersistKeeps
<1>4. CASE ~Accepts(t, "cancelled") /\ ~closed /\ state[t] = "cancelled"
  <2>1. /\ finishedAt' = [finishedAt EXCEPT ![t] = now]
        /\ UNCHANGED <<state, owner>>
    BY <1>1, <1>4 DEF Mark
  <2>2. Others(t) /\ (Present(t)' => state'[t] = "cancelled" /\ finishedAt'[t] = now)
    BY <1>1, <1>2, <1>4, <2>1 DEF Others, Present, TypeOK, Key
  <2>3. t \in minted
    BY <1>1, <1>4 DEF DInv, MintedFirst
  <2>4. Persist(t, "cancelled", now) /\ owner'[t] = "self" /\ stage # "loading"
    BY <1>1, <1>4, <2>1 DEF Mine
  <2>5. now \in {0} \cup Time /\ ("cancelled" \in Terminal <=> now # 0)
    BY <1>2
  <2> QED BY <1>1, <1>2, <2>2, <2>3, <2>4, <2>5, PersistKeeps
<1>5. CASE ~Accepts(t, "cancelled") /\ (closed \/ state[t] # "cancelled")
  <2>1. Quiet /\ UNCHANGED records
    BY <1>1, <1>5 DEF Mark
  <2>2. HookShape'
    BY <2>1 DEF DInv, DiskShape, HookShape, Quiet, diskVars, records, Present
  <2> QED BY <2>1, <2>2, QuietKeeps DEF records, Present
<1> QED BY <1>3, <1>4, <1>5

\* What a start reads becomes the record it was read from.
LEMMA LoadReads ==
  ASSUME DInv, NEW t \in TaskID, DiskLoad(t)
  PROVE  DiskShape' /\ MintedFirst' /\ PendingAgree'
<1>1. /\ disk[t] # NoManifest /\ Quiet /\ stage = "loading" /\ hooks = << >>
      /\ state[t] = "unborn"
      /\ owner' = [owner EXCEPT ![t] = Owner(t)]
  BY DEF DiskLoad, RestoreLive, RestoreTerminal, DInv, CallsServe
<1>2. /\ IInv /\ TypeOK /\ disk[t] \in Manifest /\ Stamped(disk[t])
      /\ owner \in [TaskID -> {"self", "peer"}] /\ state \in [TaskID -> Fate]
      /\ finishedAt[t] = 0
  BY <1>1 DEF DInv, IInv, TypeOK, DiskShape, Bookkeeping, StampedWhenOver, Terminal
<1>3. HookShape' /\ UNCHANGED <<disk, hooks, pid>>
  BY <1>1 DEF HookShape, Quiet, diskVars
<1>4. /\ Others(t)
      /\ Present(t)' => state'[t] = disk[t].state /\ finishedAt'[t] = disk[t].at
  <2>1. CASE RestoreLive(t, disk[t].state, Owner(t))
    <3>1. /\ state' = [state EXCEPT ![t] = disk[t].state] /\ disk[t].state \in Live
          /\ finishedAt' = finishedAt
      BY <2>1 DEF RestoreLive
    <3>2. disk[t].at = 0
      BY <1>2, <3>1 DEF Stamped, Live, Terminal
    <3> QED BY <1>1, <1>2, <3>1, <3>2 DEF Others, Present
  <2>2. CASE RestoreTerminal(t, disk[t].state, Owner(t), disk[t].at)
    <3>1. disk[t].state \in Terminal /\ disk[t].at # 0 /\ disk[t].at \in Time
      BY <2>2, <1>2 DEF RestoreTerminal, Stamped, Manifest
    <3>2. Settle(t, disk[t].state, disk[t].at)
      BY <2>2, <3>1 DEF RestoreTerminal
    <3> QED BY <1>1, <1>2, <3>1, <3>2, SettleOthers
  <2> QED BY <2>1, <2>2 DEF DiskLoad
<1>5. owner'[t] = "self" <=> disk[t].pid = pid
  BY <1>1, <1>2 DEF Owner
<1>6. Present(t)' => Agree(t, disk[t])'
  BY <1>3, <1>4, <1>5 DEF Agree, Mine
<1>7. \A u \in TaskID \ {t} : Present(u)' => Present(u)
  BY <1>4 DEF Others, Present
<1> QED BY <1>1, <1>3, <1>4, <1>6, <1>7, QuietKeeps DEF Others

\* The other steps touch no record and fire no hook.
LEMMA QuietStep ==
  ASSUME DInv, Quiet, UNCHANGED <<state, owner, finishedAt>>
  PROVE  DiskShape' /\ MintedFirst' /\ PendingAgree'
<1>1. HookShape'
  BY DEF DInv, DiskShape, HookShape, Quiet, diskVars, Present
<1> QED BY <1>1, QuietKeeps DEF Present

\* What a kill loses is not owed: no record claims to agree with it.
LEMMA RestartKeeps ==
  ASSUME DInv, Restart
  PROVE  DiskShape' /\ MintedFirst' /\ PendingAgree'
<1>1. /\ hooks' = << >> /\ pid' \in PID /\ restarts' \in 0..MaxRestarts
      /\ UNCHANGED <<disk, minted, failed>>
      /\ \A t \in TaskID : state'[t] = "unborn"
  BY DiskAssumption DEF Restart, DInv, DiskShape, DiskAssumption
<1>2. DiskShape'
  BY <1>1 DEF DInv, DiskShape, HookShape
<1>3. MintedFirst' /\ PendingAgree'
  BY <1>1 DEF DInv, MintedFirst, PendingAgree, Present, State, Live, Terminal
<1> QED BY <1>2, <1>3

\* Every step keeps the shape of the disk, and what it will hold in agreement.
LEMMA NextDisk == DInv /\ [DiskNext]_allVars => DiskShape' /\ MintedFirst' /\ PendingAgree'
<1> SUFFICES ASSUME DInv, [DiskNext]_allVars
             PROVE  DiskShape' /\ MintedFirst' /\ PendingAgree'
  OBVIOUS
<1>1. CASE UNCHANGED allVars
  BY <1>1, QuietStep DEF allVars, vars, records, Quiet
<1>2. CASE RunHook
  BY <1>2, RunHookKeeps
<1>3. CASE Restart
  BY <1>3, RestartKeeps
<1>4. CASE (Tick /\ Quiet) \/ DiskSettling \/ DiskServe \/ (Close /\ Quiet)
  BY <1>4, QuietStep DEF Tick, DiskSettling, Settling, DiskServe, Serve, Close, records
<1>5. CASE DiskSettleOwn
  BY <1>5, FinishWrites DEF DiskSettleOwn
<1>6. ASSUME NEW t \in TaskID, DiskLoad(t) PROVE DiskShape' /\ MintedFirst' /\ PendingAgree'
  BY <1>6, LoadReads
<1>7. ASSUME NEW t \in TaskID, DiskSubmit(t) PROVE DiskShape' /\ MintedFirst' /\ PendingAgree'
  BY <1>7, SubmitWrites
<1>8. ASSUME NEW t \in TaskID, DiskStartRunning(t)
      PROVE  DiskShape' /\ MintedFirst' /\ PendingAgree'
  BY <1>8, StartWrites
<1>9. ASSUME NEW t \in TaskID, NEW to \in Terminal, stage = "serving", DiskFinish(t, to)
      PROVE  DiskShape' /\ MintedFirst' /\ PendingAgree'
  BY <1>9, FinishWrites
<1>10. ASSUME NEW t \in TaskID,
              \/ RegisterCancel(t) /\ Unlocked /\ Quiet
              \/ \E c \in Canceller : CancelRead(c, t) /\ Unlocked /\ Quiet
       PROVE  DiskShape' /\ MintedFirst' /\ PendingAgree'
  BY <1>10, QuietStep DEF RegisterCancel, CancelRead, records
<1>11. ASSUME NEW c \in Canceller, CancelFire(c), Quiet
       PROVE  DiskShape' /\ MintedFirst' /\ PendingAgree'
  BY <1>11, QuietStep DEF CancelFire, records
<1>12. ASSUME NEW c \in Canceller, DiskCancelMark(c)
       PROVE  DiskShape' /\ MintedFirst' /\ PendingAgree'
  BY <1>12, MarkWrites
<1> QED BY <1>1, <1>2, <1>3, <1>4, <1>5, <1>6, <1>7, <1>8, <1>9, <1>10, <1>11, <1>12
        DEF DiskNext

\* A step that leaves stage, owner and hooks, or the hooks of a serving store.
LEMMA CallsKept ==
  ASSUME DInv, UNCHANGED <<stage, owner>>, stage = "loading" => hooks' = hooks,
         \A c \in Canceller : call'[c].pc # "idle" =>
           \/ call[c].pc # "idle" /\ call'[c].task = call[c].task
           \/ stage = "serving" /\ Mine(call'[c].task)
  PROVE  CallsServe'
BY DEF DInv, CallsServe, Mine

\* Every step keeps the calls where they can be made.
LEMMA NextCalls == DInv /\ [DiskNext]_allVars => CallsServe'
<1> SUFFICES ASSUME DInv, [DiskNext]_allVars PROVE CallsServe'
  OBVIOUS
<1>call. call \in [Canceller -> CallRecord]
  BY DEF DInv, IInv, TypeOK
<1>idle. stage # "serving" => \A c \in Canceller : call[c].pc = "idle"
  BY DEF DInv, CallsServe
<1>1. CASE UNCHANGED allVars
  BY <1>1, CallsKept DEF allVars, vars, records, diskVars
<1>2. CASE RunHook
  BY <1>2, CallsKept DEF RunHook, vars, records, DInv, CallsServe
<1>3. CASE Restart
  BY <1>3 DEF Restart, CallsServe, Idle
<1>4. CASE (Tick /\ Quiet) \/ (Close /\ Quiet)
  BY <1>4, CallsKept DEF Tick, Close, records, Quiet, diskVars
<1>5. CASE DiskSettling \/ DiskServe
  BY <1>5, <1>idle DEF DiskSettling, Settling, DiskServe, Serve, CallsServe
<1>6. ASSUME NEW t \in TaskID, NEW to, DiskFinish(t, to), stage # "loading" PROVE CallsServe'
  BY <1>6, CallsKept DEF DiskFinish, Finish
<1>7. CASE DiskSettleOwn
  BY <1>6, <1>7 DEF DiskSettleOwn
<1>8. ASSUME NEW t \in TaskID, DiskLoad(t) PROVE CallsServe'
  <2>1. stage = "loading" /\ stage' = stage /\ call' = call /\ hooks' = hooks
    BY <1>8 DEF DiskLoad, RestoreLive, RestoreTerminal, Quiet, diskVars
  <2> QED BY <2>1, <1>idle DEF DInv, CallsServe
<1>9. ASSUME NEW t \in TaskID, DiskSubmit(t) PROVE CallsServe'
  <2>1. /\ stage = "serving" /\ stage' = stage /\ call' = call
        /\ owner' = [owner EXCEPT ![t] = "self"] /\ owner \in [TaskID -> {"self", "peer"}]
    BY <1>9 DEF DiskSubmit, Submit, DInv, IInv, TypeOK
  <2>2. \A c \in Canceller : call[c].pc # "idle" => call[c].task \in TaskID
    BY DEF DInv, IInv, CallsNameTasks
  <2> QED BY <2>1, <2>2 DEF DInv, CallsServe, Mine
<1>10. ASSUME NEW t \in TaskID, DiskStartRunning(t) PROVE CallsServe'
  BY <1>10, CallsKept DEF DiskStartRunning, StartRunning
<1>11. ASSUME NEW t \in TaskID, RegisterCancel(t), Quiet PROVE CallsServe'
  BY <1>11, CallsKept DEF RegisterCancel, Quiet, diskVars
<1>12. ASSUME NEW t \in TaskID, NEW c \in Canceller, CancelRead(c, t), Quiet PROVE CallsServe'
  <2>1. /\ stage = "serving" /\ Mine(t) /\ UNCHANGED <<stage, owner>>
        /\ \A d \in Canceller : call'[d] = call[d] \/ call'[d].task = t
    BY <1>12, <1>call DEF CancelRead, records
  <2> QED BY <2>1, CallsKept
<1>13. ASSUME NEW c \in Canceller, CancelFire(c), Quiet PROVE CallsServe'
  <2>1. /\ UNCHANGED <<stage, owner, hooks>>
        /\ \A d \in Canceller : call'[d].pc # "idle" =>
             call[d].pc # "idle" /\ call'[d].task = call[d].task
    BY <1>13, <1>call DEF CancelFire, records, Quiet, diskVars, Idle, CallRecord
  <2> QED BY <2>1, CallsKept
<1>14. ASSUME NEW c \in Canceller, DiskCancelMark(c) PROVE CallsServe'
  <2>1. /\ UNCHANGED <<stage, owner>> /\ stage = "serving"
        /\ \A d \in Canceller : call'[d].pc # "idle" =>
             call[d].pc # "idle" /\ call'[d].task = call[d].task
    BY <1>14, <1>call, <1>idle DEF DiskCancelMark, CancelMark, Mark, Idle, records
  <2> QED BY <2>1, CallsKept
<1> QED BY <1>1, <1>2, <1>3, <1>4, <1>5, <1>6, <1>7, <1>8, <1>9, <1>10, <1>11, <1>12, <1>13, <1>14
        DEF DiskNext

-----------------------------------------------------------------------------
\* The first process starts on an empty directory.
LEMMA InitDInv == DiskInit => DInv
<1> SUFFICES ASSUME DiskInit PROVE DInv
  OBVIOUS
<1>1. IInv
  BY InitIInv DEF DiskInit
<1>2. DiskShape
  BY DiskAssumption DEF DiskInit, DiskShape, HookShape, Stamped, NoManifest, Terminal,
     DiskAssumption
<1>3. MintedFirst /\ CallsServe /\ PendingAgree
  BY DEF DiskInit, Init, MintedFirst, CallsServe, PendingAgree, Idle, Present, State, Live,
     Terminal
<1> QED BY <1>1, <1>2, <1>3 DEF DInv

\* The parts together.
LEMMA NextDInv == DInv /\ [DiskNext]_allVars => DInv'
BY NextDiskStore, NextDisk, NextCalls DEF DInv

\* What the types of the invariant say of the hooks.
LEMMA DInvTypes == DInv => DiskTypeOK
<1> SUFFICES ASSUME DInv PROVE DiskTypeOK
  OBVIOUS
<1>1. Len(hooks) <= 2 /\ \A i \in DOMAIN hooks : hooks[i] \in Put
  <2>1. CASE hooks = << >>
    BY <2>1
  <2>2. ASSUME NEW h \in Put, hooks = << h >>
        PROVE  Len(hooks) <= 2 /\ \A i \in DOMAIN hooks : hooks[i] \in Put
    BY <2>2
  <2>3. ASSUME NEW g \in Put, NEW h \in Put, hooks = << g, h >>
        PROVE  Len(hooks) <= 2 /\ \A i \in DOMAIN hooks : hooks[i] \in Put
    BY <2>3
  <2> QED BY <2>1, <2>2, <2>3 DEF DInv, DiskShape, HookShape
<1> QED BY <1>1 DEF DInv, IInv, DiskShape, DiskTypeOK, Put

\* The variables of the disk store have their types in every state, whatever is
\* killed and restarted, and no step has more than two hooks to fire.
THEOREM DiskTypeCorrect == DiskSpec => []DiskTypeOK
BY InitDInv, NextDInv, DInvTypes, PTL DEF DiskSpec

\* Between operations manifests and records agree, in every process that serves
\* the directory, for any number of tasks, processes and restarts.
THEOREM ManifestsFollow == DiskSpec => []ManifestsAgree
<1>1. DInv => ManifestsAgree
  BY DEF DInv, PendingAgree, Pending, Agree, ManifestsAgree, Unlocked
<1> QED BY InitDInv, NextDInv, <1>1, PTL DEF DiskSpec

-----------------------------------------------------------------------------
\* As long as the clock is not set back, nothing is evicted by its own ending, and
\* manifests follow the records one way.

\* No stamp is of a time that has not come.
ClockAhead ==
  /\ \A t \in TaskID : finishedAt[t] <= now /\ disk[t].at <= now
  /\ \A i \in DOMAIN hooks : hooks[i].put.at <= now

\* A manifest, even one whose replacement has failed, is never ahead of its record.
DiskBehind ==
  \A t \in TaskID :
    /\ disk[t].state \in Terminal => state[t] \in {disk[t].state, "unborn", "evicted"}
    /\ disk[t].state = "running" => state[t] # "queued"

\* A hook removes what has ended or writes what is; a removal is followed by the
\* write for the task that has just ended.
HooksFollow ==
  /\ \A i \in DOMAIN hooks :
       IF hooks[i].put = NoManifest
         THEN hooks[i].task \notin failed => disk[hooks[i].task].state \notin Live
         ELSE state[hooks[i].task] = hooks[i].put.state
  /\ hooks # << >> => Last.put # NoManifest
  /\ Len(hooks) = 2 => Last.put.state \in Terminal /\ disk[Last.task].state \notin Terminal

\* An ended task on the disk has a record, will have one, or is about to be removed.
Accounted ==
  failed = {} =>
    \A t \in TaskID : disk[t].state \in Terminal =>
      \/ Present(t)
      \/ stage = "loading" /\ state[t] = "unborn"
      \/ Len(hooks) = 2 /\ hooks[1].task = t

Follows == ClockAhead /\ DiskBehind /\ HooksFollow /\ Accounted

WInv == DInv /\ Follows /\ DirectoryWithinWindow

\* A task that ends now is the last of the heap, and another one is evicted.
LEMMA EndStays ==
  ASSUME IInv, \A u \in TaskID : finishedAt[u] <= now, NEW t \in TaskID, state[t] \in Live,
         NEW to \in Terminal, Settle(t, to, now)
  PROVE  /\ state'[t] = to
         /\ \/ \A u \in TaskID \ {t} : state'[u] = state[u]
            \/ \E g \in TaskID \ {t} : /\ state[g] \in Terminal /\ state'[g] = "evicted"
                                       /\ \A u \in TaskID \ {t, g} : state'[u] = state[u]
<1> DEFINE keys    == [finishedAt EXCEPT ![t] = now]
           pushed  == Pushed(t, now)
           full    == Len(pushed) > MaxRetained
           dropped == IF full THEN {pushed[1]} ELSE {}
<1>1. state[t] \notin Terminal \cup {"evicted"} /\ now \in Time /\ TypeOK
  BY DEF IInv, TypeOK, Live, Terminal
<1>2. /\ keys \in Key /\ t \notin Elements(heap)
      /\ heap \in HeapArray /\ Len(heap) <= MaxRetained /\ Len(heap) \in Nat
      /\ Len(pushed) = Len(heap) + 1
  BY <1>1, EndHeap
<1>3. state' = [u \in TaskID |-> IF u \in dropped THEN "evicted"
                                ELSE IF u = t THEN to ELSE state[u]]
  BY DEF Settle, Overfull
<1>4. pushed = HeapPush(heap, t, keys)
  BY DEF Pushed
<1>5. Elements(heap) \subseteq TaskID /\ Elements(heap) = Retained
  BY DEF IInv, Bookkeeping, HeapHoldsRetained, Retained
<1>6. \A u \in Elements(heap) : keys[u] <= keys[t]
  <2>1. keys[t] = now /\ \A u \in TaskID \ {t} : keys[u] = finishedAt[u]
    BY <1>1 DEF TypeOK, Key
  <2> QED BY <1>2, <1>5, <2>1
<1> HIDE DEF keys, pushed
<1>7. pushed = Append(heap, t)
  BY <1>2, <1>4, <1>6, HeapOrderAssumption DEF HeapOrderAssumption
<1>8. ASSUME full PROVE pushed[1] \in Elements(heap)
  <2>1. PICK n \in 0..(MaxRetained + 1) : heap \in [1..n -> TaskID]
    BY <1>2 DEF HeapArray
  <2>2. n \in Nat /\ Len(heap) = n /\ DOMAIN heap = 1..n /\ heap \in Seq(TaskID)
    BY <2>1, ConstantsAssumption DEF ConstantsAssumption
  <2>3. n >= 1
    BY <1>2, <1>8, <2>2, ConstantsAssumption DEF ConstantsAssumption
  <2>4. pushed[1] = heap[1]
    BY <1>7, <2>2, <2>3
  <2> QED BY <2>2, <2>3, <2>4 DEF Elements
<1>9. CASE full
  <2>1. pushed[1] \in TaskID \ {t} /\ state[pushed[1]] \in Terminal
    BY <1>2, <1>5, <1>8, <1>9 DEF Retained
  <2> QED BY <1>3, <1>9, <2>1
<1>10. CASE ~full
  BY <1>3, <1>10
<1> QED BY <1>9, <1>10

\* What OnEvict is called for, read off the step.
LEMMA EvictionsNone ==
  ASSUME \A u \in TaskID : Present(u) => state'[u] # "evicted"
  PROVE  Evictions = << >>
BY DEF Evictions

LEMMA EvictionsOne ==
  ASSUME NEW g \in TaskID, Present(g), state'[g] = "evicted",
         \A u \in TaskID \ {g} : Present(u) => state'[u] # "evicted"
  PROVE  Evictions = << Remove(g) >>
<1>1. {u \in TaskID : Present(u) /\ state'[u] = "evicted"} = {g}
  OBVIOUS
<1>2. (CHOOSE u \in {g} : TRUE) = g
  OBVIOUS
<1> QED BY <1>1, <1>2 DEF Evictions

\* The hooks of a transition, taken apart.
LEMMA PairOfHooks ==
  ASSUME NEW g \in TaskID, NEW t \in TaskID, NEW s \in State, NEW at \in {0} \cup Time,
         pid \in PID, hooks' = << Remove(g), Write(t, s, at) >>
  PROVE  /\ hooks' # << >> /\ Len(hooks') = 2 /\ DOMAIN hooks' = 1..2
         /\ hooks'[1] = Remove(g) /\ hooks'[2] = Write(t, s, at) /\ Last' = Write(t, s, at)
BY DEF Last

LEMMA OneHook ==
  ASSUME NEW t \in TaskID, NEW s \in State, NEW at \in {0} \cup Time,
         pid \in PID, hooks' = << Write(t, s, at) >>
  PROVE  /\ hooks' # << >> /\ Len(hooks') = 1 /\ DOMAIN hooks' = 1..1
         /\ hooks'[1] = Write(t, s, at) /\ Last' = Write(t, s, at)
BY DEF Last

LEMMA HookParts ==
  /\ \A g : Remove(g).task = g /\ Remove(g).put = NoManifest /\ NoManifest.at = 0
  /\ \A t, s, at : /\ Write(t, s, at).task = t
                   /\ Write(t, s, at).put.state = s /\ Write(t, s, at).put.at = at
  /\ \A t, at : \A s \in State : Write(t, s, at).put # NoManifest
<1>1. NoManifest.state \notin State
  BY DEF NoManifest, State, Live, Terminal
<1> QED BY <1>1 DEF Remove, Write, NoManifest

\* What a step may do to the records and the hooks when it persists its task: it
\* adds one write, after the removal of another that had ended.
WritesOnly(t, s, at) ==
  /\ hooks' = << Write(t, s, at) >>
  /\ \A u \in TaskID \ {t} : state'[u] = state[u]

RemovesToo(t, s, at, g) ==
  /\ hooks' = << Remove(g), Write(t, s, at) >>
  /\ state[g] \in Terminal /\ state'[g] = "evicted"
  /\ s \in Terminal /\ disk[t].state \notin Terminal
  /\ \A u \in TaskID \ {t, g} : state'[u] = state[u]

LEMMA PersistFollows ==
  ASSUME WInv, hooks = << >>, stage # "loading",
         UNCHANGED <<disk, pid, failed, stage, now>>,
         NEW t \in TaskID, NEW s \in State, NEW at \in {0} \cup Time, at <= now,
         state'[t] = s,
         \A u \in TaskID : finishedAt'[u] \in {finishedAt[u], at, 0},
         disk[t].state \in Terminal => s = disk[t].state,
         disk[t].state = "running" => s # "queued",
         WritesOnly(t, s, at) \/ \E g \in TaskID \ {t} : RemovesToo(t, s, at, g)
  PROVE  Follows'
<1>0. pid \in PID /\ now \in Time /\ 0 <= now
  BY ConstantsAssumption DEF WInv, DInv, DiskShape, IInv, TypeOK, Time, ConstantsAssumption
<1>1. CASE WritesOnly(t, s, at)
  <2>1. /\ hooks' # << >> /\ Len(hooks') = 1 /\ DOMAIN hooks' = 1..1
        /\ hooks'[1] = Write(t, s, at) /\ Last' = Write(t, s, at)
    BY <1>0, <1>1, OneHook DEF WritesOnly
  <2>2. ClockAhead'
    BY <1>0, <2>1, HookParts DEF WInv, Follows, ClockAhead
  <2>3. DiskBehind'
    BY <1>1 DEF WInv, Follows, DiskBehind, WritesOnly
  <2>4. HooksFollow'
    <3>1. /\ Last'.put # NoManifest
          /\ \A i \in DOMAIN hooks' : i = 1
          /\ hooks'[1].task = t /\ hooks'[1].put.state = s /\ hooks'[1].put # NoManifest
      BY <2>1, HookParts
    <3> QED BY <2>1, <3>1 DEF HooksFollow
  <2>5. Accounted'
    <3> SUFFICES ASSUME failed = {}, NEW u \in TaskID, disk[u].state \in Terminal
                 PROVE  Present(u)'
      BY DEF Accounted
    <3>1. Present(u)
      BY DEF WInv, Follows, Accounted
    <3> QED BY <1>1, <3>1 DEF WritesOnly, Present
  <2> QED BY <2>2, <2>3, <2>4, <2>5 DEF Follows
<1>2. ASSUME NEW g \in TaskID \ {t}, RemovesToo(t, s, at, g) PROVE Follows'
  <2>1. /\ hooks' # << >> /\ Len(hooks') = 2 /\ DOMAIN hooks' = 1..2
        /\ hooks'[1] = Remove(g) /\ hooks'[2] = Write(t, s, at) /\ Last' = Write(t, s, at)
    BY <1>0, <1>2, PairOfHooks DEF RemovesToo
  <2>2. ClockAhead'
    BY <1>0, <2>1, HookParts DEF WInv, Follows, ClockAhead
  <2>3. DiskBehind'
    BY <1>2 DEF WInv, Follows, DiskBehind, RemovesToo
  <2>4. HooksFollow'
    <3>1. g \notin failed => disk[g].state = state[g]
      BY <1>2 DEF WInv, DInv, PendingAgree, Pending, Agree, RemovesToo, Present, State
    <3>2. g \notin failed => disk[g].state \notin Live
      BY <1>2, <3>1 DEF RemovesToo, Live, Terminal
    <3>3. /\ Last'.put # NoManifest /\ Last'.put.state = s /\ Last'.task = t
          /\ \A i \in DOMAIN hooks' : i = 1 \/ i = 2
          /\ hooks'[1].task = g /\ hooks'[1].put = NoManifest
          /\ hooks'[2].task = t /\ hooks'[2].put.state = s /\ hooks'[2].put # NoManifest
      BY <2>1, HookParts
    <3>4. s \in Terminal /\ disk[t].state \notin Terminal
      BY <1>2 DEF RemovesToo
    <3> QED BY <3>2, <3>3, <3>4 DEF HooksFollow
  <2>5. Accounted'
    <3> SUFFICES ASSUME failed = {}, NEW u \in TaskID, disk[u].state \in Terminal
                 PROVE  Present(u)' \/ (Len(hooks') = 2 /\ hooks'[1].task = u)
      BY DEF Accounted
    <3>1. Present(u)
      BY DEF WInv, Follows, Accounted
    <3>2. hooks'[1].task = g
      BY <2>1, HookParts
    <3>3. u # g => Present(u)'
      BY <1>2, <3>1 DEF RemovesToo, Present
    <3> QED BY <2>1, <3>2, <3>3
  <2> QED BY <2>2, <2>3, <2>4, <2>5 DEF Follows
<1> QED BY <1>1, <1>2

\* The stamps a step leaves.
LEMMA SettleStamps ==
  ASSUME TypeOK, NEW t \in TaskID, NEW to, NEW at, Settle(t, to, at)
  PROVE  \A u \in TaskID : finishedAt'[u] \in {finishedAt[u], at, 0}
<1> DEFINE keys    == [finishedAt EXCEPT ![t] = at]
           dropped == IF Overfull(Pushed(t, at)) THEN {Pushed(t, at)[1]} ELSE {}
<1>1. finishedAt' = [u \in TaskID |-> IF u \in dropped THEN 0 ELSE keys[u]]
  BY Zenon DEF Settle
<1>2. \A u \in TaskID : keys[u] = IF u = t THEN at ELSE finishedAt[u]
  BY DEF TypeOK, Key
<1> HIDE DEF keys, dropped
<1> QED BY <1>1, <1>2

\* A task that ends, with the hooks of its end.
LEMMA EndFollows ==
  ASSUME WInv, NEW t \in TaskID, state[t] \in Live, NEW to \in Terminal,
         Settle(t, to, now), Persist(t, to, now), UNCHANGED <<stage, now>>, stage # "loading"
  PROVE  Follows'
<1>1. /\ hooks = << >> /\ hooks' = Evictions \o << Write(t, to, now) >>
      /\ UNCHANGED <<disk, pid, failed, stage, now>>
  BY DEF Persist, Unlocked
<1>2. /\ IInv /\ TypeOK /\ now \in Time /\ pid \in PID /\ to \in State /\ now <= now
      /\ \A u \in TaskID : finishedAt[u] <= now
  BY ConstantsAssumption
     DEF WInv, DInv, IInv, TypeOK, DiskShape, State, Follows, ClockAhead, Time, ConstantsAssumption
<1>3. \A u \in TaskID : finishedAt'[u] \in {finishedAt[u], now, 0}
  BY <1>2, SettleStamps
<1>4. disk[t].state \notin Terminal
  BY DEF WInv, Follows, DiskBehind, Live, Terminal
<1>5. to # "queued"
  BY DEF Terminal
<1>6. /\ state'[t] = to
      /\ \/ \A u \in TaskID \ {t} : state'[u] = state[u]
         \/ \E g \in TaskID \ {t} : /\ state[g] \in Terminal /\ state'[g] = "evicted"
                                    /\ \A u \in TaskID \ {t, g} : state'[u] = state[u]
  BY <1>2, EndStays
<1>7. Write(t, to, now) \in Put /\ \A g \in TaskID : Remove(g) \in Put
  BY <1>2 DEF Write, Remove, Put, Manifest, NoManifest
<1>8. CASE \A u \in TaskID \ {t} : state'[u] = state[u]
  <2>1. Evictions = << >>
    BY <1>6, <1>8, EvictionsNone DEF Present, State, Live, Terminal
  <2>2. WritesOnly(t, to, now)
    BY <1>1, <1>7, <1>8, <2>1 DEF WritesOnly
  <2> QED BY <1>1, <1>2, <1>3, <1>4, <1>5, <1>6, <2>2, PersistFollows
<1>9. ASSUME NEW g \in TaskID \ {t}, state[g] \in Terminal, state'[g] = "evicted",
             \A u \in TaskID \ {t, g} : state'[u] = state[u]
      PROVE  Follows'
  <2>1. Evictions = << Remove(g) >>
    BY <1>6, <1>9, EvictionsOne DEF Present, State, Live, Terminal
  <2>2. hooks' = << Remove(g), Write(t, to, now) >>
    BY <1>1, <1>7, <2>1, PairConcat
  <2>3. RemovesToo(t, to, now, g)
    BY <1>4, <1>9, <2>2 DEF RemovesToo
  <2> QED BY <1>1, <1>2, <1>3, <1>4, <1>5, <1>6, <2>3, PersistFollows
<1> QED BY <1>6, <1>8, <1>9

LEMMA FinishFollows ==
  ASSUME WInv, NEW t \in TaskID, NEW to, DiskFinish(t, to), stage # "loading"
  PROVE  Follows'
<1>1. /\ Settle(t, to, Stamp(t)) /\ Persist(t, to, Stamp(t)) /\ UNCHANGED <<stage, now>>
      /\ to \in Terminal /\ state[t] \in Live
  BY AcceptsLive DEF DiskFinish, Finish
<1>2. Stamp(t) = now
  BY <1>1 DEF WInv, DInv, IInv, Bookkeeping, StampedWhenOver, Stamp, Live, Terminal
<1> QED BY <1>1, <1>2, EndFollows

\* A step without eviction that writes what it makes of its task.
LEMMA WriteFollows ==
  ASSUME WInv, NEW t \in TaskID, NEW s \in State, NEW at \in {0} \cup Time, at <= now,
         hooks = << >>, hooks' = Evictions \o << Write(t, s, at) >>,
         UNCHANGED <<disk, pid, failed, stage, now>>, stage # "loading",
         state' = [state EXCEPT ![t] = s],
         \A u \in TaskID : finishedAt'[u] \in {finishedAt[u], at, 0},
         disk[t].state \in Terminal => s = disk[t].state,
         disk[t].state = "running" => s # "queued"
  PROVE  Follows'
<1>1. pid \in PID /\ state \in [TaskID -> Fate]
  BY DEF WInv, DInv, IInv, TypeOK, DiskShape
<1>2. state'[t] = s /\ \A u \in TaskID \ {t} : state'[u] = state[u]
  BY <1>1
<1>3. Evictions = << >>
  BY <1>2, EvictionsNone DEF Present, State, Live, Terminal
<1>4. << >> \o << Write(t, s, at) >> = << Write(t, s, at) >>
  OBVIOUS
<1>5. WritesOnly(t, s, at)
  BY <1>2, <1>3, <1>4 DEF WritesOnly
<1> QED BY <1>2, <1>5, PersistFollows

LEMMA StartFollows ==
  ASSUME WInv, NEW t \in TaskID, DiskStartRunning(t) PROVE Follows'
<1>1. /\ hooks = << >> /\ hooks' = Evictions \o << Write(t, "running", finishedAt[t]) >>
      /\ UNCHANGED <<disk, pid, failed, stage, now, finishedAt>> /\ stage # "loading"
      /\ state' = [state EXCEPT ![t] = "running"]
  BY DEF DiskStartRunning, StartRunning, Persist, Unlocked
<1>2. state[t] \in Live
  BY AcceptsLive DEF DiskStartRunning, StartRunning
<1>3. finishedAt[t] \in {0} \cup Time /\ finishedAt[t] <= now
  BY DEF WInv, DInv, IInv, TypeOK, Key, Follows, ClockAhead
<1>4. disk[t].state \notin Terminal /\ "running" \in State
  BY <1>2 DEF WInv, Follows, DiskBehind, State, Live, Terminal
<1>5. \A u \in TaskID : finishedAt'[u] \in {finishedAt[u], finishedAt[t], 0}
  BY <1>1
<1>6. disk[t].state = "running" => "running" # "queued"
  OBVIOUS
<1> QED BY <1>1, <1>3, <1>4, <1>5, <1>6, WriteFollows

LEMMA SubmitFollows ==
  ASSUME WInv, NEW t \in TaskID, DiskSubmit(t) PROVE Follows'
<1>1. /\ hooks = << >> /\ hooks' = << Write(t, "queued", 0) >> /\ t \notin minted
      /\ UNCHANGED <<disk, pid, failed, stage, now, finishedAt>> /\ stage # "loading"
      /\ state' = [state EXCEPT ![t] = "queued"]
  BY DEF DiskSubmit, Submit, Unlocked
<1>2. disk[t].state \notin Terminal /\ disk[t].state # "running" /\ "queued" \in State
  BY <1>1 DEF WInv, DInv, MintedFirst, NoManifest, State, Live, Terminal
<1>3. 0 <= now /\ state \in [TaskID -> Fate] /\ 0 \in {0} \cup Time
  BY ConstantsAssumption DEF WInv, DInv, IInv, TypeOK, Time, ConstantsAssumption
<1>4. /\ state'[t] = "queued" /\ \A u \in TaskID \ {t} : state'[u] = state[u]
      /\ \A u \in TaskID : finishedAt'[u] \in {finishedAt[u], 0, 0}
  BY <1>1, <1>3
<1>5. WritesOnly(t, "queued", 0)
  BY <1>1, <1>4 DEF WritesOnly
<1> QED BY <1>1, <1>2, <1>3, <1>4, <1>5, PersistFollows

\* A cancel that overwrites the stamp of a task another one has ended rewrites its
\* manifest; one that is refused does nothing.
LEMMA MarkFollows ==
  ASSUME WInv, NEW c \in Canceller, DiskCancelMark(c) PROVE Follows'
<1>0. PICK t \in TaskID : t = call[c].task
  BY DEF DiskCancelMark, CancelMark, WInv, DInv, IInv, CallsNameTasks
<1>1. /\ Mark(t) /\ stage = "serving" /\ UNCHANGED <<stage, now>>
      /\ IF Accepts(t, "cancelled") \/ (~closed /\ state[t] = "cancelled")
           THEN Persist(t, "cancelled", now) ELSE Unlocked /\ Quiet
  BY <1>0 DEF DiskCancelMark, CancelMark, WInv, DInv, CallsServe
<1>2. /\ IInv /\ TypeOK /\ now \in Time /\ now <= now
      /\ "cancelled" \in State /\ "cancelled" \in Terminal /\ "cancelled" # "queued"
  BY ConstantsAssumption
     DEF WInv, DInv, IInv, TypeOK, Time, State, Terminal, ConstantsAssumption
<1>3. CASE Accepts(t, "cancelled")
  <2>1. state[t] \in Live
    BY <1>3, AcceptsLive
  <2>2. Settle(t, "cancelled", now)
    BY <1>1, <1>3, <2>1 DEF Mark, Live
  <2> QED BY <1>1, <1>2, <1>3, <2>1, <2>2, EndFollows
<1>4. CASE ~Accepts(t, "cancelled") /\ ~closed /\ state[t] = "cancelled"
  <2>1. finishedAt' = [finishedAt EXCEPT ![t] = now] /\ state' = state
    BY <1>1, <1>4 DEF Mark
  <2>2. /\ state' = [state EXCEPT ![t] = "cancelled"]
        /\ \A u \in TaskID : finishedAt'[u] \in {finishedAt[u], now, 0}
    BY <1>2, <1>4, <2>1 DEF TypeOK, Key
  <2>3. disk[t].state \in Terminal => "cancelled" = disk[t].state
    BY <1>4 DEF WInv, Follows, DiskBehind
  <2>4. /\ hooks = << >> /\ hooks' = Evictions \o << Write(t, "cancelled", now) >>
        /\ UNCHANGED <<disk, pid, failed, stage, now>>
    BY <1>1, <1>4 DEF Persist, Unlocked
  <2> QED BY <1>1, <1>2, <2>2, <2>3, <2>4, WriteFollows
<1>5. CASE ~Accepts(t, "cancelled") /\ (closed \/ state[t] # "cancelled")
  <2>1. UNCHANGED <<disk, hooks, failed, state, finishedAt, stage, now>>
    BY <1>1, <1>5 DEF Mark, Quiet, diskVars, records
  <2> QED BY <2>1 DEF WInv, Follows, ClockAhead, DiskBehind, HooksFollow, Accounted, Present, Last
<1> QED BY <1>3, <1>4, <1>5

\* A step that touches neither record nor hook; start-up goes on only once every
\* manifest has its record.
LEMMA QuietFollows ==
  ASSUME WInv, Quiet, UNCHANGED <<state, finishedAt>>, now' \in Time, now <= now',
         stage = "loading" => \/ stage' = "loading"
                              \/ \A t \in TaskID : disk[t] # NoManifest => state[t] # "unborn"
  PROVE  Follows'
<1>1. UNCHANGED <<disk, hooks, failed>>
  BY DEF Quiet, diskVars
<1>2. now \in Int /\ now' \in Int /\ finishedAt \in Key
  BY DEF WInv, DInv, IInv, TypeOK, Time
<1>3. ClockAhead'
  <2>1. \A t \in TaskID : finishedAt[t] \in Int /\ disk[t].at \in Int
    BY <1>2 DEF WInv, DInv, DiskShape, Manifest, NoManifest, Key, Time
  <2>2. \A i \in DOMAIN hooks : hooks[i].put.at \in Int
    <3>1. \A i \in DOMAIN hooks : hooks[i] \in Put
      BY DInvTypes DEF WInv, DiskTypeOK, Put
    <3> QED BY <3>1 DEF Put, Manifest, NoManifest, Time
  <2> QED BY <1>1, <1>2, <2>1, <2>2 DEF WInv, Follows, ClockAhead
<1>4. DiskBehind' /\ HooksFollow'
  BY <1>1 DEF WInv, Follows, DiskBehind, HooksFollow, Last
<1>5. Accounted'
  <2>1. NoManifest.state \notin Terminal
    BY DEF NoManifest, Terminal
  <2> QED BY <1>1, <2>1 DEF WInv, Follows, Accounted, Present
<1> QED BY <1>3, <1>4, <1>5 DEF Follows

\* A new process knows nothing yet, and owes the disk nothing.
LEMMA RestartFollows ==
  ASSUME WInv, Restart PROVE Follows'
<1>1. /\ hooks' = << >> /\ stage' = "loading" /\ UNCHANGED <<disk, failed, now>>
      /\ \A t \in TaskID : state'[t] = "unborn" /\ finishedAt'[t] = 0
  BY DEF Restart
<1>2. 0 <= now
  BY DEF WInv, DInv, IInv, TypeOK, Time
<1>3. ClockAhead'
  BY <1>1, <1>2 DEF WInv, Follows, ClockAhead
<1>4. DiskBehind' /\ HooksFollow' /\ Accounted'
  BY <1>1 DEF DiskBehind, HooksFollow, Accounted
<1> QED BY <1>3, <1>4 DEF Follows

\* A hook that runs, or fails, brings the disk no further than the records are.
LEMMA RunHookFollows ==
  ASSUME WInv, RunHook PROVE Follows'
<1>1. /\ hooks # << >> /\ hooks' = Tail(hooks)
      /\ UNCHANGED <<state, finishedAt, stage, now>>
      /\ \/ disk' = [disk EXCEPT ![hooks[1].task] = hooks[1].put] /\ failed' = failed
         \/ failed' = failed \cup {hooks[1].task} /\ disk' = disk
  BY DEF RunHook, vars, records
<1>2. disk \in [TaskID -> Manifest \cup {NoManifest}] /\ HookShape
  BY DEF WInv, DInv, DiskShape
<1>3. ClockAhead /\ DiskBehind /\ HooksFollow /\ Accounted
  BY DEF WInv, Follows
<1>4. ASSUME NEW a \in Put, hooks = << a >> PROVE Follows'
  <2>1. /\ hooks' = << >> /\ DOMAIN hooks = 1..1 /\ hooks[1] = a /\ Last = a
        /\ Len(hooks) = 1 /\ DOMAIN hooks' = {} /\ a.task \in TaskID
    BY <1>1, <1>4 DEF Last, Put
  <2>2. a.put # NoManifest /\ state[a.task] = a.put.state /\ a.put.at <= now
    BY <1>1, <1>3, <2>1 DEF HooksFollow, ClockAhead
  <2>3. \A u \in TaskID : disk'[u] = disk[u] \/ (u = a.task /\ disk'[u] = a.put)
    BY <1>1, <1>2, <2>1
  <2>4. ClockAhead' /\ DiskBehind' /\ HooksFollow'
    <3>1. ClockAhead'
      BY <1>1, <1>3, <2>1, <2>2, <2>3 DEF ClockAhead
    <3>2. DiskBehind'
      BY <1>1, <1>3, <2>2, <2>3 DEF DiskBehind
    <3>3. HooksFollow'
      BY <2>1 DEF HooksFollow
    <3> QED BY <3>1, <3>2, <3>3
  <2>5. Accounted'
    <3> SUFFICES ASSUME failed' = {}, NEW u \in TaskID, disk'[u].state \in Terminal
                 PROVE  Present(u)' \/ (stage' = "loading" /\ state'[u] = "unborn")
      BY DEF Accounted
    <3>1. failed = {}
      BY <1>1
    <3>2. CASE disk'[u] = disk[u]
      BY <3>1, <3>2, <1>1, <1>3, <2>1 DEF Accounted, Present
    <3>3. CASE u = a.task /\ disk'[u] = a.put
      BY <3>3, <1>1, <2>2 DEF Present, State
    <3> QED BY <2>3, <3>2, <3>3
  <2> QED BY <2>4, <2>5 DEF Follows
<1>5. ASSUME NEW g \in Put, NEW a \in Put, hooks = << g, a >>, g.put = NoManifest
      PROVE  Follows'
  <2>1. /\ hooks' = << a >> /\ DOMAIN hooks = 1..2 /\ hooks[1] = g /\ hooks[2] = a
        /\ Last = a /\ Last' = a /\ DOMAIN hooks' = 1..1 /\ hooks'[1] = a /\ Len(hooks') = 1
        /\ g.task \in TaskID
    BY <1>1, <1>5 DEF Last, Put
  <2>2. a.put # NoManifest /\ state[a.task] = a.put.state /\ a.put.at <= now
    <3>1. 2 \in DOMAIN hooks
      BY <2>1
    <3> QED BY <1>1, <1>3, <2>1, <3>1 DEF HooksFollow, ClockAhead
  <2>3. \A u \in TaskID : disk'[u] = disk[u] \/ (u = g.task /\ disk'[u] = NoManifest)
    BY <1>1, <1>2, <1>5, <2>1
  <2>4. NoManifest.state = "none" /\ NoManifest.at = 0 /\ 0 <= now
    BY DEF NoManifest, WInv, DInv, IInv, TypeOK, Time
  <2>5. ClockAhead' /\ DiskBehind' /\ HooksFollow'
    <3>1. ClockAhead'
      <4>1. \A u \in TaskID : finishedAt[u] <= now /\ disk'[u].at <= now
        BY <1>3, <2>3, <2>4 DEF ClockAhead
      <4>2. \A i \in DOMAIN hooks' : hooks'[i] = a
        BY <2>1
      <4>3. \A i \in DOMAIN hooks' : hooks'[i].put.at <= now
        BY <4>2, <2>2
      <4> QED BY <1>1, <4>1, <4>3 DEF ClockAhead
    <3>2. DiskBehind'
      BY <1>1, <1>3, <2>3, <2>4 DEF DiskBehind, Terminal
    <3>3. HooksFollow'
      <4>1. \A i \in DOMAIN hooks' : hooks'[i] = a
        BY <2>1
      <4>2. \A i \in DOMAIN hooks' :
              hooks'[i].put # NoManifest /\ state'[hooks'[i].task] = hooks'[i].put.state
        BY <4>1, <1>1, <2>2
      <4>3. Last'.put # NoManifest /\ Len(hooks') # 2
        BY <2>1, <2>2
      <4> QED BY <4>2, <4>3 DEF HooksFollow
    <3> QED BY <3>1, <3>2, <3>3
  <2>6. Accounted'
    <3> SUFFICES ASSUME failed' = {}, NEW u \in TaskID, disk'[u].state \in Terminal
                 PROVE  Present(u)' \/ (stage' = "loading" /\ state'[u] = "unborn")
      BY DEF Accounted
    <3>1. failed = {} /\ disk' = [disk EXCEPT ![g.task] = NoManifest]
      BY <1>1, <1>5, <2>1
    <3>2. u # g.task /\ disk'[u] = disk[u]
      BY <3>1, <1>2, <2>4 DEF Terminal
    <3> QED BY <3>1, <3>2, <1>1, <1>3, <2>1 DEF Accounted, Present
  <2> QED BY <2>5, <2>6 DEF Follows
<1> QED BY <1>1, <1>2, <1>4, <1>5 DEF HookShape

\* A heap holds no more tasks than any set that has them all.
LEMMA ArrayCounts ==
  ASSUME NEW a \in HeapArray, NEW D, IsFiniteSet(D), Elements(a) \subseteq D
  PROVE  Len(a) <= Cardinality(D)
<1>1. PICK n \in 0..(MaxRetained + 1) : a \in [1..n -> TaskID]
  BY DEF HeapArray
<1>2. /\ n \in Nat /\ Len(a) = n /\ DOMAIN a = 1..n
      /\ \A i, j \in 1..n : a[i] = a[j] => i = j
  BY <1>1, ConstantsAssumption DEF HeapArray, ConstantsAssumption
<1>3. a \in [1..n -> D]
  BY <1>1, <1>2 DEF Elements
<1>4. IsFiniteSet(1..n) /\ Cardinality(1..n) = n
  BY <1>2, FS_Interval
<1>5. Cardinality(D) \in Nat
  BY FS_CardinalityType
<1>6. ~(Cardinality(D) < n)
  BY <1>2, <1>3, <1>4, FS_PigeonHole
<1> QED BY <1>2, <1>5, <1>6

Ended == {t \in TaskID : disk[t].state \in Terminal}

\* A start on a directory within the window drops nothing.
LEMMA LoadDropsNone ==
  ASSUME WInv, failed = {}, hooks = << >>, NEW t \in TaskID, state[t] = "unborn",
         disk[t].state \in Terminal, NEW at \in Time, Settle(t, disk[t].state, at)
  PROVE  /\ state'[t] = disk[t].state
         /\ \A u \in TaskID \ {t} : state'[u] = state[u]
<1> DEFINE pushed  == Pushed(t, at)
           dropped == IF Overfull(pushed) THEN {pushed[1]} ELSE {}
<1>1. IInv /\ state[t] \notin Terminal \cup {"evicted"}
  BY DEF WInv, DInv, Terminal
<1>2. /\ pushed \in HeapArray /\ Elements(pushed) = Elements(heap) \cup {t}
      /\ Elements(heap) = Retained
  BY <1>1, EndHeap DEF IInv, Bookkeeping, HeapHoldsRetained
<1>3. Retained \subseteq Ended
  <2> SUFFICES ASSUME NEW u \in TaskID, state[u] \in Terminal PROVE disk[u].state = state[u]
    BY DEF Retained, Ended
  <2>1. Present(u) /\ u \notin failed
    BY DEF Present, State
  <2> QED BY <2>1 DEF WInv, DInv, PendingAgree, Pending, Agree
<1>4. IsFiniteSet(Ended) /\ Cardinality(Ended) <= MaxRetained
  <2>1. Ended \subseteq TaskID
    BY DEF Ended
  <2>2. IsFiniteSet(Ended)
    BY <2>1, ConstantsAssumption, FS_Subset DEF ConstantsAssumption
  <2> QED BY <2>2 DEF WInv, DirectoryWithinWindow, Ended
<1>5. Elements(pushed) \subseteq Ended
  BY <1>2, <1>3 DEF Ended
<1> HIDE DEF pushed
<1>6. Len(pushed) <= Cardinality(Ended)
  BY <1>2, <1>4, <1>5, ArrayCounts
<1>7. ~Overfull(pushed)
  <2>1. Len(pushed) \in Nat /\ Cardinality(Ended) \in Nat /\ MaxRetained \in Nat
    BY <1>1, <1>4, EndHeap, FS_CardinalityType, ConstantsAssumption
       DEF pushed, ConstantsAssumption
  <2> QED BY <1>4, <1>6, <2>1 DEF Overfull
<1>8. state' = [u \in TaskID |-> IF u \in dropped THEN "evicted"
                                ELSE IF u = t THEN disk[t].state ELSE state[u]]
  BY Zenon DEF Settle, pushed
<1> QED BY <1>7, <1>8

\* A record that is restored is what its manifest says, and drops no other while
\* the disk has accepted every write.
LEMMA LoadFollows ==
  ASSUME WInv, NEW t \in TaskID, DiskLoad(t) PROVE Follows'
<1>1. /\ disk[t] # NoManifest /\ stage = "loading" /\ hooks = << >> /\ state[t] = "unborn"
      /\ UNCHANGED <<disk, hooks, failed, stage, now>>
  BY DEF DiskLoad, RestoreLive, RestoreTerminal, Quiet, diskVars, WInv, DInv, CallsServe
<1>2. /\ IInv /\ TypeOK /\ disk[t] \in Manifest /\ Stamped(disk[t])
      /\ state \in [TaskID -> Fate] /\ 0 <= now
  BY <1>1 DEF WInv, DInv, IInv, TypeOK, DiskShape, Time
<1>3. /\ state'[t] \in {disk[t].state, "evicted"}
      /\ \A u \in TaskID \ {t} : state'[u] = state[u] \/ state'[u] = "evicted"
      /\ failed = {} => /\ state'[t] = disk[t].state
                        /\ \A u \in TaskID \ {t} : state'[u] = state[u]
      /\ \A u \in TaskID : finishedAt'[u] \in {finishedAt[u], disk[t].at, 0}
  <2>1. CASE RestoreLive(t, disk[t].state, Owner(t))
    BY <2>1, <1>2 DEF RestoreLive
  <2>2. CASE RestoreTerminal(t, disk[t].state, Owner(t), disk[t].at)
    <3>1. disk[t].state \in Terminal /\ disk[t].at # 0 /\ disk[t].at \in Time
      BY <2>2, <1>2 DEF RestoreTerminal, Stamped, Manifest
    <3>2. Settle(t, disk[t].state, disk[t].at)
      BY <2>2, <3>1 DEF RestoreTerminal
    <3>3. \A u \in TaskID : finishedAt'[u] \in {finishedAt[u], disk[t].at, 0}
      BY <1>2, <3>2, SettleStamps
    <3>4. state[t] \notin Terminal \cup {"evicted"}
      BY <1>1 DEF Terminal
    <3>5. /\ state'[t] \in {disk[t].state, "evicted"}
          /\ \A u \in TaskID \ {t} : state'[u] = state[u] \/ state'[u] = "evicted"
      BY <1>2, <3>1, <3>2, <3>4, SettleMoves
    <3>6. failed = {} => /\ state'[t] = disk[t].state
                        /\ \A u \in TaskID \ {t} : state'[u] = state[u]
      BY <1>1, <3>1, <3>2, LoadDropsNone
    <3> QED BY <3>3, <3>5, <3>6
  <2> QED BY <2>1, <2>2 DEF DiskLoad
<1>4. ClockAhead'
  BY <1>1, <1>2, <1>3 DEF WInv, Follows, ClockAhead
<1>5. DiskBehind'
  BY <1>1, <1>3 DEF WInv, Follows, DiskBehind, Terminal
<1>6. HooksFollow'
  BY <1>1 DEF HooksFollow
<1>7. Accounted'
  <2> SUFFICES ASSUME failed = {}, NEW u \in TaskID, disk[u].state \in Terminal
               PROVE  Present(u)' \/ (stage' = "loading" /\ state'[u] = "unborn")
    BY <1>1 DEF Accounted
  <2>1. CASE u = t
    BY <1>3, <2>1 DEF Present, State
  <2>2. CASE u # t
    <3>1. Present(u) \/ (stage = "loading" /\ state[u] = "unborn")
      BY <1>1 DEF WInv, Follows, Accounted
    <3> QED BY <1>1, <1>3, <2>2, <3>1 DEF Present
  <2> QED BY <2>1, <2>2
<1> QED BY <1>4, <1>5, <1>6, <1>7 DEF Follows

\* Every step of a store whose clock is not set back.
LEMMA NextFollows ==
  ASSUME ~ClockStepsBack PROVE WInv /\ [DiskNext]_allVars => Follows'
<1> SUFFICES ASSUME WInv, [DiskNext]_allVars PROVE Follows'
  OBVIOUS
<1>now. now \in Time /\ now <= now
  BY DEF WInv, DInv, IInv, TypeOK, Time
<1>1. CASE UNCHANGED allVars
  BY <1>1, <1>now, QuietFollows DEF allVars, vars, records, Quiet
<1>2. CASE RunHook
  BY <1>2, RunHookFollows
<1>3. CASE Restart
  BY <1>3, RestartFollows
<1>4. CASE Tick /\ Quiet
  <2>1. now' \in Time /\ now < now'
    BY <1>4 DEF Tick
  <2>2. now <= now' /\ UNCHANGED <<state, finishedAt, stage>>
    BY <1>4, <1>now, <2>1 DEF Tick, records, Time
  <2> QED BY <1>4, <2>1, <2>2, QuietFollows
<1>5. CASE DiskSettling
  BY <1>5, <1>now, QuietFollows DEF DiskSettling, Settling, records
<1>6. CASE DiskServe \/ (Close /\ Quiet)
  BY <1>6, <1>now, QuietFollows DEF DiskServe, Serve, Close, records
<1>7. CASE DiskSettleOwn
  BY <1>7, FinishFollows DEF DiskSettleOwn
<1>8. ASSUME NEW t \in TaskID, DiskLoad(t) PROVE Follows'
  BY <1>8, LoadFollows
<1>9. ASSUME NEW t \in TaskID, DiskSubmit(t) PROVE Follows'
  BY <1>9, SubmitFollows
<1>10. ASSUME NEW t \in TaskID, DiskStartRunning(t) PROVE Follows'
  BY <1>10, StartFollows
<1>11. ASSUME NEW t \in TaskID, NEW to \in Terminal, stage = "serving", DiskFinish(t, to)
       PROVE  Follows'
  BY <1>11, FinishFollows
<1>12. ASSUME NEW t \in TaskID,
              \/ RegisterCancel(t) /\ Unlocked /\ Quiet
              \/ \E c \in Canceller : CancelRead(c, t) /\ Unlocked /\ Quiet
       PROVE  Follows'
  BY <1>12, <1>now, QuietFollows DEF RegisterCancel, CancelRead, records
<1>13. ASSUME NEW c \in Canceller, CancelFire(c), Quiet PROVE Follows'
  BY <1>13, <1>now, QuietFollows DEF CancelFire, records
<1>14. ASSUME NEW c \in Canceller, DiskCancelMark(c) PROVE Follows'
  BY <1>14, MarkFollows
<1> QED BY <1>1, <1>2, <1>3, <1>4, <1>5, <1>6, <1>7, <1>8, <1>9, <1>10, <1>11, <1>12, <1>13,
           <1>14 DEF DiskNext

-----------------------------------------------------------------------------
\* Nothing but a hook touches the directory.
LEMMA OnlyHooksWrite ==
  ASSUME [DiskNext]_allVars PROVE RunHook \/ UNCHANGED <<disk, failed>>
<1>1. ASSUME NEW t, NEW to, DiskFinish(t, to) PROVE UNCHANGED <<disk, failed>>
  BY <1>1 DEF DiskFinish, Persist
<1>2. CASE Quiet \/ UNCHANGED allVars \/ Restart
  BY <1>2 DEF Quiet, diskVars, allVars, Restart
<1>3. ASSUME NEW t, DiskLoad(t) \/ DiskSubmit(t) \/ DiskStartRunning(t)
      PROVE  UNCHANGED <<disk, failed>>
  BY <1>3 DEF DiskLoad, DiskSubmit, DiskStartRunning, Persist, Quiet, diskVars
<1>4. ASSUME NEW c, DiskCancelMark(c) PROVE UNCHANGED <<disk, failed>>
  BY <1>4 DEF DiskCancelMark, Persist, Quiet, diskVars
<1> QED BY <1>1, <1>2, <1>3, <1>4 DEF DiskNext, DiskSettling, DiskSettleOwn, DiskServe

\* The retained tasks fit in the window.
LEMMA RetainedFit ==
  ASSUME IInv
  PROVE  /\ IsFiniteSet(Retained) /\ Cardinality(Retained) \in Nat
         /\ Cardinality(Retained) <= MaxRetained
<1>1. /\ heap \in HeapArray /\ Elements(heap) = Retained /\ Len(heap) <= MaxRetained
  BY DEF IInv, TypeOK, Bookkeeping, HeapHoldsRetained, HeapWithinWindow
<1>2. PICK n \in 0..(MaxRetained + 1) : heap \in [1..n -> TaskID]
  BY <1>1 DEF HeapArray
<1>3. n \in Nat /\ Len(heap) = n /\ DOMAIN heap = 1..n
  BY <1>2, ConstantsAssumption DEF ConstantsAssumption
<1>4. heap \in [1..n -> Retained] /\ \A u \in Retained : \E i \in 1..n : heap[i] = u
  BY <1>1, <1>2, <1>3 DEF Elements
<1>5. heap \in Surjection(1..n, Retained)
  BY <1>4 DEF Surjection
<1>6. IsFiniteSet(1..n) /\ Cardinality(1..n) = n
  BY <1>3, FS_Interval
<1>7. IsFiniteSet(Retained) /\ Cardinality(Retained) <= Cardinality(1..n)
  BY <1>5, <1>6, FS_Surjection
<1>8. Cardinality(Retained) \in Nat
  BY <1>7, FS_CardinalityType
<1> QED BY <1>1, <1>3, <1>6, <1>7, <1>8, ConstantsAssumption DEF ConstantsAssumption

\* Once every manifest has its record, what is ended on the disk is retained, but
\* for one task that is about to be removed and one that is about to be written.
Loaded == stage # "loading"

LEMMA WindowHolds == DInv /\ Follows /\ Loaded => DirectoryWithinWindow
<1> SUFFICES ASSUME DInv, Follows, stage # "loading", failed = {}
             PROVE  Cardinality(Ended) <= MaxRetained
  BY DEF DirectoryWithinWindow, Ended, Loaded
<1>1. /\ IsFiniteSet(Retained) /\ Cardinality(Retained) \in Nat
      /\ Cardinality(Retained) <= MaxRetained /\ MaxRetained \in Nat
  BY RetainedFit, ConstantsAssumption DEF DInv, ConstantsAssumption
<1>2. \A u \in Ended : u \in Retained \/ (Len(hooks) = 2 /\ hooks[1].task = u)
  <2> SUFFICES ASSUME NEW u \in TaskID, disk[u].state \in Terminal, Present(u)
               PROVE  state[u] \in Terminal
    BY DEF Ended, Retained, Follows, Accounted
  <2>1. state[u] \in {disk[u].state, "unborn", "evicted"}
    BY DEF Follows, DiskBehind
  <2> QED BY <2>1 DEF Present, State, Live, Terminal
<1>3. CASE Len(hooks) # 2
  <2>1. Ended \in SUBSET Retained
    BY <1>2, <1>3
  <2>2. Cardinality(Ended) <= Cardinality(Retained) /\ Cardinality(Ended) \in Nat
    BY <1>1, <2>1, FS_Subset, FS_CardinalityType
  <2> QED BY <1>1, <2>2
<1>4. CASE Len(hooks) = 2
  <2>1. PICK g \in Put, a \in Put : hooks = << g, a >>
    <3>1. hooks # << >>
      BY <1>4
    <3>2. ~ \E h \in Put : hooks = << h >>
      BY <1>4
    <3>3. HookShape
      BY DEF DInv, DiskShape
    <3> QED BY <3>1, <3>2, <3>3 DEF HookShape
  <2>2. Last = a /\ hooks[2] = a /\ 2 \in DOMAIN hooks /\ a.task \in TaskID /\ hooks # << >>
    BY <2>1 DEF Last, Put
  <2>3. /\ a.put # NoManifest /\ a.put.state \in Terminal /\ state[a.task] = a.put.state
        /\ disk[a.task].state \notin Terminal
    BY <1>4, <2>2 DEF Follows, HooksFollow
  <2>4. a.task \in Retained /\ a.task \notin Ended
    BY <2>2, <2>3 DEF Retained, Ended
  <2> DEFINE rest == Retained \ {a.task}
             b    == hooks[1].task
  <2>5. Ended \in SUBSET (rest \cup {b})
    BY <1>2, <2>4
  <2>6. IsFiniteSet(rest) /\ Cardinality(rest) = Cardinality(Retained) - 1
    BY <1>1, <2>4, FS_RemoveElement
  <2> HIDE DEF rest, b
  <2>7. /\ IsFiniteSet(rest \cup {b})
        /\ Cardinality(rest \cup {b}) \in {Cardinality(rest), Cardinality(rest) + 1}
    BY <2>6, FS_AddElement
  <2>8. Cardinality(Ended) <= Cardinality(rest \cup {b}) /\ Cardinality(Ended) \in Nat
    BY <2>5, <2>7, FS_Subset, FS_CardinalityType
  <2> QED BY <1>1, <2>6, <2>7, <2>8
<1> QED BY <1>3, <1>4

\* The bound survives a start, which reads the directory before it can write it.
LEMMA NextWInv ==
  ASSUME ~ClockStepsBack PROVE WInv /\ [DiskNext]_allVars => WInv'
<1> SUFFICES ASSUME WInv, [DiskNext]_allVars PROVE WInv'
  OBVIOUS
<1>1. DInv'
  BY NextDInv DEF WInv
<1>2. Follows'
  BY NextFollows
<1>3. CASE stage' # "loading"
  <2>1. Loaded'
    BY <1>3 DEF Loaded
  <2>2. DirectoryWithinWindow'
    BY <1>1, <1>2, <2>1, WindowHolds, PTL
  <2> QED BY <1>1, <1>2, <2>2 DEF WInv
<1>4. CASE stage' = "loading"
  <2>1. ~RunHook
    BY <1>4 DEF RunHook, vars, WInv, DInv, CallsServe
  <2>2. UNCHANGED <<disk, failed>>
    BY <2>1, OnlyHooksWrite
  <2> QED BY <1>1, <1>2, <2>2 DEF WInv, DirectoryWithinWindow
<1> QED BY <1>3, <1>4

LEMMA InitWInv == DiskInit => WInv
<1> SUFFICES ASSUME DiskInit PROVE WInv
  OBVIOUS
<1>1. DInv
  BY InitDInv
<1>2. /\ \A t \in TaskID : disk[t] = NoManifest /\ state[t] = "unborn" /\ finishedAt[t] = 0
      /\ hooks = << >> /\ now = 1 /\ stage = "loading"
  BY DEF DiskInit, Init
<1>3. Follows
  BY <1>2 DEF Follows, ClockAhead, DiskBehind, HooksFollow, Accounted, NoManifest, Terminal
<1>4. DirectoryWithinWindow
  <2>1. {t \in TaskID : disk[t].state \in Terminal} = {}
    BY <1>2 DEF NoManifest, Terminal
  <2>2. Cardinality({t \in TaskID : disk[t].state \in Terminal}) = 0
    BY <2>1, FS_EmptySet
  <2> QED BY <2>2, ConstantsAssumption DEF DirectoryWithinWindow, ConstantsAssumption
<1> QED BY <1>1, <1>3, <1>4 DEF WInv

\* While the disk accepts every write and the clock is not set back, the directory
\* never holds more ended tasks than the window, whatever is killed and when.
THEOREM DirectoryStaysWithin ==
  ASSUME ~ClockStepsBack PROVE DiskSpec => []DirectoryWithinWindow
<1>1. WInv => DirectoryWithinWindow
  BY DEF WInv
<1>2. WInv /\ [DiskNext]_allVars => WInv'
  BY NextWInv
<1> QED BY InitWInv, <1>1, <1>2, PTL DEF DiskSpec

\* The step formula of ManifestsMoveForward.
Forward ==
  \A t \in TaskID :
       /\ disk[t].state \in Terminal => disk'[t].state \in {disk[t].state, "none"}
       /\ disk[t].state = "running" => disk'[t].state # "queued"
       /\ disk[t].state \in Live /\ t \notin failed =>
            disk'[t] # NoManifest

\* A hook that runs moves its manifest forward, as the record it was made from has.
LEMMA StepForward == WInv /\ [DiskNext]_allVars => Forward
<1> SUFFICES ASSUME WInv, [DiskNext]_allVars, NEW t \in TaskID
             PROVE  /\ disk[t].state \in Terminal => disk'[t].state \in {disk[t].state, "none"}
                    /\ disk[t].state = "running" => disk'[t].state # "queued"
                    /\ disk[t].state \in Live /\ t \notin failed => disk'[t] # NoManifest
  BY DEF Forward
<1>none. NoManifest.state = "none"
  BY DEF NoManifest
<1>1. CASE disk'[t] = disk[t]
  BY <1>1, <1>none DEF Live
<1>2. CASE RunHook /\ disk'[t] # disk[t]
  <2>1. /\ hooks # << >> /\ t = hooks[1].task /\ disk'[t] = hooks[1].put
        /\ hooks[1].put \in Manifest \cup {NoManifest} /\ 1 \in DOMAIN hooks
    <3>1. disk' = [disk EXCEPT ![hooks[1].task] = hooks[1].put] /\ hooks # << >>
      BY <1>2 DEF RunHook
    <3>2. 1 \in DOMAIN hooks /\ hooks[1] \in Put
      BY <3>1 DEF WInv, DInv, DiskShape, HookShape
    <3> QED BY <1>2, <3>1, <3>2 DEF Put, WInv, DInv, DiskShape
  <2>2. CASE hooks[1].put = NoManifest
    BY <2>1, <2>2, <1>none DEF WInv, Follows, HooksFollow
  <2>3. CASE hooks[1].put # NoManifest
    <3>1. disk'[t].state = state[t] /\ state[t] \in State
      BY <2>1, <2>3 DEF WInv, Follows, HooksFollow, Manifest
    <3> QED BY <2>1, <2>3, <3>1 DEF WInv, Follows, DiskBehind, State, Live, Terminal
  <2> QED BY <2>2, <2>3
<1> QED BY <1>1, <1>2, OnlyHooksWrite

\* A hook never writes the manifest of a task that the same transition has evicted
\* (memory.go:326-330), as long as the clock is not set back.
WritesArePresent ==
  \A i \in DOMAIN hooks :
    hooks[i].put # NoManifest => state[hooks[i].task] = hooks[i].put.state

THEOREM HooksWriteRecords ==
  ASSUME ~ClockStepsBack PROVE DiskSpec => []WritesArePresent
<1>1. WInv => WritesArePresent
  BY DEF WInv, Follows, HooksFollow, WritesArePresent
<1>2. WInv /\ [DiskNext]_allVars => WInv'
  BY NextWInv
<1> QED BY InitWInv, <1>1, <1>2, PTL DEF DiskSpec

\* Whatever is killed, restarted or fails, a manifest only moves forward, as long
\* as the clock is not set back.
THEOREM ManifestsAdvance ==
  ASSUME ~ClockStepsBack PROVE DiskSpec => ManifestsMoveForward
<1>1. WInv /\ [DiskNext]_allVars => WInv'
  BY NextWInv
<1>2. WInv /\ [DiskNext]_allVars => Forward
  BY StepForward
<1> QED BY InitWInv, <1>1, <1>2, PTL DEF DiskSpec, ManifestsMoveForward, Forward
=============================================================================
