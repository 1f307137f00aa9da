----------------------------- MODULE DiskStore -----------------------------
(***************************************************************************)
(* DiskStore of internal/taskstore/disk.go: the store of TaskStore with a  *)
(* manifest per task, over a sequence of processes that are killed and     *)
(* started again on the same directory.  A hook runs while the write lock  *)
(* is held, so an operation is its step in memory followed by the steps of *)
(* its hooks, with no other operation in between; the process may be       *)
(* killed between any two of them.  A manifest is replaced by a rename and *)
(* is never torn.                                                          *)
(***************************************************************************)
EXTENDS TaskStore

CONSTANTS
  PID,         \* process identifiers a start may be given
  DiskFails,   \* may a write or a removal fail?
  MaxRestarts  \* bound on the processes explored

ASSUME DiskAssumption ==
  /\ PID # {} /\ DiskFails \in BOOLEAN /\ MaxRestarts \in Nat
  /\ Loadable = TaskID

VARIABLES
  disk,     \* [TaskID -> its manifest, or NoManifest]
  hooks,    \* what the hooks of the operation under way have left to do; the
            \* write lock is held until it is empty
  pid,      \* the running process
  minted,   \* identifiers handed out so far, by any process (NewTaskID)
  failed,   \* tasks a hook has failed for, and the disk may not agree with
  restarts

diskVars == <<disk, hooks, pid, minted, failed, restarts>>
allVars  == <<vars, diskVars>>

NoManifest == [state |-> "none", pid |-> NoTask, at |-> 0]
Manifest   == [state : State, pid : PID, at : {0} \cup Time]

DiskTypeOK ==
  /\ TypeOK
  /\ disk \in [TaskID -> Manifest \cup {NoManifest}]
  /\ Len(hooks) <= 2
  /\ \A i \in DOMAIN hooks :
       hooks[i] \in [task : TaskID, put : Manifest \cup {NoManifest}]
  /\ pid \in PID
  /\ minted \subseteq TaskID
  /\ failed \subseteq minted
  /\ restarts \in 0..MaxRestarts

DiskInit ==
  /\ Init
  /\ disk = [t \in TaskID |-> NoManifest]
  /\ hooks = << >>
  /\ pid \in PID
  /\ minted = {}
  /\ failed = {}
  /\ restarts = 0

-----------------------------------------------------------------------------
\* The write lock is free.
Unlocked == hooks = << >>

Remove(t) == [task |-> t, put |-> NoManifest]

\* Mutant: the manifest does not say whose task it is.
WriteUnowned(t, s, at) ==
  [task |-> t, put |-> [state |-> s, pid |-> NoTask, at |-> at]]

Write(t, s, at) == [task |-> t, put |-> [state |-> s, pid |-> pid, at |-> at]]

\* Mutant: OnEvict is not called.
NoEvictions == << >>

\* The calls of OnEvict in this step.
Evictions ==
  LET out == {u \in TaskID : Present(u) /\ state'[u] = "evicted"}
  IN  IF out = {} THEN << >> ELSE <<Remove(CHOOSE u \in out : TRUE)>>

\* Mutant: the hook is handed the record as it was before the transition.
PersistBefore(t, s, at) ==
  /\ Unlocked
  /\ hooks' = Evictions \o <<Write(t, state[t], finishedAt[t])>>
  /\ UNCHANGED <<disk, pid, minted, failed, restarts>>

\* A step in memory that fires OnEvict for what it evicts and then
\* OnTransition with the record of t, which holds state s and FinishedAt at,
\* even when t is the record it has evicted.
Persist(t, s, at) ==
  /\ Unlocked
  /\ hooks' = Evictions \o <<Write(t, s, at)>>
  /\ UNCHANGED <<disk, pid, minted, failed, restarts>>

\* A step that fires no hook, and one that does not take the lock either.
Quiet == UNCHANGED diskVars

\* persistManifest and deleteManifest: the effect on the disk, or a failure
\* that is logged and forgotten.
RunHook ==
  LET h == Head(hooks)
  IN  /\ hooks # << >>
      /\ hooks' = Tail(hooks)
      /\ \/ disk' = [disk EXCEPT ![h.task] = h.put] /\ UNCHANGED failed
         \/ DiskFails /\ failed' = failed \cup {h.task} /\ UNCHANGED disk
      /\ UNCHANGED <<vars, pid, minted, restarts>>

-----------------------------------------------------------------------------
DiskSubmit(t) ==
  /\ t \notin minted
  /\ Submit(t)
  /\ Unlocked
  /\ hooks' = <<Write(t, "queued", 0)>>
  /\ minted' = minted \cup {t}
  /\ UNCHANGED <<disk, pid, failed, restarts>>

DiskStartRunning(t) == StartRunning(t) /\ Persist(t, "running", finishedAt[t])

DiskFinish(t, to) == Finish(t, to) /\ Persist(t, to, Stamp(t))

\* A Transition that is refused fires no hook.
DiskCancelMark(c) ==
  LET t == call[c].task
  IN  /\ CancelMark(c)
      /\ IF Accepts(t, "cancelled") \/ (~closed /\ state[t] = "cancelled")
           THEN Persist(t, "cancelled", now)
           ELSE Unlocked /\ Quiet

-----------------------------------------------------------------------------
\* NewDisk: restore fires no hook, not even for a record it evicts.
Owner(t) == IF disk[t].pid = pid THEN "self" ELSE "peer"

DiskLoad(t) ==
  /\ disk[t] # NoManifest
  /\ \/ RestoreLive(t, disk[t].state, Owner(t))
     \/ RestoreTerminal(t, disk[t].state, Owner(t), disk[t].at)
  /\ Quiet

DiskSettling ==
  /\ \A t \in TaskID : disk[t] # NoManifest => state[t] # "unborn"
  /\ Settling
  /\ Quiet

DiskSettleOwn ==
  /\ stage = "settling"
  /\ \E t \in TaskID : DiskFinish(t, "abandoned")

DiskServe == Serve /\ Unlocked /\ Quiet

\* The process is killed, or ends, and another one is started: memory is
\* lost, and with it what the hooks had left to do.
Restart ==
  /\ restarts < MaxRestarts
  /\ restarts' = restarts + 1
  /\ pid' \in PID
  /\ hooks' = << >>
  /\ state' = [t \in TaskID |-> "unborn"]
  /\ owner' = [t \in TaskID |-> "self"]
  /\ finishedAt' = [t \in TaskID |-> 0]
  /\ done' = {} /\ attached' = {} /\ fired' = {}
  /\ heap' = << >> /\ queued' = 0 /\ running' = 0
  /\ closed' = FALSE /\ stage' = "loading"
  /\ call' = [c \in Canceller |-> Idle]
  /\ UNCHANGED <<now, disk, minted, failed>>

DiskNext ==
  \/ RunHook
  \/ Restart
  \/ Tick /\ Quiet
  \/ DiskSettling \/ DiskSettleOwn \/ DiskServe
  \/ Close /\ Quiet
  \/ \E t \in TaskID :
       \/ DiskLoad(t)
       \/ DiskSubmit(t)
       \/ DiskStartRunning(t)
       \/ RegisterCancel(t) /\ Unlocked /\ Quiet
       \/ \E to \in Terminal : stage = "serving" /\ DiskFinish(t, to)
       \/ \E c \in Canceller : CancelRead(c, t) /\ Unlocked /\ Quiet
  \/ \E c \in Canceller : CancelFire(c) /\ Quiet
  \/ \E c \in Canceller : DiskCancelMark(c)

DiskSpec == DiskInit /\ [][DiskNext]_allVars

-----------------------------------------------------------------------------
\* PROPERTIES

\* Between operations the manifest of a retained task says what the record
\* says, in every process that serves the directory, unless a hook has failed
\* for it: the hooks run in the order of the transitions (disk.go:50-52), and
\* a start restores what the last process left.
ManifestsAgree ==
  stage = "serving" /\ Unlocked =>
    \A t \in TaskID \ failed : Present(t) =>
      /\ disk[t].state = state[t]
      /\ disk[t].at = finishedAt[t]
      /\ disk[t].pid = pid <=> Mine(t)

\* Whatever is killed, restarted or fails, a manifest only moves forward: it
\* never leaves a terminal state for another one, never goes back to the
\* queue, and is not removed while it still claims that the task is live (the
\* clock is not set back here, and no hook has failed for the task).
ManifestsMoveForward ==
  [][\A t \in TaskID :
       /\ disk[t].state \in Terminal => disk'[t].state \in {disk[t].state, "none"}
       /\ disk[t].state = "running" => disk'[t].state # "queued"
       /\ disk[t].state \in Live /\ t \notin failed =>
            disk'[t] # NoManifest]_allVars

\* While the disk accepts every write and the clock is not set back, the
\* directory holds no more ended tasks than the retention window.
DirectoryWithinWindow ==
  failed = {} =>
    Cardinality({t \in TaskID : disk[t].state \in Terminal}) <= MaxRetained

\* What the documentation says, and the code does not do:

\* Once a start has settled, no task is left queued or running that no process
\* will end: what was live was turned into "abandoned" (README.md:433).  One
\* process serves the directory at a time here.
RestartLeavesNoGhost ==
  stage = "serving" => \A t \in TaskID : state[t] \in Live => Mine(t)
=============================================================================
