--------------------------- MODULE StoreContract ---------------------------
(***************************************************************************)
(* What the Store interface (internal/taskstore/store.go) promises about   *)
(* the tasks behind it, without counters, heap, locks or callers: a task   *)
(* is admitted while fewer than MaxQueued wait, then moves only along the  *)
(* lifecycle, is forgotten only once it has ended, at most MaxRetained     *)
(* ended tasks are remembered, and the channel a Wait blocks on is closed  *)
(* exactly when the task ends.                                             *)
(***************************************************************************)
EXTENDS Naturals, FiniteSets, TaskStates

CONSTANTS TaskID, MaxQueued, MaxRetained

VARIABLES state,   \* [TaskID -> Fate]
          done,    \* the tasks whose done channel is closed
          serving  \* FALSE while a start-up replay loads manifests

vars == <<state, done, serving>>

InState(s) == {t \in TaskID : state[t] = s}
Ended      == {t \in TaskID : state[t] \in Terminal \cup {"evicted"}}
Retained   == {t \in TaskID : state[t] \in Terminal}

Init == /\ state = [t \in TaskID |-> "unborn"]
        /\ done = {}
        /\ serving = FALSE

\* One task's share of a step: it moves, and the move that ends it may also
\* be the one that drops it from a full retention window.
Moves(from, to) ==
  \/ CanTransition(from, to)
  \/ from \in Live \cup Terminal /\ to = "evicted"

Admit(t) ==
  /\ serving
  /\ state[t] = "unborn"
  /\ Cardinality(InState("queued")) < MaxQueued
  /\ state' = [state EXCEPT ![t] = "queued"]
  /\ UNCHANGED <<done, serving>>

\* Replay loads a task in whatever state its manifest holds.
Load ==
  /\ ~serving
  /\ \A t \in TaskID : \/ state'[t] = state[t]
                       \/ state[t] = "unborn" /\ state'[t] \in Fate
                       \/ state[t] \in Terminal /\ state'[t] = "evicted"
  /\ done' = Ended'
  /\ Cardinality(Retained') <= MaxRetained
  /\ UNCHANGED serving

Serve == /\ ~serving
         /\ serving' = TRUE
         /\ UNCHANGED <<state, done>>

Advance ==
  /\ \A t \in TaskID : state'[t] = state[t] \/ Moves(state[t], state'[t])
  /\ done' = Ended'
  /\ Cardinality(Retained') <= MaxRetained
  /\ UNCHANGED serving

Next == Load \/ Serve \/ Advance \/ \E t \in TaskID : Admit(t)

Spec == Init /\ [][Next]_vars
=============================================================================
