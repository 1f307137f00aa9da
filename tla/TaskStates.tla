----------------------------- MODULE TaskStates -----------------------------
(***************************************************************************)
(* The task lifecycle of internal/taskstore/task.go: the states of a task  *)
(* and the moves the store accepts between them.  Two further values stand *)
(* for a task that is not in the store's map: "unborn", an identifier not  *)
(* minted yet, and "evicted", one whose record the retention window has    *)
(* dropped.  Identifiers are never reused (NewTaskID), so an evicted one   *)
(* never comes back.                                                       *)
(***************************************************************************)

Live     == {"queued", "running"}
Terminal == {"completed", "failed", "cancelled", "abandoned"}

State    == Live \cup Terminal
Fate     == State \cup {"unborn", "evicted"}

\* allowedTransitions as a set of pairs <<from, to>>.
AllowedTransitions ==
  {<<"queued", to>> : to \in {"running", "cancelled", "abandoned", "failed"}}
    \cup
  {<<"running", to>> : to \in Terminal}

CanTransition(from, to) == <<from, to>> \in AllowedTransitions

=============================================================================
