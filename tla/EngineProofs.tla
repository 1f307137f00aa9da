---------------------------- MODULE EngineProofs ----------------------------
(***************************************************************************)
(* Engine for every finite pool of workers, every finite set of calls,     *)
(* every assignment of ids and every queue size: its types, the inflight   *)
(* count, what Run may rely on when it closes the connection, and the      *)
(* registry's entries.                                                     *)
(***************************************************************************)
EXTENDS Engine, FiniteSetTheorems, TLAPS

\* Where an actor may stand, and what it holds there.
Executing == {"handle", "tool", "write", "lock", "send", "done", "count",
              "release"}

WorkerPlaces ==
  \A w \in Worker : \/ at[w] \in {"idle", "exited"} /\ job[w] = NoCall
                    \/ at[w] \in Executing /\ job[w] \in Call

LoopPlaces ==
  \/ at[Loop] \in {"check", "read", "notice", "interrupt", "ended"}
     /\ job[Loop] = NoCall
  \/ at[Loop] \in {"supersede", "enqueue", "handle", "tool", "done", "count"}
     /\ job[Loop] \in Call
  \/ at[Loop] = "register" /\ job[Loop] \in Call /\ KeyOf[job[Loop]] \in Key
  \/ at[Loop] \in {"write", "lock", "send", "release"}

EndedPlace == at[Loop] = "ended" <=> phase # "serving"

TInv == TypeOK /\ WorkerPlaces /\ LoopPlaces /\ EndedPlace

\* Once Drained has let Run pass, nothing is counted any more.
DrainedStays ==
  phase \in {"closing", "joining", "stopped"} /\ ~abandoned => inflight = 0

\* The inductive invariant of the drain.
IInv == TInv /\ InflightExact /\ DrainedStays

-----------------------------------------------------------------------------
LEMMA InitTInv == Init => TInv
<1> SUFFICES ASSUME Init PROVE TInv
  OBVIOUS
<1>1. WorkerPlaces /\ LoopPlaces /\ EndedPlace
  BY EngineAssumption DEF EngineAssumption, Init, WorkerPlaces, LoopPlaces,
                          EndedPlace, Actor
<1>2. queue \in Seq(Call) /\ Len(queue) <= RequestQueueSize
  BY EngineAssumption DEF EngineAssumption, Init
<1>3. at \in [Actor -> Serving \cup LoopAlone \cup {"idle", "exited"}]
  BY DEF Init, LoopAlone
<1> QED BY <1>1, <1>2, <1>3 DEF Init, TInv, TypeOK, Message, Phases

\* An actor that moves between places where it executes, holding its call.
LEMMA ExecutingStep ==
  ASSUME TInv, NEW a \in Actor, NEW from \in Executing, NEW to \in Executing,
         Step(a, from, to), job' = job,
         a = Loop => to \notin {"handle", "tool", "done", "count"}
                     \/ job[a] \in Call,
         phase' = phase
  PROVE  WorkerPlaces' /\ LoopPlaces' /\ EndedPlace'
                       /\ at' \in [Actor -> Serving \cup LoopAlone \cup {"idle", "exited"}]
  BY EngineAssumption
     DEF EngineAssumption, TInv, TypeOK, WorkerPlaces, LoopPlaces, EndedPlace, Actor, Step,
         Executing, Serving, LoopAlone

LEMMA CountedFinite == IsFiniteSet(Counted) /\ Cardinality(Counted) \in Nat
<1>1. IsFiniteSet(Actor)
  BY EngineAssumption, FS_AddElement DEF EngineAssumption, Actor
<1>2. IsFiniteSet(Counted)
  BY <1>1, FS_Subset DEF Counted
<1> QED BY <1>2, FS_CardinalityType

\* Who releases has been counted.
LEMMA ReleaseCounted ==
  ASSUME TInv, InflightExact, NEW a \in Actor, Release(a)
  PROVE  inflight - 1 \in Nat
<1>1. a \in Counted
  BY DEF Release, Step, Counted, Serving
<1>2. Cardinality(Counted) # 0
  BY <1>1, CountedFinite, FS_EmptySet
<1>3. Len(queue) \in Nat
  BY DEF TInv, TypeOK
<1> QED BY <1>2, <1>3, CountedFinite DEF InflightExact

LEMMA NextTInv == TInv /\ InflightExact /\ [Next]_vars => TInv'
<1> SUFFICES ASSUME TInv, InflightExact, [Next]_vars PROVE TInv'
  OBVIOUS
<1> USE EngineAssumption DEF EngineAssumption
<1> USE DEF actorVars, cancelVars, countVars, replyVars, runVars
<1>ended. ASSUME EndLoop, at[Loop] \in {"check", "read"} PROVE TInv'
  BY <1>ended DEF EndLoop, TInv, TypeOK, WorkerPlaces, LoopPlaces, EndedPlace,
                  Actor, Executing, LoopAlone, Phases
<1>1. CASE LoopCheck
  <2>1. CASE stopping /\ EndLoop
    BY <1>1, <2>1, <1>ended DEF LoopCheck
  <2>2. CASE ~(stopping /\ EndLoop)
    BY <1>1, <2>2 DEF LoopCheck, Step, TInv, TypeOK, WorkerPlaces, LoopPlaces,
                      EndedPlace, Actor, LoopAlone
  <2> QED BY <2>1, <2>2
<1>2. CASE ReadCancelled \/ ReadEOF
  BY <1>2, <1>ended DEF ReadCancelled, ReadEOF
<1>3. ASSUME NEW c \in Call, ReadCall(c) PROVE TInv'
  BY <1>3 DEF ReadCall, Step, TInv, TypeOK, WorkerPlaces, LoopPlaces,
              EndedPlace, Actor, LoopAlone
<1>4. ASSUME NEW m \in Message, ReadMessage(m) PROVE TInv'
  BY <1>4 DEF ReadMessage, Step, TInv, TypeOK, WorkerPlaces, LoopPlaces,
              EndedPlace, Actor, Serving
<1>5. CASE Register
  BY <1>5 DEF Register, Step, TInv, TypeOK, WorkerPlaces, LoopPlaces,
              EndedPlace, Actor, LoopAlone
<1>6. CASE Supersede
  BY <1>6 DEF Supersede, Interrupt, Step, TInv, TypeOK, WorkerPlaces,
              LoopPlaces, EndedPlace, Actor, LoopAlone
<1>7. CASE Enqueue
  <2>1. job[Loop] \in Call
    BY <1>7 DEF Enqueue, Step, TInv, LoopPlaces
  <2>2. /\ queue' \in Seq(Call) /\ Len(queue') <= RequestQueueSize
        /\ inflight' \in Nat
    <3>1. /\ queue \in Seq(Call) /\ Len(queue) <= RequestQueueSize /\ inflight \in Nat
          /\ inflight' = inflight + 1 /\ RequestQueueSize \in Nat
      BY <1>7, EngineAssumption DEF Enqueue, TInv, TypeOK, EngineAssumption
    <3>2. \/ queue' = Append(queue, job[Loop]) /\ Len(queue) < RequestQueueSize
          \/ queue' = queue
      BY <1>7 DEF Enqueue
    <3> QED BY <2>1, <3>1, <3>2
  <2> QED BY <1>7, <2>1, <2>2
          DEF Enqueue, Step, TInv, TypeOK, WorkerPlaces, LoopPlaces,
              EndedPlace, Actor, LoopAlone, Serving
<1>8. CASE HandleNotice
  <2>1. CASE Answer
    BY <1>8, <2>1 DEF HandleNotice, Answer, Step, TInv, TypeOK, WorkerPlaces,
                      LoopPlaces, EndedPlace, Actor, Serving
  <2>2. CASE Initialized
    BY <1>8, <2>2 DEF HandleNotice, Initialized, Step, TInv, TypeOK,
                      WorkerPlaces, LoopPlaces, EndedPlace, Actor, Serving
  <2>3. CASE Cancel
    BY <1>8, <2>3 DEF HandleNotice, Cancel, Step, TInv, TypeOK, WorkerPlaces,
                      LoopPlaces, EndedPlace, Actor, Serving
  <2> QED BY <1>8, <2>1, <2>2, <2>3 DEF HandleNotice
<1>9. CASE CancelFire
  BY <1>9 DEF CancelFire, Interrupt, Step, TInv, TypeOK, WorkerPlaces,
              LoopPlaces, EndedPlace, Actor, Serving
<1>10. ASSUME NEW w \in Worker, WorkerReceive(w) PROVE TInv'
  BY <1>10 DEF WorkerReceive, Step, TInv, TypeOK, WorkerPlaces, LoopPlaces,
               EndedPlace, Actor, Serving, Executing
<1>11. ASSUME NEW w \in Worker, WorkerExit(w) PROVE TInv'
  BY <1>11 DEF WorkerExit, Step, TInv, TypeOK, WorkerPlaces, LoopPlaces,
               EndedPlace, Actor, Executing
<1>12. ASSUME NEW a \in Actor, Executes(a) \/ ToolReturns(a) PROVE TInv'
  <2>1. CASE Gate(a)
    BY <2>1, ExecutingStep DEF Gate, TInv, TypeOK, Executing, Step, LoopPlaces
  <2>2. CASE ToolReturns(a)
    <3>1. at[a] = "tool" /\ job[a] \in Call
      BY <2>2 DEF ToolReturns, Step, TInv, LoopPlaces, WorkerPlaces, Actor
    <3>2. PICK to \in {"write", "done"} : Step(a, "tool", to)
      BY <2>2 DEF ToolReturns
    <3>3. /\ UNCHANGED <<job, message, cancelVars, countVars, initialized, written, runVars>>
          /\ failed' \in {failed, failed \cup {job[a]}}
      BY <2>2 DEF ToolReturns
    <3>4. phase' = phase /\ to \in Executing /\ "tool" \in Executing
      BY <3>3 DEF runVars, Executing
    <3>5. /\ WorkerPlaces' /\ LoopPlaces' /\ EndedPlace'
          /\ at' \in [Actor -> Serving \cup LoopAlone \cup {"idle", "exited"}]
      BY <3>1, <3>2, <3>3, <3>4, ExecutingStep
    <3>6. failed' \subseteq Call
      BY <3>1, <3>3 DEF TInv, TypeOK
    <3> QED BY <3>3, <3>5, <3>6 DEF TInv, TypeOK, cancelVars, countVars, runVars
  <2>3. CASE WriteCheck(a)
    BY <2>3, ExecutingStep
       DEF WriteCheck, Executed, TInv, TypeOK, Executing, Step
  <2>4. CASE WriteLock(a)
    BY <2>4, ExecutingStep
       DEF WriteLock, Executed, TInv, TypeOK, Executing, Step
  <2>5. CASE WriteSend(a)
    <3>1. /\ Step(a, "send", Executed(a)) /\ phase' = phase /\ "send" \in Executing
          /\ UNCHANGED <<job, message, cancelVars, countVars, initialized, runVars>>
      BY <2>5 DEF WriteSend, runVars, Executing
    <3>2. /\ Executed(a) \in Executing
          /\ a = Loop => Executed(a) \notin {"handle", "tool", "done", "count"} \/ job[a] \in Call
      BY DEF Executed, Executing, TInv, TypeOK
    <3>3. /\ WorkerPlaces' /\ LoopPlaces' /\ EndedPlace'
          /\ at' \in [Actor -> Serving \cup LoopAlone \cup {"idle", "exited"}]
      BY <3>1, <3>2, ExecutingStep
    <3>4. written' \subseteq Call /\ failed' \subseteq Call
      BY <2>5 DEF WriteSend, TInv, TypeOK
    <3> QED BY <3>1, <3>3, <3>4 DEF TInv, TypeOK, cancelVars, countVars, runVars
  <2>6. CASE RegistryDone(a)
    BY <2>6, ExecutingStep
       DEF RegistryDone, TInv, TypeOK, Executing, Step, LoopPlaces
  <2>7. CASE JobCount(a)
    <3>1. job[a] \in Call
      BY <2>7 DEF JobCount, Step, TInv, LoopPlaces, WorkerPlaces, Actor
    <3>2. /\ ctx' \in [Call -> {"none", "live", "cancelled", "over"}]
          /\ completed' \subseteq Call
      BY <2>7, <3>1 DEF JobCount, TInv, TypeOK
    <3> QED BY <2>7, <3>1, <3>2, ExecutingStep
            DEF JobCount, TInv, TypeOK, Executing, Step
  <2>8. CASE Release(a)
    <3>1. inflight - 1 \in Nat
      BY <2>8, ReleaseCounted
    <3> QED BY <2>8, <3>1
            DEF Release, Step, TInv, TypeOK, WorkerPlaces, LoopPlaces,
                EndedPlace, Actor, LoopAlone, Executing
  <2> QED BY <1>12, <2>1, <2>2, <2>3, <2>4, <2>5, <2>6, <2>7, <2>8 DEF Executes
<1>13. CASE Signal
  BY <1>13 DEF Signal, TInv, TypeOK, WorkerPlaces, LoopPlaces, EndedPlace
<1>14. ASSUME NEW c \in Call, RequestExpires(c) PROVE TInv'
  BY <1>14 DEF RequestExpires, TInv, TypeOK, WorkerPlaces, LoopPlaces, EndedPlace
<1>15. CASE ShutDown
  BY <1>15 DEF ShutDown, Drained, ShutdownTimeout, ForceCancelGrace, CloseConn,
               Joined, RunStep, TInv, TypeOK, WorkerPlaces, LoopPlaces,
               EndedPlace, Phases
<1>16. CASE Stopped \/ UNCHANGED vars
  BY <1>16 DEF Stopped, vars, TInv, TypeOK, WorkerPlaces, LoopPlaces, EndedPlace
<1> QED
  BY <1>1, <1>2, <1>3, <1>4, <1>5, <1>6, <1>7, <1>8, <1>9, <1>10, <1>11,
     <1>12, <1>13, <1>14, <1>15, <1>16
     DEF Next, Reads, LoopRuns, WorkerRuns

-----------------------------------------------------------------------------
\* One actor moves: the counted actors change by that one.
LEMMA CountedStep ==
  ASSUME TInv, NEW a \in Actor, NEW from, NEW to, Step(a, from, to)
  PROVE  /\ (from \in Serving <=> to \in Serving) =>
              Cardinality(Counted') = Cardinality(Counted)
         /\ from \notin Serving /\ to \in Serving =>
              Cardinality(Counted') = Cardinality(Counted) + 1
         /\ from \in Serving /\ to \notin Serving =>
              Cardinality(Counted') = Cardinality(Counted) - 1
<1>1. a \in Counted <=> from \in Serving
  BY DEF Counted, Step
<1>2. Counted' = IF to \in Serving THEN Counted \cup {a} ELSE Counted \ {a}
  BY DEF Counted, Step, TInv, TypeOK
<1>3. /\ Cardinality(Counted \cup {a}) =
           IF a \in Counted THEN Cardinality(Counted) ELSE Cardinality(Counted) + 1
      /\ Cardinality(Counted \ {a}) =
           IF a \in Counted THEN Cardinality(Counted) - 1 ELSE Cardinality(Counted)
  BY CountedFinite, FS_AddElement, FS_RemoveElement
<1>4. CASE to \in Serving
  BY <1>1, <1>2, <1>3, <1>4, CountedFinite
<1>5. CASE to \notin Serving
  BY <1>1, <1>2, <1>3, <1>5, CountedFinite
<1> QED BY <1>4, <1>5

\* A move that neither enters nor leaves a counted place, with the queue and
\* the count untouched.
LEMMA SameCount ==
  ASSUME TInv, InflightExact, UNCHANGED <<queue, inflight>>,
         NEW a \in Actor, NEW from, NEW to, Step(a, from, to),
         to \in Serving <=> from \in Serving
  PROVE  InflightExact'
<1>1. Cardinality(Counted') = Cardinality(Counted)
  BY CountedStep
<1> QED BY <1>1 DEF InflightExact

LEMMA NoMove ==
  ASSUME InflightExact, UNCHANGED <<at, queue, inflight>> PROVE InflightExact'
  BY DEF InflightExact, Counted

LEMMA NextInflight == TInv /\ InflightExact /\ [Next]_vars => InflightExact'
<1> SUFFICES ASSUME TInv, InflightExact, [Next]_vars PROVE InflightExact'
  OBVIOUS
<1> USE DEF actorVars, cancelVars, countVars, replyVars, runVars
<1>len. Len(queue) \in Nat /\ inflight \in Nat /\ Loop \in Actor
  BY DEF TInv, TypeOK, Actor
<1>ended. ASSUME EndLoop, at[Loop] \in {"check", "read"} PROVE InflightExact'
  <2>1. Step(Loop, at[Loop], "ended")
    BY <1>ended DEF EndLoop, Step
  <2> QED BY <1>ended, <2>1, <1>len, SameCount DEF EndLoop, Serving
<1>1. CASE LoopCheck
  BY <1>1, <1>len, <1>ended, SameCount DEF LoopCheck, Serving
<1>2. CASE ReadCancelled \/ ReadEOF
  BY <1>2, <1>ended DEF ReadCancelled, ReadEOF
<1>3. ASSUME NEW c \in Call, ReadCall(c) PROVE InflightExact'
  BY <1>3, <1>len, SameCount DEF ReadCall, Serving
<1>4. ASSUME NEW m \in Message, ReadMessage(m) PROVE InflightExact'
  BY <1>4, <1>len, CountedStep, CountedFinite
     DEF ReadMessage, InflightExact, Serving
<1>5. CASE Register
  BY <1>5, <1>len, SameCount DEF Register, Serving
<1>6. CASE Supersede
  BY <1>6, <1>len, SameCount DEF Supersede, Serving
<1>7. CASE Enqueue
  <2>1. CASE Step(Loop, "enqueue", "check") /\ queue' = Append(queue, job[Loop])
    <3>1. Len(queue') = Len(queue) + 1
      BY <2>1 DEF TInv, TypeOK
    <3>2. Cardinality(Counted') = Cardinality(Counted)
      BY <2>1, <1>len, CountedStep DEF Serving
    <3> QED BY <1>7, <3>1, <3>2, <1>len, CountedFinite DEF Enqueue, InflightExact
  <2>2. CASE Step(Loop, "enqueue", "handle") /\ UNCHANGED queue
    BY <1>7, <2>2, <1>len, CountedStep, CountedFinite
       DEF Enqueue, InflightExact, Serving
  <2> QED BY <1>7, <2>1, <2>2 DEF Enqueue
<1>8. CASE HandleNotice
  BY <1>8, <1>len, SameCount
     DEF HandleNotice, Answer, Initialized, Cancel, Serving
<1>9. CASE CancelFire
  BY <1>9, <1>len, SameCount DEF CancelFire, Serving
<1>10. ASSUME NEW w \in Worker, WorkerReceive(w) PROVE InflightExact'
  <2>1. Len(queue') = Len(queue) - 1
    BY <1>10 DEF WorkerReceive, TInv, TypeOK
  <2>2. w \in Actor
    BY DEF Actor
  <2> QED BY <1>10, <2>1, <2>2, <1>len, CountedStep, CountedFinite
          DEF WorkerReceive, InflightExact, Serving
<1>11. ASSUME NEW w \in Worker, WorkerExit(w) PROVE InflightExact'
  BY <1>11, <1>len, SameCount DEF WorkerExit, Serving, Actor
<1>12. ASSUME NEW a \in Actor, Executes(a) \/ ToolReturns(a) PROVE InflightExact'
  <2>1. CASE Release(a)
    BY <2>1, <1>len, CountedStep, CountedFinite
       DEF Release, InflightExact, Serving
  <2>2. CASE Gate(a) \/ ToolReturns(a)
    BY <2>2, SameCount DEF Gate, ToolReturns, Serving
  <2>3. CASE WriteCheck(a) \/ WriteLock(a) \/ WriteSend(a)
    BY <2>3, SameCount
       DEF WriteCheck, WriteLock, WriteSend, Executed, Serving
  <2>4. CASE RegistryDone(a) \/ JobCount(a)
    BY <2>4, SameCount DEF RegistryDone, JobCount, Serving
  <2> QED BY <1>12, <2>1, <2>2, <2>3, <2>4 DEF Executes
<1>13. CASE Signal
  BY <1>13, NoMove DEF Signal
<1>14. ASSUME NEW c \in Call, RequestExpires(c) PROVE InflightExact'
  BY <1>14, NoMove DEF RequestExpires
<1>15. CASE ShutDown
  BY <1>15, NoMove DEF ShutDown, Drained, ShutdownTimeout, ForceCancelGrace,
                          CloseConn, Joined, RunStep
<1>16. CASE Stopped \/ UNCHANGED vars
  BY <1>16, NoMove DEF Stopped, vars
<1> QED
  BY <1>1, <1>2, <1>3, <1>4, <1>5, <1>6, <1>7, <1>8, <1>9, <1>10, <1>11,
     <1>12, <1>13, <1>14, <1>15, <1>16
     DEF Next, Reads, LoopRuns, WorkerRuns

-----------------------------------------------------------------------------
\* With nothing counted, nothing is queued and nobody executes.
LEMMA NothingCounted ==
  ASSUME TInv, InflightExact, inflight = 0
  PROVE  queue = << >> /\ Counted = {}
<1>1. Len(queue) \in Nat /\ queue \in Seq(Call)
  BY DEF TInv, TypeOK
<1>2. Len(queue) = 0 /\ Cardinality(Counted) = 0
  BY <1>1, CountedFinite DEF InflightExact
<1> QED BY <1>1, <1>2, CountedFinite, FS_EmptySet

LEMMA NextDrained == IInv /\ [Next]_vars => DrainedStays'
<1> SUFFICES ASSUME IInv, [Next]_vars PROVE DrainedStays'
  OBVIOUS
<1> USE DEF actorVars, cancelVars, countVars, replyVars, runVars
<1>inv. TInv /\ InflightExact /\ DrainedStays
  BY DEF IInv
<1>kept. ASSUME UNCHANGED <<inflight, phase, abandoned>> PROVE DrainedStays'
  BY <1>kept, <1>inv DEF DrainedStays
<1>ended. ASSUME EndLoop PROVE DrainedStays'
  BY <1>ended DEF EndLoop, DrainedStays
<1>alone. ASSUME at[Loop] \in {"read", "enqueue"}, UNCHANGED phase
          PROVE  DrainedStays'
  BY <1>alone, <1>inv DEF DrainedStays, TInv, EndedPlace
<1>1. CASE Reads
  BY <1>1, <1>ended, <1>alone
     DEF Reads, ReadEOF, ReadCall, ReadMessage, Step
<1>2. CASE LoopRuns
  <2>1. CASE LoopCheck \/ ReadCancelled
    BY <2>1, <1>ended, <1>kept DEF LoopCheck, ReadCancelled
  <2>2. CASE Enqueue
    BY <2>2, <1>alone DEF Enqueue, Step
  <2>3. CASE Register \/ Supersede \/ HandleNotice \/ CancelFire
    BY <2>3, <1>kept DEF Register, Supersede, HandleNotice, CancelFire
  <2> QED BY <1>2, <2>1, <2>2, <2>3 DEF LoopRuns
<1>3. CASE Signal \/ Stopped \/ UNCHANGED vars
  BY <1>3, <1>kept DEF Signal, Stopped, vars
<1>4. CASE ShutDown
  BY <1>4, <1>inv
     DEF ShutDown, Drained, ShutdownTimeout, ForceCancelGrace, CloseConn,
         Joined, RunStep, DrainedStays
<1>5. ASSUME NEW w \in Worker, WorkerRuns(w) PROVE DrainedStays'
  BY <1>5, <1>kept DEF WorkerRuns, WorkerReceive, WorkerExit
<1>6. ASSUME NEW a \in Actor, Executes(a) \/ ToolReturns(a) PROVE DrainedStays'
  <2>1. CASE Release(a)
    <3>1. a \in Counted
      BY <2>1 DEF Release, Step, Counted, Serving
    <3>2. inflight # 0
      BY <3>1, <1>inv, NothingCounted
    <3> QED BY <2>1, <3>2, <1>inv DEF Release, DrainedStays
  <2>2. CASE ~Release(a)
    BY <1>6, <2>2, <1>kept
       DEF Executes, Gate, ToolReturns, WriteCheck, WriteLock, WriteSend,
           RegistryDone, JobCount
  <2> QED BY <2>1, <2>2
<1>7. ASSUME NEW c \in Call, RequestExpires(c) PROVE DrainedStays'
  BY <1>7, <1>kept DEF RequestExpires
<1> QED BY <1>1, <1>2, <1>3, <1>4, <1>5, <1>6, <1>7 DEF Next

LEMMA InitIInv == Init => IInv
<1> SUFFICES ASSUME Init PROVE IInv
  OBVIOUS
<1>1. Counted = {}
  BY EngineAssumption DEF EngineAssumption, Init, Counted, Serving, Actor
<1>2. InflightExact
  BY <1>1, FS_EmptySet DEF Init, InflightExact
<1>3. DrainedStays
  BY DEF Init, DrainedStays
<1> QED BY <1>2, <1>3, InitTInv DEF IInv

LEMMA Invariance == Spec => []IInv
<1>1. IInv /\ [Next]_vars => IInv'
  BY NextTInv, NextInflight, NextDrained DEF IInv
<1> QED BY <1>1, InitIInv, PTL DEF Spec

-----------------------------------------------------------------------------
\* The variables of the engine keep their types, the inflight count and the
\* queue their bounds, for every configuration (server.go:581-596).
THEOREM TypeCorrect == Spec => []TypeOK
<1>1. IInv => TypeOK
  BY DEF IInv, TInv
<1> QED BY <1>1, Invariance, PTL

\* The inflight count is the number of jobs queued or in an actor's hands,
\* whatever path they took (server.go:373-375, 402-426).
THEOREM InflightAlways == Spec => []InflightExact
<1>1. IInv => InflightExact
  BY DEF IInv
<1> QED BY <1>1, Invariance, PTL

\* Unless the grace period ran out, the connection is closed over an idle
\* engine (server.go:314-338, README.md:322).
THEOREM CloseIsLast == Spec => []ClosedAfterDrain
<1>1. ASSUME IInv PROVE ClosedAfterDrain
  <2> SUFFICES ASSUME ConnClosed, ~abandoned
               PROVE  queue = << >> /\ \A a \in Actor : at[a] \notin Serving
    BY DEF ClosedAfterDrain
  <2>1. inflight = 0
    BY <1>1 DEF IInv, DrainedStays, ConnClosed
  <2> QED BY <1>1, <2>1, NothingCounted DEF IInv, Counted
<1>2. IInv => ClosedAfterDrain
  BY <1>1
<1> QED BY <1>2, Invariance, PTL

-----------------------------------------------------------------------------
\* The argument that no reply is lost.  Until the engine context is cancelled,
\* a call that was read has been settled, or somebody still owes its reply.
Owing == {"register", "supersede", "enqueue", "handle", "tool", "write",
          "lock", "send"}

Settled(c) == c \in written \cup failed \/ ctx[c] = "cancelled"

Owed(c) == \/ c \in Elements(queue)
           \/ \E a \in Actor : job[a] = c /\ at[a] \in Owing

Accounted == \A c \in Call : ctx[c] # "none" => Settled(c) \/ Owed(c)

ForcedDone == phase = "forced" \/ abandoned => engineDone

RInv == IInv /\ ForcedDone /\ (engineDone \/ Accounted)

LEMMA InAppend ==
  ASSUME NEW s \in Seq(Call), NEW x \in Call
  PROVE  Elements(Append(s, x)) = Elements(s) \cup {x}
<1>1. /\ Append(s, x) \in Seq(Call)
      /\ Len(Append(s, x)) = Len(s) + 1 /\ Len(s) \in Nat
      /\ Append(s, x)[Len(s) + 1] = x
      /\ \A i \in 1..Len(s) : Append(s, x)[i] = s[i]
  OBVIOUS
<1> QED BY <1>1 DEF Elements

LEMMA InTail ==
  ASSUME NEW s \in Seq(Call), s # << >>, NEW c \in Elements(s), c # Head(s)
  PROVE  c \in Elements(Tail(s))
<1>1. PICK i \in 1..Len(s) : s[i] = c
  BY DEF Elements
<1>2. i # 1 /\ Len(s) \in Nat
  BY <1>1
<1>3. Len(Tail(s)) = Len(s) - 1 /\ Tail(s)[i - 1] = s[i]
  BY <1>1, <1>2
<1>4. i - 1 \in 1..Len(Tail(s)) /\ Tail(s)[i - 1] = c
  BY <1>1, <1>2, <1>3
<1> QED BY <1>4 DEF Elements

LEMMA NextForced == TInv /\ ForcedDone /\ [Next]_vars => ForcedDone'
<1> SUFFICES ASSUME TInv, ForcedDone, [Next]_vars PROVE ForcedDone'
  OBVIOUS
<1> USE DEF runVars
<1>1. CASE UNCHANGED <<phase, abandoned, engineDone>>
  BY <1>1 DEF ForcedDone
<1>2. CASE EndLoop
  BY <1>2 DEF EndLoop, ForcedDone
<1>3. CASE ShutDown
  BY <1>3 DEF ShutDown, Drained, ShutdownTimeout, ForceCancelGrace, CloseConn,
              Joined, RunStep, ForcedDone
<1>4. CASE LoopRuns
  BY <1>1, <1>2, <1>4
     DEF LoopRuns, LoopCheck, ReadCancelled, Register, Supersede, Enqueue,
         HandleNotice, CancelFire
<1>5. CASE Reads
  BY <1>1, <1>2, <1>5 DEF Reads, ReadEOF, ReadCall, ReadMessage
<1>6. ASSUME NEW a \in Actor, Executes(a) \/ ToolReturns(a) PROVE ForcedDone'
  BY <1>1, <1>6
     DEF Executes, Gate, ToolReturns, WriteCheck, WriteLock, WriteSend,
         RegistryDone, JobCount, Release
<1>7. ASSUME NEW w \in Worker, WorkerRuns(w) PROVE ForcedDone'
  BY <1>1, <1>7 DEF WorkerRuns, WorkerReceive, WorkerExit
<1>8. CASE Signal \/ Stopped \/ UNCHANGED vars
  BY <1>1, <1>8 DEF Signal, Stopped, vars
<1>9. ASSUME NEW c \in Call, RequestExpires(c) PROVE ForcedDone'
  BY <1>1, <1>9 DEF RequestExpires
<1> QED BY <1>3, <1>4, <1>5, <1>6, <1>7, <1>8, <1>9 DEF Next

\* A settled call stays settled, and the engine context stays cancelled.
LEMMA SettledStays ==
  ASSUME TInv, [Next]_vars
  PROVE  /\ engineDone => engineDone'
         /\ \A c \in Call : Settled(c) => Settled(c)'
<1> USE DEF TInv, TypeOK, Settled, cancelVars, replyVars, runVars
<1>0. CASE UNCHANGED <<ctx, written, failed, engineDone>>
  BY <1>0
<1>1. CASE Reads
  BY <1>0, <1>1 DEF Reads, ReadEOF, EndLoop, ReadCall, ReadMessage
<1>2. CASE LoopRuns
  BY <1>0, <1>2
     DEF LoopRuns, LoopCheck, ReadCancelled, EndLoop, Register, Supersede,
         Enqueue, HandleNotice, CancelFire, Interrupt
<1>3. CASE Signal \/ Stopped \/ UNCHANGED vars
  BY <1>0, <1>3 DEF Signal, Stopped, vars
<1>4. CASE ShutDown
  BY <1>4 DEF ShutDown, Drained, ShutdownTimeout, ForceCancelGrace, CloseConn,
              Joined, RunStep
<1>5. ASSUME NEW w \in Worker, WorkerRuns(w)
      PROVE  UNCHANGED <<ctx, written, failed, engineDone>>
  BY <1>5 DEF WorkerRuns, WorkerReceive, WorkerExit
<1>6. ASSUME NEW a \in Actor, Executes(a) \/ ToolReturns(a)
      PROVE  /\ engineDone => engineDone'
             /\ \A c \in Call : Settled(c) => Settled(c)'
  BY <1>0, <1>6
     DEF Executes, Gate, ToolReturns, WriteCheck, WriteLock, WriteSend,
         RegistryDone, JobCount, Release
<1>7. ASSUME NEW c \in Call, RequestExpires(c)
      PROVE  /\ engineDone => engineDone'
             /\ \A d \in Call : Settled(d) => Settled(d)'
  BY <1>7 DEF RequestExpires
<1> QED BY <1>0, <1>1, <1>2, <1>3, <1>4, <1>5, <1>6, <1>7 DEF Next

\* An actor that was not owing, or goes on owing, leaves every debt in place.
LEMMA OwedMoves ==
  ASSUME TInv, NEW c \in Call, Owed(c), NEW a \in Actor, NEW from, NEW to,
         Step(a, from, to), UNCHANGED queue,
         \/ from \notin Owing /\ \E x : job' = [job EXCEPT ![a] = x]
         \/ (from \notin Owing \/ to \in Owing \/ job[a] # c) /\ UNCHANGED job
  PROVE  Owed(c)'
<1>1. CASE c \in Elements(queue)
  BY <1>1 DEF Owed, Elements
<1>2. ASSUME NEW b \in Actor, job[b] = c, at[b] \in Owing PROVE Owed(c)'
  BY <1>2 DEF Owed, Step, TInv, TypeOK
<1> QED BY <1>1, <1>2 DEF Owed

\* Nobody meets a closed connection while the engine context is live.
LEMMA OpenWhileLive ==
  ASSUME IInv, ForcedDone, ~engineDone, NEW a \in Actor, at[a] \in Serving
  PROVE  ~ConnClosed
<1> SUFFICES ASSUME ConnClosed PROVE FALSE
  OBVIOUS
<1>1. inflight = 0
  BY DEF IInv, DrainedStays, ConnClosed, ForcedDone
<1> QED BY <1>1, NothingCounted DEF IInv, Counted

LEMMA OwedStep ==
  ASSUME IInv, ForcedDone, ~engineDone, [Next]_vars, NEW c \in Call, Owed(c)
  PROVE  Settled(c)' \/ Owed(c)'
<1> USE DEF actorVars, cancelVars, countVars, replyVars, runVars
<1>inv. TInv /\ Loop \in Actor
  BY DEF IInv, Actor
<1>kept. ASSUME UNCHANGED <<at, job, queue>> PROVE Owed(c)'
  BY <1>kept DEF Owed, Elements
<1>ended. ASSUME EndLoop, at[Loop] \in {"check", "read"} PROVE Owed(c)'
  <2>1. Step(Loop, at[Loop], "ended")
    BY <1>ended DEF EndLoop, Step
  <2> QED BY <2>1, <1>ended, <1>inv, OwedMoves DEF EndLoop, Owing
<1>1. CASE Reads
  <2>1. CASE ReadEOF
    BY <2>1, <1>ended DEF ReadEOF
  <2>2. ASSUME NEW d \in Call, ReadCall(d) PROVE Owed(c)'
    BY <2>2, <1>inv, OwedMoves DEF ReadCall, Owing
  <2>3. ASSUME NEW m \in Message, ReadMessage(m) PROVE Owed(c)'
    BY <2>3, <1>inv, OwedMoves DEF ReadMessage, Owing
  <2> QED BY <1>1, <2>1, <2>2, <2>3 DEF Reads
<1>2. CASE LoopCheck \/ ReadCancelled
  <2>1. CASE Step(Loop, "check", "read") /\ UNCHANGED <<job, queue>>
    BY <2>1, <1>inv, OwedMoves DEF Owing
  <2> QED BY <1>2, <2>1, <1>ended DEF LoopCheck, ReadCancelled
<1>3. CASE Register
  BY <1>3, <1>inv, OwedMoves DEF Register, Owing
<1>4. CASE Supersede
  BY <1>4, <1>inv, OwedMoves DEF Supersede, Owing
<1>5. CASE Enqueue
  <2>1. CASE Step(Loop, "enqueue", "handle") /\ UNCHANGED <<job, queue>>
    BY <2>1, <1>inv, OwedMoves DEF Owing
  <2>2. CASE /\ Step(Loop, "enqueue", "check")
             /\ queue' = Append(queue, job[Loop])
             /\ job' = [job EXCEPT ![Loop] = NoCall]
    <3>1. Elements(queue') = Elements(queue) \cup {job[Loop]}
      BY <2>2, <1>inv, InAppend DEF TInv, TypeOK, LoopPlaces, Step
    <3>2. CASE c \in Elements(queue) \/ job[Loop] = c
      BY <3>1, <3>2 DEF Owed, Elements
    <3>3. ASSUME NEW b \in Actor, job[b] = c, at[b] \in Owing, b # Loop
          PROVE  Owed(c)'
      BY <2>2, <3>3, <1>inv DEF Owed, Step, TInv, TypeOK
    <3> QED BY <3>2, <3>3 DEF Owed
  <2> QED BY <1>5, <2>1, <2>2 DEF Enqueue
<1>6. CASE HandleNotice \/ CancelFire
  BY <1>6, <1>inv, OwedMoves
     DEF HandleNotice, Answer, Initialized, Cancel, CancelFire, Owing
<1>7. ASSUME NEW w \in Worker, WorkerReceive(w) PROVE Owed(c)'
  <2>1. CASE c \in Elements(queue) /\ c # Head(queue)
    <3>1. c \in Elements(queue')
      BY <1>7, <2>1, <1>inv, InTail DEF WorkerReceive, TInv, TypeOK
    <3> QED BY <3>1 DEF Owed, Elements
  <2>2. CASE c = Head(queue)
    <3>1. job'[w] = c /\ at'[w] = "handle" /\ w \in Actor
      BY <1>7, <2>2, <1>inv DEF WorkerReceive, Step, TInv, TypeOK, Actor
    <3> QED BY <3>1 DEF Owed, Owing
  <2>3. ASSUME NEW b \in Actor, job[b] = c, at[b] \in Owing PROVE Owed(c)'
    BY <1>7, <2>3, <1>inv DEF WorkerReceive, Owed, Owing, Step, TInv, TypeOK
  <2> QED BY <2>1, <2>2, <2>3 DEF Owed
<1>8. ASSUME NEW w \in Worker, WorkerExit(w) PROVE Owed(c)'
  BY <1>8, <1>inv, OwedMoves DEF WorkerExit, Owing, Actor
<1>9. ASSUME NEW a \in Actor, Executes(a) \/ ToolReturns(a)
      PROVE  Settled(c)' \/ Owed(c)'
  <2>1. CASE Gate(a)
    BY <2>1, <1>inv, OwedMoves DEF Gate, Owing
  <2>2. CASE ToolReturns(a)
    <3>1. CASE Step(a, "tool", "write")
      BY <2>2, <3>1, <1>inv, OwedMoves DEF ToolReturns, Owing
    <3>2. CASE Step(a, "tool", "done") /\ failed' = failed \cup {job[a]}
      BY <2>2, <3>2, <1>inv, OwedMoves DEF ToolReturns, Settled
    <3> QED BY <2>2, <3>1, <3>2 DEF ToolReturns
  <2>3. CASE WriteCheck(a) \/ WriteLock(a)
    <3>1. ~ConnClosed
      BY <2>3, OpenWhileLive DEF WriteCheck, WriteLock, Step, Serving
    <3>2. CASE CtxDone(a) /\ job[a] = c /\ WriteCheck(a)
      BY <3>2 DEF CtxDone, Settled, WriteCheck
    <3>3. CASE ~(CtxDone(a) /\ job[a] = c /\ WriteCheck(a))
      BY <2>3, <3>1, <3>3, <1>inv, OwedMoves DEF WriteCheck, WriteLock, Owing
    <3> QED BY <3>2, <3>3
  <2>4. CASE WriteSend(a)
    <3>1. CASE job[a] = c
      BY <2>4, <3>1, EngineAssumption
         DEF WriteSend, Settled, EngineAssumption
    <3>2. CASE job[a] # c
      BY <2>4, <3>2, <1>inv, OwedMoves DEF WriteSend
    <3> QED BY <3>1, <3>2
  <2>5. CASE RegistryDone(a) \/ JobCount(a)
    BY <2>5, <1>inv, OwedMoves DEF RegistryDone, JobCount, Owing
  <2>6. CASE Release(a)
    BY <2>6, <1>inv, OwedMoves DEF Release, Owing
  <2> QED BY <1>9, <2>1, <2>2, <2>3, <2>4, <2>5, <2>6 DEF Executes
<1>10. CASE Signal \/ Stopped \/ UNCHANGED vars
  BY <1>10, <1>kept DEF Signal, Stopped, vars
<1>11. ASSUME NEW d \in Call, RequestExpires(d) PROVE Owed(c)'
  BY <1>11, <1>kept DEF RequestExpires
<1>12. CASE ShutDown
  BY <1>12, <1>kept DEF ShutDown, Drained, ShutdownTimeout, ForceCancelGrace,
                        CloseConn, Joined, RunStep
<1> QED
  BY <1>1, <1>2, <1>3, <1>4, <1>5, <1>6, <1>7, <1>8, <1>9, <1>10, <1>11, <1>12
     DEF Next, LoopRuns, WorkerRuns

\* A context begins when its call is read, and then the recv loop owes it.
LEMMA FreshIsOwed ==
  ASSUME TInv, [Next]_vars, NEW c \in Call, ctx[c] = "none", ctx'[c] # "none"
  PROVE  Owed(c)'
<1> USE DEF TInv, TypeOK, cancelVars
<1>0. ~UNCHANGED ctx
  OBVIOUS
<1>1. CASE Reads
  <2>1. ReadCall(c)
    BY <1>1 DEF Reads, ReadEOF, EndLoop, ReadCall, ReadMessage
  <2>2. job'[Loop] = c /\ at'[Loop] \in {"register", "enqueue"} /\ Loop \in Actor
    BY <2>1 DEF ReadCall, Step, Actor
  <2> QED BY <2>2 DEF Owed, Owing
<1>2. CASE LoopRuns
  BY <1>2
     DEF LoopRuns, LoopCheck, ReadCancelled, EndLoop, Register, Supersede,
         Enqueue, HandleNotice, CancelFire, Interrupt
<1>3. CASE Signal \/ Stopped \/ ShutDown \/ UNCHANGED vars
  BY <1>0, <1>3 DEF Signal, Stopped, vars, ShutDown, Drained, ShutdownTimeout,
                    ForceCancelGrace, CloseConn, Joined, RunStep
<1>4. ASSUME NEW w \in Worker, WorkerRuns(w) PROVE FALSE
  BY <1>0, <1>4 DEF WorkerRuns, WorkerReceive, WorkerExit
<1>5. ASSUME NEW a \in Actor, Executes(a) \/ ToolReturns(a) PROVE FALSE
  BY <1>0, <1>5
     DEF Executes, Gate, ToolReturns, WriteCheck, WriteLock, WriteSend,
         RegistryDone, JobCount, Release
<1>6. ASSUME NEW d \in Call, RequestExpires(d) PROVE FALSE
  BY <1>6 DEF RequestExpires
<1> QED BY <1>1, <1>2, <1>3, <1>4, <1>5, <1>6 DEF Next

LEMMA NextRInv == RInv /\ [Next]_vars => RInv'
<1> SUFFICES ASSUME RInv, [Next]_vars PROVE RInv'
  OBVIOUS
<1>1. IInv' /\ ForcedDone'
  BY NextTInv, NextInflight, NextDrained, NextForced DEF RInv, IInv
<1>2. engineDone' \/ Accounted'
  <2> SUFFICES ASSUME ~engineDone', NEW c \in Call, ctx'[c] # "none"
               PROVE  Settled(c)' \/ Owed(c)'
    BY DEF Accounted
  <2>1. ~engineDone /\ Accounted
    BY SettledStays DEF RInv, IInv
  <2>2. CASE ctx[c] = "none"
    BY <2>2, FreshIsOwed DEF RInv, IInv
  <2>3. CASE Settled(c)
    BY <2>3, SettledStays DEF RInv, IInv
  <2>4. CASE Owed(c)
    BY <2>1, <2>4, OwedStep DEF RInv
  <2> QED BY <2>1, <2>2, <2>3, <2>4 DEF Accounted
<1> QED BY <1>1, <1>2 DEF RInv

\* When the connection closes within the shutdown budget, every call that was
\* read has been answered, cancelled, or logged as failed: none is stranded in
\* the queue or with an actor (README.md:301, server.go:293-310).
THEOREM RepliesAlways == Spec => []NoReplyLost
<1>1. Init => RInv
  BY InitIInv DEF Init, RInv, ForcedDone, Accounted
<1>2. ASSUME RInv PROVE NoReplyLost
  <2> SUFFICES ASSUME phase = "joining", ~engineDone, NEW c \in Call,
                      ctx[c] # "none"
               PROVE  Settled(c)
    BY DEF NoReplyLost, Settled
  <2>1. queue = << >> /\ Counted = {}
    <3>1. inflight = 0
      BY <1>2 DEF RInv, IInv, DrainedStays, ForcedDone
    <3> QED BY <1>2, <3>1, NothingCounted DEF RInv, IInv
  <2>2. ~Owed(c)
    <3>1. c \notin Elements(queue)
      BY <2>1 DEF Elements
    <3>2. ASSUME NEW a \in Actor, at[a] \in Owing PROVE FALSE
      BY <1>2, <2>1, <3>2
         DEF RInv, IInv, TInv, WorkerPlaces, EndedPlace, Counted, Serving,
             Owing, Actor, Executing
    <3> QED BY <3>1, <3>2 DEF Owed
  <2> QED BY <1>2, <2>2 DEF RInv, Accounted
<1>3. RInv => NoReplyLost
  BY <1>2
<1> QED BY <1>1, <1>3, NextRInv, PTL DEF Spec

-----------------------------------------------------------------------------
\* The registry, from the view of a call.

\* Where a call is that is not yet in the registry, or no longer.
Unentered == {"register", "count", "release"}

\* A call is in the queue or with one actor, and only once.
Single ==
  /\ \A i, j \in 1..Len(queue) : queue[i] = queue[j] => i = j
  /\ \A a, b \in Actor : job[a] = job[b] => a = b \/ job[a] = NoCall
  /\ \A a \in Actor : job[a] \notin Elements(queue)

\* A call that has not been read is nowhere.
Unread ==
  \A c \in Call : ctx[c] = "none" =>
    c \notin Elements(queue) /\ c \notin completed /\ \A a \in Actor : job[a] # c

\* An entry is under its call's key, and its call is under way.
Entries ==
  \A k \in Key : pending[k] # NoCall =>
    /\ KeyOf[pending[k]] = k
    /\ \/ pending[k] \in Elements(queue)
       \/ \E a \in Actor : job[a] = pending[k] /\ at[a] \notin Unentered

\* A call is counted last, and its context is over by then.
Counts ==
  /\ \A c \in completed :
       c \notin Elements(queue) /\ \A a \in Actor : job[a] = c => at[a] = "release"
  /\ \A a \in Actor : at[a] = "release" /\ job[a] # NoCall => ctx[job[a]] # "live"

\* The recv loop has a cancel func in hand only on its way to call it.
InHand == interrupting # NoCall => at[Loop] \in {"supersede", "interrupt"}

LInv == IInv /\ Single /\ Unread /\ Entries /\ Counts /\ InHand

\* Steps that move no call: a context may expire, or an actor goes on with its
\* call, neither before its registration nor after its end.
Wait ==
  /\ UNCHANGED <<at, job, queue, pending, interrupting, completed>>
  /\ \A c \in Call : ctx'[c] = ctx[c] \/ (ctx[c] = "live" /\ ctx'[c] = "cancelled")

Walk(a) ==
  /\ UNCHANGED <<job, queue, pending, interrupting, completed, ctx>>
  /\ \E to : /\ at' = [at EXCEPT ![a] = to]
             /\ job[a] # NoCall => at[a] \notin Unentered /\ to \notin Unentered
             /\ a = Loop => /\ at[a] \notin {"supersede", "interrupt"}
                            /\ to \notin {"supersede", "enqueue"}

LEMMA Classes ==
  ASSUME TInv, [Next]_vars
  PROVE  \/ Wait
         \/ \E a \in Actor : Walk(a)
         \/ \E c \in Call : ReadCall(c)
         \/ Register \/ Supersede \/ Enqueue \/ (HandleNotice /\ Cancel) \/ CancelFire
         \/ \E w \in Worker : WorkerReceive(w)
         \/ \E a \in Actor : RegistryDone(a) \/ JobCount(a) \/ Release(a)
<1> USE DEF actorVars, cancelVars, countVars, replyVars, runVars
<1>loop. Loop \in Actor /\ Worker \subseteq Actor
  BY DEF Actor
<1>ended. ASSUME EndLoop, at[Loop] \in {"check", "read"} PROVE Walk(Loop)
  <2>1. /\ at' = [at EXCEPT ![Loop] = "ended"] /\ at[Loop] \notin Unentered
        /\ "ended" \notin Unentered \cup {"supersede", "enqueue"}
        /\ at[Loop] \notin {"supersede", "interrupt"}
    BY <1>ended DEF EndLoop, Unentered
  <2> QED BY <1>ended, <2>1 DEF EndLoop, Walk
<1>1. CASE LoopCheck \/ ReadCancelled \/ ReadEOF
  <2>1. CASE Step(Loop, "check", "read") /\ UNCHANGED <<job, cancelVars, countVars>>
    <3>1. /\ at' = [at EXCEPT ![Loop] = "read"] /\ at[Loop] \notin Unentered
          /\ "read" \notin Unentered \cup {"supersede", "enqueue"}
          /\ at[Loop] \notin {"supersede", "interrupt"}
      BY <2>1 DEF Step, Unentered
    <3>2. UNCHANGED <<job, queue, pending, interrupting, completed, ctx>>
      BY <2>1
    <3>3. Walk(Loop)
      BY <3>1, <3>2 DEF Walk
    <3> QED BY <3>3, <1>loop
  <2> QED BY <1>1, <2>1, <1>ended, <1>loop DEF LoopCheck, ReadCancelled, ReadEOF
<1>2. ASSUME NEW m \in Message, ReadMessage(m) PROVE Walk(Loop)
  <2>1. job[Loop] = NoCall
    BY <1>2 DEF ReadMessage, Step, TInv, LoopPlaces
  <2>2. /\ at' = [at EXCEPT ![Loop] = "notice"] /\ at[Loop] = "read"
        /\ UNCHANGED <<job, queue, pending, interrupting, completed, ctx>>
    BY <1>2 DEF ReadMessage, Step
  <2>3. /\ at' = [at EXCEPT ![Loop] = "notice"]
        /\ job[Loop] # NoCall => at[Loop] \notin Unentered /\ "notice" \notin Unentered
        /\ Loop = Loop => /\ at[Loop] \notin {"supersede", "interrupt"}
                         /\ "notice" \notin {"supersede", "enqueue"}
    BY <2>1, <2>2
  <2> QED BY <2>2, <2>3 DEF Walk
<1>3. CASE HandleNotice /\ ~Cancel
  <2>1. job[Loop] = NoCall
    BY <1>3 DEF HandleNotice, Answer, Initialized, Step, TInv, LoopPlaces
  <2> QED BY <1>3, <1>loop, <2>1 DEF HandleNotice, Answer, Initialized, Step, Walk
<1>4. ASSUME NEW w \in Worker, WorkerExit(w) PROVE Walk(w)
  <2>1. job[w] = NoCall /\ w # Loop
    BY <1>4, EngineAssumption DEF EngineAssumption, WorkerExit, Step, TInv, WorkerPlaces, Executing
  <2> QED BY <1>4, <2>1 DEF WorkerExit, Step, Walk
<1>5. ASSUME NEW a \in Actor,
             Gate(a) \/ WriteCheck(a) \/ WriteLock(a) \/ WriteSend(a) \/ ToolReturns(a)
      PROVE  Walk(a)
  BY <1>5 DEF Gate, WriteCheck, WriteLock, WriteSend, ToolReturns, Executed, Step, Walk, Unentered
<1>6. CASE Signal \/ Stopped \/ ShutDown \/ UNCHANGED vars
  BY <1>6 DEF Signal, Stopped, vars, ShutDown, Drained, ShutdownTimeout, ForceCancelGrace,
              CloseConn, Joined, RunStep, Wait
<1>7. ASSUME NEW c \in Call, RequestExpires(c) PROVE Wait
  BY <1>7 DEF RequestExpires, Wait, TInv, TypeOK
<1> QED BY <1>1, <1>2, <1>3, <1>4, <1>5, <1>6, <1>7, <1>loop
        DEF Next, Reads, LoopRuns, WorkerRuns, Executes

\* One call is taken from the queue, and the others stay there.
LEMMA TailOfSingle ==
  ASSUME NEW s \in Seq(Call), s # << >>,
         \A i, j \in 1..Len(s) : s[i] = s[j] => i = j
  PROVE  /\ Elements(Tail(s)) = Elements(s) \ {Head(s)}
         /\ \A i, j \in 1..Len(Tail(s)) : Tail(s)[i] = Tail(s)[j] => i = j
         /\ Head(s) \in Elements(s)
<1>1. /\ Len(s) \in Nat \ {0} /\ Len(Tail(s)) = Len(s) - 1 /\ Head(s) = s[1]
      /\ \A i \in 1..Len(s) - 1 : Tail(s)[i] = s[i + 1]
  OBVIOUS
<1>2. Elements(Tail(s)) \subseteq Elements(s) \ {Head(s)}
  BY <1>1 DEF Elements
<1>3. ASSUME NEW c \in Elements(s), c # Head(s) PROVE c \in Elements(Tail(s))
  BY <1>3, InTail
<1>4. \A i, j \in 1..Len(Tail(s)) : Tail(s)[i] = Tail(s)[j] => i = j
  BY <1>1
<1>5. Head(s) \in Elements(s)
  BY <1>1 DEF Elements
<1> QED BY <1>2, <1>3, <1>4, <1>5

\* Custody of a call passes from one to the next.
LEMMA NextSingle == LInv /\ [Next]_vars => Single'
<1> SUFFICES ASSUME LInv, [Next]_vars PROVE Single'
  OBVIOUS
<1> USE DEF actorVars, cancelVars, countVars, replyVars, runVars
<1>inv. TInv /\ Single /\ Unread /\ Loop \in Actor /\ Worker \subseteq Actor
  BY DEF LInv, IInv, Actor
<1>type. job \in [Actor -> Call \cup {NoCall}] /\ queue \in Seq(Call) /\ NoCall \notin Call
  BY EngineAssumption DEF EngineAssumption, LInv, IInv, TInv, TypeOK
<1>kept. ASSUME UNCHANGED <<job, queue>> PROVE Single'
  BY <1>kept, <1>inv DEF Single, Elements
<1>1. CASE Wait \/ \E a \in Actor : Walk(a)
  BY <1>1, <1>kept DEF Wait, Walk
<1>2. ASSUME NEW c \in Call, ReadCall(c) PROVE Single'
  <2>1. queue' = queue /\ job' = [job EXCEPT ![Loop] = c] /\ ctx[c] = "none"
    BY <1>2 DEF ReadCall
  <2>2. c \notin Elements(queue) /\ \A a \in Actor : job[a] # c
    BY <2>1, <1>inv DEF Unread
  <2> QED BY <2>1, <2>2, <1>inv, <1>type DEF Single, Elements
<1>3. CASE Register \/ Supersede \/ (HandleNotice /\ Cancel) \/ CancelFire
  BY <1>3, <1>kept DEF Register, Supersede, HandleNotice, CancelFire
<1>4. CASE Enqueue
  <2>1. CASE UNCHANGED <<job, queue>>
    BY <2>1, <1>kept
  <2>2. CASE queue' = Append(queue, job[Loop]) /\ job' = [job EXCEPT ![Loop] = NoCall]
    <3>1. job[Loop] \in Call
      BY <1>4, <1>inv DEF Enqueue, Step, TInv, LoopPlaces
    <3>2. Elements(queue') = Elements(queue) \cup {job[Loop]}
      BY <2>2, <3>1, <1>type, InAppend
    <3>3. \A i \in 1..Len(queue) : queue[i] # job[Loop]
      BY <1>inv DEF Single, Elements
    <3>4. /\ Len(queue') = Len(queue) + 1 /\ queue'[Len(queue) + 1] = job[Loop]
          /\ Len(queue) \in Nat
          /\ \A i \in 1..Len(queue) : queue'[i] = queue[i]
      BY <2>2, <3>1, <1>type
    <3>5. \A i, j \in 1..Len(queue') : queue'[i] = queue'[j] => i = j
      BY <3>3, <3>4, <1>inv DEF Single
    <3>6. \A a \in Actor : job'[a] \notin Elements(queue')
      <4>0. NoCall \notin Elements(queue) /\ NoCall # job[Loop]
        BY <3>1, <1>type DEF Elements
      <4>1. NoCall \notin Elements(queue')
        BY <3>2, <4>0
      <4> QED BY <4>1, <2>2, <3>1, <3>2, <1>inv, <1>type DEF Single
    <3>7. \A a, b \in Actor : job'[a] = job'[b] => a = b \/ job'[a] = NoCall
      BY <2>2, <1>inv, <1>type DEF Single
    <3> QED BY <3>5, <3>6, <3>7 DEF Single, Elements
  <2> QED BY <1>4, <2>1, <2>2 DEF Enqueue
<1>5. ASSUME NEW w \in Worker, WorkerReceive(w) PROVE Single'
  <2>1. queue # << >> /\ queue' = Tail(queue) /\ job' = [job EXCEPT ![w] = Head(queue)]
    BY <1>5 DEF WorkerReceive
  <2>2. /\ Elements(queue') = Elements(queue) \ {Head(queue)}
        /\ \A i, j \in 1..Len(queue') : queue'[i] = queue'[j] => i = j
        /\ Head(queue) \in Elements(queue)
    BY <2>1, <1>inv, <1>type, TailOfSingle DEF Single
  <2>3. /\ \A a \in Actor : job'[a] = IF a = w THEN Head(queue) ELSE job[a]
        /\ \A a \in Actor : job[a] # Head(queue)
    BY <2>1, <2>2, <1>inv, <1>type DEF Single
  <2>4. \A a \in Actor : job'[a] \notin Elements(queue')
    BY <2>2, <2>3, <1>inv DEF Single
  <2>5. \A a, b \in Actor : job'[a] = job'[b] => a = b \/ job'[a] = NoCall
    BY <2>3, <1>inv DEF Single
  <2> QED BY <2>2, <2>4, <2>5 DEF Single, Elements
<1>6. ASSUME NEW a \in Actor, RegistryDone(a) \/ JobCount(a) PROVE Single'
  BY <1>6, <1>kept DEF RegistryDone, JobCount
<1>7. ASSUME NEW a \in Actor, Release(a) PROVE Single'
  <2>1. NoCall \notin Elements(queue)
    BY <1>type DEF Elements
  <2> QED BY <1>7, <2>1, <1>inv, <1>type DEF Release, Single, Elements
<1> QED BY <1>1, <1>2, <1>3, <1>4, <1>5, <1>6, <1>7, <1>inv, Classes

\* Who is at work has a call, and it has been read.
LEMMA AtWork ==
  ASSUME TInv, NEW a \in Actor,
         at[a] \in {"register", "supersede", "enqueue", "done", "count"}
  PROVE  job[a] \in Call
<1> QED BY EngineAssumption
        DEF EngineAssumption, TInv, WorkerPlaces, LoopPlaces, Executing, Actor

\* No call becomes unread again, and only the unread are read.
LEMMA NextUnread == LInv /\ [Next]_vars => Unread'
<1> SUFFICES ASSUME LInv, [Next]_vars PROVE Unread'
  OBVIOUS
<1> USE DEF actorVars, cancelVars, countVars, replyVars, runVars
<1>inv. TInv /\ Single /\ Unread /\ Loop \in Actor /\ Worker \subseteq Actor
  BY DEF LInv, IInv, Actor
<1>type. /\ job \in [Actor -> Call \cup {NoCall}] /\ queue \in Seq(Call) /\ NoCall \notin Call
         /\ ctx \in [Call -> {"none", "live", "cancelled", "over"}]
  BY EngineAssumption DEF EngineAssumption, LInv, IInv, TInv, TypeOK
<1>kept. ASSUME UNCHANGED <<job, queue, completed>>,
                \A c \in Call : ctx'[c] = "none" => ctx[c] = "none"
         PROVE  Unread'
  BY <1>kept, <1>inv DEF Unread, Elements
<1>1. CASE Wait \/ \E a \in Actor : Walk(a)
  BY <1>1, <1>kept DEF Wait, Walk
<1>2. ASSUME NEW c \in Call, ReadCall(c) PROVE Unread'
  <2>1. /\ UNCHANGED <<queue, completed>> /\ job' = [job EXCEPT ![Loop] = c]
        /\ ctx' = [ctx EXCEPT ![c] = "live"]
    BY <1>2 DEF ReadCall
  <2> QED BY <2>1, <1>inv, <1>type DEF Unread, Elements
<1>3. CASE Register \/ (HandleNotice /\ Cancel)
  BY <1>3, <1>kept DEF Register, HandleNotice
<1>4. CASE Supersede \/ CancelFire
  <2>1. UNCHANGED <<job, queue, completed>>
    BY <1>4 DEF Supersede, CancelFire
  <2>2. \A c \in Call : ctx'[c] = "none" => ctx[c] = "none"
    BY <1>4, <1>type DEF Supersede, CancelFire, Interrupt
  <2> QED BY <2>1, <2>2, <1>kept
<1>5. CASE Enqueue
  <2>1. CASE UNCHANGED <<job, queue>>
    BY <1>5, <2>1, <1>kept DEF Enqueue
  <2>2. CASE queue' = Append(queue, job[Loop]) /\ job' = [job EXCEPT ![Loop] = NoCall]
    <3>1. job[Loop] \in Call
      BY <1>5, <1>inv, AtWork DEF Enqueue, Step
    <3>2. Elements(queue') = Elements(queue) \cup {job[Loop]}
      BY <2>2, <3>1, <1>type, InAppend
    <3>3. ctx[job[Loop]] # "none" /\ UNCHANGED <<ctx, completed>>
      BY <1>5, <3>1, <1>inv DEF Enqueue, Unread
    <3> QED BY <2>2, <3>2, <3>3, <1>inv, <1>type DEF Unread
  <2> QED BY <1>5, <2>1, <2>2 DEF Enqueue
<1>6. ASSUME NEW w \in Worker, WorkerReceive(w) PROVE Unread'
  <2>1. /\ queue # << >> /\ queue' = Tail(queue) /\ job' = [job EXCEPT ![w] = Head(queue)]
        /\ UNCHANGED <<ctx, completed>>
    BY <1>6 DEF WorkerReceive
  <2>2. Elements(queue') \subseteq Elements(queue) /\ Head(queue) \in Elements(queue)
    BY <2>1, <1>inv, <1>type, TailOfSingle DEF Single
  <2> QED BY <2>1, <2>2, <1>inv, <1>type DEF Unread
<1>7. ASSUME NEW a \in Actor, RegistryDone(a) PROVE Unread'
  BY <1>7, <1>kept DEF RegistryDone
<1>8. ASSUME NEW a \in Actor, JobCount(a) PROVE Unread'
  <2>1. job[a] \in Call /\ ctx[job[a]] # "none"
    BY <1>8, <1>inv, AtWork DEF JobCount, Step, Unread
  <2> QED BY <1>8, <2>1, <1>inv, <1>type DEF JobCount, Unread, Elements
<1>9. ASSUME NEW a \in Actor, Release(a) PROVE Unread'
  BY <1>9, <1>inv, <1>type DEF Release, Unread, Elements
<1> QED BY <1>1, <1>2, <1>3, <1>4, <1>5, <1>6, <1>7, <1>8, <1>9, <1>inv, Classes

\* A cancel func is taken only by who goes on to call it.
LEMMA NextInHand == LInv /\ [Next]_vars => InHand'
<1> SUFFICES ASSUME LInv, [Next]_vars PROVE InHand'
  OBVIOUS
<1> USE DEF actorVars, cancelVars, countVars, replyVars, runVars
<1>inv. /\ TInv /\ InHand /\ Loop \in Actor /\ \A w \in Worker : w # Loop /\ w \in Actor
        /\ at \in [Actor -> Serving \cup LoopAlone \cup {"idle", "exited"}]
  BY EngineAssumption DEF EngineAssumption, LInv, IInv, TInv, TypeOK, Actor
<1>1. CASE Wait
  BY <1>1, <1>inv DEF Wait, InHand
<1>2. ASSUME NEW a \in Actor, Walk(a) PROVE InHand'
  BY <1>2, <1>inv DEF Walk, InHand
<1>3. ASSUME NEW c \in Call, ReadCall(c) PROVE InHand'
  BY <1>3, <1>inv DEF ReadCall, Step, InHand
<1>4. CASE Register
  BY <1>4, <1>inv DEF Register, Step, InHand
<1>5. CASE Supersede \/ CancelFire
  BY <1>5 DEF Supersede, CancelFire, Interrupt, InHand
<1>6. CASE Enqueue
  BY <1>6, <1>inv DEF Enqueue, Step, InHand
<1>7. CASE HandleNotice /\ Cancel
  BY <1>7, <1>inv DEF Cancel, Step, InHand
<1>8. ASSUME NEW w \in Worker, WorkerReceive(w) PROVE InHand'
  BY <1>8, <1>inv DEF WorkerReceive, Step, InHand
<1>9. ASSUME NEW a \in Actor, RegistryDone(a) \/ JobCount(a) \/ Release(a) PROVE InHand'
  BY <1>9, <1>inv DEF RegistryDone, JobCount, Release, Step, InHand
<1> QED BY <1>1, <1>2, <1>3, <1>4, <1>5, <1>6, <1>7, <1>8, <1>9, <1>inv, Classes

\* An entry follows its call from the recv loop to the end of its job.
LEMMA NextEntries == LInv /\ [Next]_vars => Entries'
<1> SUFFICES ASSUME LInv, [Next]_vars, NEW k \in Key, pending'[k] # NoCall
             PROVE  /\ KeyOf[pending'[k]] = k
                    /\ \/ pending'[k] \in Elements(queue')
                       \/ \E a \in Actor : job'[a] = pending'[k] /\ at'[a] \notin Unentered
  BY DEF Entries, Elements
<1> DEFINE Follows == /\ KeyOf[pending'[k]] = k
                      /\ \/ pending'[k] \in Elements(queue')
                         \/ \E a \in Actor : job'[a] = pending'[k] /\ at'[a] \notin Unentered
<1> USE DEF actorVars, cancelVars, countVars, replyVars, runVars
<1>inv. /\ TInv /\ Entries /\ Loop \in Actor /\ \A w \in Worker : w # Loop /\ w \in Actor
  BY EngineAssumption DEF EngineAssumption, LInv, IInv, Actor
<1>type. /\ at \in [Actor -> Serving \cup LoopAlone \cup {"idle", "exited"}]
         /\ job \in [Actor -> Call \cup {NoCall}] /\ queue \in Seq(Call) /\ NoCall \notin Call
         /\ pending \in [Key -> Call \cup {NoCall}]
  BY EngineAssumption DEF EngineAssumption, LInv, IInv, TInv, TypeOK
<1>was. pending'[k] = pending[k] =>
          /\ KeyOf[pending[k]] = k
          /\ pending[k] \in Call
          /\ \/ pending[k] \in Elements(queue)
             \/ \E a \in Actor : job[a] = pending[k] /\ at[a] \notin Unentered
  BY <1>inv, <1>type DEF Entries
<1>1. ASSUME Wait PROVE Follows
  BY <1>1, <1>was DEF Wait
<1>2. ASSUME NEW a \in Actor, Walk(a) PROVE Follows
  <2>1. PICK to : /\ at' = [at EXCEPT ![a] = to]
                  /\ job[a] # NoCall => at[a] \notin Unentered /\ to \notin Unentered
    BY <1>2 DEF Walk
  <2>2. UNCHANGED <<job, queue, pending>>
    BY <1>2 DEF Walk
  <2> QED BY <2>1, <2>2, <1>was, <1>type
<1>3. ASSUME NEW a \in Actor, NEW to, Step(a, at[a], to), UNCHANGED <<job, queue>>,
             pending'[k] = pending[k],
             at[a] \in Unentered \/ to \notin Unentered \/ job[a] = NoCall PROVE Follows
  BY <1>3, <1>was, <1>type DEF Step
<1>4. ASSUME NEW c \in Call, ReadCall(c) PROVE Follows
  <2>1. /\ job[Loop] = NoCall /\ UNCHANGED <<queue, pending>>
        /\ job' = [job EXCEPT ![Loop] = c]
        /\ \A b \in Actor : b # Loop => at'[b] = at[b]
    BY <1>4, <1>inv, <1>type DEF ReadCall, Step, TInv, LoopPlaces
  <2> QED BY <2>1, <1>was, <1>type
<1>5. ASSUME Register PROVE Follows
  <2>1. /\ job[Loop] \in Call /\ KeyOf[job[Loop]] \in Key /\ at[Loop] = "register"
        /\ pending' = [pending EXCEPT ![KeyOf[job[Loop]]] = job[Loop]]
        /\ UNCHANGED <<job, queue>>
    BY <1>5, <1>inv DEF Register, Step, TInv, LoopPlaces
  <2>2. /\ \A b \in Actor : b # Loop => at'[b] = at[b]
        /\ at'[Loop] \notin Unentered
    BY <1>5, <1>inv, <1>type DEF Register, Step, Unentered
  <2>3. CASE k = KeyOf[job[Loop]]
    BY <2>1, <2>2, <2>3, <1>inv, <1>type
  <2>4. CASE k # KeyOf[job[Loop]]
    <3>1. pending'[k] = pending[k] /\ at[Loop] \in Unentered
      BY <2>1, <2>4, <1>type DEF Unentered
    <3> QED BY <2>1, <2>2, <3>1, <1>was
  <2> QED BY <2>3, <2>4
<1>6. ASSUME Supersede \/ CancelFire PROVE Follows
  <2>1. UNCHANGED <<job, queue, pending>>
    BY <1>6 DEF Supersede, CancelFire
  <2>2. CASE Step(Loop, "supersede", "enqueue")
    <3>1. Step(Loop, at[Loop], "enqueue") /\ "enqueue" \notin Unentered
      BY <2>2 DEF Step, Unentered
    <3> QED BY <2>1, <3>1, <1>3, <1>inv
  <2>3. CASE Step(Loop, "interrupt", "release")
    <3>1. Step(Loop, at[Loop], "release") /\ job[Loop] = NoCall
      BY <2>3, <1>inv DEF Step, TInv, LoopPlaces
    <3> QED BY <2>1, <3>1, <1>3, <1>inv
  <2> QED BY <1>6, <2>2, <2>3 DEF Supersede, CancelFire
<1>7. ASSUME Enqueue PROVE Follows
  <2>1. /\ job[Loop] \in Call /\ pending' = pending
        /\ \A b \in Actor : b # Loop => at'[b] = at[b]
        /\ at'[Loop] \notin Unentered
    BY <1>7, <1>inv, <1>type, AtWork DEF Enqueue, Step, Unentered
  <2>2. CASE UNCHANGED <<job, queue>>
    BY <2>1, <2>2, <1>was
  <2>3. CASE queue' = Append(queue, job[Loop]) /\ job' = [job EXCEPT ![Loop] = NoCall]
    <3>1. Elements(queue') = Elements(queue) \cup {job[Loop]}
      BY <2>1, <2>3, <1>type, InAppend
    <3> QED BY <2>1, <2>3, <3>1, <1>was, <1>type
  <2> QED BY <1>7, <2>2, <2>3 DEF Enqueue
<1>8. ASSUME HandleNotice /\ Cancel PROVE Follows
  <2>1. job[Loop] = NoCall /\ pending'[k] = pending[k] /\ UNCHANGED <<job, queue>>
    BY <1>8, <1>inv, <1>type DEF HandleNotice, Cancel, Step, TInv, LoopPlaces
  <2>2. \A b \in Actor : b # Loop => at'[b] = at[b]
    BY <1>8, <1>type DEF Cancel, Step
  <2> QED BY <2>1, <2>2, <1>was, <1>type
<1>9. ASSUME NEW w \in Worker, WorkerReceive(w) PROVE Follows
  <2>1. /\ queue # << >> /\ queue' = Tail(queue) /\ job' = [job EXCEPT ![w] = Head(queue)]
        /\ pending' = pending /\ job[w] = NoCall
        /\ at' = [at EXCEPT ![w] = "handle"]
    BY <1>9, <1>inv DEF WorkerReceive, Step, TInv, WorkerPlaces, Executing
  <2>2. Elements(queue') = Elements(queue) \ {Head(queue)}
    BY <2>1, <1>type, TailOfSingle DEF LInv, Single
  <2>3. /\ \A b \in Actor : b # w => at'[b] = at[b] /\ job'[b] = job[b]
        /\ at'[w] \notin Unentered /\ job'[w] = Head(queue)
    BY <2>1, <1>inv, <1>type DEF Unentered
  <2> QED BY <2>1, <2>2, <2>3, <1>was, <1>inv
<1>10. ASSUME NEW a \in Actor, RegistryDone(a) PROVE Follows
  <2>1. /\ UNCHANGED <<job, queue>> /\ pending'[k] = pending[k] /\ KeyOf[job[a]] # k
        /\ \A b \in Actor : b # a => at'[b] = at[b]
    BY <1>10, <1>type DEF RegistryDone, Step
  <2> QED BY <2>1, <1>was
<1>11. ASSUME NEW a \in Actor, JobCount(a) PROVE Follows
  <2>1. UNCHANGED <<job, queue, pending>> /\ at[a] \in Unentered /\ Step(a, at[a], "release")
    BY <1>11 DEF JobCount, Step, Unentered
  <2> QED BY <2>1, <1>3
<1>12. ASSUME NEW a \in Actor, Release(a) PROVE Follows
  <2>1. /\ UNCHANGED <<queue, pending>> /\ at[a] \in Unentered
        /\ \A b \in Actor : b # a => at'[b] = at[b] /\ job'[b] = job[b]
    BY <1>12, <1>type DEF Release, Step, Unentered
  <2> QED BY <2>1, <1>was
<1>13. Follows
  <2> HIDE DEF Follows
  <2> QED BY <1>1, <1>2, <1>4, <1>5, <1>6, <1>7, <1>8, <1>9, <1>10, <1>11, <1>12, <1>inv, Classes
<1> QED BY <1>13

\* What is counted stays with the actor that counted it until it lets go.
LEMMA NextCounts == LInv /\ [Next]_vars => Counts'
<1> SUFFICES ASSUME LInv, [Next]_vars PROVE Counts'
  OBVIOUS
<1> USE DEF actorVars, cancelVars, countVars, replyVars, runVars
<1>inv. /\ TInv /\ Single /\ Unread /\ Counts
        /\ Loop \in Actor /\ \A w \in Worker : w # Loop /\ w \in Actor
  BY EngineAssumption DEF EngineAssumption, LInv, IInv, Actor
<1>type. /\ at \in [Actor -> Serving \cup LoopAlone \cup {"idle", "exited"}]
         /\ job \in [Actor -> Call \cup {NoCall}] /\ queue \in Seq(Call) /\ NoCall \notin Call
         /\ ctx \in [Call -> {"none", "live", "cancelled", "over"}] /\ completed \subseteq Call
  BY EngineAssumption DEF EngineAssumption, LInv, IInv, TInv, TypeOK
<1>out. \A a \in Actor : at[a] # "release" => job[a] \notin completed
  BY <1>inv DEF Counts
\* Most steps leave the calls where they are and move nobody to "release".
<1>kept. ASSUME UNCHANGED <<job, queue, completed>>,
                \A c \in Call : ctx'[c] = "live" => ctx[c] = "live",
                \A a \in Actor : at'[a] = at[a] \/ job[a] = NoCall
                                 \/ (at[a] # "release" /\ at'[a] # "release")
         PROVE  Counts'
  <2>1. NoCall \notin completed
    BY <1>type
  <2>2. Elements(queue') = Elements(queue)
    BY <1>kept
  <2>3. \A c \in completed' : c \notin Elements(queue')
    BY <1>kept, <2>2, <1>inv DEF Counts
  <2>4. ASSUME NEW c \in completed', NEW a \in Actor, job'[a] = c PROVE at'[a] = "release"
    BY <2>4, <2>1, <1>kept, <1>inv DEF Counts
  <2>5. ASSUME NEW a \in Actor, at'[a] = "release", job'[a] # NoCall PROVE ctx'[job'[a]] # "live"
    BY <2>5, <1>kept, <1>inv, <1>type DEF Counts
  <2> QED BY <2>3, <2>4, <2>5 DEF Counts
<1>1. CASE Wait
  BY <1>1, <1>kept DEF Wait
<1>2. ASSUME NEW a \in Actor, Walk(a) PROVE Counts'
  <2>1. PICK to : /\ at' = [at EXCEPT ![a] = to]
                  /\ job[a] # NoCall => at[a] \notin Unentered /\ to \notin Unentered
    BY <1>2 DEF Walk
  <2> QED BY <1>2, <2>1, <1>kept, <1>type DEF Walk, Unentered
<1>3. ASSUME NEW c \in Call, ReadCall(c) PROVE Counts'
  <2>1. /\ UNCHANGED <<queue, completed>> /\ job' = [job EXCEPT ![Loop] = c]
        /\ ctx' = [ctx EXCEPT ![c] = "live"] /\ ctx[c] = "none"
        /\ \A b \in Actor : b # Loop => at'[b] = at[b]
        /\ at'[Loop] # "release"
    BY <1>3, <1>inv, <1>type DEF ReadCall, Step
  <2>2. c \notin completed /\ \A b \in Actor : job[b] # c
    BY <2>1, <1>inv DEF Unread
  <2>3. \A b \in Actor : job'[b] = IF b = Loop THEN c ELSE job[b]
    BY <2>1, <1>type
  <2>4. \A d \in Call : ctx'[d] = IF d = c THEN "live" ELSE ctx[d]
    BY <2>1, <1>type
  <2>5. Elements(queue') = Elements(queue)
    BY <2>1
  <2> QED BY <2>1, <2>2, <2>3, <2>4, <2>5, <1>inv, <1>type DEF Counts
<1>4. CASE Register
  BY <1>4, <1>kept, <1>type, <1>inv DEF Register, Step
<1>5. CASE Supersede \/ CancelFire
  <2>1. UNCHANGED <<job, queue, completed>>
    BY <1>5 DEF Supersede, CancelFire
  <2>2. \A c \in Call : ctx'[c] = "live" => ctx[c] = "live"
    BY <1>5, <1>type DEF Supersede, CancelFire, Interrupt
  <2>3. at[Loop] = "interrupt" => job[Loop] = NoCall
    BY <1>inv DEF TInv, LoopPlaces
  <2>4. \A a \in Actor : at'[a] = at[a] \/ job[a] = NoCall
                         \/ (at[a] # "release" /\ at'[a] # "release")
    BY <1>5, <2>3, <1>type, <1>inv DEF Supersede, CancelFire, Step
  <2> QED BY <2>1, <2>2, <2>4, <1>kept
<1>6. CASE Enqueue
  <2>1. /\ job[Loop] \in Call /\ at[Loop] = "enqueue" /\ UNCHANGED <<ctx, completed>>
        /\ \A b \in Actor : b # Loop => at'[b] = at[b]
        /\ at'[Loop] # "release"
    BY <1>6, <1>inv, <1>type, AtWork DEF Enqueue, Step
  <2>2. CASE UNCHANGED <<job, queue>>
    BY <2>1, <2>2, <1>kept
  <2>3. CASE queue' = Append(queue, job[Loop]) /\ job' = [job EXCEPT ![Loop] = NoCall]
    <3>1. Elements(queue') = Elements(queue) \cup {job[Loop]}
      BY <2>1, <2>3, <1>type, InAppend
    <3>2. job[Loop] \notin completed /\ NoCall \notin completed
      BY <2>1, <1>out, <1>type, <1>inv
    <3>3. \A b \in Actor : job'[b] = IF b = Loop THEN NoCall ELSE job[b]
      BY <2>3, <1>type
    <3> QED BY <2>1, <3>1, <3>2, <3>3, <1>inv DEF Counts
  <2> QED BY <1>6, <2>2, <2>3 DEF Enqueue
<1>7. CASE HandleNotice /\ Cancel
  <2>1. job[Loop] = NoCall /\ UNCHANGED <<job, queue, completed, ctx>>
    BY <1>7, <1>inv DEF HandleNotice, Cancel, Step, TInv, LoopPlaces
  <2>2. \A b \in Actor : b # Loop => at'[b] = at[b]
    BY <1>7, <1>type DEF Cancel, Step
  <2> QED BY <2>1, <2>2, <1>kept
<1>8. ASSUME NEW w \in Worker, WorkerReceive(w) PROVE Counts'
  <2>1. /\ queue # << >> /\ queue' = Tail(queue) /\ job' = [job EXCEPT ![w] = Head(queue)]
        /\ UNCHANGED <<ctx, completed>> /\ at' = [at EXCEPT ![w] = "handle"]
    BY <1>8 DEF WorkerReceive, Step
  <2>2. Elements(queue') = Elements(queue) \ {Head(queue)} /\ Head(queue) \in Elements(queue)
    BY <2>1, <1>type, <1>inv, TailOfSingle DEF Single
  <2>3. /\ \A b \in Actor : at'[b] = IF b = w THEN "handle" ELSE at[b]
        /\ \A b \in Actor : job'[b] = IF b = w THEN Head(queue) ELSE job[b]
    BY <2>1, <1>type
  <2>4. Head(queue) \notin completed
    BY <2>2, <1>inv DEF Counts
  <2> QED BY <2>1, <2>2, <2>3, <2>4, <1>inv DEF Counts
<1>9. ASSUME NEW a \in Actor, RegistryDone(a) PROVE Counts'
  BY <1>9, <1>kept, <1>type DEF RegistryDone, Step
<1>10. ASSUME NEW a \in Actor, JobCount(a) PROVE Counts'
  <2>1. /\ at[a] = "count" /\ job[a] \in Call /\ UNCHANGED <<job, queue>>
        /\ ctx' = [ctx EXCEPT ![job[a]] = IF @ = "live" THEN "over" ELSE @]
        /\ completed' = completed \cup {job[a]}
        /\ at' = [at EXCEPT ![a] = "release"]
    BY <1>10, <1>inv, AtWork DEF JobCount, Step
  <2>2. /\ \A b \in Actor : at'[b] = IF b = a THEN "release" ELSE at[b]
        /\ \A c \in Call : ctx'[c] = "live" => ctx[c] = "live" /\ c # job[a]
    BY <2>1, <1>type
  <2>3. job[a] \notin Elements(queue) /\ \A b \in Actor : job[b] = job[a] => b = a
    BY <2>1, <1>inv, <1>type DEF Single
  <2>4. Elements(queue') = Elements(queue)
    BY <2>1
  <2> QED BY <2>1, <2>2, <2>3, <2>4, <1>inv, <1>type DEF Counts
<1>11. ASSUME NEW a \in Actor, Release(a) PROVE Counts'
  <2>1. /\ UNCHANGED <<queue, completed, ctx>> /\ job' = [job EXCEPT ![a] = NoCall]
        /\ \A b \in Actor : b # a => at'[b] = at[b]
    BY <1>11, <1>type DEF Release, Step
  <2>2. \A b \in Actor : job'[b] = IF b = a THEN NoCall ELSE job[b]
    BY <2>1, <1>type
  <2>3. Elements(queue') = Elements(queue) /\ NoCall \notin completed
    BY <2>1, <1>type
  <2> QED BY <2>1, <2>2, <2>3, <1>inv DEF Counts
<1> QED BY <1>1, <1>2, <1>3, <1>4, <1>5, <1>6, <1>7, <1>8, <1>9, <1>10, <1>11, <1>inv, Classes

\* What a step leaves of a call that can be cancelled after it.
LEMMA StepKeeps == LInv /\ [Next]_vars => KeptReached
<1> SUFFICES ASSUME LInv, [Next]_vars, NEW c \in Call, Cancellable(c)',
                    Cancellable(c) => Reached(c), ~OtherEnds(c)
             PROVE  Reached(c)'
  BY DEF KeptReached
<1> DEFINE Found == pending'[KeyOf[c]] = c \/ interrupting' = c
<1> USE DEF actorVars, cancelVars, countVars, replyVars, runVars
<1>inv. /\ TInv /\ Single /\ Unread /\ InHand
        /\ Loop \in Actor /\ \A w \in Worker : w # Loop /\ w \in Actor
  BY EngineAssumption DEF EngineAssumption, LInv, IInv, Actor
<1>type. /\ at \in [Actor -> Serving \cup LoopAlone \cup {"idle", "exited"}]
         /\ job \in [Actor -> Call \cup {NoCall}] /\ queue \in Seq(Call) /\ NoCall \notin Call
         /\ ctx \in [Call -> {"none", "live", "cancelled", "over"}]
         /\ pending \in [Key -> Call \cup {NoCall}]
         /\ interrupting \in Call \cup {NoCall}
  BY EngineAssumption DEF EngineAssumption, LInv, IInv, TInv, TypeOK
<1>key. KeyOf[c] \in Key /\ KeyOf[c] # NoKey
  BY EngineAssumption DEF EngineAssumption, Cancellable
<1>after. /\ ctx'[c] = "live"
          /\ \/ c \in Elements(queue')
             \/ \E w \in Worker : job'[w] = c /\ at'[w] \notin {"count", "release"}
             \/ job'[Loop] = c /\ at'[Loop] \in {"supersede", "enqueue"}
  BY DEF Cancellable, Elements
<1>was. ASSUME ctx[c] = "live",
               \/ c \in Elements(queue)
               \/ \E w \in Worker : job[w] = c /\ at[w] \notin {"count", "release"}
               \/ job[Loop] = c /\ at[Loop] \in {"supersede", "enqueue"}
        PROVE  pending[KeyOf[c]] = c \/ interrupting = c
  BY <1>was, <1>key DEF Cancellable, Reached
<1> HIDE DEF Elements
<1>same. ASSUME queue' = queue PROVE Elements(queue') = Elements(queue)
  BY <1>same
<1>1. ASSUME Wait PROVE Found
  BY <1>1, <1>was, <1>after, <1>same DEF Wait
<1>2. ASSUME NEW a \in Actor, Walk(a) PROVE Found
  <2>1. PICK to : /\ at' = [at EXCEPT ![a] = to]
                  /\ job[a] # NoCall => at[a] \notin Unentered /\ to \notin Unentered
                  /\ a = Loop => to \notin {"supersede", "enqueue"}
    BY <1>2 DEF Walk
  <2>2. UNCHANGED <<job, queue, pending, interrupting, ctx>>
    BY <1>2 DEF Walk
  <2>3. ASSUME NEW w \in Worker, job'[w] = c, at'[w] \notin {"count", "release"}
        PROVE  job[w] = c /\ at[w] \notin {"count", "release"}
    BY <2>1, <2>2, <2>3, <1>inv, <1>type DEF Unentered
  <2>4. ASSUME job'[Loop] = c, at'[Loop] \in {"supersede", "enqueue"}
        PROVE  job[Loop] = c /\ at[Loop] \in {"supersede", "enqueue"}
    BY <2>1, <2>2, <2>4, <1>inv, <1>type
  <2> QED BY <2>2, <2>3, <2>4, <1>was, <1>after, <1>same
<1>3. ASSUME NEW d \in Call, ReadCall(d) PROVE Found
  <2>1. /\ job' = [job EXCEPT ![Loop] = d] /\ ctx' = [ctx EXCEPT ![d] = "live"]
        /\ at' = [at EXCEPT ![Loop] = IF KeyOf[d] = NoKey THEN "enqueue" ELSE "register"]
        /\ UNCHANGED <<queue, pending, interrupting>> /\ ctx[d] = "none"
    BY <1>3 DEF ReadCall, Step
  <2>2. d \notin Elements(queue) /\ \A a \in Actor : job[a] # d
    BY <2>1, <1>inv DEF Unread
  <2>3. d # c
    <3> SUFFICES ASSUME d = c PROVE FALSE
      OBVIOUS
    <3>1. at'[Loop] = "register"
      BY <2>1, <1>key, <1>inv, <1>type
    <3>2. \A w \in Worker : job'[w] # c
      BY <2>1, <2>2, <1>inv, <1>type
    <3> QED BY <2>1, <2>2, <3>1, <3>2, <1>after, <1>same
  <2>4. job'[Loop] # c /\ \A w \in Worker : job'[w] = job[w] /\ at'[w] = at[w]
    BY <2>1, <2>3, <1>inv, <1>type
  <2>5. ctx[c] = "live"
    BY <2>1, <2>3, <1>after, <1>type
  <2> QED BY <2>1, <2>4, <2>5, <1>was, <1>after, <1>same
<1>4. ASSUME Register PROVE Found
  <2>1. /\ job[Loop] \in Call /\ KeyOf[job[Loop]] \in Key /\ at[Loop] = "register"
        /\ pending' = [pending EXCEPT ![KeyOf[job[Loop]]] = job[Loop]]
        /\ interrupting' = pending[KeyOf[job[Loop]]]
        /\ UNCHANGED <<job, ctx, queue>>
        /\ \A w \in Worker : at'[w] = at[w]
    BY <1>4, <1>inv, <1>type DEF Register, Step, TInv, LoopPlaces
  <2>2. CASE job[Loop] = c
    BY <2>1, <2>2, <1>type
  <2>3. CASE job[Loop] # c
    <3>1. pending[KeyOf[c]] = c \/ interrupting = c
      BY <2>1, <2>3, <1>was, <1>after, <1>same
    <3>2. interrupting = NoCall
      BY <2>1, <1>inv DEF InHand
    <3>3. pending[KeyOf[c]] = c
      BY <3>1, <3>2, <1>type
    <3> QED BY <2>1, <3>3, <1>key, <1>type
  <2> QED BY <2>2, <2>3
<1>5. ASSUME Supersede \/ CancelFire PROVE Found
  <2>1. /\ UNCHANGED <<job, pending, queue>>
        /\ at[Loop] = "supersede" \/ at'[Loop] = "release"
        /\ ctx' = [ctx EXCEPT ![interrupting] = IF @ = "live" THEN "cancelled" ELSE @]
        /\ \A w \in Worker : at'[w] = at[w]
    BY <1>5, <1>inv, <1>type DEF Supersede, CancelFire, Interrupt, Step
  <2>2. ctx[c] = "live" /\ interrupting # c
    BY <2>1, <1>after, <1>type
  <2>3. pending[KeyOf[c]] = c \/ interrupting = c
    BY <2>1, <2>2, <1>was, <1>after, <1>same
  <2> QED BY <2>1, <2>2, <2>3
<1>6. ASSUME Enqueue PROVE Found
  <2>1. /\ at[Loop] = "enqueue" /\ UNCHANGED <<ctx, pending, interrupting>>
        /\ at'[Loop] \in {"check", "handle"} /\ job[Loop] \in Call
        /\ \A w \in Worker : at'[w] = at[w] /\ job'[w] = job[w]
        /\ queue' = queue \/ queue' = Append(queue, job[Loop])
    BY <1>6, <1>inv, <1>type, AtWork DEF Enqueue, Step
  <2>2. c \in Elements(queue') => c \in Elements(queue) \/ job[Loop] = c
    <3>1. CASE queue' = queue
      BY <3>1, <1>same
    <3>2. CASE queue' = Append(queue, job[Loop])
      <4>1. Elements(queue') = Elements(queue) \cup {job[Loop]}
        BY <2>1, <3>2, <1>type, InAppend
      <4> QED BY <4>1
    <3> QED BY <2>1, <3>1, <3>2
  <2> QED BY <2>1, <2>2, <1>was, <1>after
<1>7. ASSUME HandleNotice, Cancel PROVE Found
  <2>1. /\ at[Loop] = "notice" /\ UNCHANGED <<job, ctx, queue>>
        /\ message \in Key /\ interrupting' = pending[message]
        /\ pending' = [pending EXCEPT ![message] = NoCall]
        /\ at'[Loop] \in {"release", "interrupt"}
        /\ \A w \in Worker : at'[w] = at[w]
    BY <1>7, <1>inv, <1>type DEF HandleNotice, Cancel, Step
  <2>2. interrupting = NoCall
    BY <2>1, <1>inv DEF InHand
  <2>3. pending[KeyOf[c]] = c \/ interrupting = c
    BY <2>1, <1>was, <1>after, <1>same
  <2>4. pending[KeyOf[c]] = c
    BY <2>2, <2>3, <1>type
  <2> QED BY <2>1, <2>4, <1>key, <1>type
<1>8. ASSUME NEW w \in Worker, WorkerReceive(w) PROVE Found
  <2>1. /\ UNCHANGED <<ctx, pending, interrupting>>
        /\ queue # << >> /\ queue' = Tail(queue) /\ job' = [job EXCEPT ![w] = Head(queue)]
        /\ at' = [at EXCEPT ![w] = "handle"]
    BY <1>8 DEF WorkerReceive, Step
  <2>2. /\ Elements(queue') \subseteq Elements(queue) /\ Head(queue) \in Elements(queue)
    BY <2>1, <1>inv, <1>type, TailOfSingle DEF Single
  <2>3. /\ job'[w] = Head(queue) /\ at'[Loop] = at[Loop] /\ job'[Loop] = job[Loop]
        /\ \A v \in Worker \ {w} : job'[v] = job[v] /\ at'[v] = at[v]
    BY <2>1, <1>inv, <1>type
  <2> QED BY <2>1, <2>2, <2>3, <1>was, <1>after
<1>9. ASSUME NEW a \in Actor, RegistryDone(a) PROVE Found
  <2>1. /\ job[a] \in Call /\ UNCHANGED <<job, ctx, queue, interrupting>>
        /\ at[a] = "done" /\ at' = [at EXCEPT ![a] = "count"] /\ at'[a] = "count"
        /\ pending' = [i \in Key |-> IF i = KeyOf[job[a]] THEN NoCall ELSE pending[i]]
    BY <1>9, <1>inv, <1>type, AtWork DEF RegistryDone, Step
  <2>2. /\ \A b \in Actor : at'[b] \notin {"count", "release"} => at[b] = at'[b]
        /\ \A b \in Actor : at'[b] \notin {"count", "release"} => b # a
    BY <2>1, <1>type
  <2>3. job[a] # c
    <3>1. ASSUME NEW b \in Actor, b # a, job[b] = c PROVE job[a] # c
      BY <3>1, <1>inv, <1>type DEF Single
    <3>2. c \in Elements(queue) => job[a] # c
      BY <1>inv DEF Single
    <3> QED BY <2>1, <2>2, <3>1, <3>2, <1>after, <1>same, <1>inv
  <2>4. KeyOf[job[a]] # KeyOf[c]
    BY <2>1, <2>3 DEF OtherEnds
  <2>5. pending[KeyOf[c]] = c \/ interrupting = c
    BY <2>1, <2>2, <1>was, <1>after, <1>same, <1>inv
  <2> QED BY <2>1, <2>4, <2>5, <1>key
<1>10. ASSUME NEW a \in Actor, JobCount(a) PROVE Found
  <2>1. /\ job[a] \in Call /\ UNCHANGED <<job, queue, pending, interrupting>>
        /\ at' = [at EXCEPT ![a] = "release"]
        /\ ctx' = [ctx EXCEPT ![job[a]] = IF @ = "live" THEN "over" ELSE @]
    BY <1>10, <1>inv, AtWork DEF JobCount, Step
  <2>2. \A b \in Actor : at'[b] \notin {"count", "release"} => at[b] = at'[b]
    BY <2>1, <1>type
  <2>3. ctx[c] = "live"
    BY <2>1, <1>after, <1>type
  <2> QED BY <2>1, <2>2, <2>3, <1>was, <1>after, <1>same, <1>inv
<1>11. ASSUME NEW a \in Actor, Release(a) PROVE Found
  <2>1. /\ UNCHANGED <<ctx, queue, pending, interrupting>>
        /\ job' = [job EXCEPT ![a] = NoCall]
        /\ \A b \in Actor : b # a => at'[b] = at[b]
    BY <1>11, <1>type DEF Release, Step
  <2>2. \A b \in Actor : job'[b] = c => job[b] = c /\ at[b] = at'[b]
    BY <2>1, <1>type
  <2> QED BY <2>1, <2>2, <1>was, <1>after, <1>same, <1>inv
<1>12. Found
  <2> HIDE DEF Found
  <2> QED BY <1>1, <1>2, <1>3, <1>4, <1>5, <1>6, <1>7, <1>8, <1>9, <1>10, <1>11, <1>inv, Classes
<1> QED BY <1>12 DEF Reached

\* A cancel func that is taken out is one of the id it is looked up by.
LEMMA StepAims == LInv /\ [Next]_vars => RightCall
<1> SUFFICES ASSUME LInv, [Next]_vars, interrupting' \notin {NoCall, interrupting}
             PROVE  /\ interrupting' # job[Loop]
                    /\ KeyOf[interrupting'] =
                         IF at[Loop] = "register" THEN KeyOf[job[Loop]] ELSE message
  BY DEF RightCall
<1> USE DEF cancelVars
<1>inv. TInv /\ Single /\ Entries /\ Loop \in Actor
  BY DEF LInv, IInv, Actor
<1>1. Register \/ (HandleNotice /\ Cancel)
  <2>1. ~Wait /\ \A a \in Actor : ~Walk(a)
    BY DEF Wait, Walk
  <2>2. ~Supersede /\ ~CancelFire /\ ~Enqueue
    BY DEF Supersede, CancelFire, Interrupt, Enqueue
  <2>3. /\ \A c \in Call : ~ReadCall(c)
        /\ \A w \in Worker : ~WorkerReceive(w)
        /\ \A a \in Actor : ~RegistryDone(a) /\ ~JobCount(a) /\ ~Release(a)
    BY DEF ReadCall, WorkerReceive, RegistryDone, JobCount, Release
  <2> QED BY <2>1, <2>2, <2>3, <1>inv, Classes
<1>2. CASE Register
  <2>1. /\ job[Loop] \in Call /\ KeyOf[job[Loop]] \in Key /\ at[Loop] = "register"
        /\ interrupting' = pending[KeyOf[job[Loop]]]
    BY <1>2, <1>inv DEF Register, Step, TInv, LoopPlaces
  <2>2. pending[KeyOf[job[Loop]]] # job[Loop]
    BY <2>1, <1>inv DEF Entries, Single, Unentered
  <2> QED BY <2>1, <2>2, <1>inv DEF Entries
<1>3. CASE HandleNotice /\ Cancel
  <2>1. /\ at[Loop] = "notice" /\ job[Loop] = NoCall
        /\ message \in Key /\ interrupting' = pending[message]
    BY <1>3, <1>inv DEF HandleNotice, Cancel, Step, TInv, LoopPlaces
  <2> QED BY <2>1, <1>inv DEF Entries
<1> QED BY <1>1, <1>2, <1>3

\* LInv holds throughout.
LEMMA LedgerInvariance == Spec => []LInv
<1>1. ASSUME Init PROVE LInv
  <2>1. Elements(queue) = {}
    BY <1>1 DEF Init, Elements
  <2>2. Single /\ Unread /\ Entries /\ Counts /\ InHand
    BY <1>1, <2>1, EngineAssumption
       DEF EngineAssumption, Init, Single, Unread, Entries, Counts, InHand
  <2> QED BY <1>1, <2>2, InitIInv DEF LInv
<1>2. LInv /\ [Next]_vars => Single' /\ Unread' /\ Entries' /\ Counts' /\ InHand'
  BY NextSingle, NextUnread, NextEntries, NextCounts, NextInHand
<1> QED BY <1>1, <1>2, Invariance, PTL DEF Spec, LInv

\* The registry never leaks: an entry is under its own call's key, and a call
\* that is counted as completed has none, also when calls share an id
\* (server.go:439-448).
THEOREM LedgerNeverLeaks == Spec => []CompletedLeavesNoEntry
<1>1. LInv => CompletedLeavesNoEntry
  BY DEF LInv, Entries, Counts, Unentered, CompletedLeavesNoEntry
<1> QED BY <1>1, LedgerInvariance, PTL

\* The cancel func of a queued or running call is kept in the registry, or called,
\* from its registration until its job is done, unless the end of another call of
\* its id drops it, and only a call of the id that is named is ever cancelled
\* (README.md:303, cancellation.go:59-94).
THEOREM ReachableAlways == Spec => ReachableByCancel
<1>1. LInv /\ [Next]_vars => KeptReached /\ RightCall
  BY StepKeeps, StepAims
<1> QED BY <1>1, LedgerInvariance, PTL DEF Spec, ReachableByCancel
=============================================================================
