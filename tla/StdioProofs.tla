---------------------------- MODULE StdioProofs ----------------------------
(***************************************************************************)
(* What StdioConn reads and writes, for any number of writers and any      *)
(* input: the types, that no frame on the wire is cut by another and that  *)
(* Close lets at most one through, and that the recv loop is given the     *)
(* frames of the input.  The two halves meet only in closed, so each has   *)
(* an inductive invariant of its own: IInv for Write, RInv for Read.       *)
(***************************************************************************)
EXTENDS StdioConn, FiniteSetTheorems, TLAPS

\* The part of the state that Write and Close look at.
WriteTypeOK ==
  /\ writer \in [Writer -> {"call", "lock", "send", "half", "returned"}]
  /\ wire \in Seq(Part)
  /\ closed \in BOOLEAN

\* writeMu has one holder.
OneHolder ==
  \A v, w \in Writer :
    writer[v] \in {"send", "half"} /\ writer[w] \in {"send", "half"} => v = w

\* Until it sends, a writer has nothing on the wire; then its head is the last part.
NothingSent ==
  \A i \in DOMAIN wire : writer[wire[i].by] \in {"half", "returned"}

HeadIsLast ==
  \A w \in Writer : writer[w] = "half" =>
    /\ Len(wire) > 0 /\ wire[Len(wire)].by = w /\ wire[Len(wire)].part = "head"
    /\ \A i \in DOMAIN wire : wire[i].by = w => wire[i].part = "head"

\* A head at the end of the wire is torn or about to be completed.
LastPart ==
  Len(wire) > 0 /\ wire[Len(wire)].part = "head" =>
    Torn(wire[Len(wire)].by) \/ writer[wire[Len(wire)].by] = "half"

Late == {i \in DOMAIN wire : wire[i].part = "head" /\ wire[i].late}

\* Who writes after Close had the lock before it.
LateIsOne ==
  /\ Late # {} => closed /\ \A w \in Writer : writer[w] # "send"
  /\ \A i, j \in Late : i = j

IInv == WriteTypeOK /\ OneHolder /\ NothingSent /\ HeadIsLast /\ LastPart /\ WholeFrames
          /\ LateIsOne

-----------------------------------------------------------------------------
LEMMA WirePart ==
  ASSUME WriteTypeOK, NEW i \in DOMAIN wire
  PROVE  wire[i] \in Part /\ wire[i].by \in Writer /\ wire[i].part \in {"head", "tail"}
<1>1. wire[i] \in Part
  BY DEF WriteTypeOK
<1> QED BY <1>1 DEF Part

LEMMA InitIInv == Init => IInv
<1> SUFFICES ASSUME Init PROVE IInv
  OBVIOUS
<1>1. WriteTypeOK /\ wire = << >>
  <2>1. wire = << >> /\ << >> \in Seq(Part)
    BY DEF Init
  <2> QED BY <2>1 DEF Init, WriteTypeOK
<1>2. \A w \in Writer : writer[w] = "call"
  BY DEF Init
<1> QED BY <1>1, <1>2 DEF IInv, OneHolder, NothingSent, HeadIsLast, LastPart, WholeFrames,
                          LateIsOne, Late

\* A writer that moves without writing, and holds the lock only if nobody does.
LEMMA MoveKeeps ==
  ASSUME IInv, NEW w \in Writer,
         writer[w] \in {"call", "lock", "send", "half"},
         NEW to \in {"lock", "send", "returned"}, writer' = [writer EXCEPT ![w] = to],
         to \in {"lock", "send"} => writer[w] \in {"call", "lock"},
         to = "send" => /\ ~closed
                        /\ \A v \in Writer : writer[v] \notin {"send", "half"},
         UNCHANGED <<wire, closed>>
  PROVE  IInv'
<1> USE DEF IInv
<1>1. WriteTypeOK' /\ OneHolder'
  BY DEF WriteTypeOK, OneHolder
<1>2. \A i \in DOMAIN wire : wire[i] \in Part /\ wire[i].by \in Writer
  BY WirePart
<1>3. NothingSent' /\ HeadIsLast'
  BY <1>2 DEF WriteTypeOK, NothingSent, HeadIsLast
<1>4. \A v \in Writer : Torn(v) => Torn(v)'
  BY DEF WriteTypeOK, Torn
<1>5. writer[w] = "half" => Torn(w)'
  BY DEF WriteTypeOK, Torn, HeadIsLast
<1>6. LastPart'
  BY <1>2, <1>4, <1>5 DEF WriteTypeOK, LastPart
<1>7. WholeFrames'
  BY <1>2, <1>4 DEF WriteTypeOK, WholeFrames
<1>8. LateIsOne'
  BY DEF WriteTypeOK, LateIsOne, Late
<1> QED BY <1>1, <1>3, <1>6, <1>7, <1>8

LEMMA HeadKeeps ==
  ASSUME IInv, NEW w \in Writer, writer[w] = "send",
         writer' = [writer EXCEPT ![w] = "half"],
         wire' = Append(wire, [by |-> w, part |-> "head", late |-> closed]),
         UNCHANGED closed
  PROVE  IInv'
<1> USE DEF IInv
<1> DEFINE n    == Len(wire)
           part == [by |-> w, part |-> "head", late |-> closed]
<1>1. part \in Part
  BY DEF WriteTypeOK, Part
<1>2. /\ wire' \in Seq(Part) /\ Len(wire') = n + 1 /\ n \in Nat
      /\ DOMAIN wire = 1..n /\ DOMAIN wire' = 1..n + 1
      /\ \A i \in 1..n : wire'[i] = wire[i]
      /\ wire'[n + 1] = part
  BY <1>1 DEF WriteTypeOK
<1>3. \A i \in 1..n : wire[i] \in Part /\ wire[i].by \in Writer /\ wire[i].by # w
  BY <1>2, WirePart DEF NothingSent
<1> HIDE DEF n
<1>4. WriteTypeOK' /\ OneHolder'
  BY <1>2 DEF WriteTypeOK, OneHolder
<1>5. NothingSent'
  BY <1>2, <1>3 DEF WriteTypeOK, NothingSent
<1>6. ASSUME NEW v \in Writer, v # w PROVE Torn(v) => Torn(v)'
  BY <1>2, <1>6 DEF WriteTypeOK, Torn
<1>7. \A v \in Writer : writer[v] = "half" => v = w
  BY DEF OneHolder
<1>8. HeadIsLast'
  BY <1>2, <1>3, <1>7 DEF WriteTypeOK, HeadIsLast
<1>9. LastPart'
  BY <1>2 DEF WriteTypeOK, LastPart
<1>10. WholeFrames'
  <2> SUFFICES ASSUME NEW i \in 1..n + 1
      PROVE  IF wire'[i].part = "tail"
               THEN i > 1 /\ wire'[i - 1].part = "head" /\ wire'[i - 1].by = wire'[i].by
               ELSE i < n + 1 => wire'[i + 1].by = wire'[i].by \/ Torn(wire[i].by)'
    BY <1>2 DEF WholeFrames
  <2>1. CASE i = n + 1
    BY <1>2, <2>1
  <2>2. CASE i \in 1..n /\ wire[i].part = "tail"
    <3>1. i > 1 /\ wire[i - 1].part = "head" /\ wire[i - 1].by = wire[i].by
      BY <1>2, <2>2 DEF WholeFrames
    <3>2. i - 1 \in 1..n
      BY <1>2, <2>2, <3>1
    <3> QED BY <1>2, <2>2, <3>1, <3>2
  <2>3. CASE i \in 1..n /\ i < n /\ wire[i].part # "tail"
    <3>1. wire[i + 1].by = wire[i].by \/ Torn(wire[i].by)
      BY <1>2, <2>3 DEF WholeFrames, n
    <3>2. i + 1 \in 1..n
      BY <1>2, <2>3
    <3> QED BY <1>2, <1>3, <1>6, <2>3, <3>1, <3>2
  <2>4. CASE i = n /\ wire[i].part # "tail"
    <3>1. i \in 1..n /\ wire[i].part = "head"
      BY <1>2, <1>3, <2>4 DEF Part
    <3>2. Torn(wire[i].by)
      BY <1>3, <1>7, <2>4, <3>1 DEF LastPart, n
    <3> QED BY <1>2, <1>3, <1>6, <2>4, <3>1, <3>2
  <2> QED BY <1>2, <2>1, <2>2, <2>3, <2>4
<1>11. LateIsOne'
  <2>1. Late = {}
    BY DEF LateIsOne
  <2>2. Late' = IF closed THEN {n + 1} ELSE {}
    BY <1>2, <2>1 DEF Late, WriteTypeOK
  <2>3. closed => \A v \in Writer : writer'[v] # "send"
    BY DEF OneHolder, WriteTypeOK
  <2> QED BY <2>2, <2>3 DEF LateIsOne
<1> QED BY <1>4, <1>5, <1>8, <1>9, <1>10, <1>11

LEMMA TailKeeps ==
  ASSUME IInv, NEW w \in Writer, writer[w] = "half",
         writer' = [writer EXCEPT ![w] = "returned"],
         wire' = Append(wire, [by |-> w, part |-> "tail", late |-> closed]),
         UNCHANGED closed
  PROVE  IInv'
<1> USE DEF IInv
<1> DEFINE n    == Len(wire)
           part == [by |-> w, part |-> "tail", late |-> closed]
<1>1. part \in Part
  BY DEF WriteTypeOK, Part
<1>2. /\ wire' \in Seq(Part) /\ Len(wire') = n + 1 /\ n \in Nat
      /\ DOMAIN wire = 1..n /\ DOMAIN wire' = 1..n + 1
      /\ \A i \in 1..n : wire'[i] = wire[i]
      /\ wire'[n + 1] = part
  BY <1>1 DEF WriteTypeOK
<1>3. \A i \in 1..n : wire[i] \in Part /\ wire[i].by \in Writer
  BY <1>2, WirePart
<1>4. n > 0 /\ wire[n].by = w /\ wire[n].part = "head"
  BY DEF HeadIsLast
<1> HIDE DEF n
<1>5. WriteTypeOK' /\ OneHolder'
  BY <1>2 DEF WriteTypeOK, OneHolder
<1>6. NothingSent'
  BY <1>2, <1>3 DEF WriteTypeOK, NothingSent
<1>7. \A v \in Writer : writer'[v] # "half"
  BY DEF OneHolder, WriteTypeOK
<1>8. HeadIsLast' /\ LastPart'
  BY <1>2, <1>7 DEF HeadIsLast, LastPart
<1>9. ASSUME NEW v \in Writer PROVE Torn(v) => Torn(v)'
  BY <1>2, <1>3 DEF WriteTypeOK, Torn
<1>10. WholeFrames'
  <2> SUFFICES ASSUME NEW i \in 1..n + 1
      PROVE  IF wire'[i].part = "tail"
               THEN i > 1 /\ wire'[i - 1].part = "head" /\ wire'[i - 1].by = wire'[i].by
               ELSE i < n + 1 => wire'[i + 1].by = wire'[i].by \/ Torn(wire[i].by)'
    BY <1>2 DEF WholeFrames
  <2>1. CASE i = n + 1
    BY <1>2, <1>4, <2>1
  <2>2. CASE i \in 1..n /\ wire[i].part = "tail"
    <3>1. i > 1 /\ wire[i - 1].part = "head" /\ wire[i - 1].by = wire[i].by
      BY <1>2, <2>2 DEF WholeFrames
    <3>2. i - 1 \in 1..n
      BY <1>2, <2>2, <3>1
    <3> QED BY <1>2, <2>2, <3>1, <3>2
  <2>3. CASE i \in 1..n /\ i < n /\ wire[i].part # "tail"
    <3>1. wire[i + 1].by = wire[i].by \/ Torn(wire[i].by)
      BY <1>2, <2>3 DEF WholeFrames, n
    <3>2. i + 1 \in 1..n
      BY <1>2, <2>3
    <3> QED BY <1>2, <1>3, <1>9, <2>3, <3>1, <3>2
  <2>4. CASE i = n /\ wire[i].part # "tail"
    BY <1>2, <1>4, <2>4
  <2> QED BY <1>2, <2>1, <2>2, <2>3, <2>4
<1>11. LateIsOne'
  <2>1. Late' = Late
    BY <1>2 DEF Late, WriteTypeOK
  <2>2. \A v \in Writer : writer[v] # "send" => writer'[v] # "send"
    BY DEF WriteTypeOK
  <2> QED BY <2>1, <2>2 DEF LateIsOne
<1> QED BY <1>5, <1>6, <1>8, <1>10, <1>11

LEMMA StepIInv == IInv /\ [Next]_vars => IInv'
<1> SUFFICES ASSUME IInv, [Next]_vars PROVE IInv'
  OBVIOUS
<1>1. ASSUME UNCHANGED <<writer, wire, closed>> PROVE IInv'
  BY <1>1 DEF IInv, WriteTypeOK, OneHolder, NothingSent, HeadIsLast, LastPart, WholeFrames,
              LateIsOne, Late, Torn
<1>2. CASE Close
  BY <1>2 DEF Close, writeVars, readVars, IInv, WriteTypeOK, OneHolder, NothingSent,
              HeadIsLast, LastPart, WholeFrames, LateIsOne, Late, Torn
<1>3. ASSUME NEW w \in Writer, Writes(w) PROVE IInv'
  <2> USE DEF WriteStep, ctlVars
  <2>1. CASE WriteCheck(w)
    BY <2>1, MoveKeeps DEF WriteCheck
  <2>2. CASE WriteLock(w)
    BY <2>2, MoveKeeps DEF WriteLock
  <2>3. CASE WriteHead(w)
    BY <2>3, MoveKeeps, HeadKeeps DEF WriteHead
  <2>4. CASE WriteTail(w)
    BY <2>4, MoveKeeps, TailKeeps DEF WriteTail
  <2> QED BY <1>3, <2>1, <2>2, <2>3, <2>4 DEF Writes
<1>4. CASE (\E b \in Byte : Send(b)) \/ (\E how \in {"eof", "error"} : EndInput(how))
  BY <1>1, <1>4 DEF Send, EndInput, writeVars, ctlVars
<1>5. CASE ReadLine \/ GiveUp \/ Reads \/ Stop
  BY <1>1, <1>5 DEF ReadLine, GiveUp, Reads, LoopCheck, ReadCancelled, ReadClosed,
                    ReadExhausted, ReadReturns, Receive, Stop, writeVars, ctlVars
<1>6. CASE UNCHANGED vars
  BY <1>1, <1>6 DEF vars, writeVars, ctlVars
<1> QED BY <1>2, <1>3, <1>4, <1>5, <1>6 DEF Next

-----------------------------------------------------------------------------
\* Frames on the wire are never interleaved, whatever the number of writers
\* (transport.go:34-35, stdio.go:167-180).
THEOREM FramesStayWhole == Spec => []WholeFrames
<1>1. IInv => WholeFrames
  BY DEF IInv
<1> QED BY <1>1, InitIInv, StepIInv, PTL DEF Spec

\* Once the connection is closed at most one more frame begins (stdio.go:170-176).
THEOREM OneFrameAfterClose == Spec => []LastFrame
<1>1. IInv => LastFrame
  <2> SUFFICES ASSUME IInv PROVE Cardinality(Late) <= 1
    BY DEF LastFrame, Late
  <2>1. CASE Late = {}
    BY <2>1, FS_EmptySet
  <2>2. CASE \E i \in Late : Late = {i}
    <3>1. PICK i : Late = {i}
      BY <2>2
    <3>2. Cardinality({i}) = 1
      BY FS_Singleton
    <3> QED BY <3>1, <3>2
  <2> QED BY <2>1, <2>2 DEF IInv, LateIsOne
<1> QED BY <1>1, InitIInv, StepIInv, PTL DEF Spec

-----------------------------------------------------------------------------
\* Reading.

ReadTypeOK ==
  /\ input \in Seq(Byte) /\ Len(input) <= MaxBytes
  /\ stream \in {"open", "eof", "error"}
  /\ taken \in 0..Len(input)
  /\ reader \in {"read", "send", "exited"}
  /\ held \in [data : Interval, err : {"nil", "eof", "error"}]
  /\ loop \in {"check", "read", "eof", "error", "cancelled"}
  /\ delivered \in Seq(Frame)
  /\ stopping \in BOOLEAN /\ closed \in BOOLEAN

\* readLoop stands behind a line feed, or at the end of an input that has ended,
\* and goes on, or has gone, accordingly.
Reached ==
  /\ reader = "read" => held.err = "nil"
  /\ IF held.err = "nil" THEN taken = 0 \/ input[taken] = "lf"
                         ELSE held.err = stream /\ taken = Len(input)
  /\ reader = "exited" /\ ~closed => held.err # "nil"
  /\ loop \in {"eof", "error"} /\ ~closed => reader = "exited" /\ held.err = loop
  /\ reader = "exited" /\ held.err = "error" /\ ~closed => loop = "error"

\* Frames are given in their order, and the one readLoop holds comes next.
InOrder ==
  /\ \A i, j \in DOMAIN delivered : i < j => delivered[i].last < delivered[j].first
  /\ \A frame \in Holding : \A i \in DOMAIN delivered : delivered[i].last < frame.first

\* What has been read is with the recv loop or with readLoop, unless it was lost.
Custody ==
  /\ Given \cup Holding \subseteq Frames(taken)
  /\ ~closed /\ ~(reader = "exited" /\ held.err = "error") =>
       Frames(taken) = Given \cup Holding

RInv == ReadTypeOK /\ Reached /\ InOrder /\ Custody

-----------------------------------------------------------------------------
\* Operators

\* What a frame is, with the definitions in the open.
LEMMA FramesOpen ==
  ASSUME NEW n \in Nat, NEW frame
  PROVE  frame \in Frames(n) <=>
           /\ frame \in Frame
           /\ frame.last <= n
           /\ frame.first - 1 \in LineFeeds \cup {0}
           /\ \A i \in frame.first..frame.last : i \notin LineFeeds
           /\ \/ frame.last + 1 \in LineFeeds \cup {n + 1} /\ input[frame.last] # "cr"
              \/ /\ frame.last < n /\ input[frame.last + 1] = "cr"
                 /\ frame.last + 2 \in LineFeeds \cup {n + 1}
BY DEF Frames

LEMMA FrameType ==
  ASSUME NEW frame \in Frame
  PROVE  /\ frame.first \in 1..MaxBytes + 1 /\ frame.last \in 0..MaxBytes
         /\ frame.first <= frame.last
         /\ frame = [first |-> frame.first, last |-> frame.last]
BY DEF Frame, Interval

LEMMA TrimOf ==
  ASSUME ReadTypeOK, NEW n \in taken + 1..Len(input)
  PROVE  LET l == IF input[n] = "lf" THEN n - 1 ELSE n
             m == IF l > taken /\ input[l] = "cr" THEN l - 1 ELSE l
         IN  /\ Trim(taken + 1, n) = [first |-> taken + 1, last |-> m]
             /\ Trim(taken + 1, n) \in Interval
             /\ Empty(Trim(taken + 1, n)) <=> m = taken
             /\ ~Empty(Trim(taken + 1, n)) => Trim(taken + 1, n) \in Frame
<1>1. MaxBytes \in Nat /\ taken \in Nat /\ n \in Nat /\ n <= MaxBytes /\ taken < n
  BY StdioAssumption DEF StdioAssumption, ReadTypeOK
<1> QED BY <1>1 DEF Trim, Empty, Interval, Frame

\* The frames of the first n bytes are there for good, whatever follows them.
LEMMA FramesStay ==
  ASSUME ReadTypeOK, NEW b \in Byte, input' = Append(input, b), Len(input) < MaxBytes,
         UNCHANGED taken
  PROVE  Frames(taken)' = Frames(taken)
<1>1. /\ Len(input') = Len(input) + 1 /\ Len(input) \in Nat /\ taken \in 0..Len(input)
      /\ \A i \in 1..Len(input) : input'[i] = input[i]
  BY DEF ReadTypeOK
<1>2. \A i \in 1..taken : i \in LineFeeds' <=> i \in LineFeeds
  BY <1>1 DEF LineFeeds
<1>3. ASSUME NEW frame \in Frame, frame.last <= taken
      PROVE  frame \in Frames(taken)' <=> frame \in Frames(taken)
  <2>1. /\ frame.first \in Nat \ {0} /\ frame.last \in Nat /\ frame.first <= frame.last
    BY <1>3, StdioAssumption, FrameType DEF StdioAssumption
  <2>2. frame.first - 1 \in LineFeeds' \cup {0} <=> frame.first - 1 \in LineFeeds \cup {0}
    <3>1. frame.first - 1 = 0 \/ frame.first - 1 \in 1..taken
      BY <1>1, <1>3, <2>1
    <3> QED BY <1>2, <3>1
  <2>3. \A i \in frame.first..frame.last : i \in LineFeeds' <=> i \in LineFeeds
    <3>1. \A i \in frame.first..frame.last : i \in 1..taken
      BY <1>1, <1>3, <2>1
    <3> QED BY <1>2, <3>1
  <2>4. \A i \in {frame.last + 1, frame.last + 2} : i <= taken + 1 =>
          (i \in LineFeeds' \cup {taken + 1} <=> i \in LineFeeds \cup {taken + 1})
    <3>1. \A i \in {frame.last + 1, frame.last + 2} : i <= taken + 1 =>
            i \in 1..taken \/ i = taken + 1
      BY <1>1, <1>3, <2>1
    <3> QED BY <1>2, <3>1
  <2>5. /\ input'[frame.last] = input[frame.last]
        /\ frame.last < taken => input'[frame.last + 1] = input[frame.last + 1]
    BY <1>1, <1>3, <2>1
  <2>6. \A i \in {frame.last + 1, frame.last + 2} : i <= taken + 1 =>
          (i \in LineFeeds' \/ i = taken + 1 <=> i \in LineFeeds \/ i = taken + 1)
    BY ONLY <2>4
  <2>7. /\ frame.last + 1 <= taken + 1
        /\ frame.last < taken => frame.last + 2 <= taken + 1
    BY ONLY <1>1, <1>3, <2>1
  <2>8. /\ taken' = taken
        /\ frame.last + 1 \in LineFeeds' \/ frame.last + 1 = taken + 1 <=>
             frame.last + 1 \in LineFeeds \/ frame.last + 1 = taken + 1
        /\ frame.last < taken =>
             (frame.last + 2 \in LineFeeds' \/ frame.last + 2 = taken + 1 <=>
                frame.last + 2 \in LineFeeds \/ frame.last + 2 = taken + 1)
    BY <2>6, <2>7
  <2> QED BY <2>2, <2>3, <2>5, <2>8 DEF Frames
<1> QED BY <1>3 DEF Frames

\* Bytes up to the next line feed, or to the end, make one frame more, or none if
\* nothing is left of them.
LEMMA FramesGrow ==
  ASSUME ReadTypeOK, taken = 0 \/ input[taken] = "lf",
         NEW n \in taken + 1..Len(input),
         \A i \in taken + 1..n - 1 : input[i] # "lf",
         input[n] = "lf" \/ n = Len(input)
  PROVE  LET new == Trim(taken + 1, n)
         IN  Frames(n) = Frames(taken) \cup (IF Empty(new) THEN {} ELSE {new})
<1> DEFINE l   == IF input[n] = "lf" THEN n - 1 ELSE n
           m   == IF l > taken /\ input[l] = "cr" THEN l - 1 ELSE l
           new == Trim(taken + 1, n)
<1>1. /\ taken \in Nat /\ n \in Nat /\ taken < n /\ n <= Len(input) /\ Len(input) \in Nat
      /\ Len(input) <= MaxBytes /\ MaxBytes \in Nat
  BY StdioAssumption DEF StdioAssumption, ReadTypeOK
<1>2. /\ new = [first |-> taken + 1, last |-> m] /\ (Empty(new) <=> m = taken)
      /\ ~Empty(new) => new \in Frame
  BY TrimOf
<1>3. \A i \in 1..Len(input) : i \in LineFeeds <=> input[i] = "lf"
  BY DEF LineFeeds
<1>4. \A i \in LineFeeds : i \in Nat /\ 1 <= i /\ i <= Len(input)
  BY DEF LineFeeds
<1>5. \A i \in Nat : taken < i /\ i < n => i \notin LineFeeds
  BY <1>1, <1>4 DEF LineFeeds
<1>6. taken = 0 \/ taken \in LineFeeds
  BY <1>1, <1>3
<1> HIDE DEF new
<1>7. ASSUME NEW frame \in Frame, frame.last <= taken
      PROVE  frame \in Frames(n) <=> frame \in Frames(taken)
  <2>1. /\ frame.first \in Nat \ {0} /\ frame.last \in Nat /\ frame.first <= frame.last
    BY <1>1, <1>7, FrameType
  <2>2. CASE frame.last = taken
    <3>1. taken \in LineFeeds /\ frame.last \in frame.first..frame.last
      BY <1>6, <2>1, <2>2
    <3> QED BY <1>1, <2>2, <3>1, FramesOpen
  <2>3. CASE frame.last < taken
    <3>1. input[taken] = "lf"
      BY <1>1, <2>1, <2>3, <1>6, <1>3
    <3>2. frame.last + 1 = taken => frame.last + 1 \in LineFeeds /\ input[frame.last + 1] # "cr"
      BY <1>1, <3>1, <1>6, <2>1, <2>3
    <3>3. frame.last + 1 # n + 1 /\ frame.last + 1 # taken + 1 /\ frame.last + 2 # n + 1
      BY <1>1, <2>1, <2>3
    <3>4. frame.last + 2 = taken + 1 => frame.last + 1 = taken
      BY <1>1, <2>1
    <3>5. frame.last < n /\ frame.last <= n
      BY <1>1, <2>1, <2>3
    <3> QED BY <1>1, <1>7, <2>3, <3>2, <3>3, <3>4, <3>5, FramesOpen
  <2> QED BY <1>1, <1>7, <2>1, <2>2, <2>3
<1>8. ASSUME NEW frame \in Frames(n), ~(frame.last <= taken)
      PROVE  frame = new /\ ~Empty(new)
  <2>1. /\ frame \in Frame /\ frame.last <= n /\ frame.first - 1 \in LineFeeds \cup {0}
        /\ \A i \in frame.first..frame.last : i \notin LineFeeds
        /\ \/ frame.last + 1 \in LineFeeds \cup {n + 1} /\ input[frame.last] # "cr"
           \/ /\ frame.last < n /\ input[frame.last + 1] = "cr"
              /\ frame.last + 2 \in LineFeeds \cup {n + 1}
    BY <1>1, <1>8, FramesOpen
  <2>2. /\ frame.first \in Nat \ {0} /\ frame.last \in Nat /\ frame.first <= frame.last
        /\ taken < frame.last
    BY <1>1, <1>8, <2>1, FrameType
  <2>3. frame.first = taken + 1
    <3>1. taken \notin frame.first..frame.last \/ taken = 0
      BY <1>6, <2>1
    <3>2. taken < frame.first
      BY <1>1, <2>2, <3>1
    <3>3. frame.first - 1 \in Nat /\ frame.first - 1 < n /\ taken <= frame.first - 1
      BY ONLY <1>1, <2>1, <2>2, <3>2
    <3>4. ~(taken < frame.first - 1)
      BY ONLY <1>5, <2>1, <3>3, <1>1
    <3> QED BY ONLY <1>1, <2>2, <3>3, <3>4
  <2>4. frame.last = m
    <3>1. CASE input[n] = "lf"
      <4>1. n \in LineFeeds /\ frame.last < n
        BY <1>1, <1>3, <2>1, <2>2, <3>1
      <4>2. frame.last + 1 \in LineFeeds \cup {n + 1} => frame.last + 1 = n
        BY ONLY <1>1, <1>5, <2>2, <4>1
      <4>3. frame.last + 2 \in LineFeeds \cup {n + 1} /\ input[frame.last + 1] = "cr" =>
              frame.last + 2 = n
        <5> SUFFICES ASSUME frame.last + 2 \in LineFeeds \cup {n + 1},
                            input[frame.last + 1] = "cr", frame.last + 2 # n
                     PROVE  FALSE
          OBVIOUS
        <5>1. frame.last + 1 # n
          BY <3>1
        <5>2. /\ n \in Nat /\ frame.last \in Nat /\ frame.last < n
              /\ frame.last + 1 # n /\ frame.last + 2 # n
          BY <1>1, <2>2, <4>1, <5>1
        <5>3. frame.last + 2 < n
          BY ONLY <5>2
        <5>4. taken < frame.last + 2 /\ frame.last + 2 \in Nat
          BY ONLY <1>1, <2>2
        <5>5. frame.last + 2 \in LineFeeds
          BY <1>1, <2>2, <5>3
        <5> QED BY <1>5, <5>3, <5>4, <5>5
      <4>4. CASE frame.last + 1 \in LineFeeds \cup {n + 1} /\ input[frame.last] # "cr"
        <5>1. frame.last = n - 1 /\ n - 1 > taken
          BY ONLY <1>1, <2>2, <4>1, <4>2, <4>4
        <5> QED BY <3>1, <4>4, <5>1
      <4>5. CASE frame.last + 2 \in LineFeeds \cup {n + 1} /\ input[frame.last + 1] = "cr"
        <5>1. n \in Nat /\ frame.last \in Nat /\ taken \in Nat /\ taken < frame.last
          BY <1>1, <2>2
        <5>2. frame.last + 2 = n
          BY <4>3, <4>5
        <5>3. frame.last = n - 2 /\ frame.last + 1 = n - 1 /\ n - 1 > taken
          BY ONLY <5>1, <5>2
        <5> QED BY <1>1, <3>1, <4>5, <5>3
      <4> QED BY <2>1, <4>4, <4>5
    <3>2. CASE input[n] # "lf"
      <4>1. n = Len(input) /\ \A i \in Nat : taken < i => i \notin LineFeeds
        BY <1>1, <1>3, <1>4, <1>5, <3>2
      <4>2. CASE frame.last + 1 \in LineFeeds \cup {n + 1} /\ input[frame.last] # "cr"
        <5>1. frame.last = n
          BY <1>1, <2>2, <4>1, <4>2
        <5> QED BY <1>1, <3>2, <4>2, <5>1
      <4>3. CASE frame.last + 2 \in LineFeeds \cup {n + 1} /\ input[frame.last + 1] = "cr"
        <5>1. n \in Nat /\ frame.last \in Nat /\ taken \in Nat /\ taken < frame.last + 2
          BY <1>1, <2>2
        <5>2. frame.last + 2 = n + 1
          BY <4>1, <4>3, <5>1
        <5>3. frame.last = n - 1 /\ frame.last + 1 = n
          BY ONLY <5>1, <5>2
        <5> QED BY <1>1, <2>2, <3>2, <4>3, <5>3
      <4> QED BY <2>1, <4>2, <4>3
    <3> QED BY <3>1, <3>2
  <2>5. frame = new
    BY <1>2, <2>1, <2>3, <2>4, FrameType
  <2> QED BY <1>1, <1>2, <2>2, <2>4, <2>5
<1>9. ASSUME ~Empty(new) PROVE new \in Frames(n)
  <2>1. /\ new \in Frame /\ new.first = taken + 1 /\ new.last = m
        /\ m \in Nat /\ taken < m /\ m <= n
    BY <1>1, <1>2, <1>9
  <2>2. new.first - 1 \in LineFeeds \cup {0}
    BY <1>1, <1>6, <2>1
  <2>3. \A i \in new.first..new.last : i \notin LineFeeds
    <3>1. \A i \in taken + 1..m : i < n \/ (i = n /\ input[n] # "lf")
      BY <1>1
    <3> QED BY <1>1, <1>3, <1>5, <2>1, <3>1
  <2>4. \/ new.last + 1 \in LineFeeds \cup {n + 1} /\ input[new.last] # "cr"
        \/ /\ new.last < n /\ input[new.last + 1] = "cr"
           /\ new.last + 2 \in LineFeeds \cup {n + 1}
    <3>1. input[n] = "lf" => n \in LineFeeds
      BY <1>1, <1>3
    <3>2. CASE input[n] = "lf"
      BY <1>1, <2>1, <3>1, <3>2
    <3>3. CASE input[n] # "lf"
      BY <1>1, <2>1, <3>3
    <3> QED BY <3>2, <3>3
  <2> QED BY <1>1, <2>1, <2>2, <2>3, <2>4, FramesOpen
<1>10. Frames(n) \subseteq Frame /\ Frames(taken) \subseteq Frame
       /\ \A frame \in Frames(taken) : frame.last <= taken
  BY DEF Frames
<1>11. Frames(n) = Frames(taken) \cup (IF Empty(new) THEN {} ELSE {new})
  BY <1>7, <1>8, <1>9, <1>10
<1> QED BY <1>11 DEF new

-----------------------------------------------------------------------------
\* The steps

LEMMA InitRInv == Init => RInv
<1> SUFFICES ASSUME Init PROVE RInv
  OBVIOUS
<1>1. ReadTypeOK
  <2>1. Nothing \in Interval
    BY StdioAssumption DEF StdioAssumption, Interval, Nothing
  <2>2. input \in Seq(Byte) /\ delivered \in Seq(Frame) /\ Len(input) = 0
    <3>1. << >> \in Seq(Byte) /\ << >> \in Seq(Frame) /\ Len(<< >>) = 0
      OBVIOUS
    <3> QED BY <3>1 DEF Init
  <2>3. taken \in 0..Len(input) /\ Len(input) <= MaxBytes
    <3>1. taken = 0
      BY DEF Init
    <3> QED BY <2>2, <3>1, StdioAssumption DEF StdioAssumption
  <2> HIDE DEF Nothing
  <2> QED BY <2>1, <2>2, <2>3 DEF Init, ReadTypeOK
<1>2. Reached /\ InOrder
  BY DEF Init, Reached, InOrder, Holding
<1>3. Frames(0) = {}
  BY FramesOpen, FrameType, StdioAssumption DEF StdioAssumption, Frames
<1>4. Given = {} /\ Holding = {}
  BY DEF Init, Given, Holding
<1>5. Custody
  BY <1>3, <1>4 DEF Init, Custody
<1> QED BY <1>1, <1>2, <1>5 DEF RInv

\* Nothing moves but stopping, the client's end and, perhaps, closed.
LEMMA RestKeeps ==
  ASSUME RInv, UNCHANGED <<input, taken, reader, held, loop, delivered>>,
         stream' \in {"open", "eof", "error"}, stream = "open" \/ stream' = stream,
         stopping' \in BOOLEAN, closed' \in BOOLEAN, closed => closed'
  PROVE  RInv'
<1> USE DEF RInv
<1>1. ReadTypeOK' /\ InOrder'
  BY DEF ReadTypeOK, InOrder, Holding
<1>2. held.err # "nil" => stream # "open"
  BY DEF ReadTypeOK, Reached
<1>3. Reached'
  BY <1>2 DEF Reached
<1>4. Frames(taken)' = Frames(taken) /\ Given' = Given /\ Holding' = Holding
  BY DEF Frames, LineFeeds, Given, Holding, Empty
<1>5. Custody'
  BY <1>4 DEF Custody
<1> QED BY <1>1, <1>3, <1>5

LEMMA SendKeeps ==
  ASSUME RInv, NEW b \in Byte, Send(b)
  PROVE  RInv'
<1> USE DEF RInv, Send, ctlVars
<1>1. /\ Len(input') = Len(input) + 1 /\ Len(input) \in Nat /\ taken \in 0..Len(input)
      /\ \A i \in 1..Len(input) : input'[i] = input[i]
      /\ input' \in Seq(Byte) /\ MaxBytes \in Nat
  BY StdioAssumption DEF StdioAssumption, ReadTypeOK
<1>2. ReadTypeOK' /\ InOrder'
  BY <1>1 DEF ReadTypeOK, InOrder, Holding, Empty
<1>3. held.err = "nil"
  BY DEF ReadTypeOK, Reached
<1>4. Reached'
  BY <1>1, <1>3 DEF Reached
<1>5. Frames(taken)' = Frames(taken) /\ Given' = Given /\ Holding' = Holding
  BY FramesStay DEF Given, Holding, Empty
<1>6. Custody'
  BY <1>5 DEF Custody
<1> QED BY <1>2, <1>4, <1>6

\* readLoop reads up to n, and sends the frame that makes, if it makes one.
LEMMA ReadUpTo ==
  ASSUME RInv, reader = "read", reader' = "send",
         NEW n \in taken..Len(input), taken' = n,
         NEW data \in Interval, NEW err \in {"nil", "eof", "error"},
         held' = [data |-> data, err |-> err],
         ~Empty(data) => data \in Frame /\ data.first = taken + 1,
         Frames(n) = Frames(taken) \cup (IF Empty(data) THEN {} ELSE {data}),
         IF err = "nil" THEN n = 0 \/ input[n] = "lf" ELSE err = stream /\ n = Len(input),
         UNCHANGED <<input, stream, loop, delivered, stopping, closed>>
  PROVE  RInv'
<1> USE DEF RInv
<1>1. ReadTypeOK'
  BY DEF ReadTypeOK
<1>2. Reached'
  BY DEF Reached
<1>3. /\ Holding = {} /\ Holding' = (IF Empty(data) THEN {} ELSE {data})
      /\ Given' = Given /\ Frames(taken)' = Frames(n)
  BY DEF Holding, Empty, Given, Frames, LineFeeds
<1>4. Custody'
  BY <1>3 DEF Custody
<1>5. \A i \in DOMAIN delivered : delivered[i].last < taken + 1
  <2> SUFFICES ASSUME NEW i \in DOMAIN delivered PROVE delivered[i].last < taken + 1
    OBVIOUS
  <2>1. delivered[i] \in Frames(taken)
    BY DEF Custody, Given
  <2>2. delivered[i] \in Frame /\ delivered[i].last <= taken
    BY <2>1 DEF Frames
  <2>3. delivered[i].last \in Int /\ taken \in Int
    BY <2>2, FrameType, StdioAssumption DEF StdioAssumption, ReadTypeOK
  <2> QED BY <2>2, <2>3
<1>6. InOrder'
  BY <1>3, <1>5 DEF InOrder
<1> QED BY <1>1, <1>2, <1>4, <1>6

LEMMA ReadLineKeeps ==
  ASSUME RInv, ReadLine
  PROVE  RInv'
<1> USE DEF RInv
<1>1. /\ reader = "read" /\ reader' = "send" /\ ~ReadBlocks
      /\ UNCHANGED <<input, stream, loop, delivered, stopping, closed>>
  BY DEF ReadLine, ctlVars
<1>2. /\ taken = 0 \/ input[taken] = "lf"
      /\ taken \in Nat /\ Len(input) \in Nat /\ taken <= Len(input)
  BY <1>1 DEF Reached, ReadTypeOK
<1>3. \A i \in taken + 1..Len(input) : i \in Ahead <=> input[i] = "lf"
  BY DEF Ahead
<1>4. CASE Ahead # {}
  <2>1. PICK e \in Ahead : /\ \A i \in Ahead : e <= i
                           /\ taken' = e
                           /\ held' = [data |-> Trim(taken + 1, e), err |-> "nil"]
    BY <1>4 DEF ReadLine
  <2>2. e \in taken + 1..Len(input) /\ input[e] = "lf"
    BY DEF Ahead
  <2>3. \A i \in taken + 1..e - 1 : input[i] # "lf"
    BY <1>2, <1>3, <2>1, <2>2
  <2>4. Frames(e) = Frames(taken) \cup
          (IF Empty(Trim(taken + 1, e)) THEN {} ELSE {Trim(taken + 1, e)})
    BY <1>2, <2>2, <2>3, FramesGrow
  <2>5. /\ Trim(taken + 1, e) \in Interval
        /\ ~Empty(Trim(taken + 1, e)) =>
             Trim(taken + 1, e) \in Frame /\ Trim(taken + 1, e).first = taken + 1
    BY <2>2, TrimOf DEF Trim
  <2>6. e \in taken..Len(input)
    BY <1>2, <2>2
  <2> QED BY <1>1, <2>1, <2>2, <2>4, <2>5, <2>6, ReadUpTo
<1>5. CASE Ahead = {}
  <2>1. /\ taken' = Len(input) /\ stream \in {"eof", "error"}
        /\ held' = [data |-> IF taken = Len(input) THEN Nothing
                             ELSE Trim(taken + 1, Len(input)),
                    err  |-> stream]
    BY <1>1, <1>5 DEF ReadLine, ReadBlocks, ReadTypeOK
  <2>2. CASE taken = Len(input)
    <3>1. Empty(Nothing) /\ Nothing \in Interval
      BY StdioAssumption DEF StdioAssumption, Empty, Nothing, Interval
    <3>2. /\ taken \in taken..Len(input) /\ taken' = taken
          /\ held' = [data |-> Nothing, err |-> stream]
          /\ Frames(taken) = Frames(taken) \cup (IF Empty(Nothing) THEN {} ELSE {Nothing})
      BY <1>2, <2>1, <2>2, <3>1
    <3> QED BY <1>1, <2>1, <2>2, <3>1, <3>2, ReadUpTo
  <2>3. CASE taken # Len(input)
    <3> DEFINE n == Len(input)
    <3>1. n \in taken + 1..Len(input) /\ n \in taken..Len(input)
      BY <1>2, <2>3
    <3>2. \A i \in taken + 1..n - 1 : input[i] # "lf"
      BY <1>2, <1>3, <1>5
    <3>3. Frames(n) = Frames(taken) \cup
            (IF Empty(Trim(taken + 1, n)) THEN {} ELSE {Trim(taken + 1, n)})
      BY <1>2, <3>1, <3>2, FramesGrow
    <3>4. /\ Trim(taken + 1, n) \in Interval
          /\ ~Empty(Trim(taken + 1, n)) =>
               Trim(taken + 1, n) \in Frame /\ Trim(taken + 1, n).first = taken + 1
      BY <3>1, TrimOf DEF Trim
    <3> QED BY <1>1, <2>1, <2>3, <3>1, <3>3, <3>4, ReadUpTo
  <2> QED BY <2>2, <2>3
<1> QED BY <1>4, <1>5

\* What the recv loop does without being given anything.
LEMMA LoopKeeps ==
  ASSUME RInv, NEW how \in {"read", "eof", "cancelled"}, loop' = how,
         loop \in {"check", "read"},
         how = "eof" => closed \/ reader = "exited",
         UNCHANGED <<input, stream, taken, reader, held, delivered, stopping, closed>>
  PROVE  RInv'
<1> USE DEF RInv
<1>1. ReadTypeOK' /\ InOrder'
  BY DEF ReadTypeOK, InOrder, Holding
<1>2. Reached'
  BY DEF Reached, ReadTypeOK
<1>3. Frames(taken)' = Frames(taken) /\ Given' = Given /\ Holding' = Holding
  BY DEF Frames, LineFeeds, Given, Holding, Empty
<1>4. Custody'
  BY <1>3 DEF Custody
<1> QED BY <1>1, <1>2, <1>4

LEMMA GiveUpKeeps ==
  ASSUME RInv, GiveUp
  PROVE  RInv'
<1> USE DEF RInv, GiveUp, ctlVars
<1>1. ReadTypeOK' /\ Holding' = {}
  BY DEF ReadTypeOK, Holding
<1>2. Reached' /\ InOrder'
  BY <1>1 DEF Reached, InOrder
<1>3. Frames(taken)' = Frames(taken) /\ Given' = Given
  BY DEF Frames, LineFeeds, Given
<1>4. Custody'
  BY <1>1, <1>3 DEF Custody
<1> QED BY <1>1, <1>2, <1>4

LEMMA ReceiveKeeps ==
  ASSUME RInv, Receive
  PROVE  RInv'
<1> USE DEF RInv
<1> DEFINE got == held.err # "error" /\ ~Empty(held.data)
<1>1. /\ loop = "read" /\ reader = "send"
      /\ reader' = (IF held.err = "nil" THEN "read" ELSE "exited")
      /\ delivered' = (IF got THEN Append(delivered, held.data) ELSE delivered)
      /\ loop' = (IF held.err = "nil" \/ got THEN "check" ELSE held.err)
      /\ UNCHANGED <<input, stream, taken, held, stopping, closed>>
  BY DEF Receive, ctlVars
<1>2. ~Empty(held.data) => held.data \in Frame
  BY DEF Empty, Frame, ReadTypeOK, Interval
<1>3. held.err \in {"nil", "eof", "error"} /\ delivered \in Seq(Frame)
  BY DEF ReadTypeOK
<1>4. delivered' \in Seq(Frame) /\ ReadTypeOK'
  BY <1>1, <1>2, <1>3 DEF ReadTypeOK
<1>5. Holding = (IF Empty(held.data) THEN {} ELSE {held.data}) /\ Holding' = {}
      /\ Frames(taken)' = Frames(taken)
  BY <1>1 DEF Holding, Frames, LineFeeds
<1>6. got => Given' = Given \cup {held.data}
  BY <1>1, <1>2, <1>3 DEF Given
<1>7. ~got => Given' = Given
  BY <1>1 DEF Given
<1>8. Custody'
  BY <1>1, <1>3, <1>5, <1>6, <1>7 DEF Custody
<1>9. InOrder'
  BY <1>1, <1>2, <1>3, <1>5 DEF InOrder
<1>10. Reached'
  BY <1>1, <1>3 DEF Reached
<1> QED BY <1>4, <1>8, <1>9, <1>10

LEMMA StepRInv == RInv /\ [Next]_vars => RInv'
<1> SUFFICES ASSUME RInv, [Next]_vars PROVE RInv'
  OBVIOUS
<1> USE DEF readVars, ctlVars
<1>1. stream \in {"open", "eof", "error"} /\ stopping \in BOOLEAN /\ closed \in BOOLEAN
  BY DEF RInv, ReadTypeOK
<1>2. ASSUME NEW b \in Byte, Send(b) PROVE RInv'
  BY <1>2, SendKeeps
<1>3. ASSUME NEW how \in {"eof", "error"}, EndInput(how) PROVE RInv'
  BY <1>1, <1>3, RestKeeps DEF EndInput
<1>4. CASE ReadLine
  BY <1>4, ReadLineKeeps
<1>5. CASE GiveUp
  BY <1>5, GiveUpKeeps
<1>6. CASE Reads
  <2>1. CASE LoopCheck
    BY <2>1, LoopKeeps DEF LoopCheck
  <2>2. CASE ReadCancelled \/ ReadClosed \/ ReadExhausted
    BY <2>2, LoopKeeps DEF ReadCancelled, ReadClosed, ReadExhausted, ReadReturns
  <2>3. CASE Receive
    BY <2>3, ReceiveKeeps
  <2> QED BY <1>6, <2>1, <2>2, <2>3 DEF Reads
<1>7. CASE Stop \/ Close
  BY <1>1, <1>7, RestKeeps DEF Stop, Close
<1>8. ASSUME NEW w \in Writer, Writes(w) PROVE RInv'
  BY <1>1, <1>8, RestKeeps DEF Writes, WriteCheck, WriteLock, WriteHead, WriteTail, WriteStep
<1>9. CASE UNCHANGED vars
  BY <1>1, <1>9, RestKeeps DEF vars
<1> QED BY <1>2, <1>3, <1>4, <1>5, <1>6, <1>7, <1>8, <1>9 DEF Next

\* Every variable of the connection has its type, whatever the input.
THEOREM StdioTypeCorrect == Spec => []StdioTypeOK
<1>1. IInv /\ RInv => StdioTypeOK
  BY DEF IInv, WriteTypeOK, RInv, ReadTypeOK, StdioTypeOK
<1> QED BY <1>1, InitIInv, StepIInv, InitRInv, StepRInv, PTL DEF Spec

\* The recv loop is given the frames of the input, in their order, each once and
\* none missing, and learns of the end of the input after the last of them
\* (transport.go:38-39, stdio.go:107-109 and 140-142).
THEOREM FramesArrive == Spec => []FramesDelivered
<1>1. RInv => FramesDelivered
  <2> SUFFICES ASSUME RInv PROVE FramesDelivered
    OBVIOUS
  <2>1. ASSUME loop \in {"eof", "error"}, ~closed
        PROVE  loop = stream /\ taken = Len(input) /\ (loop = "eof" => Given = Frames(Len(input)))
    <3>1. reader = "exited" /\ held.err = loop /\ loop = stream /\ taken = Len(input)
      BY <2>1 DEF RInv, Reached
    <3>2. Holding = {}
      BY <3>1 DEF Holding
    <3>3. loop = "eof" => Frames(taken) = Given \cup Holding
      BY <2>1, <3>1 DEF RInv, Custody
    <3> QED BY <3>1, <3>2, <3>3
  <2> QED BY <2>1 DEF RInv, InOrder, Custody, FramesDelivered
<1> QED BY <1>1, InitRInv, StepRInv, PTL DEF Spec
=============================================================================
