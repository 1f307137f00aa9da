------------------------------ MODULE StdioConn ------------------------------
(***************************************************************************)
(* The stdio connection of internal/transport/stdio.go: the goroutine that *)
(* cuts the input into frames, the unbuffered channel to Read, the recv    *)
(* loop that calls Read (server.go), concurrent Write calls and Close.     *)
(*                                                                         *)
(* A byte of the input is a line feed, a carriage return or text; a frame  *)
(* is the pair of its first and last position, so that frames with equal   *)
(* text stay apart.                                                        *)
(***************************************************************************)
EXTENDS Integers, Sequences, FiniteSets

CONSTANTS MaxBytes,  \* how much the client sends
          Writer     \* goroutines that write one response each

ASSUME StdioAssumption == MaxBytes \in Nat /\ IsFiniteSet(Writer)

Byte == {"text", "cr", "lf"}

Nothing == [first |-> 1, last |-> 0]  \* a readResult without data

VARIABLES
  input,      \* the bytes the client has sent
  stream,     \* how the input goes on: "open", "eof" or "error"
  taken,      \* how many bytes readLoop has read
  reader,     \* readLoop: "read", "send", "exited"
  held,       \* the readResult it is sending: its data and its err
  loop,       \* recvLoop: "check", "read", or the way it ended
  delivered,  \* the frames it has been given
  writer,     \* [Writer -> where its Write is]
  wire,       \* the parts of frames written, and whether after Close
  stopping,   \* the context of Read is cancelled
  closed      \* the channel of that name is closed

readVars  == <<input, stream, taken, reader, held, loop, delivered>>
writeVars == <<writer, wire>>
ctlVars   == <<stopping, closed>>
vars      == <<readVars, writeVars, ctlVars>>

Interval == [first : 1..MaxBytes + 1, last : 0..MaxBytes]
Frame    == {f \in Interval : f.first <= f.last}
Part     == [by : Writer, part : {"head", "tail"}, late : BOOLEAN]

StdioTypeOK ==
  /\ input \in Seq(Byte) /\ Len(input) <= MaxBytes
  /\ stream \in {"open", "eof", "error"}
  /\ taken \in 0..Len(input)
  /\ reader \in {"read", "send", "exited"}
  /\ held \in [data : Interval, err : {"nil", "eof", "error"}]
  /\ loop \in {"check", "read", "eof", "error", "cancelled"}
  /\ delivered \in Seq(Frame)
  /\ writer \in [Writer -> {"call", "lock", "send", "half", "returned"}]
  /\ wire \in Seq(Part)
  /\ stopping \in BOOLEAN /\ closed \in BOOLEAN

Init ==
  /\ input = << >> /\ stream = "open" /\ taken = 0
  /\ reader = "read" /\ held = [data |-> Nothing, err |-> "nil"]
  /\ loop = "check" /\ delivered = << >>
  /\ writer = [w \in Writer |-> "call"] /\ wire = << >>
  /\ stopping = FALSE /\ closed = FALSE

-----------------------------------------------------------------------------
\* The client.

Send(b) ==
  /\ stream = "open" /\ Len(input) < MaxBytes
  /\ input' = Append(input, b)
  /\ UNCHANGED <<stream, taken, reader, held, loop, delivered, writeVars, ctlVars>>

EndInput(how) ==
  /\ stream = "open"
  /\ stream' = how
  /\ UNCHANGED <<input, taken, reader, held, loop, delivered, writeVars, ctlVars>>

-----------------------------------------------------------------------------
\* readLoop

Empty(frame) == frame.last < frame.first

\* trimLineEnding of input[first..last]: one line feed, then one carriage return.
Trim(first, last) ==
  LET l == IF last >= first /\ input[last] = "lf" THEN last - 1 ELSE last
  IN  [first |-> first,
       last  |-> IF l >= first /\ input[l] = "cr" THEN l - 1 ELSE l]

\* The line feeds not yet read.
Ahead == {i \in taken + 1..Len(input) : input[i] = "lf"}

\* ReadBytes blocks until it has a delimiter or the input has ended.
ReadBlocks == Ahead = {} /\ stream = "open"

\* ReadBytes and what is made of its result.  At a clean end of the input the
\* result has no data, but an err: it is sent.
ReadLine ==
  /\ reader = "read" /\ ~ReadBlocks
  /\ reader' = "send"
  /\ IF Ahead # {}
       THEN \E e \in Ahead :
              /\ \A i \in Ahead : e <= i
              /\ taken' = e
              /\ held' = [data |-> Trim(taken + 1, e), err |-> "nil"]
       ELSE /\ taken' = Len(input)
            /\ held' = [data |-> IF taken = Len(input) THEN Nothing
                                 ELSE Trim(taken + 1, Len(input)),
                        err  |-> stream]
  /\ UNCHANGED <<input, stream, loop, delivered, writeVars, ctlVars>>

\* Mutant: readLoop does not watch closed while it sends.
NeverGivesUp == FALSE

\* The send gives way to Close; what was read is dropped.
GiveUp ==
  /\ reader = "send" /\ closed
  /\ reader' = "exited"
  /\ UNCHANGED <<input, stream, taken, held, loop, delivered, writeVars, ctlVars>>

-----------------------------------------------------------------------------
\* recvLoop and Read

LoopCheck ==
  /\ loop = "check"
  /\ loop' = IF stopping THEN "cancelled" ELSE "read"
  /\ UNCHANGED <<input, stream, taken, reader, held, delivered, writeVars, ctlVars>>

\* Read, with a choice when several cases of its select are ready.
ReadReturns(how) ==
  /\ loop = "read"
  /\ loop' = how
  /\ UNCHANGED <<input, stream, taken, reader, held, delivered, writeVars, ctlVars>>

ReadCancelled == stopping /\ ReadReturns("cancelled")
ReadClosed    == closed /\ ReadReturns("eof")

\* Mutant: readLoop does not close incoming.
NeverExhausted == FALSE

\* incoming is closed by the exit of readLoop.
ReadExhausted == reader = "exited" /\ ReadReturns("eof")

\* Mutant: data that came with the end of the input is not looked at.
ReceiveNoTrailing ==
  /\ loop = "read" /\ reader = "send"
  /\ reader' = IF held.err = "nil" THEN "read" ELSE "exited"
  /\ loop' = IF held.err = "nil" THEN "check" ELSE held.err
  /\ delivered' = IF held.err = "nil" /\ ~Empty(held.data)
                    THEN Append(delivered, held.data) ELSE delivered
  /\ UNCHANGED <<input, stream, taken, held, writeVars, ctlVars>>

\* Mutant: recvLoop does not skip a frame without data.
ReceiveBlank ==
  /\ loop = "read" /\ reader = "send"
  /\ reader' = IF held.err = "nil" THEN "read" ELSE "exited"
  /\ delivered' = IF held.err = "nil" THEN Append(delivered, held.data)
                  ELSE delivered
  /\ loop' = IF held.err = "nil" THEN "check" ELSE held.err
  /\ UNCHANGED <<input, stream, taken, held, writeVars, ctlVars>>

\* The rendezvous of readLoop's send and Read's receive.  Data that came with
\* the end of the input is delivered, data that came with another error is not;
\* recvLoop skips a frame without data.
Receive ==
  /\ loop = "read" /\ reader = "send"
  /\ reader' = IF held.err = "nil" THEN "read" ELSE "exited"
  /\ LET got == held.err # "error" /\ ~Empty(held.data)
     IN  /\ delivered' = IF got THEN Append(delivered, held.data) ELSE delivered
         /\ loop' = IF held.err = "nil" \/ got THEN "check" ELSE held.err
  /\ UNCHANGED <<input, stream, taken, held, writeVars, ctlVars>>

-----------------------------------------------------------------------------
\* Write and Close

WriteStep(w, from, to) ==
  /\ writer[w] = from
  /\ writer' = [writer EXCEPT ![w] = to]
  /\ UNCHANGED <<readVars, ctlVars>>

\* The context of the call, or the connection, may be done.
WriteCheck(w) ==
  /\ \/ WriteStep(w, "call", "returned")
     \/ ~closed /\ WriteStep(w, "call", "lock")
  /\ UNCHANGED wire

\* Mutant: Write does not take writeMu.
WriteUnlocked(w) ==
  /\ WriteStep(w, "lock", IF closed THEN "returned" ELSE "send")
  /\ UNCHANGED wire

\* Mutant: Write looks at closed only before it takes the lock.
WriteOneLook(w) ==
  /\ \A v \in Writer : writer[v] \notin {"send", "half"}
  /\ WriteStep(w, "lock", "send")
  /\ UNCHANGED wire

\* writeMu, held by the writer at "send" or "half", and the second look.
WriteLock(w) ==
  /\ \A v \in Writer : writer[v] \notin {"send", "half"}
  /\ WriteStep(w, "lock", IF closed THEN "returned" ELSE "send")
  /\ UNCHANGED wire

\* The writer takes a frame in parts, and may fail before each of them.
WriteHead(w) ==
  \/ /\ WriteStep(w, "send", "half")
     /\ wire' = Append(wire, [by |-> w, part |-> "head", late |-> closed])
  \/ WriteStep(w, "send", "returned") /\ UNCHANGED wire

WriteTail(w) ==
  /\ WriteStep(w, "half", "returned")
  /\ \/ wire' = Append(wire, [by |-> w, part |-> "tail", late |-> closed])
     \/ UNCHANGED wire

Stop ==
  /\ ~stopping /\ stopping' = TRUE
  /\ UNCHANGED <<readVars, writeVars, closed>>

Close ==
  /\ ~closed /\ closed' = TRUE
  /\ UNCHANGED <<readVars, writeVars, stopping>>

-----------------------------------------------------------------------------
Reads  == \/ LoopCheck \/ ReadCancelled \/ ReadClosed \/ ReadExhausted \/ Receive
Writes(w) == WriteCheck(w) \/ WriteLock(w) \/ WriteHead(w) \/ WriteTail(w)

Next ==
  \/ \E b \in Byte : Send(b)
  \/ \E how \in {"eof", "error"} : EndInput(how)
  \/ ReadLine \/ GiveUp \/ Reads \/ Stop \/ Close
  \/ \E w \in Writer : Writes(w)

\* readLoop and recvLoop run when they can.  Nothing is assumed of the client, of
\* the writers, of Stop or of Close.
Fairness ==
  /\ WF_vars(ReadLine \/ GiveUp)
  /\ WF_vars(Reads)

Spec == Init /\ [][Next]_vars /\ Fairness

-----------------------------------------------------------------------------
\* PROPERTIES

LineFeeds == {i \in 1..Len(input) : input[i] = "lf"}

\* What newline framing says of the first n bytes: a frame is what stands from
\* one line feed to the next, or to the end, less one carriage return, unless
\* nothing is left.
Frames(n) ==
  LET Ends(i) == i \in LineFeeds \/ i = n + 1
  IN  {frame \in Frame :
         /\ frame.last <= n
         /\ frame.first - 1 \in LineFeeds \cup {0}
         /\ \A i \in frame.first..frame.last : i \notin LineFeeds
         /\ \/ Ends(frame.last + 1) /\ input[frame.last] # "cr"
            \/ /\ frame.last < n /\ input[frame.last + 1] = "cr"
               /\ Ends(frame.last + 2)}

Given   == {delivered[i] : i \in DOMAIN delivered}
Holding == IF reader = "send" /\ ~Empty(held.data) THEN {held.data} ELSE {}

\* The recv loop is given the frames of the input in their order, each once, and
\* none that has been read is missing but the one readLoop holds; only Close and
\* a read error lose that one (transport.go:38-39, stdio.go:140-142).  What ends
\* the loop is what ended the input, and by then it has had every frame before the
\* end (stdio.go:107-109).
FramesDelivered ==
  /\ \A i, j \in DOMAIN delivered :
       i < j => delivered[i].last < delivered[j].first
  /\ Given \subseteq Frames(taken)
  /\ ~closed /\ ~(reader = "exited" /\ held.err = "error") =>
       Frames(taken) = Given \cup Holding
  /\ loop \in {"eof", "error"} /\ ~closed =>
       /\ loop = stream /\ taken = Len(input)
       /\ loop = "eof" => Given = Frames(Len(input))

\* Frames on the wire are never interleaved (transport.go:34-35): the parts of a
\* frame stand side by side, whatever the other writers do; only a frame that
\* the underlying writer took in part lacks its second.
Torn(w) == writer[w] = "returned" /\ \A i \in DOMAIN wire :
             wire[i].by = w => wire[i].part = "head"

WholeFrames ==
  \A i \in DOMAIN wire :
    IF wire[i].part = "tail"
      THEN i > 1 /\ wire[i - 1].part = "head" /\ wire[i - 1].by = wire[i].by
      ELSE i < Len(wire) => wire[i + 1].by = wire[i].by \/ Torn(wire[i].by)

\* Once closed, the connection puts at most one more frame on the wire, that of
\* the writer that had taken its second look (stdio.go:170-176).
LastFrame ==
  Cardinality({i \in DOMAIN wire : wire[i].part = "head" /\ wire[i].late}) <= 1

\* The end of the input reaches the recv loop, and a cancelled context or Close
\* unblocks a pending Read (transport.go:31-32).
LoopEnds == stream # "open" \/ stopping \/ closed ~> loop \notin {"check", "read"}

\* After Close readLoop ends, unless it is blocked in a read of the input
\* (stdio.go:90-94).
ReaderEnds == closed ~> reader = "exited" \/ (reader = "read" /\ ReadBlocks)
=============================================================================
