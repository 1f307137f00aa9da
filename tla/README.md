# TLA+ models of openPic-mcp

openPic-mcp is an MCP server over stdio that forwards image work to an
OpenAI-compatible API.  Its own logic is the asynchronous task layer (a task
store with a retention window, a worker pool, four tools), the persistence of
tasks across restarts, the request engine with its connection, the image tools
from their arguments to the files they leave, and the reading of configuration.
This directory holds TLA+ modules for that logic, configurations that check
them with TLC, and proofs checked with TLAPS.

## 1. The system

| Component | Source (under `src/`) | State | Operations |
|---|---|---|---|
| Task lifecycle | `internal/taskstore/task.go` | none (a table) | `canTransition` |
| Store interface | `internal/taskstore/store.go` | the promises callers rely on | Submit, Get, List, Cancel, Transition, Wait, RegisterCancel, Close |
| Memory store | `internal/taskstore/memory.go` | map of records, `queued`, `running`, retention heap, done channels, cancel funcs, `closed` | the above and `restore` |
| Disk store | `internal/taskstore/disk.go` | one manifest per task | hooks `persistManifest`, `deleteManifest`; replay in `NewDisk` |
| Dispatcher | `internal/tools/dispatcher.go` | buffered channel, `closed`, `running` map, worker goroutines | Dispatch, runJob, AbandonRunning, Close |
| Async tools | `internal/tools/async.go` | none of their own | submit_image_task, get_task_result, list_tasks, cancel_task |
| Engine | `internal/server/server.go` | work queue, inflight counts, workers, metrics | recvLoop, runJob, execute, Run's shutdown |
| Cancellation registry | `internal/protocol/cancellation.go` | request id to cancel func | Register, Cancel, Done |
| Protocol handler, router | `internal/protocol/{mcp,router,jsonrpc}.go` | `initialized`, method map | HandleMessage |
| Transport | `internal/transport/stdio.go` | incoming channel, `closed`, write lock | readLoop, Read, Write, Close |
| Tool manager | `internal/service/tool/manager.go` | map of tools | Register, Execute, argument validation |
| Image tools, provider, image decoding | `internal/tools/*.go`, `internal/provider`, `internal/image` | none of their own | generate_image, edit_image, describe_image, compare_images: arguments, one request upstream, the reply |
| Output files | `internal/tools/{output_path,image_result}.go` | the output directory | imageToolResult, writeImageBytes |
| Retry | `internal/retry`, `internal/errors` | options its callers may share | DoWithResult and its variants, shouldRetry, calculateDelay; nothing in the program calls it |
| Configuration | `internal/config` | read once | Load, and a layered reader that `main` does not use |
| Wiring | `cmd/vision-mcp/main.go` | none | start-up, signal, tear-down |

How they interact.  The engine's recv loop reads frames from the transport,
runs short methods itself and hands `tools/call` to its workers; those call
the protocol handler, the tool manager and the tools.  `submit_image_task`
admits a task to the store and sends a job to the dispatcher's channel; a
dispatcher worker registers a cancel func with the store, publishes it in its
own map, moves the task to running, calls the image handler and records the
end.  `cancel_task` calls the store, which calls the worker's cancel func
through the record.  A long poll blocks on the record's done channel.  Every
transition calls the disk hooks under the store's write lock.  The image tools
run on the engine's workers or on the dispatcher's, several at a time, and meet
in the output directory, where each creates the files it names.  On a signal or
the end of input, `Run` calls `AbandonRunning`, closes its queue, waits for its
workers and returns; `main` then closes the dispatcher and the store.

What is hard to test here: three goroutines (submitter or canceller, worker,
shutdown) move the same task, each through several separately locked steps;
what was read under one lock is used after it; the store keeps redundant
bookkeeping (counters, heap, channels) beside the records; eviction order
follows a wall clock; the process may be killed between two hooks and started
again with another PID; a connection is closed, a context cancelled or the
input broken off while a frame is in flight; calls race for a file name and
fail after some of their images; no single place looks at all of a tool's
arguments; retry options are shared and rewritten.  `PROJECT.json` lists each hazard with its line and the
properties that watch it.

What makes each component correct:

* lifecycle and store: a task moves only along `allowedTransitions`; what is
  derived from the records agrees with them; the window evicts the oldest ended
  record and nothing else; an ended record does not change;
* disk store: the manifest of a task follows its record and never moves
  backwards, whatever crashes; a restart leaves no task that nobody will end;
* dispatcher and tools: every admitted task is always in somebody's hands and
  ends; nothing is sent on a closed channel; a successful cancel ends the task
  and interrupts its worker;
* shutdown: it completes, and leaves no live task of this process;
* engine and registry: a drain loses no reply, and the connection is
  closed over an idle engine; the inflight count is exact; a call in the queue or
  with a worker keeps its cancel func in the registry and leaves no entry behind;
  the shutdown ends whatever the tools do;
* transport: frames arrive once and in order and are written whole; after a close
  at most the frame that was past its last look is written, and both loops end;
* image tools and files: what is documented of the arguments is let through and
  nothing else, in the size and with the images it names; a call that may not
  overwrite touches no file of another; a successful reply accounts for every
  image and every file;
* configuration and retry: the two readers of one environment agree; an
  operation is called again only for an error that may pass, within its budget,
  after a bounded wait, and not after its context has ended.

## 2. Modules

| Module | Models | Composition |
|---|---|---|
| `TaskStates` | the states and `AllowedTransitions` | extended by the next two |
| `StoreContract` | the `Store` interface, as an abstract specification | instantiated by `TaskStore` |
| `TerminalHeap` | `terminalHeap` over Go's `container/heap` | given to the stores as `HeapPush`, `HeapPop` by the MC modules |
| `TaskStore` | `MemoryStore` | `Contract == INSTANCE StoreContract` |
| `AsyncTasks` | dispatcher, async tools, shutdown sequence | extends `TaskStore` |
| `DiskStore` | `DiskStore`: hooks, kill, restart, replay | extends `TaskStore` |
| `Engine` | `Server`, `CancellationRegistry`, the `initialized` flag of `MCPHandler`, `ioConn`'s Read, Write and Close as the engine sees them | on its own |
| `StdioConn` | `ioConn` itself: framing, the channel to Read, the write lock, Close | on its own |
| `ToolArguments` | what the schema, the submit handler and the image handlers look at in a call's arguments, and what they make of them | extended by `ImageCalls` |
| `ImageCalls` | the image tools, their upstream and the files they write | extends `ToolArguments` |
| `Settings` | `config.Load` and the layered configuration | extended by `Configured` |
| `Retry` | `retry.DoWithResult` and its variants | extended by `Configured` |
| `Configured` | a process that reads both configurations and shares the retry options made of them | extends `Settings`, `Retry` |
| `MCTaskStore`, `MCAsyncTasks`, `MCDiskStore`, `MCEngine`, `MCStdioConn`, `MCImageCalls`, `MCConfigured` | constants for TLC | extend their module |
| `TaskStoreProofs` | `TaskStore`: types, bookkeeping, order of eviction; it implements `StoreContract` | extends `TaskStore` |
| `AsyncProofs` | types and shutdown order of `AsyncTasks` | extends `TaskStoreProofs`, `AsyncTasks` |
| `CustodyProofs` | who holds a task in `AsyncTasks` | extends `AsyncProofs` |
| `DiskProofs` | `DiskStore`: types, manifests against records, their order in time, the size of the directory | extends `TaskStoreProofs`, `DiskStore` |
| `EngineProofs` | theorems about `Engine` | extends `Engine` |
| `StdioProofs` | `StdioConn`: types, frames read, frames written | extends `StdioConn` |
| `ImageProofs` | `ImageCalls`: types, requests, files, replies | extends `ImageCalls` |
| `ConfiguredProofs` | `Configured`: the two readings, the retry policy | extends `Configured` |

### State and code

`TaskStore` keeps one function per field of a record (`state`, `owner`,
`finishedAt`) and a set for each yes-or-no field (`done`, `attached`), beside
`heap`, `queued`, `running` and `closed` under their own names.  A task without
a record is `"unborn"` or `"evicted"`; the two are told apart so that
identifiers are never reused.  `fired` is the set of job contexts that have
been cancelled.  An operation under the write lock is one action; an operation
that is refused changes nothing, hence is a stutter, and callers that act on
the refusal test `Admissible` and `Accepts`.  `Cancel` alone is split, at the
points where the code holds no lock: `CancelRead` (under the read lock),
`CancelFire` (the cancel func), `CancelMark` (the Transition).  `Settle` is the
terminal part of `applyStateChange` with the eviction loop, which runs at most
once because the window was respected before the push.  `owner` is relative to
the running process: `"self"` or `"peer"`.  Start-up is part of the model
(`stage`): manifests are restored in any order, then the process's own live
ones are abandoned, then the store serves.

`AsyncTasks` gives each goroutine a program counter.  The steps of a worker
are those of `runJob` (register, publish, start, run, record, clean up); a
submit is Submit, the check and the send of Dispatch, the rollback, the reply;
a cancel is the three steps of the store and the reply; a long poll is lookup,
select, answer.  `phase` runs through `recvLoop`'s end, the snapshot, the walk
and the return of `AbandonRunning`, the wait for the calls being served,
`Dispatcher.Close` in its two steps, and the end of `main`.

`DiskStore` puts each action of `TaskStore` together with the hooks it fires:
`hooks` holds what they have yet to do, and no operation takes the lock before
it is empty, as in the code, where hooks run under the write lock.  `RunHook`
does one of them, or fails when `DiskFails`.  `Restart` may come between any
two steps, loses memory, keeps `disk`, and picks a PID.

`Engine` has one actor per goroutine that can execute a request: the workers
and the recv loop, which serves short messages and, when the queue is full, a
`tools/call` too.  `at` is where an actor stands in `recvLoop`, `runJob`,
`runOnLoop`, `execute` or `Write`, `job` the call it holds.  A step ends where
the code lets another goroutine see a difference: `Register` and `Cancel` are
split between the mutex and the call of the cancel func, `Write` into the first
look at the context and the connection, the lock with the second look, and the
write; `writeMu` is held by whoever stands at `"send"`.  The deferred function
of `runJob` is `RegistryDone`, `JobCount`, `Release`, in its order.  A context is
one value per call (`ctx`), and `CtxDone` adds the engine's own; `KeyOf` gives
each call the key `normalizeID` makes of its id, so that calls may share one.
`phase` follows `Run` past the recv loop: the wait, the forced wait, the close,
the wait for the workers.  The abandon hook is called in `EndLoop` and touches
nothing here; what it does is in `AsyncTasks`.

`StdioConn` has three kinds of goroutine.  `readLoop` is `reader` with the
result it is about to send (`held`); Read and the recv loop that calls it are
`loop`, and `Receive` is their rendezvous on the unbuffered channel.  A byte is
text, a carriage return or a line feed, and a frame is the pair of its first
and last position in `input`, so that two frames with equal text stay apart.
A `Write` is its check, the lock with the second look, and two parts, before
each of which the writer below may fail; `wire` records the parts in the order
they were written, and whether that was after `Close`.

`ImageCalls` has one call per actor.  A call shares nothing with another until
it opens a file, so everything a handler does before its request is one step;
from then on each call of package `os` is one.  The arguments are one record
(`args`) with the fields all four tools look at, each with the values the code
tells apart; `ToolArguments` has an operator for each function that looks at
them, in the code's order of looking.  An image of an answer is the record of
what decoding will find in it.  A file name is a record whose `n` is the number
behind the name (1 for none), and `file` remembers beside the content who has
opened a file, which the properties need.

`Settings` represents a text by what the parsers make of it, and one field
stands for all that are read in the same way.  `Retry` represents an error by
its Go type and its code; the delay is computed as in the code, float overflow
included, with jitter in quarters.  `Configured` puts both together: a process
that calls `Load`, as `main` does, builds the extended configuration from
environment, file and run-time options, and lets several goroutines retry with
its options.  The packages are written for this use; `main` calls `Load` only.

## 3. What is checked

| Run | Properties | Shows |
|---|---|---|
| `store` | `TypeOK`, `Bookkeeping`, `Implements`, `OldestEvicted`, `EndedUnchanged` | counters, heap, channels and stamps agree with the records; `MemoryStore` refines `StoreContract`; eviction takes the oldest; ended records stay as they are when cancels do not overlap |
| `async` | `AsyncTypeOK`, `NoGhostTask`, `RunningIsPublished`, `NoSendAfterClose`, `FullOnlyOfStaleJobs`, `CancelledIsOver`, `ExitLeavesNoLiveTask` | safety of the task layer in every interleaving, with deadlock checking |
| `async_live` | `EveryTaskEnds`, `ShutdownCompletes` | progress |
| `disk` | `DiskTypeOK`, `ManifestsAgree`, `DirectoryWithinWindow`, `ManifestsMoveForward` | manifests through crashes, restarts and failing writes |
| `engine` | `TypeOK`, `InflightExact`, `ClosedAfterDrain`, `NoReplyLost`, `CompletedLeavesNoEntry`, `ReachableByCancel` | safety of the engine, with deadlock checking; the last is an action property: no step loses the cancel func of a queued or running call |
| `engine_live` | `RunReturns`, `StopHeeded`, `InterruptFrees` | the shutdown ends, signals and cancellations take effect |
| `stdio` | `StdioTypeOK`, `FramesDelivered`, `WholeFrames`, `LastFrame`, `LoopEnds`, `ReaderEnds` | every short input, ended or broken off anywhere, is cut into frames as newline framing says; frames on the wire stay whole, one at most follows a close; both loops end |
| `images` | `ImagesTypeOK`, `RequestFollowsArguments`, `FilesKept`, `ReplyAccounts`, `EveryCallEnds` | which arguments reach upstream and as what, which files survive two calls that write the same names, and what a successful reply says of them |
| `configured` | `LayersAgree`, `RetryPolicy` | the strict and the forgiving reader of every environment in which one setting varies; retries under the options that come of it |

Runs that end in a violation, each a disagreement between the code and what
its documentation or comments say (`PROJECT.json`, "findings"):

| Run | Property | What the code does |
|---|---|---|
| `missed_cancel` | `CancelReachesWorker` | a cancel that overlaps the start of a task marks it and never interrupts it |
| `empty_reply` | `ReplyNamesTask` | a reply may show a zero task when the record was evicted meanwhile |
| `restart_ghost` | `RestartLeavesNoGhost` | live tasks of a dead process with another PID stay live for ever |

Other things the models made visible, none of which a run is spent on:

* Two overlapping cancels of one task: `alreadyTerminal` is read under the read
  lock (`memory.go:253`), the transition to the same state is accepted, and the
  second cancel rewrites the stamp of an ended task.  `store.cfg` with two
  cancellers gives the counterexample to `EndedUnchanged`.
* Tasks that are queued when the shutdown begins are not abandoned, as
  `README.md:380` has it, but run: `AbandonRunning` looks at running tasks only,
  and `Close` lets the workers drain the channel (`dispatcher.go:189`).  They
  do end (`ExitLeavesNoLiveTask`).
* The ids `1` and `"1"` have one key in the registry (`cancellation.go:118`-`127`),
  so that a call can displace or cancel another with a different id.
* A negative `VISION_MAX_RETRIES` makes `DoWithResult` return the zero value and
  no error without calling anything; a delay whose float overflows becomes a
  negative Duration, which is no wait.  `RetryPolicy` states the first and
  allows the second.
* An asynchronous call is not held against the tool's schema (`async.go:218`);
  the handler looks again at part of it only, so that for instance an unknown
  argument or a fractional `n` passes (`Forgiven`).
* `aspect_ratio` is not looked at when a `size` is given.
* A relative `output_dir` or `OPENPIC_OUTPUT_DIR` is refused under
  `response_format=b64_json` too (`output_path.go:116`), where `generate.go:61`,
  `edit.go:62` and `README.md:602`, `650` say the directory is ignored
  (`README.md:741`, that it is refused, makes no exception).
  `RequestFollowsArguments` follows the tools' own description and names the
  refusal as its one exception.
* An image text of white space alone is not empty to `edit.go:84`, `describe.go:46`,
  `compare.go:77` and `async.go:225`; it is trimmed and decoded to no bytes, and
  these go upstream as an image.  A mask of white space sends no mask at all
  (`image_edit.go:40`).
* The package comment of the engine has the connection closed before the queue is
  drained (`server.go:15`-`18`).  The code drains first and closes last
  (`server.go:293`-`296`, `336`-`338`), as `README.md:317`-`322` has it;
  `ClosedAfterDrain` states the latter, so the package comment is out of date.
* While the recv loop runs a tool itself, for want of room in the queue, it reads
  no notification: that call cannot be cancelled, and a cancellation of another
  waits for it.  `ReachableByCancel` speaks of the other calls only, and
  `StopHeeded` excepts that tool.
* Of two requests with one id the first to end drops the cancel func of the second
  (`cancellation.go:105`), which can then not be cancelled.  `ReachableByCancel`
  names this as its one exception (`OtherEnds`).
* A file name is given up after ten tries, while `README.md:739` promises one
  that is unique; the files of the first images stay, whole (`FilesKept`), when a
  later one fails, and no reply names them.

### Bounds

* `store`: three tasks to submit and one that a manifest names, a window of two,
  the least with which the heap holds three elements and sifting has a choice.
  `async` has two tasks, which already compete for a window of one, and a
  cancelled one can occupy the channel while the other is sent.
* `MaxQueued` is 1 or 2 so that admission is refused, `MaxRetained` 1 or 2 so
  that eviction happens.
* `MaxTime` bounds clock readings: one suffices where order in time is not the
  question (in `AsyncTasks` the clock stands still: times order only what is
  evicted), two give earlier, equal and later stamps.
  `ClockStepsBack` is on where the properties must survive it (`store`) and off
  where they are stated of a forward clock (`disk`).
* `store` has one canceller, since two falsify `EndedUnchanged` as said above.
* Two workers, two submitters and two cancellers in `async`: every race the
  code has is between two goroutines of one kind or two of different kinds.  It
  has no long polls, which change nothing another goroutine sees; `async_live`
  has one of each kind, with a manifest of another process for the poll to wait
  on.
* `MaxRestarts` is 2 and `PID` has two values: a restart with the same PID and
  with another, and a third process that finds what the second left.
* `engine`: three calls, one worker and a queue of one are the least with which
  one call is served by the worker, one waits and one falls back to the recv
  loop, all at once; two of them share an id, the third has its own.  The worker
  and the recv loop are the two actors that contend for the write lock and
  release registry entries.  `engine_live` has two calls, one of them without
  an id, and no request timeout, so that nothing but a cancellation or the
  shutdown makes a hanging tool return.  Messages are not counted: the recv
  loop may serve any number.
* `stdio`: three bytes (`MaxBytes`) hold a frame with its line ending before a
  trailing one, a blank line between or after them, and a bare carriage return;
  two writers contend for the lock.
* `images`: one call takes any of the arguments that are right or wrong in one
  respect, and of the pairs that interact (a size with an aspect ratio, `b64_json`
  with a directory); the other writes two images under
  the same name, with or without leave to overwrite.  There is one time stamp
  and random part (`Tag`), so names always collide, and `MaxRetries` is 2 where
  the code has 9, so that with one suffix taken at the start (`Before`) the
  budget does run out.
* `configured`: one setting at a time takes every text, under each of its
  names, with and without the file and the run-time options, one of which hides
  the base URL of the environment behind an empty one; the retry amounts
  are small numbers and `DurationLimit` is 40, so that the delay passes the
  maximum and overflows within four attempts.
* Symmetry is used in runs without liveness: nothing orders tasks, workers or
  callers but their times.

`CHECK_DEADLOCK FALSE` stands where the system may stop: a store nobody calls,
whose clock has reached `MaxTime` (`store`, `disk`); a connection whose client
has nothing more to say (`stdio`); tool calls that have all been answered
(`images`); a process without a configuration, or whose operations have all
returned (`configured`).  `async` and `async_live` check deadlock, where the
only final state is `Gone`, and so do the two runs of `Engine`, where it is
`Stopped`.

### Fairness

`FairAsyncSpec` assumes weak fairness of start-up, of each worker, of each call
being served and of the shutdown: goroutines that can run do.  It includes that
an image handler returns, which the provider's HTTP client timeout justifies
(`config.go:14`, `openai.go:46`), and that a long poll ends, which its own
timeout does (`async.go:325`, `338`).  Nothing is assumed of clients, signals or the
clock.

`Engine`'s `Spec` assumes weak fairness of the recv loop (but not that a frame
ever arrives), of the workers and actors, and of `Run` with its two timers.
Here a tool need *not* return: only one whose context is done does, since tools
pass it to every request they make (`README.md:303`).  `WriteLock` has strong
fairness, which is Go's starvation mode of `sync.Mutex`: a waiter may be
overtaken, but not for ever.  That `WriteSend` ends assumes that the client
reads its pipe.

`StdioConn` assumes weak fairness of its two loops, and nothing of the client,
the writers, the context or `Close`.  `ImageCalls` assumes that a handler runs
when it can and that a request ends one way or another: the HTTP clients of the
provider and of the encoder have timeouts (`openai.go:45`-`47`,
`encoder.go:26`-`29`).

## 4. What is proved

`TaskStoreProofs`, for every finite set of tasks, every set of cancel calls and
all bounds:

* `TypeCorrect`: `Spec => []TypeOK`;
* `BookkeepingAlways`: `Spec => []Bookkeeping`, that is `CountersAgree`,
  `HeapHoldsRetained`, `HeapWithinWindow`, `ReleasedWhenOver`,
  `StampedWhenOver`.

* `StoreImplements`: `Spec => Implements`, the refinement of `StoreContract`;
* `OldestGoes`: `Spec /\ []CancelsApart => OldestEvicted`;
* `EndedStays`: `Spec /\ []CancelsApart => EndedUnchanged`.

Assumptions: `ConstantsAssumption` (bounds are positive, tasks are finitely
many) and `HeapAssumption`, which says of `container/heap` only that Push adds
its element and Pop removes the root without losing, duplicating or inventing
another.  `OldestGoes`, and the theorems of `DiskProofs` that need a forward
clock, use `HeapOrderAssumption` besides: Push and Pop keep the order of the
heap, and an element that is before none of the others stays where Push appends
it.  TLC evaluates all three on the constants of each run, those on the heap for
the exact heap of `TerminalHeap`: every slice, every assignment of times.

The argument: `IInv` is `TypeOK`, `Bookkeeping` and `CallsNameTasks` (a cancel
under way knows a task, without which `CancelMark` could act on none).
`Bookkeeping` has to be carried as a whole: that `Settle` evicts at most one
record, and a terminal one, needs that the heap holds exactly the ended
records and respects the window.  `SettleEnds` describes that step,
`CountersAfterEnd` what it does to the counters through the cardinality
lemmas, and `EndKeeps` joins them for the four actions that end a task; the
other actions have a lemma each.

The refinement mapping is the identity on the contract's variables.  What has to
be shown is that a step of the store does to the states no more than the
contract allows: `SettleMoves` reads it off the bookkeeping an ending leaves,
`WithinWindow` bounds the retained records by the length of the heap.

That eviction takes the oldest needs that the root of a heap is before no other
element.  `RootLeast` shows it without induction over the tree: a finite set of
numbers has a least one (`LeastElement`, from the well-foundedness of finite
subsets), and the least *position* of an element before the root would have a
parent that is one too.  `OInv` adds to `IInv` that the heap is in order and
`CallsFresh`, that no cancel in flight is about to rewrite the stamp of a task
cancelled meanwhile.  The hypothesis `CancelsApart`, that no two cancels of one
task are under way at once, is what `CallsFresh` rests on, and it is necessary:
two that overlap falsify `EndedUnchanged`, and rewrite a key where it stands in
the heap (section 3).  One canceller, as in the run `store`, satisfies it.  The
clock may be set back.

`EngineProofs`, for every finite set of calls and workers, every assignment of
keys to calls and every queue size (`EngineAssumption`):

* `TypeCorrect`: `Spec => []TypeOK`;
* `InflightAlways`: `Spec => []InflightExact`;
* `CloseIsLast`: `Spec => []ClosedAfterDrain`;
* `RepliesAlways`: `Spec => []NoReplyLost`;
* `LedgerNeverLeaks`: `Spec => []CompletedLeavesNoEntry`;
* `ReachableAlways`: `Spec => ReachableByCancel`, an action property.

The argument for the first four has three layers.  `TInv` adds to the types where each kind of
actor can stand and what it then holds: a worker past `"idle"` has a call, the
recv loop stands at `"ended"` exactly when `phase` has left `"serving"`.  `IInv`
adds `InflightExact` and `DrainedStays`: since the recv loop alone sends and has
ended, a count of zero, which `Drained` reads, means an empty queue and idle
actors, and nothing can refill them afterwards.  `CloseIsLast` is a
consequence.  `RInv` then follows each call: it is unread, or accounted for
(written, failed, cancelled), or *owed*, that is queued or in the hands of an
actor that has still to write or to log.  A step moves a call from one of these
to the next only (`OwedStep`); a `Write` refused by a closed connection would
break that, and `CloseIsLast` excludes it.  With `engineDone` the last layer
says nothing, because a forced shutdown does drop replies.

The last two rest on `LInv`, which follows a call through the registry: it is in
the queue or with one actor, and once only (`Single`); an entry stands under its
own call's key while that call is neither waiting to be registered nor over
(`Entries`); a call is counted last, when its context is no longer live
(`Counts`); the recv loop has a cancel func in hand only on its way to call it
(`InHand`), so `Register` and `Cancel` overwrite none.  `Classes` reduces the
steps to a dozen kinds.  `Done` and `Register` touch the key only, not the call,
and so the entry of a call can go for another's sake: `ReachableByCancel` is stated
of steps, and allows the end of another call of the id (`OtherEnds`), nothing
else.  `StepKeeps` shows for each kind of step that an entry stays or its func is
in the loop's hands, `StepAims` that the func taken out is that of the id named.

`DiskProofs`, for every set of tasks and identifiers of processes and any number
of kills and restarts (`DiskAssumption`, and the assumptions above):

* `DiskTypeCorrect`: `DiskSpec => []DiskTypeOK`;
* `ManifestsFollow`: `DiskSpec => []ManifestsAgree`;
* `DirectoryStaysWithin`, `ManifestsAdvance`, `HooksWriteRecords`, if
  `~ClockStepsBack`: `DirectoryWithinWindow`, `ManifestsMoveForward`, and that a
  hook writes only what the record says (`WritesArePresent`).

`ManifestsAgree` speaks of moments without a pending hook, and a kill may come
between two hooks, so the invariant `DInv` carries what the disk *will* hold once
the pending hooks have run (`PendingAgree`).  A transition fires two hooks at
most, the removal for the record it evicts and the write of its own
(`HookShape`), and the evicted task is present no more; a kill after the first
hook leaves a manifest that is older than the record, and the restart takes its
records from the manifests, so agreement starts anew.  `MintedFirst` keeps an
identifier that was never handed out free of manifests, `CallsServe` keeps calls
of the old process from reaching into the new one's loading.

`ManifestsAgree` says nothing of a task a hook has failed for, nor of the moment
between two hooks; the other three do, and with a clock that may be set back they
are false, since the task that ends may then be the one its own transition evicts.
`WInv` is `DInv` with four more parts and the bound itself.  No stamp lies ahead
of the clock (`ClockAhead`), so that a task that ends goes to the end of the heap
and another one is evicted (`EndStays`).  No manifest is ahead of its record, even
one that could not be replaced (`DiskBehind`).  A hook writes what the record
says, or removes what is over on the disk too, and what is written after a removal
is the manifest of a task the disk did not have as ended (`HooksFollow`).  While
no hook has failed, an ended manifest has its record, or will when it is loaded,
or is about to be removed (`Accounted`).  Once loading is over the bound follows
(`WindowHolds`): what is ended on the disk is retained but for the task about to
be removed, and for that one another is retained that is not yet written.  While
loading nothing writes, and as the directory is within the window, a start drops
no record of it (`LoadDropsNone`).  Each action then keeps the four parts by a lemma
of its own.

`AsyncProofs`, for any number of workers, calls and tasks and any bounds:

* `AsyncTypeCorrect`: `AsyncSpec => []AsyncTypeOK`;
* `SendsBeforeClose`: `AsyncSpec => []NoSendAfterClose`.

`TInv` is the store's `IInv`, the types with the task that belongs to each
program counter (`Shapes`), and `Order`: what the phase of the shutdown says of
the dispatcher's door, of the calls in flight and of the workers.  The proof
has one lemma per part and one step per action.

`CustodyProofs`, likewise:

* `NoGhostAlways`, `PublishedAlways`, `CancelEnds`, `RoomForAdmitted`,
  `ExitIsClean`: the invariants `NoGhostTask`, `RunningIsPublished`,
  `CancelledIsOver`, `FullOnlyOfStaleJobs` and `ExitLeavesNoLiveTask` of the run
  `async`.

`Custody` says who has a task in hand: it has one holder at most among submit
calls, channel and workers (`OneHolder`), stands where its holder's program
counter says (`Stands`), is over or about to be marked once its context is
cancelled (`FiredOver`), and is handled by somebody while it lives
(`LiveHandled`); the queued tasks respect the bound (`Admitted`).  Every step of
`AsyncNext` is first described from the view of one task (it is kept, begun or
started), of one worker, of one submit call, of one cancel call and of the
tables; each invariant then follows from these descriptions, not from the
actions.  `ExitIsClean` needs `WorkerAssumption`, that there is a worker, which
`NewDispatcher` sees to (`dispatcher.go:117`-`122`): without one the channel
would not be drained.

`StdioProofs`, for any input, any length of it and any finite set of writers
(`StdioAssumption`):

* `FramesStayWhole`: `Spec => []WholeFrames`;
* `OneFrameAfterClose`: `Spec => []LastFrame`;
* `FramesArrive`: `Spec => []FramesDelivered`;
* `StdioTypeCorrect`: `Spec => []StdioTypeOK`.

The lock has one holder, who has nothing on the wire or has its head as the last
part there; a head written after the close means that the close came between
the holder's second look and its write, and nobody can take that look again.

Reading and writing meet only in `closed`, so each has an invariant of its own.
`RInv` says of reading where `readLoop` can stand (`Reached`: behind a line feed,
or at the end of an input that has ended), that frames are given in the order of
their positions with the one `readLoop` holds next (`InOrder`), and that the frames of
what has been taken are exactly those given and held, unless the connection was
closed or the input broke off (`Custody`).  The framing is stated by sets of
positions, so that the next frame follows from where the next line feed is, for
an input of any length, without an induction.

`ImageProofs`, for any calls with any arguments, any settings and answers of
upstream, and any number of suffixes (the assumptions of `ImageCalls`):

* `ImagesTypeCorrect`: `Spec => []ImagesTypeOK`;
* `RequestsFollow`: `Spec => []RequestFollowsArguments`;
* `FilesAreKept`: `Spec => []FilesKept`;
* `RepliesAccount`: `Spec => []ReplyAccounts`.

`RequestsFollow` says that the schema, the submit handler and the image handler
together reject nothing but what the documentation excludes (and a relative
directory under `b64_json`), and send nothing it excludes but what `Forgiven`
names, with the size promised and one part per image; of the rest of a request
(prompt, `n`, quality, format, the mask) the model keeps nothing.  `FilesAreKept` holds of
successful and of failed calls, and exempts files that a call with leave to
overwrite has opened.  `RepliesAccount` is about successful replies: a save that
fails fails the call (`image_result.go:104`-`106`).

All four follow from one invariant (`ImagesInvariant`), which has a part per
concern.  `Where` says what a call has by how far it is, and `Asked` that a
request was made from arguments that passed every look the code takes at them,
while a rejected call failed one.  `Accounts` splits the images of an answer at
the one in hand: those before it have one line each if they had a payload to save
and none otherwise, those after it are as they came.  `Saves` and `FileHistory`
tie files to calls: whoever opened a file lists it, is at it or has failed, and
of two who opened the same one an overwriter must be, because a call without
leave opens only a name that nobody has.  A step of one call touches at most one
file, and `OneCall` shows that the parts about the other calls survive it.

`ConfiguredProofs`, for every set of errors, goroutines, surroundings and
amounts (`RetryAssumption`, `ConfiguredAssumption`):

* `PolicyAlways`: `Spec => []RetryPolicy`;
* `LayersAlwaysAgree`: `Spec => []LayersAgree`.

`Budget` ties the calls made to the loop variable at each program counter,
`Reasons` the last error to what was decided of it, `Lateness` the calls begun
to the context.  `DelayBounded` needs nothing of the product, only that what
does not fit becomes the least Duration.

The two readings agree for every environment, file and set of options, not only
those in which one setting varies: `SameText` finds the same text behind every
name when environment and defaults are the only sources, `ForgivingAgrees` goes
through the texts the parsers tell apart, and `BaseIsSeen` shows that nothing but
an option can hide the base URL of the environment.

Only model-checked: the liveness properties (`EveryTaskEnds`, `ShutdownCompletes`,
`RunReturns`, `StopHeeded`, `InterruptFrees`, `LoopEnds`, `ReaderEnds`,
`EveryCallEnds`), which the prover does not handle; and the two assumptions on the heap,
since that the sift loops of `TerminalHeap` keep elements and order is an
induction over data.  Every invariant and every action property of a passing run
is a theorem, the action properties of the store and the bound on the directory
under the hypotheses named above.

## 5. What is not modelled

Text, JSON, prompts, results and hints are left out: no property is about
them.  Manifests that cannot be read or parsed are skipped by the code and do
not occur.  One process at a time serves the directory; a `"peer"` is an
earlier process.  Leftover temporary files are not tracked: replay skips them.
To the task layer and the engine a tool is a handler that returns, fails, or is
interrupted; what it does meanwhile is `ImageCalls`.

`list_image_capabilities` only reads constants.  The logger, the format of task
identifiers, HTTP with the coding of requests and bodies, the bytes of images,
the wire types and the search for a configuration file (`FindConfigFile`) are
left out: they are data or I/O whose outcomes the models choose freely.  The
router's map and the manager's are filled before the server runs and only read
then.  Of the engine's metrics only `completed` is kept, for calls.

`Engine` sees one message at a time, the end of the input, or an error; the
cutting of frames is in `StdioConn`.  The two are not composed: what the engine
relies on is `FramesDelivered`, and what `StdioConn` assumes of it is the recv
loop that is part of that module.

Hazards without a property carry a note in `PROJECT.json`.  One deserves a word:
a task that ends after the clock was set back may be evicted by its own
transition, whose hook then writes the manifest that `OnEvict` has just removed
(`memory.go:326`-`330`); `DiskStore` behaves so with `ClockStepsBack`.

## 6. Plan

Done: the task layer, the engine, the connection, the image tools with their
files, configuration and retry; proofs of every invariant and action property the
passing runs check.  What is left, in this order:

1. An abstract contract of the engine (a call is read, answered or dropped once)
   that `Engine` is shown to implement, in the way `TaskStore` implements
   `StoreContract`.
2. `EndedUnchanged` and `OldestEvicted` carried over to `DiskStore` and
   `AsyncTasks`, whose steps are those of the store.
3. The refinement of `TaskStore` by `AsyncTasks` and `DiskStore` (up to kills) as
   theorems.
