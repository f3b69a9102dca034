# A formal model of spinfoam

spinfoam runs small eBPF programs ("objects") for an embedding process. The
embedder speaks line-delimited JSON-RPC over stdin and stdout: it loads, starts,
stops and unloads objects and delivers events to them; the objects log and call
back into the embedder ("host calls"). Everything runs on one thread of a tokio
`LocalSet` (`src/src/main.rs`), so a step of the system is one *poll* of one
task: the code between two awaits is atomic, and everything interesting happens
in the order in which polls, timers, notifications and cancellations interleave.

This directory holds TLA+ modules translated from the Rust source, the TLC
configurations that check them on small instances, and TLAPS proofs.
`PROJECT.json` lists every run, property, theorem, the source lines of every
definition, and the hazards the properties are aimed at.

## Inventory

| Part | State | Operations | Talks to |
|---|---|---|---|
| Outbox (`outbox.rs`) | control queue, data queue per object, round-robin list `ready`, byte total, control burst, dropped counter, Notifys `changed` and `space`, token `closed` | `control`, `try_control`, `try_data`, `data`, `remove_request`, `remove_object`, `next` | all senders; the writer task |
| Writer task (`protocol.rs` 220-228, 298-316) | the frame being written | write, fail, end, abort after 2 s | Outbox, stdout |
| Host calls (`host.rs`) | serial counter, table of pending calls, ignored counter, one guard per call | `call`, `CallGuard::drop`, `response`, `cancel_object` | Outbox; the reader, for replies; object tasks |
| Mailbox (`runtime.rs` 72-128, `h_event`) | entries, bytes, window of recent ids, Notify `changed` | `deliver`, `receive` under a timeout, `clear` | delivering requests; the guest |
| Objects and runtime (`runtime.rs` 129-366) | map of objects; per object its state, program, token, JoinHandle, outcome | `load`, `start`, object task, `stop`, unload, `shutdown` | Mailbox, Host calls, Outbox |
| Session loop (`protocol.rs` 171-322) | BufReader, the partly read frame, outstanding ids, 48 slots, request tasks | read a frame, parse, admit, spawn, join, clean up | everything |
| Dispatch (`Service::handle`) | `initialized`, `shutdown` | one branch per method | Runtime, Builds |
| Guest helpers (`helpers.rs`) | handle table, global handle counter, log window | JSON access, handles, log, sleep, call, event | Mailbox, Host calls, Outbox |
| JIT workers (`TokioTimeslicer`) | two permits, their queue, jobs on the two blocking threads | `run_blocking` | loads, programs; shares the threads with compiles |
| Builds (`build/`) | cancel token; per compile the virtual files, open files, output, diagnostics | `compile`, `validate`, the helpers of the compiler guest | the blocking threads |
| stdio, main, errors | descriptors, flags | read, write | the operating system |

What is hard here, and what makes each part correct:

* **Outbox.** Five methods keep four pieces of state in step, two `expect()`
  calls rely on it, the byte total is an unsigned counter, and wakeups are sent
  from eight places. Correct: queues and list agree, the total is exact, nobody
  sleeps on work or on room, control frames cannot starve data, the objects take
  turns, and every queue is first in first out.
* **Host calls.** A call can end by an answer, a timeout, the end of its object
  or of the session, each before or after its request was queued or written,
  against an embedder that may answer anything. Correct: the table holds exactly
  the open calls, an ended call leaves no request behind, a cancellation never
  overtakes its request, a call gets its own answer.
* **Mailbox.** One notification permit, a timeout, and a bounded window of ids.
  Correct: FIFO, nothing lost or repeated, retries recognised within the window.
* **Objects.** Several stops and unloads of one object race with its start, its
  own end and the end of the session, whose `abort_all` drops requests half way.
  Correct: the visible state agrees with the task, every stop returns and only
  after the task is over, nothing is left after a shutdown.
* **Requests.** Ids, slots and permits are given back on every way a request can
  end, refusals and responses compete for 64 control slots, and aborted requests
  leave jobs on the blocking threads. Correct: every request read is answered
  once or the session ends, a refusal is deserved, no permit leaks, a load gets
  its worker.
* **Guest helpers.** Programs make any calls in any order with any handles.
  Correct: what a guest holds stays within the limits, a handle never means
  something else, an error changes nothing, an event is handed over or its loss
  is told.
* **Builds.** Two rules for paths, unsigned differences, lengths before and
  after a decoding. Correct: the compiler sees the accepted bundle, offsets stay
  in range, the truncation flag tells the truth.
* **Session loop.** `select!` drops the unfinished `frame()` on every turn.
  Correct: frames are bounded, never merged or reordered, the reader does not
  depend on the requests.

## Modules

| Module | Models | Role |
|---|---|---|
| `OutboxQueues` | the `Queues` value and what each method does to it | operators on a record; used by `Outbox` and `HostCalls` |
| `Outbox` | Outbox, its senders, the writer task, closing | state machine |
| `OutputChannel` | what the outbox promises to its senders | abstract specification, implemented by `Outbox` |
| `HostCalls` | `host.rs` over `OutboxQueues` | composition of calls, queues, replies, object ends |
| `CallProtocol` | what host calls promise to a guest and to the embedder | abstract specification, implemented by `HostCalls` |
| `Mailbox` | one mailbox, its senders, `h_event` | state machine |
| `Lifecycle` | objects, concurrent stops, shutdown | state machine |
| `Framing` | `frame()` and the select loop around it | state machine |
| `Session` | admission, request tasks, worker permits and blocking jobs, over the control queue of `OutboxQueues` | composition of the loop, its requests, the writer and the blocking pool |
| `Guest` | one guest program's handles and values, with its mailbox and its calls reduced to what they return | state machine over JSON trees |
| `Build` | one compile request and the helpers of the compiler | state machine over path operators |
| `MC...` | | instances for TLC |
| `SequenceLemmas` | | lemmas on least and greatest elements, removals and rotations of sequences, counted positions, and sums; used by most proofs |
| `OutboxProofs`, `HostCallsProofs`, `MailboxProofs`, `FramingProofs`, `SessionProofs`, `BuildProofs` | | theorems about the module of that name |
| `ObjectProofs` | | theorems about `Lifecycle` and `Guest`, the two sides of an object |

Definitions named `Mut...` are faulty variants of the definition that follows
them: a dropped notification, an off-by-one, a swapped order. Each property is
violated by one of them, which shows that the property watches that code.

### Outbox

One action is one turn of a method's loop, which is one poll. `ControlTurn` and
`DataTurn` are the loops of `control()` and `data()`; `...Start` is the first
poll and `...Resume` a later one. A waiting task is `parked`, and `woken` once
its `Notified` is ready; `notify_one` stores one permit (`changed`) when the
writer is not parked, `notify_waiters` stores nothing. The writer is `start` or
`woken` before `next()` looks, `writing` while `write_all` is pending. The
choice of an unbiased `select!` with two ready branches is nondeterministic
(`WriterFinish`). Two history variables, `streak` and `passed`, count the
control frames, and the frames of other objects, that go by a waiting object.

Frames are lengths; `encode` is modelled by its length test (`Encodable`,
`FrameLen`), and an oversized response by its replacement. The counter
`control_burst` grows without limit in the code while no data waits; it is only
compared with 8, so the model stops counting there.

### HostCalls

A guest has one call at a time, because `h_call` suspends it. `sending` and
`sent` are the two waits inside `call()`. `tokio::time::timeout` polls the
operation before the timer, so `CallTimeout` is possible only when the operation
cannot proceed. `Return` and `ObjectEnd` include the whole drop of `CallGuard`,
and `ObjectEnd` the clean-up of the object task; the second `cancel_object` and
`remove_object` in `Runtime::stop` find nothing left (`NothingOutlivesItsOwner`),
so they are not repeated. The embedder answers any id at any time. Data frames
have length 1, so the byte limits count frames. `host.cancel` is sent for every
call whose request was queued, also when the writer never had it, as the test in
`host.rs` (line 142) expects; `CancelIsTruthful` says what an embedder may rely
on.

`CallProtocol` says the same things without queues, table and guards: ids are
drawn in order, the embedder is asked only while a call is open, one answer to an
id counts, a call returns that answer, a timeout or a refusal under the
conditions stated there, and only a call given up without an answer is withdrawn.
`Protocol` maps the open id of an object, the frames that were written and the
outcomes to it; what waits in the outbox is not visible there.

### Mailbox

`life` is what `Object::deliver` and the biased select of the object task look
at. `TakeFirst` is the pop together with the handle that `h_event` inserts: with
no handle left the event is gone, which the code does too. Refused deliveries
change nothing and are not steps.

### Lifecycle

`task` is the spawned object task; its first poll sets `Running` over a
`Stopping` that a stop may have set, and then sees the cancellation in the same
poll (`TaskCancelled`). `stopper` holds the stops in progress, those of requests
and the one of `Runtime::shutdown` (`"main"`). `phase` is the tail of
`serve_with_config`. A load that is aborted is `LoadFail`.

### Framing

Bytes are positions; a frame is known by the position of its newline. `begin`,
`consumed`, `filled` and `sent` are the places where the live `frame()` vector
starts, where consumption stands, how far the BufReader has read and how far the
peer has written. `polling` says that the loop is inside one poll of `frame()`,
during which no other task runs. `DropFuture` is the end of a `select!` turn won
by another branch.

### Session

`Receive` is what the loop does with one whole frame: refuse it with
`try_control` or spawn a task. Methods are told apart by how they wait. A request
task is `spawned`, then waits for an object (`stopping`), for a permit
(`acquire`, `granted`), for its job (`job`), for the compiler guest
(`compiling`), or for room in the control queue (`answer`, `shutdown`);
`Answer` is everything from the return of `handle` to the drop of the slot and
the id, which is one poll. `jobs` is the blocking pool in its order; a job
outlives the future that waits for it and is then `Detached`, a worker permit
going with it. A permit released while somebody waits is handed over, as tokio's
semaphore does, and comes back if that waiter is dropped before it is polled
(`Drop`). `Programs` are running objects: their code is compiled when it is
first met, through the same permits. `asked` is a history variable: the requests
whose answers the embedder has not seen.

A writer that takes only control frames and senders that are polled when there
is room are enough here, since `Outbox` has the notifications. Replies of the
embedder to host calls take no slot and are in `HostCalls`.

### Guest

One action is one helper call, with any handle that was ever given to this or to
another object. A value is a tree written flat, a function from the paths of its
nodes to what the nodes say; a child is what lies below a key. So nothing here
is recursive: `Encoded` is a sum over the nodes (what each prints, its key, and
the comma or bracket after it), and `Visit`, the walk of `valid_value` with its
running count, a fold over them in any order, which cannot change the verdict:
it is negative as soon as one node is too deep or one too many. `IsValue` says
which functions are trees. `GuestInit` and `GuestNext` have their names because
`ObjectProofs` extends `Lifecycle` too. `r0` is the result as
the guest's i64. `Envelope` is the value that `sf.event.deliver` makes of a
payload: only the payload was checked, so an event may be one level deeper and
three nodes larger than any other value; `ValuesAreBounded` names that
exception. `EventReceived` with no handle left loses the event, and
`EventIsHandedOver` says that this is the only way to lose one.

### Build

A path is the sequence of its parts, and its length in bytes a sum over them.
`valid_path` and `Valid` are the checks of
`Request`, `virtual_path` the fold of the compiler's `open`. Descriptors,
offsets and the output are numbers; a text is a sequence of characters with
their length before and after `from_utf8_lossy`. `dropped` is a history
variable: whether the diagnostics lack something the guest passed. The compiler
is any sequence of helper calls.

## Runs

| Run | Properties | What it shows |
|---|---|---|
| `outbox` | `ReadyQueueInvariant` `ByteAccounting` `WriterNeverSleepsOnWork` `SendersNeverSleepOnRoom` `BurstBound` `RoundRobinBound` `ImplementsChannel` | consistency, byte total, wakeups and turns with full queues and all removals; refinement of `OutputChannel` |
| `outbox_live` | `EveryObjectIsServed` `ClosedReleasesAll` | progress of data under endless control frames, and after the close |
| `outbox_drain` | `DrainedWhenFinished` | **violated**: finding 2 |
| `host_calls` | `PendingIsExact` `NothingOutlivesItsOwner` `CancelIsTruthful` `ReplyReachesItsCall` | all ways a call can end |
| `host_calls_live` | `EveryCallReturns` `ImplementsProtocol` | calls return although the embedder is silent and stdout is blocked; refinement of `CallProtocol` |
| `lifecycle` | `StateMatchesTask` `StopIsComplete` `ShutdownLeavesNothing` `TerminalIsFinal` `EveryStopReturns` `ShutdownCompletes` | races of start, stop, unload, end and shutdown |
| `mailbox` | `BytesAreCounted` `DeliveryIsFifo` `WindowIsExact` `ReceiverNeverSleepsOnEvent` | delivery against waits, timeouts, stops |
| `framing` | `BufferBound` `FramesAreTails` `EndIsJustified` `ReaderKeepsUp` | all streams of six bytes in all chunkings |
| `framing_whole` | `FramesAreWhole` | **violated**: finding 1 |
| `session` | `AnswersAreConserved` `WorkersAreConserved` `RefusalIsDeserved` `EveryLoadGetsAWorker` | answers, refusals, permits and jobs over all ways a request can end |
| `guest` | `ValuesAreBounded` `HandlesAreFresh` `ErrorsChangeNothing` `EventIsHandedOver` | every sequence of helper calls |
| `build` | `BundleIsReachable` `OpenFilesAreSound` `DiagnosticsAreHonest` | every small bundle, every sequence of file and diagnostic helpers |

The type invariant of a module is a conjunct of one of its invariants.

### Bounds

Limits of the program become constants that are reached within a few steps: 1
control slot, 4 bytes per object and 6 in all instead of 64, 64 KiB and 4 MiB,
with frames of 2 and 3 bytes and one text too long to encode, chosen so that the
total and the object limit are hit separately, exactly and with bytes to spare.
Two objects are enough for an interaction of two data queues. Three calls reuse
neither ids nor routing entries, and let one object call again while the other's
call is open; `host_calls_live` has two, one after the other or side by side,
since a step of the protocol, and a timer, concern one call. Three concurrent stops are the fewest in which one takes the
JoinHandle, one waits and one arrives after the end. A window of two ids with
four ids and five accepted events lets an id leave the window and come back. A
stream of six bytes with a limit of three holds an oversized frame and a whole
one after it; a BufReader of two bytes makes frames straddle it. In `session`,
one slot, one control slot, one permit and one blocking thread are the fewest
with which two requests and a program compete for each of them; two requests
make a duplicate, a BUSY, a refusal that does not fit, and an abort of one who
waits behind another. The code has as many permits as threads, as the instance
does. In `guest`, two handles fill the table, three ids reach the end of the
counter after a drop, and the limits on depth (1), nodes (3) and bytes (50) are
each met exactly and exceeded by one. In `build`, names are all sequences of one
or two of eight parts, among them every part that a check names; the limits are
two files of three bytes, three descriptors and five bytes of diagnostics with
characters of one and three bytes. `MaxAccepts`, `STREAM`, `Tasks`, `JOBS`,
`MAX_SERIAL`, `I64_MAX`, `MAX_FD`, `DROPPED_MAX` and `IGNORED_MAX` bound
histories, tasks and counters; the last five are saturation or exhaustion points
of the code brought within reach. `JOBS` limits the jobs that compiles may
queue, since "compile concurrency is owned by the embedder" and the blocking
pool's queue has no bound.

Symmetry is used for objects, in runs without liveness properties only.
`CHECK_DEADLOCK FALSE` is set where the system may really come to rest: a
finished shutdown or session, an ended object or guest, a finished build, or a
mailbox that has used its bound. The outbox, host-call and framing runs check
for deadlock.

### Fairness

tokio polls every task that is ready, so the steps of woken tasks are weakly
fair. Beyond that: `Outbox!FairSpec` assumes that writes complete, because the
embedder is told to read stdout continuously (`docs/PROTOCOL.md` line 4);
`HostCalls!FairSpec` does not, and only lets timers fire (`h_call` caps them at
one day); `Lifecycle!FairSpec` assumes that a running program is preempted and
its task polled (the timeslice is one millisecond); `Session!Spec` that a job
which has a blocking thread ends (the loader and the JIT terminate), and that
woken and aborted tasks are polled; `Framing!FairSpec` assumes
nothing of request tasks, which may run for ever. No specification assumes that
the embedder answers, that a program ends, or that anybody sends.

## Findings

1. *A half-read frame is lost when a request finishes* (`protocol.rs` 246).
   `frame()` keeps consumed bytes in a local vector and is dropped whenever
   `join_next` wins a turn of the loop. The rest of the line is then parsed by
   itself: the request gets `PARSE_ERROR` with a null id, and its sender no
   response. `FramesAreTails` shows the extent of the damage: only heads of
   frames are lost, never frames merged or reordered.
2. *The writer may end with frames queued* (`outbox.rs` 214). When `closed` is
   cancelled before a woken writer has been polled, the unbiased `select!` may
   take the closed branch. The frame can be the acknowledgement of
   `sf.shutdown`, which `protocol.rs` 293 relies on having been queued. It takes
   a run queue longer than the 61 tasks a `LocalSet` polls per tick for the main
   task to get ahead of the writer.

## Proofs

TLC checks the properties above on small instances; TLAPS proves the following
for every value of the constants that satisfies the `ASSUME` of the module, that
is, for any number of objects, requests, calls, files, frames and events, and
any limits. Every safety invariant and every action property of a passing run is
a theorem. Each invariant in the table was first
checked by TLC, then proved to hold initially and to be preserved by every action
(lemmas `InitIndInv`, `NextIndInv`, and one lemma per action or group of actions).

| Module | Theorems (property) |
|---|---|
| `OutboxProofs` | `ReadyQueueIsConsistent` (`ReadyQueueInvariant`), `WriterIsNotForgotten` (`WriterNeverSleepsOnWork`), `BurstIsBounded` (`BurstBound`), `BytesAreCounted` (`ByteAccounting`), `SendersAreNotForgotten` (`SendersNeverSleepOnRoom`), `TurnsComeRound` (`RoundRobinBound`), `OutboxImplementsChannel` (`ImplementsChannel`) |
| `HostCallsProofs` | `TableIsExact` (`PendingIsExact`), `NothingIsQueuedInVain` (`NothingOutlivesItsOwner`), `CancellationsAreTruthful` (`CancelIsTruthful`), `RepliesReachTheirCalls` (`ReplyReachesItsCall`), `HostCallsImplementProtocol` (`ImplementsProtocol`) |
| `ObjectProofs` | `StateAlwaysMatchesTask` (`StateMatchesTask`), `EveryReturnedStopIsComplete` (`StopIsComplete`), `NothingIsLeft` (`ShutdownLeavesNothing`), `TerminalStatesAreFinal` (`TerminalIsFinal`); `ValuesStayBounded` (`ValuesAreBounded`), `HandlesAreAlwaysFresh` (`HandlesAreFresh`), `ErrorsAlwaysChangeNothing` (`ErrorsChangeNothing`), `EventsAreHandedOver` (`EventIsHandedOver`) |
| `MailboxProofs` | `BytesAreExact` (`BytesAreCounted`), `EventsComeInOrder` (`DeliveryIsFifo`), `DuplicatesAreKnown` (`WindowIsExact`), `ReceiverIsNotForgotten` (`ReceiverNeverSleepsOnEvent`) |
| `FramingProofs` | `InputIsBounded` (`BufferBound`), `FramesAreAlwaysTails` (`FramesAreTails`), `EndIsAlwaysJustified` (`EndIsJustified`) |
| `SessionProofs` | `NoWorkerLeaks` (`WorkersAreConserved`), `EveryRequestIsAnsweredOnce` (`AnswersAreConserved`), `RefusalsAreDeserved` (`RefusalIsDeserved`) |
| `BuildProofs` | `CompilerSeesTheBundle` (`BundleIsReachable`), `DescriptorsAreSound` (`OpenFilesAreSound`), `DiagnosticsTellTheTruth` (`DiagnosticsAreHonest`) |

### What the inductive invariants add, and why

**Outbox.** `IndInv` is the types, the agreement of `ready` with the data queues,
the fact that a parked writer has seen both queues empty, and
`StreakWithinBurst`: the control frames that passed a waiting object are covered
by the counter of `next()`, although the counter also counts frames that passed
nobody and is reset only by a data frame. The argument has two layers: lemmas
`...OK` about each operator of `OutboxQueues` on an arbitrary well-formed value,
and one lemma per action that lifts them. Three more properties are carried
through the actions on top of it. *Bytes*: a push, a pop and each removal change
the sum over the map of queues by what they report (lemmas `...Counts`).
*Room*: whoever makes room wakes everybody (`WokenWakes`), and what does not make
room leaves "there is none" true (`NoRoomStep`). *Turns*: what passed an object,
together with the objects before it in `ready`, never holds one name twice and
only moves names from one part to the other (`OrderGrows`, `OrderShrinks`,
`OrderTurns`). The refinement of `OutputChannel` maps each queue to the frames
it holds; every action is shown to be one of the channel's steps or a stutter.

**Host calls.** A serial number is unused, then belongs to one call, then is
dead. `CallsAreDistinct`, `RoutedExactly` and `HistoriesFit` say what the table
and the histories know of it at each age; `QueuesFit` that an object's queue
holds the request of its open call at most once and no other; `CancelsFit` that
the control queue holds cancellations of dead serial numbers only, each once,
where dead means that the call timed out or was dropped without an answer. The
refinement of `CallProtocol` rests on these: that a frame which is written
belongs to an open call is `QueuesFit`, that a cancellation which is written is
due is `CancelsFit`, that an outcome is one the protocol allows is
`HistoriesFit`; every action is one step of the protocol or a stutter. A
by-product: when an object ends, the drop of `CallGuard` has already taken the
one entry that `cancel_object()` looks for (`ObjectEndOK`).

**Lifecycle.** `StateMatchesTask` and `StopIsComplete` need `FreshIds` (an id
that was not loaded has nothing), `StopsWait` (a parked stop waits for an object
in `Stopping` whose token is cancelled, a woken one finds the task over) and
`ShutdownCovers` (what still has a program is on the list `Runtime::shutdown`
works through).

**Guest.** `GuestIndInv`: all ids in use were handed out before and are below the
one counter, there are at most `MAX_HANDLES`, what each names may be held
(`Held`), and the mailbox of that model holds one event at most, an envelope
around a payload that was checked. Every helper is shown to be one of a few
steps on the handle table (a status, a drop, or a replacement or insertion of a
value that may be held; lemma `GuestSteps`), from which the invariant and the
three action properties follow. That values stay bounded rests on two facts
about trees. A child is never deeper, larger or longer than its parent
(`KidFits`): each node of the child is a node of the parent, prints there what it
prints in the child, and a sum with a term for each term of another is no less
(`SumEmbeds`). And the walk counts every node or gives up (`VisitCounts`), so
that the check of `h_set` and `h_push` on the tree they have built
(`TreeIsValue`) says what it should. The limits are needed as types only, but for
one: 5 bytes, which `false` takes, since `h_boolean` checks nothing.

**Mailbox.** The window of recent ids is the end of the history of accepted ids
and full once enough were accepted (`WindowIsLast`); an id repeats only at a
distance beyond the window (`RepeatsAreFar`); a woken receiver finds an entry
(`WokenHasEvent`), because nobody else takes entries.

**Framing.** `FramesAreTails` says what the loop got, not why the next frame will
be a tail again. That takes what a live future holds: bytes of one frame without
its newline (`HeldIsOneFrame`), which begin where the last frame ended or where a
dropped future left off, with all in between lost (`GapIsLost`).

**Session.** An answer is conserved because a live task is the only one with its
id and owns one slot (`TasksAreRequests`); a permit because a job and the task
that awaits it know each other (`JobsKnowTheirTasks`), so that an abort detaches
exactly one job, together with its permit. Three groups of lemmas follow three
counts: slots, answers, permits.

**Build.** The heart is about pure functions: the fold of `virtual_path` keeps
the parts that `valid_path` accepts as they are (`VirtualPathOfSource`), so each
file is found at its own path (`LengthOfSource` and `PrefixFits` say that the
added prefix cannot exceed the length limit), and a file is never also a
directory (`NoFileIsDirectory`). `Clipped` and `Truncate` cut a text at a
character boundary, and they drop something exactly when `IsCut` sets the flag
(`CutIsWhatIsMissing`). `IndInv` adds
that the files stay those of the accepted bundle and that descriptors are below
the counter.

**Sums and counts.** Three of the properties equate a counter of the code with a
sum or a cardinality over the state. The community modules' `SumFunction` is a
fold by recursion over sets; `SequenceLemmas` proves once that the recursion has
a solution and only one (`SumExists`, `SumUnique`), hence that a sum follows the
insertion, the removal, the change and the renaming of an index, and the
component proofs use only those facts. The walk of a JSON value is treated the
same way.

### Assumptions

The named `ASSUME`s bound the constants only by their types, with these
exceptions, each a fact of the code: limits the code never sets to zero are
positive; sentinels (`NoId`, `Detached`, `"main"`) are not objects or tasks; sets
of objects, tasks and ids are finite; `BuildAssumption` leaves room for the
prefix `/src/` (`MAX_NAME >= MAX_PATH + 5`; 256 and 200 in the code) and has
the first descriptor after 0, 1 and 2; `ContentAssumption` types the
characters, files and names from which bundles and texts are drawn;
`GuestAssumption` has 5 bytes or more for a value (16384 in the code), and
`ValuesAssumption` says that texts, payloads and the config are JSON trees, the
config one that `load()` accepted. TLC evaluates
each of them in the runs.

### What stays with TLC

* All liveness properties: `EveryObjectIsServed`, `ClosedReleasesAll`,
  `EveryCallReturns`, `EveryStopReturns`, `ShutdownCompletes`, `ReaderKeepsUp`,
  `EveryLoadGetsAWorker`. The installed provers do not reason about `ENABLED`,
  and so not about fairness.
* The two violated properties, `DrainedWhenFinished` and `FramesAreWhole`.

## Plan

Done: all modules of the table, and a theorem for every safety and action
property. What is left, in order of importance:

1. The pages of `sf.object.list` against loads and unloads between two pages.
2. A proof that `HostCalls`, whose queues are those of `Outbox`, keeps the byte
   total too, from the `...Counts` lemmas.

## Not modelled

The pages of `sf.object.list` and the other methods that only read; the limit of
ten logs a second, which depends on a clock; the helpers that only touch guest
memory or read a clock; state `cancelled` of a build, which no session answers
because it aborts its requests before it cancels the builds; `stdio.rs`, which
is system calls on descriptors and their readiness. The eBPF virtual machine and
the JIT (external; a program is something that runs, receives, calls and ends),
JSON parsing and printing (serde; reduced to
lengths, ids and whether a frame parses), the compiler (an embedded
binary), descriptors and signals (a signal is a way for the session to end),
clocks (a timer may fire at any moment when it is set), process start and
arguments. State does not survive the process, so there is no crash recovery.
