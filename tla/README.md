# A verification development for baobao

baobao is a monorepo of TypeScript packages. Most of them are sequential
helpers; a few run several things at once, survive the end of their process, or
have to get an order right. This directory models those few in TLA+, checks them
with TLC and proves what matters most about them with TLAPS.

| module | models | lines of code |
| --- | --- | --- |
| `LossyAsyncQueue` | the queue of `@idlebox/section-buffer` (`common/AsyncQueue.ts`) on the `SimpleStateMachine` of `@idlebox/common` | 174 |
| `LastTaskQueue` | what that queue promises: a one-place mailbox in front of one worker | - |
| `MemoryList` | the list of ranges of `MemoryCacheController.ts`, as operators | 150 |
| `MemoryCache` | the controller as a machine, with the figures it caches; extends `MemoryList` | 108 |
| `MemoryMap` | what the controller promises: a map from bytes to places | - |
| `CacheFile` | `common/CacheFile.ts` with its reader and writer: an append-only file of records | 207 |
| `CacheStore` | `CacheFile` over many processes, with histories of what the owner was told | - |
| `SectionBuffer` | `index.ts` of the package: composes the list, the file, the queue and the `AsyncLock` | 277 |
| `JobGraph` | `Job`, `Starter` and `JobGraph` of `@idlebox/dependency-graph` | 355 |
| `WorkerGraph` | `WorkersManager`, `ProtocolClientObject` and `ProcessIPCClient` of `@mpis/server`; extends `JobGraph` | 382 |
| `Lifecycle` | disposables and the global lifecycle of `@idlebox/common`, shutdown of `@idlebox/node` | 299 |
| `WatchHelper` | the debounced watcher of `@idlebox/chokidar` | 87 |
| `Codegen` | the watch mode of `@build-script/codegen`; composes `WatchHelper` | 363 |
| `MC...` | instances for TLC: graphs, orders, symmetry | - |
| `..._proofs` | the theorems of a module and their proofs | - |

`PROJECT.json` maps every definition to the lines it stands for, and lists the
runs, the mutants, the hazards and the theorems. The counts are of distinct lines
that definitions of the module stand for.

## 1. The system

### The download cache

`SectionBuffer` receives the ranges of a download in any order, keeps them in
memory, flushes them to a cache file so that a later process can go on, and copies
everything to the final file once it is complete. It has five parts.

**The queue** (`LossyAsyncQueue`). Flushes are pushed to it: one flush at a time,
and of the ones pushed meanwhile only the last. It is a state machine (`idle`,
`prepareWork`, `working`, `waitting`, `dispose`) whose listener
`handleStateChange` starts an `_execute()` coroutine; that coroutine waits for a
`setImmediate`, takes the task, awaits the callback and reports `taskDone`.
*Operations*: `pushQueue`, `lock`, `dispose`. *Hard*: they may fall between any two
awaits of a coroutine; an event the table does not allow makes `change()` throw,
inside a listener where it is swallowed. *Correct*: callbacks never overlap, the
last task runs, `_promise` covers the work its owner waits for, and `dispose()`
returns to a quiet queue.

**The list of ranges** (`MemoryCacheController`). Each range is in memory or
written. `push` inserts one and merges it with its neighbours, `shift` takes the
first one in memory and marks it as written, `punchHole` takes bytes out again.
*Hard*: splicing a list while ranges merge and split. *Correct*: it is a map from
bytes to places; sorted, disjoint, merged wherever possible; the cached sizes count
each byte once.

**The cache file** (`CacheFile`). A header, then sections with their hashes and
erase records that name a section by its offset. Writes go to a stream.
*Operations*: `openRead`, `prepareCreate`, `prepareAppend`, `writePart`, `markBad`,
`commitBadBlock`, `closeWriter`, `startEmitting`, `destroy`. *Hard*: the process ends
anywhere and leaves a prefix of what was written and a torn record; offsets are used
again after the torn record is cut off. *Correct*: what was in the file when it was
closed is found again, what was erased never comes back, each position offered for
reading is that of its section.

**The locks** (`AsyncLock`): a name that is set or not. `protect` makes a second
caller return at once; `start` and `require` throw.

**The buffer itself**: a timer, the triggers `dataRecv`, `timer`, `manual`, the
rebuild of the final file, `sync`, `forceSync`, `dispose`. *Hard*: `shift()` marks a
range as written before it is; a flush, a rebuild, `sync()` and the queue overlap;
data damaged on the disk is found out while the final file is made. *Correct*: no
byte is forgotten, `sync()` does not resolve too early, a complete download ends in
a final file with the right bytes.

### The dependency graph

A `JobGraph` starts its jobs in the order of their dependencies, at most
`concurrency` at once, and stops all of them when one fails for good.

- A `Job` has a state, what was attached to it last, a cancellation token and the
  promise of its `_execute()`. `setState` moves at once; `publishStateEvent`
  fires the event from a `setImmediate`, and a newer change replaces a pending
  one.
- The `Starter` listens to all jobs. On each event it corrects its `working` set
  and pumps: of the jobs whose dependencies are not blocking it starts as many as
  there are free slots, and it resolves the promise of `startup()` when all are
  started and none is working. A fatal error rejects that promise.
- The `JobGraph` listens as well and calls `stop()` on a fatal error. `stop()`
  disposes the Starter, tells all jobs, waits for them at most 5 s each, then
  joins them one by one; `startup()` joins them too before it rejects.

*Hard*: the Starter counts slots by events that arrive late and merged, while
`shouldExecuteNode` reads live states; three listeners of one event run in a fixed
order (the last registered first), and each may change what the next one sees;
`joinAll` walks over states that change. *Correct*: nothing overtakes its
dependencies, no slot leaks or is given away twice, a failure always stops the
graph, nothing starts afterwards, and `startup()` and `stop()` end only when the
jobs have.

### Workers as jobs

`WorkersManager.addWorker` makes a job of each worker. `EventTranslate` turns
`onStart`, `onSuccess` and `onFailure` into job states, and the end of the worker
into an exit state; in watch mode a worker must not end unless it was told to.
The worker, a `ProcessIPCClient`, is a child process: messages over IPC become
emitted events, an exit code becomes a failure or, if nothing was ever reported, a
success; to stop, it is sent SIGTERM and after 5 s SIGKILL. *Hard*: a process may
report a failure and then live on, fail after a success, or end while it is told
to stop. *Correct*: no process is left behind, a process starts only on
results that exist, and failing builds and quitting watchers stop the graph.

### Disposables and shutdown

Resources are registered with an `EnhancedAsyncDisposable`, which releases them one
after the other, the newest first; such objects are registered with one another, and
finally with the global lifecycle, which releases everything at once. Each object has
a list, a phase and the last error; registration with `autoDereference` makes a
holder drop what was disposed on its own. `shutdown()`, signals and uncaught errors
raise a counter; the first one disposes the global lifecycle and exits when that has
ended, the sixth exits at once if it is a signal, and so does what no handler can take
(a thrown value that is no `Error`, a handler that fails). An object may be registered
with several holders. *Hard*: owners dispose parts of the tree while their parents or the
shutdown do the same; releases fail; `dispose()` runs down the tree before it first
awaits. *Correct*: each resource is released once, in order, whatever fails; `dispose()`
resolves when everything below has ended; the process exits.

### Watching and generating

`WatchHelper` collects changed paths until the timer of its debounce fires and gives
them to `onChange`; it does not await what that returns. In codegen `onChange` is
`runOnce()`, so passes overlap. A pass asks its generator whether it must be compiled
or executed; both go through a `Session`, a child process that has imported the
generator. `execute()` is wrapped by `makeQueuedLatest`: a call during a run queues
one more run and all callers get the result of the last. *Hard*: files change during a
run, answers come after their timeout, processes die, two passes rebuild. *Correct*:
every change reaches a run, a pass is answered by a run that began after its change,
no pass is left waiting, and a changed generator is not executed with its old code.

### The rest

The components that keep state of their own and are not modelled yet:

| component | state | hard | correct means |
| --- | --- | --- | --- |
| `Pauser` | pause controls of jobs | awaits inside listeners | a job is paused exactly while something blocks it |
| graph builder | nodes and edges before `finalize()` | empty nodes are dropped | the order through dropped nodes is kept |
| `Emitter`, `CancellationTokenSource`, `RefcountRegistry` | listeners, flags, counts | changes while firing or disposing, delayed collection | each listener once, each object collected once |
| `Mutex`, `NamedPipeBase`, `BufferStream` | lock holder, closed flags, one chunk | dispose while others wait, change of destination | waiters wake up, each chunk acknowledged once |
| `DependencyInjector` | classes, instances or their promises | concurrent and cyclic creation | one instance per class |

Everything else (command lines, loggers, parsers, editors of configuration files,
build scripts, browser helpers, generated types, standalone tools) is sequential code
around text, files or external programs and is listed with its reason in
`PROJECT.json`.

## 2. How the models relate to the code

JavaScript runs to completion, so a step of a module is a stretch of code without
an `await` in between or, where only microtasks lie in between, a whole macrotask.

**LossyAsyncQueue.** `PushQueue`, `Lock`, `Unlock`, `Dispose` are the calls of the
owner; `Immediate` and `Settle` the two resumptions of `_execute`; `DisposeEnd`
the resumption of `dispose()`. `Rules` is the transition table, `Allows` and
`Change` are `SimpleStateMachine.change` with the listener `HandleChange` in it.
`pc` says where a coroutine stands; a coroutine that ends badly is `rejected`.
Definitions marked *Mutant* in any module are plausible bugs used to see that the
properties can fail; no specification uses them.

**MemoryList, MemoryCache.** A range is a record `start`, `end`, `memory`; bytes are
cells. `PushList`, `ShiftList`, `PunchList` are what the three methods leave in the
list, `Merge` included. `PunchList` is the loop of `punchHole()`: it goes from the last
position to the first and looks each item up in the list it has changed so far; `Cut` is
its body and `Spliced` its `splice()`. `Usage` is `_calculateUsage`. `Push` has the exceptions:
every check precedes the first assignment. `PunchHole` is called as its only caller
does, on written ranges.

**CacheFile, CacheStore.** The file is a sequence of whole records and `tail`, what
may stand behind them. `landed` counts those that are known to have reached the
file: all of them when a writer was closed. `Crash` leaves any prefix that holds
`landed` records, and perhaps one torn record, whose header may or may not be whole.
`OpenSections` parses the records as `openRead()` does and cuts the torn one off,
which makes the instance fail; the owner then makes another one (`Renew`). A section
is its identity, its offset the index of its record; hashes and bytes are left out.
`CommitBadBlock` is called by the owner as well, with a writer that is open or without
one, and `EraseNext` is its loop; a section may be marked bad before it has reached the
file. `CacheStore` makes the calls one after the other in any order that respects the
locks, and keeps `stored` and `erased`, two histories: what was in the file when a
writer was closed, and which erasures.

**SectionBuffer.** `F` is `CacheFile` and `Q` is `LossyAsyncQueue` over the variables
of this module, so the steps above appear inside its own. `trig` is the trigger that
holds the lock `sync` and where it stands, for the queue's coroutine, for `sync()` or
for the rebuild of `start()`. `data` maps a section to its range; `rotten` are the
sections whose bytes the disk has changed, decided when a section is read. `owed`,
`refused` and `loose` are histories. The owner gets an instance when `start()` has
resolved, which is why its calls are guarded by `Started`; it makes no second `sync()`
before the first one has ended.

**JobGraph.** Variables are named after the fields they stand for; `run` is where
`Job.execute()` stands, `told` whether `Job.stop()` went through, `joiner` how far
each of the two callers of `joinAll` has come, `fresh` is a history variable.
`StateEvent(n)` is one macrotask: the `setImmediate` of `publishStateEvent` with
all listeners in their order. The `join()` listeners come first, as they were
registered last; then the Starter, `checkRemoveWorking` and `pump`; then
`onNodeChange`, which may run `stop()` up to its first await. A Starter that has
been disposed is skipped, and so is the listener of the graph after `stop()`.
`Pump` states which jobs start by what is true of them (`IsSchedule`) instead of
the loop over `overallOrder`. What jobs do by themselves is open: `JobSet`,
`JobReturn` and `JobThrow` let them set any state of `Reports`.

**WorkerGraph** puts the workers in place of that: `Message` is an IPC message
with everything it triggers synchronously, `WorkerExit` the end of the process
through `_execute()` of the worker and of `EventTranslate` to the end of
`Job.execute()`, all of it microtasks.

**Lifecycle.** Containers and resources (`Leaves`) are constants; which tree they form
is decided by `Register` and `Unregister`, and a container may be registered with any
number of others. `Call` is one `dispose()` up to the first one it calls itself; `turn`
is the list of those that follow before the event loop takes over, the first element of
the list of a container or all of them for the global lifecycle, and nothing else happens
until it is empty. That is how an object which leaves the list of a holder in the middle
of a turn is seen to be gone, or not. `listeners` counts the `onBeforeDispose` of an
`autoDereference`, which stay after `_unregister()`; `Unlisted` and `Dereferenced` are the
`splice()` with the index -1 of what is not in the list. `Below` is a least closed set, so
that no recursion over the tree is needed. `MayRegister` has the two things that owners
are assumed to keep to: no cycles, and one holder for a resource that is no container
(`debug.ts` warns of a second strong reference; its `dispose()` would be called twice).
`Advance` is a resumption of `_dispose()`, `Finish` its end with `cleanup()`, `Release` the
end of a resource's own `dispose()`, `Fatal` the exit of what no handler can take.

**WatchHelper, Codegen.** `Event`, `Debounced`, `Call`, `Settle` are the event of
chokidar, the timer, the call of `onChange` and the end of the promise chain. In
`Codegen` a pass is one call of `runOnce()`, `loop` is `runLoop()` of
`makeQueuedLatest`, `builds` are the calls of `build()` by who awaits them, `proc` the
`Session` objects with their processes. Files have versions; `seen` are those a pass
was told of. `watched` says whether the generator asks for its data file by name, which
leads to another run, or by its folder, which leads to another compilation. `ran` has the
data a run began with and the code of the process that answered it. `shutdown(66)` sets `ended`, which ends the model.

Left out: messages, logging and inspection; `changeConcurrency`, which the
repository calls before `startup()` only, so that `Concurrency` is a constant;
`JobGraph.dispose()`; pause controls (the only one in the repository is commented
out, so the `Pauser` disposes itself in its constructor); `addEmptyNode`; sections
received as streams, which `SectionBuffer` never reads; failing writes of the cache
file; the synchronous disposables and `onDisposeError`; `add`, `delete` and `dispose`
of `WatchHelper`; the import executer and the discovery of generators.

Constants that switch behaviour on: `Lockable` (does the owner call `lock()`),
`OwnerStops` (does anybody but a failed job call `stop()`), `Timeouts` (may a job
need more than 5 s to stop), `LateCalls` (may a job set a state after its end or an
exit state), `Faults` (may generators fail, time out, processes die). The theorems
hold for all values unless they say otherwise.

## 3. What is checked

| run | instance | distinct states | shows |
| --- | --- | --- | --- |
| `queue_plain` | 3 tasks, 3 coroutines, no `lock()` | 177 | `onBusy` is taken back, `dispose()` returns; implements `LastTaskQueue`, so that the last task runs |
| `queue_locked` | 2 tasks, one of them falsy, `lock()` | 138 | calls do not overlap, `_promise` covers the work, nothing starts after `dispose()` |
| `memory` | 5 bytes, every sequence of calls | 1,276 | the list is canonical, the figures are right; implements `MemoryMap` |
| `cachefile` | 3 sections, 6 records, 2 crashes | 18,474 | stored sections are found, erased ones stay erased, positions are right but for the torn section of a failed start, a file with a header can be opened again |
| `buffer` | 2 bytes, a flush from 1 byte on, 3 sections, 2 crashes, 2 damaged sections | 650,845 | no byte is forgotten silently, no call of the cache file meets another one, wrong bytes only where a write was refused, `sync()` flushes, a full download completes if somebody is to look |
| `buffer_rot` | 3 bytes, no crash, 1 damaged section | | violated (section 6) |
| `jobs_pair` | B needs A, 2 slots, any state, owner stops, timeouts | 25,679 | order, working set, end of `startup()` and `stop()`, nothing starts after a stop, a job that exited with an error stops the graph |
| `workers_build` | B and C need A, 1 slot, build, 2 messages each | 43,540 | starts on successes only, the slot is not given away twice, failed builds stop the graph, `startup()` settles, no process is left; implements `JobGraph` |
| `workers_watch` | B needs A, watch, 3 messages each, owner stops | 18,110 | `stop()` returns, a watcher that quits stops the graph |
| `lifecycle` | the global lifecycle, 2 containers with any holders, 2 resources | 966,884 | one release each, in the order of the list, `dispose()` resolves at the end, the process exits |
| `codegen` | 2 edits, 2 passes at once, 3 sessions, all faults | 418,164 | passes end, answered by a later run; changes reach a run |
| `codegen_source` | the same without faults | | violated (section 6) |

**Bounds.** `Execs` bounds the coroutines that exist at once; one that has ended is
used again, and a queue that ran out of them would violate `ImplementsMailbox`. In the
code as it is only one ever exists; three leave room for the second and third that
`OneCallAtATime` and `PromiseCoversWork` exclude. Two tasks suffice
to tell a replaced task from the one that replaced it; the third makes a run of
replacements. Five bytes are the fewest that have three ranges with two gaps, so that
a push can touch both neighbours or none and a hole can cover, cut and split. Three
sections and six records let a section be written at an offset whose first owner was
erased and cut off; two crashes tear a record, and one that was written over it. In
`buffer` two bytes make a list with a hole; `MaxSections` and `MaxRecords` leave
room for every range in memory before a push is allowed, so that they never stop a
flush. Three sections let the hole of a complete cache with a bad part be filled again
after a restart, which is where nobody may be left to look; the second crash falls into
that restart, the second damaged section into its rebuild. `buffer_rot` needs three bytes
for a list with a middle.

Two jobs are the smallest graph with an order; in `workers_build` two jobs become ready
by one event and compete for one slot. `MaxMessages` 2 lets a process say start and
result, or change its mind once; 3 lets a watcher start again after a result. `Index`
reverses `Order` in all instances, so that `joinAll` meets the last started job first.
Two containers and two resources under the global lifecycle make chains of three, an
object with a sibling, one with two holders and one that is registered with nobody;
`MaxListeners` 1 lets a listener outlive its registration (with 2 the run has 2,277,289
states and passes as well, in twice the time); `MaxCounter` 5 is the
highest value the code distinguishes. Two edits let one fall into the run or rebuild that
answers the other; two passes overlap, the next change waits for one of them to end,
and three sessions are one in use, one being disposed and one being started. Deadlock is
not checked because all instances end: a disposed queue, a stopped graph, a
complete download, an exited process, no edits left.

**Fairness.** Weak fairness stands for what the event loop guarantees: a
`setImmediate` or a timer fires, and a settled promise resumes its awaiter.
That is `Immediate` and `DisposeEnd` of the queue; `Startup`, `StateEvent` and
`StopJoin` of the graph (`startup()` is called since a graph that is never started has
nothing to wait for); the steps of `start()`, a trigger, a rebuild, `sync()` and
`dispose()` of the buffer, and its timer; `Call`, `Advance`, `Finish` and `Exit` of the
lifecycle. `Settle` and `Release` say that a callback and the release of a
resource end, well or badly. `Ends`: a build process ends by itself, and any process
ends once it was told to, if not by SIGTERM then by SIGKILL after 5 s. `StoreFairness`
is about the owner, who opens what it has made and drops what failed. `Codegen` assumes
least: as long as the program or a child can go on, some step of them is taken.
Nothing is assumed of messages, pushes, edits, crashes, of the owner's other calls, or
of a watcher that is not told to stop.

**Mutants.** For each property of each passing run one definition is replaced by a
plausible bug (a listener that counts a job once only, `joinAll` that skips failing
jobs, a merge with one neighbour, a list that is walked forwards while it is spliced, a rebuild that goes on after a bad part, a loop that
ends at the first error, an `await` left out), and TLC finds the property violated.

## 4. What is proved

The theorems hold for all graphs, orders, concurrencies, trees, tasks, coroutines,
sections, edits and bounds that satisfy the named assumptions of their module
(`QueueAssumption`, `MaxSizeAssumption`, `BufferAssumption`, `GraphAssumption`,
`WorkerAssumption`, `CacheFileAssumption`, `LifecycleAssumption`, `CodegenAssumption`): dependencies are finite, transitively
closed and acyclic in the sense that no node depends on itself, positions are distinct,
the global lifecycle is a container, bounds are numbers.

**`LossyAsyncQueue_proofs`**: `TypeCorrect`, `PromiseCovers`, `Exclusive`, `Quiet`,
`NothingStarts`, with and without locks and falsy tasks. The inductive invariant
says that `_promise` names the only live coroutine. A new one is started from
`idle` only while `_promise` is empty, or by the coroutine that ends; that two
callbacks never overlap follows, and is not inductive by itself. `BusyEnds` and
`MailboxSteps` are about a queue that is never locked and has truthy tasks only: an
unfinished `onBusy(true)` has a live coroutine (the converse is not claimed), and each step is a step of
`LastTaskQueue` or changes nothing of it. That is the safety part of
`ImplementsMailbox`; its liveness is left to the run.

**`MemoryList_proofs`, `MemoryCache_proofs`**: `CanonicalList`, `FiguresRight` and
`ListIsMap`, for downloads of any size. The first module has the lemmas about the
operators, which `SectionBuffer_proofs` uses as well. The invariant is that the list is
sorted and has no two neighbours to merge. *Sorted* is said of any two items, not of
neighbours, so that nothing has to be proved along the list. There is one lemma per
operation: what it does to the bytes (`Has`), and where items that could be merged may
stand in between (`Mergeable`), which shows that the two merges after an insertion or a
`shift()` are needed and enough, and that a hole needs none. `AcceptsMissing`: `push()`
takes a range if and only if all of it is missing. The walk of `punchHole()` and the sum of
`_calculateUsage()` are recursive functions. `WalkLemma` gives the list at every round of
the walk (`Half`: what is still to be looked at is as it was, the rest is cut) and shows
by the four cases of one round (`HalfStep`) that no other function solves the recursion,
looking at the last round for which one would differ; in the end it has what begins before
the hole and what ends behind it, cut at its ends. `UsageLemma` does the same for the sum,
and `FullLemma` for what `isFullfilled()` compares.

**`CacheStore_proofs`**: `Recovers`, `ErasedStays`, `PartsPoint`. The invariant:

- `IdsGrow`, `ErasuresFollow`: identities grow along the file and an erasure stands
  behind the section it names, so that a prefix of the file is as good a file and an
  offset that is used again is not hit by an erasure of its first owner.
- `AliveIsKnown`: a section no record erases is known to the instance, or marked bad,
  or being written, and only one of these. This is what ties the file to what is
  offered for reading.
- `StoredHasLanded`, `ErasedHasLanded`: what the histories speak of lies before
  `landed`, and a crash cuts nothing off there.
- `WriterIsReady` excludes a write while something else is awaited.

`PartsPoint` is about every instance, also one whose `openRead()` threw: what it offers
without a record behind it is the torn section at the end (`TornPoints`), and every other
part is alive (`AlivePoints`), which `openRead()` found or `writePart()` wrote where it says.

**`SectionBuffer_proofs`** is about the composition, over any number of processes,
coroutines and damaged sections:

- `NothingForgotten` (`FiledIsKept`), `FinalFileIsRight` (`WrongOnlyIfRefused`),
  `SyncIsDone` (`SyncFlushes`): the three promises about the bytes.
- `WrittenOnce`, `FoundAgain`: no two sections of the cache file overlap, whatever
  processes wrote them, and an instance that may write knows all of them and has lost
  nothing.
- `LocksAreFree` (`CallsFindTheFile`), `LockIsNeverMet` (`TriggersNeverMeet`),
  `OneTriggerAtATime`, `DisposedIsQuiet` (`QuietAfterDispose`): the calls of the parts
  meet nobody.
- `TypeCorrect`: the types of all variables, those of the file and the queue included.

The invariant has the invariant of the queue in it, by instantiating
`LossyAsyncQueue_proofs` over the variables of this module; of `CacheStore_proofs` it
takes what `openRead()` finds in a file (`ParseLemma`). Its other parts and why they are
there:

- `SavedIsFiled`: what the list calls written is what the parts of the file hold, what is
  on its way there, what was refused, and what went into `temp` only; the last two are
  not in the file. `NothingForgotten` is a part of it. With `TriggerStands`, `CopiedIsGood`
  and `LooseIsGood`, which follow the rebuild, it gives `FinalFileIsRight`.
- `SectionsAreApart` is needed because a bad part takes its bytes out of the list: were
  they in a second part, that one would be copied without being known. `WriterKnowsAll`
  makes it inductive over crashes: what is written is missing from the list, and the list
  knows the whole file, since `start()` has pushed the parts one after the other
  (`LoadedLemma`) and a writer is never opened after a part was found bad.
- `OwedIsFlushed`: bytes that were in memory when `sync()` was called are in memory or
  written, and written when its trigger has come back. That trigger does not return at
  once because the lock is free (`LockIsFree`): `sync()` has waited for the coroutine that
  could hold it. The proof showed that the claim is false of a byte whose section is found
  bad meanwhile, as that byte is missing again; `owed` therefore loses it.
- `EarlyIsIdle`: nothing runs before `start()` has resolved, so that the file is
  loaded into an empty list.

`CallInv` says which call of the cache file each place of a trigger awaits;
`DisposeIsLast` that after `sync()` has come back the queue is locked and idle;
`HolderIsAlone` that the queue has no coroutine while `sync()` or `start()` holds the
lock. `LockIsNeverMet` says more than the code relies on: while the owner awaits
`sync()` before it calls it again, the lock of `trigger()` is free whenever it is
taken, and no trigger is skipped. TLC agrees: without the test of the lock `buffer` has
the same states. No run lists `TriggersNeverMeet` and `QuietAfterDispose`; TLC has found
no violation of them in the instance of `buffer`.

**`WorkerGraph_proofs`** has the theorems about `JobGraph`, whatever its jobs do,
and those about the workers. Of the jobs: `TypeCorrect`, `InOrder`, `Tracked`,
`LoadBounded`, `NothingStarts`, and under `~LateCalls` `StoppedLast` and `RejectedLast`.
The parts of `IInv` and why they are there:

- `Started`, `BeforeStart`: what is started is running, busy or done; before
  `startup()` nothing has happened. Without them `Pump` could start a node twice.
- `WorkingIsTracked`, `FreshIsWorking`: a job in its first run is in `working`
  although its events are late. `StartLoadBounded` follows for a pump, as free
  slots are counted by `working`, and needs the second to be inductive.
- `StartedInOrder` needs `fresh` to say that a dependency has left its first run.
- `StopEndsStart`: a rejected promise and a called `stop()` go together with a
  disposed Starter in the same step, so that nothing starts later.
- `Joined`, `EndsLast`: what `joinAll` has passed has stopped or was never
  started, and stays so because the start phase is over and a stopped job sets no
  state. The last point is the assumption `~LateCalls`.

Of the workers: `WorkersTypeCorrect`; `WorkersImplementJobs` (every step of
the workers is a step of `JobGraph`, or one that changes none of its variables), so
that the theorems on jobs hold for processes, of which `WorkersLoadBounded` is one;
`StartsOnBuilt`; and under `~LateCalls` `NoProcessLeft`. `WInv` adds to `IInv` that a
process that runs belongs to a live job (`BusyIsAlive`), that unrecoverable jobs have
ended (`FatalHasEnded`), that jobs are told to stop only after the start phase
(`ToldIsPost`), and that a job which counts as successful has a worker that
succeeded unless it was told to stop (`SuccessIsBuilt`). The last exception is the
point of `StartsOnBuilt`: a worker killed while it compiles ends as
`success-exited` but cannot start a dependent, as the start phase is over.

**`Lifecycle_proofs`**: `Once`, `LastFirst`, `Released`, for containers that are
registered with one another in any way and to any depth. No induction over the tree is
needed: a step is one call of `dispose()`, and what lies below a container is a least
closed set, so it suffices to name a closed set with the wanted property.
`AheadIsUntouched` says that a resource whose place has not come was not called and is not
about to be, `TurnIsUntouched` that what a turn is about to call is called once,
`BehindHasEnded` that what stands before the awaited place has ended, `OnePlace` that no
resource has two places; `ErrorsAreKept` carries the error up, `CallsAreCounted` counts.
`Released` follows by taking the set of objects that have ended, which `BehindHasEnded`
closes for disposed containers; `LastFirst` in the same way, as what stands before a
resource that was called has ended with everything below it. Both speak of the list the
container has: what has left it is the subject of section 5.

**`Codegen_proofs`**: `TypeCorrect` and `Answered`. `AnswerAhead` says that whoever
waits has a run queued or waits for one that began with what he has seen;
`SeenIsOnDisk` makes it inductive, since a run that begins reads what is on the disk.

Model-checked only: everything that must happen eventually (`DisposeReturns`,
`FailureStopsGraph`, `BootSettles`, `StopReturns`, `QuitStopsGraph`,
`FailedBuildStops`, `StartsAgain`, `FullCompletes`, `ShutdownExits`,
`ChangeReachesRun`, `PassEnds`, and the liveness in `ImplementsMailbox` and
`ImplementsJobGraph`, whose steps are proved), which the proof system cannot do under
fairness. `FinalIsRight` and `RunsReportedSource` are false (section 6). Every other
property of a passing run is stated by a theorem.

## 5. Not covered

Behaviour that the models have or leave out, and no property speaks of:

- *Late messages.* `ProcessIPCClient` reads messages in a loop nobody awaits
  (`process-ipc.client.ts:262`). If one were read after the end of the process it
  would move the job out of its exit state and its joiners would wait on.
  `LateCalls` allows this in the models; the theorems about the end of `stop()`
  and `startup()` assume it away, and no run switches it on, because it depends on
  the library that runs the process.
- *`stop()` during `startup()`* leaves the promise of `startup()` pending for ever
  (`job-graph.graph.ts:160`). The model has it; no liveness property is claimed for
  `startup()` where the owner stops.
- *Watchers above the concurrency.* Re-runs are counted but not held back, which is
  meant; `StartLoadBounded` speaks of first runs.
- The getters `quitedWorkers`, `startingWorkers` and their like
  (`workers-manager.ts:103-136`) select what their names deny; nothing in the
  repository calls them.
- *A locked queue.* `sync()` or `dispose()` between a push and its `setImmediate`
  rejects and leaves the queue locked (`index.ts:146-153`), and every later `sync()`
  rejects too; `forceSync()` alone stops the queue (section 6), and during a `sync()` it
  leaves `_isManual` set, so that pushes and the timer are ignored from then on.
  `FullCompletes` excuses these states (`QueueStalled`), although
  `index.test.ts:91-103` expects `forceSync()` to flush. A push during `sync()` is stored
  but flushed by nobody until the next trigger, and `start()` on a cache that is full but
  damaged sets no timer: if the hole is then filled during a `sync()`, nobody looks, the
  file is complete and is not built. `FullCompletes` therefore asks for the timer or for a
  push that got through. A second `sync()` while the first one
  waits finds the trigger taken and returns at once; the models make no such call.
- `commitBadBlock()` never runs inside `SectionBuffer`, because no writer is opened
  after a rebuild that found a bad part; only `cachefile` reaches it.
- *An empty cache file*, left by a crash between `open('ax')` and the header, is
  missing to `openRead()` and existing to `prepareCreate()`, for ever
  (`CacheFile.ts:172`). `StartsAgain` asks for a header.
- *A second `start()`* of one instance would add its sections twice, and after a
  `FileDataError` the torn section stays in the list of an instance that can continue,
  says `CacheFile.ts:80`: its last part names bytes that were cut off
  (`PartsPointAtData` has that exception and no other). The owner of the models makes a
  new instance.
- `makeEmptyFile()` returns without truncating a file of another size
  (`makeEmptyFile.ts:13`); in the models the size of a download does not change.
- *An object disposed on its own* is taken out of its parent at once
  (`disposable.ts:173`), so that neither the parent nor a shutdown waits for it;
  `DisposedIsReleased` and `ShutdownExits` speak of what is still registered, and
  `FirstRegisteredLast` of what is still in the list. With `a` registered with `b`
  (`autoDereference`) after a resource `x`, and a resource `y` with `a`: `a.dispose()`
  begins to release `y` and leaves `b`, and `b.dispose()` then releases `x` while `y` is
  not done, against *first registered, last released* (`disposable.ts:164`).
- *The index -1.* `_unregister()` of what is not in the list removes the last entry
  (`disposable.ts:197`), which is then never released. An owner gets there by a second
  `_unregister()`; the code does by itself, as `_unregister()` leaves the listener of
  `autoDereference` behind (`disposable.ts:189-192`): after `register(d, true)`,
  `_unregister(d)`, `d.dispose()` the holder drops its last entry, whatever it is. So it
  does after `register(d, true)`, `_unregister(d)`, `register(d, true)`, `d.dispose()`, by
  the second of two listeners. `lifecycle` has the first of these with `MaxListeners` 1.
- *A resource with two strong holders* is released twice unless its `dispose()` looks at
  that itself; `debug.ts:73-77` warns, and `MayRegister` leaves it out. Containers answer a
  second `dispose()` with the promise of the first, and may have any number of holders.
- Uncaught errors raise the counter of shutdowns, so that after several of them the
  first signal of a user exits at once.
- *Codegen.* A run that timed out leaves its session executing, and the next run calls
  `shutdown(66)` (`executer.spawn.ts:117`); so does a second edit of the source during
  a rebuild (`executer.spawn.ts:148`); two concurrent rebuilds each make a session, one
  of which nobody disposes (`executer.spawn.ts:153`). The models have all three.
  `WatchHelper.dispose()` does not clear the timer of its debounce, and `lastRun`,
  for which it waits, is overwritten (`main.ts:134`, `main.ts:256`); not modelled.
- `DependencyInjector` remembers the promise of an instance when its creation has
  come to its first `await` (`core.ts:169-171`). A cycle through first dependencies
  has recursed until then, and one through later dependencies waits for itself
  (`core.ts:196-197`). Each is visible in a few lines, which a model would restate.

The mapped lines are a small share of the repository. A third of it is generated
types; most of the remainder are standalone tools, build scripts, text processing and
thin calls into node. `PROJECT.json` lists these as not modelled, with the reason.

## 6. What the runs found

| run | finding |
| --- | --- |
| `buffer_rot` | after a rebuild that found a bad part the next flush takes a range out of memory and is refused by the closed writer (`index.ts:281`, `index.ts:206`). When the bad range has arrived again the list counts as full, and the final file is made without the lost bytes: `expect(got).toBe(hash)` (`index.test.ts:146`) does not hold |
| `codegen_source` | a change of the generator's source that arrives during a run, after a failure or together with a data file that is watched by its name is answered `NeedExecute` (`executer.base.ts:91`); the old process runs its old code, against `源文件已更改，应该重新编译` (`executer.base.ts:115`) |

Seen while modelling, and stated by no run:

- `lock(true)` between a push and its `setImmediate` leaves a coroutine without its
  task, which fails the assertion at `AsyncQueue.ts:137`; afterwards `_promise` stays
  set and no later task is run.
- `TriggerKind.manual` is 0 and fails the same assertion, so `forceSync()` flushes
  nothing and stops the queue.
- A build that reports a failure before it exits lets `startup()` resolve first;
  `21-build-fail.test.ts:46` tests the other order.
- In watch mode a step compiles although the failure of one it depends on was
  published, which `@mpis/shared/README.md:11` excludes; the pause control that would
  do so is commented out (`process-ipc.client.ts:356`).
- A job can leave a fatal state for one that is no error
  (`job-graph.job.ts:83-84`).

## 7. Plan

1. `NamedPipe` (`Mutex`, `NamedPipeBase`) and `BufferStream`: waiters wake up on
   dispose, one acknowledgement per chunk; an abstract specification each.
2. `Emitter` and `CancellationTokenSource`, and with them `JobGraph.dispose()`, which
   stops jobs a second time.
3. `GraphBuilder` (empty nodes) and `Pauser` over `JobGraph`; `RefcountRegistry`.
4. An abstract specification of `SectionBuffer` (the bytes its owner may rely on over
   all processes) and the proof that each step implements it; that `MaxSections` and
   `MaxRecords` never stop a flush.
