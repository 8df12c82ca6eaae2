# A model of COB, the Catalyst Orchestrated Builder

`cob` reads a build manifest, decides which build steps are out of date, and
runs their commands on a pool of threads. This directory holds TLA+ models of
the parts of it in which order, concurrency, failure or the history of earlier
runs matters, and of the data structures these parts rely on, the TLC runs that
check them, and TLAPS proofs of the safety properties of the scheduler, the two
queues, the time cache, the cache file, the calls of the operating system, the
data structures and the incremental build.
Paths and line numbers below are those of the repository (`src/executor.cpp`
is the file of that name in its root). `PROJECT.json` lists, for every
definition that models code, the lines it stands for; for every run, what it
checks; and for every property, a plausible bug that breaks it (the definitions
marked "mutant" in the modules, which no specification uses).

## 1. Inventory

| Component | State it keeps | Operations | What must be true of it |
|---|---|---|---|
| Scheduler: `Executor::execute`, `workerLoop`, `pushReady` (`src/executor.cpp`) | `ExecuteContext`: `ready_queue`, `tasks_available`, `sleeping_threads`, `completed_count`, `in_degrees`, `error_occurred`; the pool | fill the queue, spawn, join; dequeue, test for the end, sleep, run a step, release its out-edges, wake others | a command starts only after the producers of its inputs; each step runs once; the result is true; `execute` returns |
| Ready queue: `LockFreeMPMCQueue` (`include/cob/mpmc_queue.hpp`) | ring of cells (`sequence`, `data`), `enqueue_pos_`, `dequeue_pos_` | `enqueue`, `dequeue`, by any thread | FIFO of claimed places, nothing lost, no race on `data`, full and empty reported rightly |
| Progress output: `LockFreeMPSCQueue` (`include/cob/mpsc_queue.hpp`), `printMessage`, the progress thread | ring as above with a plain `dequeue_pos`; `messages_enqueued`; the thread's `processed` | enqueue with retry, count, notify; wait, dequeue, print; poison pill | every message is printed once; the thread ends |
| Modification times: `Executor::NodeTimes` | per produced file and for the manifest a slot (UNKNOWN, BUSY, READY and a time); times of the sources | `changedSince`, `record`, `invalidate`, `statSources` | answers agree with the file system; the slot's plain time is never raced for |
| Incremental build: `parse`, `parseBin`, `emitBin`, `needsRebuild`, `processStep`, `clean` | files with times; `.catalyst.bin` with definitions, depfile inputs and command hashes; `.d` files | load manifest or cache, override definitions, test steps, run commands, save hashes, clean | a successful build leaves nothing stale; a second one does nothing; hashes tell the truth |
| Build graph: `BuildGraph` (`src/graph.cpp`) and the cycle test in `execute` | nodes with out-edges, steps | `addStep`, `topoSort`, Kahn's count | one producer per file, no cycle gets to the workers |
| Depfile reader: `parseDepfile` | none | tokenise Make rules | the headers the compiler named |
| Manifest parser (`src/parser.cpp`) | none | `parseDEF`, `parseStep` | the lines' meaning |
| Cache format (`src/binary.cpp`) | string pool, `AddressCache`, header with checksum | write with `writev`, rename; map, verify, read | reads back what some run meant to write, or is refused; references lead to their strings |
| Response files (in `buildCommandArgs`) | `.rsp` files | reuse, write, or do without | the linker gets this step's inputs |
| Clean through io_uring | submission ring | batches, fall back to `unlink` | every file removed |
| Process execution (`src/process_exec_linux.cpp`) | pipe, child | spawn, drain, wait | status and output of this child, no hang, nothing left behind |
| `StatCache` | locked buckets | `getOrUpdate`, `invalidate` | used by a test only |
| `FlatHashMap`, `optional_vector` | slots with probe distances | insert, find, reserve, rehash | behaves as a map; returned pointers lead to their entry |
| Command line and `main` | configuration | parse options, then one tool | - |
| Output tools (compdb, graph, commands), JSON, work estimates, file wrappers, rapidhash | - | formatting and storage | - |

How they interact. `main` calls `parse`, which loads either `.catalyst.bin` or
the text manifest (and then the `.d` files) into a `COBBuilder`; it applies the
overrides of the command line and hands the builder to an `Executor`.
`execute` counts in-degrees, rejects cycles, fills the ready queue, stats the
sources and starts the progress thread and the workers. The workers share the
ready queue, the counters and `NodeTimes`; for each task they call
`processStep`, which calls `needsRebuild`, prints through the progress queue,
runs the command and notes its hash. The thread in `execute` joins the workers,
sends the poison pill, and writes the cache if a hash changed. Across runs the
parts communicate only through files and their modification times.

What is hard about it:

* *Interleavings*: the sleeping protocol of the workers (a futex word that is
  decremented after, and incremented before or after, the queue changes), the
  lock-free rings, the slots of `NodeTimes`.
* *Failure*: a step that fails while others run, with and without
  `--keep-going`.
* *Histories*: edits, failed and interrupted runs, dry runs, cleans and changes
  of flags, in any order, with times as the only evidence.
* *The operating system*: calls that do part of what they were asked, fail or
  are interrupted; a pipe that is full, held by others or closed; a kill or a
  power cut while the cache is written.
* *Limits*: a full ring, a ring of one cell, a counter that wraps, equal times,
  a full hash table, a last chunk that is short.

The full list of hazards, each at its line with the properties that bear on it
or the reason why none does yet, is in `PROJECT.json`.

## 2. Modules

```
BuildContract        abstract: a build without threads
  ^ implemented by
Scheduler            execute, workerLoop, pushReady    <- MCScheduler, SchedulerProofs
  |
  v its queue implements
ClaimQueue           abstract: FIFO with claim and publish
  ^ implemented by
MPMCQueue            mpmc_queue.hpp                    <- LockFree, MPMCQueueProofs
ProgressQueue        mpsc_queue.hpp, progress thread   <- ProgressQueueProofs
NodeTimes            the time cache                    <- LockFree, NodeTimesProofs
  ^ begins where it ends
SourceTimes          statSources and its summary       <- Services
IncrementalBuild     successive runs over a directory  <- MCIncrementalBuild, IncrementalBuildProofs
  | takes its cache to be
  v
AtomicCache          abstract: a cache that changes as a whole
  ^ implemented by
CacheFile            writeBinData, emitBin, parseBin   <- Services
ResponseFiles        .rsp files over successive runs   <- Services
CleanRing            unlinkWithIoUring                 <- Services
ProcessExec          process_exec, several workers     <- Services
BuildGraph           addStep, Kahn's count, topoSort   <- Structures
FlatHashMap          the index of the graph            <- Structures
StringPool           StringBuffer, AddressCache        <- Structures
Depfile              parseDepfile                      <- Structures
LockFree             the ring and the slots            <- MCLockFree
Services             the five that use the system      <- MCServices, ServiceProofs
Structures           the four a graph is made with     <- MCStructures, StructureProofs
Rounding             std::bit_ceil                     <- MPMCQueue, FlatHashMap, StringPool
```

`LockFree`, `Structures` and `Services` put several machines in one state
space. These share no data, so a behaviour is one of one of them: the variable
`part` says which, and the others keep their initial state. In the last two
modules each property is a definition that names one of a module.

`RingArithmetic` has the facts that several proofs rest on: about positions and
cells of rings, about `bit_ceil`, and about functions that are defined by
recursion (section 4).

**Scheduler.** The variables are the fields of `ExecuteContext`; `pc` says
where each worker is between two accesses to shared state, `main` where
`execute` is, and `status` records what became of each step. An action is one
atomic access, or accesses that may be taken as one:

* the two loads of the exit test (`completed_count`, then `error_occurred`):
  the flag only rises, so if it is seen down it was down at the first load;
* `sleeping_threads.fetch_add` with the stall test's load of
  `tasks_available`: the load matters only if all other threads are in the
  sleeping section, where they change nothing;
* `completed_count.load` with the spawn that follows it: a thread that is born
  too late only finds that it must leave.

The queue is a FIFO with the two visible steps of the ring (a claimed head that
is not yet published makes a dequeue report an empty queue). Counters wrap at
`CounterMod` as `size_t` does. `wait(0)` looks at the word and blocks;
`notify_one` unblocks any non-empty set of the waiters, as the standard lets
it, `notify_all` all of them; spurious wakeups only repeat the look. The stall
branch ends a worker in the state "stalled", where a debug build asserts; that it
is unreachable is checked and proved. Source nodes have no step and only count.
Edges have identities, because an input that is listed twice is two edges. The
order of initial tasks and of out-edges is arbitrary. Accesses are
sequentially consistent; the code uses acquire and release throughout (relaxed
only for `tasks_available.fetch_sub`).

**BuildContract** promises that every step runs at most once, only after its
producers have succeeded, and does run if they do. `Scheduler` implements it
with `status` as the mapping.

**ClaimQueue** promises FIFO order of claimed places, takes only a published
head and never exceeds its capacity. `MPMCQueue` implements it (mapping: the
places claimed and not yet taken, the items of producers between their claim
and their publication, the items that consumers have taken), and so does
`Scheduler`'s queue, so that the queue the scheduler is checked with is the one
that the ring provides.

**MPMCQueue** has one action for every load, store and compare-and-swap of
`enqueue` and `dequeue`. `claims` (which item was claimed for which position)
is a history variable. A compare-and-swap may fail spuriously. Positions are unbounded: 2^64 operations
do not happen. `Items` bounds the number of enqueues.

**ProgressQueue** has the same steps for the producers' `enqueue`, with the
loop that repeats it on a full queue, the count and the notification; the
consumer's `wait`, `dequeue` and print; and the pill that `execute` sends after
joining the workers. `claims` and `printed` are history variables.

**NodeTimes** has one process per step, the worker that runs `needsRebuild` for
it, and splits `changedSince`, `record` and `invalidate` at each access of the
slot. The times of sources are read before the workers start, which is
`SourceTimes`.

**SourceTimes** is the constructor of `NodeTimes`: the sources are divided
into ranges, threads look at theirs in any order, and then a pass over the
edges, one per action, gives each step the newest time of its source inputs,
whether one is missing, and the list of its inputs that steps make (the code
makes this list by counting in a second pass). `SummaryAnswers` says that the comparisons of
`needsRebuild` that use this summary come out as if every input were looked at.

**IncrementalBuild** keeps the directory (times, contents as edit counts,
outputs as records of what they were made from, `.d` files, the cache) apart
from the process (the loaded graph, the sources' times, the state of each
step), which an interrupt discards. A run is a sequence of steps of `main`, so
edits and interrupts come between any two of them. How a run's steps are
shared among workers is left to `Scheduler`: any order in which producers come
first is allowed. Command hashes stand for the command lines. A command reads
its inputs when it starts and writes its output when it ends. The cache may fail
to be read (then the text is) or written (then the run goes on), `MaxFaults`
times. `build_file_slot` is the manifest's time as the first step of a run saw it
that had to ask for it; how several steps ask at once is in `NodeTimes`.
`run.saw`, `settled`, `raced` and `due` are history: what the files were when
the run began, the command line of the last successful build that no edit,
failure or clean disturbed, whether a file was edited during a run, and what
each manifest said after its last edit between runs.

**AtomicCache** promises what `IncrementalBuild` takes for granted: the cache is
the whole of what some run meant to save, the latest one unless the power went, or is
refused. **CacheFile** implements it, with the run whose image passes `parseBin`'s
tests as the mapping (`Holds`). A file is a sequence of bytes that know which
run meant them for which place; the images of runs differ in length. `Write` is
one `writev`, which may take any number of bytes; `CallFails`, `RenameFails`,
`Remove`, `Kill` and `PowerCut` are what can go wrong. Nothing is synced, so after a
power cut `.catalyst.bin` is any file it has been since it was last known to be
on disk, cut off or with holes. The checksum is taken to tell such files from whole ones.

**ResponseFiles** reduces a run to its link steps, one per worker: up to date
or not, then `Reusable` (a `.rsp` file newer than the manifest), the threshold
(`Long`), `OpenFile` and `WriteFile`, and `Link`, in which the linker reads the
file. Edits of the manifest, cleans and interrupts come between runs and steps.
Versions of the manifest stand for the lists of inputs.

**CleanRing** has the kernel as an actor that carries out submitted requests in
any order; `io_uring_submit` takes some of them, and it, the set-up, a wait and
each request may fail. The fallback starts at the first path of the
present batch, while requests may still be in the kernel. `unlink` itself is
taken to succeed.

**ProcessExec** has for every worker a call of `process_exec`, its child and
what the child leaves behind. Until the program is started a child has copies of
all descriptors of `cob`, those of other workers' pipes included. A command
writes piece by piece, is blocked by a full pipe and killed by one without a
reader; a descendant may keep its output open. `EINTR` repeats a call and changes
nothing.

**BuildGraph** adds the steps of a manifest one by one, and after each, one
action per edge, its inputs: those of the depfile, the listed and the opaque
ones; `execute` then counts in-degrees and visits
nodes as Kahn's algorithm does, and `topoSort` is a machine with its explicit
stack, one action per look at an edge. The properties read the manifest and
not the graph.

**FlatHashMap** moves a displaced entry one slot per action, with growth as the
insertion of every entry into a larger table and `result` as the index that the
returned pointer stands for; `Skip` is the test of `rehash` for free slots.
`dict` is the function that the calls so far have
made. **StringPool** has the slots of `AddressCache` and the pool; strings are
views, so that equal contents at two addresses and different lengths at one
address occur. **Depfile** reads a text of character classes, one name per
action; the texts are those that a compiler writes for a list of names, by
GCC's quoting rules (external to this repository), and arbitrary ones.

## 3. Runs

Passing runs (TLC finds no error):

| Run | Instance | Shows |
|---|---|---|
| `sched_fail_fast` | 4 steps, one with an input listed twice, two that may fail; 2 workers | type invariant; the counter agrees with the queue; `execute` returns; the queue is a `ClaimQueue`; no deadlock |
| `sched_keep_going` | diamond, two steps that may fail, 3 workers, `-k` | producers first; the result is true; no task is left without a worker; no early exit; the queue never overflows; the stall branch is dead; implements `BuildContract` with its liveness, so every step that can run does, even if workers sleep for ever |
| `progress` | 3 workers of 2 messages, 2 cells | nothing lost or changed; reader undisturbed; no dequeue in vain; the thread and all producers come to their end; no deadlock |
| `lock_free` | the slots: a step, an object and 2 programs that depend on it, where the manifest is a file nobody writes or the output of the first step, all times in {1, 2, 3}; the ring: 3 threads, 4 items, 2 cells | slots not raced for; answers are those of a stat; the ring implements `ClaimQueue`; no race on a cell's datum, also on the second lap; never more items than cells; between calls exactly as full as it says |
| `inc` | 1 object, 1 program, a header, 3 runs, 2 edits, a failing command, interrupts, equal times, the manifest edited also during runs, one fault of the cache | success means fresh; what is loaded has every edit of the manifest that came between runs; recorded hashes are true; a build after an undisturbed successful one starts nothing |
| `structures` | graphs of 3 outputs and a source with all short input lists, depfiles, duplicates; maps of 1 to 8 slots with colliding hashes; pools of 2 to 8 slots; names of up to 3 characters and arbitrary texts | both cycle tests refuse what needs itself and nothing else; in-degrees are exact; the order of commands; the index is a map and its pointers are right; references lead to their strings; names survive their quoting; the depfile reader always advances |
| `services` | 3 runs saving caches of different length, 2 failures; 5 files in batches of 2; 2 link steps, 3 versions; 2 workers with commands; 5 sources and up to 4 threads | the cache file implements `AtomicCache`; clean leaves nothing; links are made from their inputs; output complete, nothing left behind, every call returns; the summary of sources is right |

Runs that end in a violation, each a disagreement between the code and what a
comment or a document says (the quotations are in `PROJECT.json`):

| Run | What happens |
|---|---|
| `sched_keep_going_hang` | with `--keep-going`, a step fails that others wait for; its worker leaves, the others sleep for ever, `execute` does not return |
| `sched_lost_release` | a late `fetch_add` in `pushReady` wraps the released counter from SIZE_MAX to 0; a worker then sleeps for ever |
| `inc_header` | the cache of the first build knows no header, and later runs read only the cache: an edited header is not noticed |
| `inc_lost_hash` | a failed or interrupted run with other flags leaves outputs whose hashes are not saved |
| `inc_named_manifest` | of two manifests in a directory, the one named with `-f` is not looked at if the cache that the other left is newer (`src/parser.cpp:106`) |

The modules also show these behaviours on other instances, which are not kept
as runs:

* without `--keep-going`, a step that is ready is still started after a
  failure, because the queue is tried before `error_occurred`
  (`src/executor.cpp:1164`);
* with `Requested = 1` a second `enqueue` succeeds on the full ring of one cell
  and breaks `WithinCapacity`; the executor has such a ring only for a graph of
  one node, whose single enqueue is safe;
* `dequeue` reports an empty queue that holds a complete item, behind a slow
  producer (the published head in `ClaimQueue`);
* with a step that writes the manifest and others that do not depend on it,
  `SlotsUnshared` is broken: `invalidate` resets the manifest's slot while they
  fill or read it (`src/executor.cpp:415`);
* with one manifest that is edited during a run, `UsesNamedManifest` is broken
  as well: the cache is written after the edit, does not contain it and hides it
  from later runs until the next edit (`src/executor.cpp:1515`), which is why
  `EditsAreNoticed` speaks of edits between runs; with `MaxFaults = 2` such a
  run, a cache that cannot be read and one that cannot be written together also
  break `HashTruthful`, as the cache of an earlier run then vouches for the
  outputs of a later one;
* with `TornWrites`, `LinkedFromItsInputs` is broken: a `.rsp` file whose write was
  interrupted, or failed on a full disk unnoticed, is newer than the manifest,
  and every later run links from the part of the list it has, until the manifest
  is touched (`src/executor.cpp:857`, `:873`); `docs/implementation/overview.md:57`
  says that the file "contains the list of all input files";
* with one name in `Rsp` for two steps, as for `libx.so` and `libx.exe`,
  `LinkedFromItsInputs` is broken too: each may link from the other's list
  (`src/executor.cpp:854`; the document has the file named `<output>.rsp`);
* the depfile of an earlier build can close a cycle that the manifest does not
  have, when the manifest turns a header into an output of a step that needs the
  object; `BuildGraph` then refuses, as the code does;
* a name that ends in a backslash cannot be told from a continued one in a
  depfile, so `NameLists` has none; an empty string shares the address of its
  successor in a pool, which is why `AddressCache` must compare lengths (the
  mutant of `ReferencesRight`);
* a descendant that keeps the output of a command open delays the return of
  `process_exec`; `CallsReturn` takes it that descendants end.

**Bounds.** Four steps with four edges give every shape that the counters
tell apart: roots, a step released by the last of several edges, a double edge,
a worker that releases two steps. Three workers are needed for
`sched_lost_release` (one is late, one finishes, one looks) and two for the
others; `sched_fail_fast` has two because with three `execute` need not return.
The steps that may fail may also succeed, so both runs include builds without
failure. `CounterMod` is 20 in place of 2^64, more than every value the counter
takes apart from the wrap. Rings of two cells with more items than cells come
round to a second lap, which is what their sequence numbers are for. Three times
and every assignment of them to files let a chain of steps be up to date.
`MaxRuns` of 3 is one run to create, one to disturb and one to judge; `MaxEdits`
bounds the edits of all files together (2, so that an edit of the manifest
between runs can follow or precede one that a cache lacks because it came during
a run), `MaxFaults` the failures of the cache (1). `inc` assumes what
`inc_header`, `inc_lost_hash` and the remarks above show to be needed: only
headers that the cache knows are edited (`HeaderEdits`), only the manifest is
edited during a run and `SuccessMeansFresh` judges undisturbed histories
(`raced`; `HashTruthful` and `EditsAreNoticed` judge all), there is one
manifest, no definitions are overridden (`Overrides`), and a failing compiler
leaves the old output or none (`Leftovers`). `NothingToDo` needs distinct times:
an input that is as old as its output counts as changed, so its `settled`
forgets a build after which two of the times to be compared are equal
(`Distinct`), and one during which a file was edited.

Input lists of up to three entries over three outputs and a source hold every
cycle of up to three files, self-loops, repeated inputs and inputs that are
mentioned before they are made. Four calls on a map that starts with one slot or
is reserved for three entries reach displacement, growth in the middle of an
insertion and a table that wraps round. Four nodes with caches for 0, 1 and 3
(`Capacities`) overfill `AddressCache`. Payloads of 2, 1 and 2 bytes after a header of
two make a shorter file follow a longer one; two failures allow a failed save
after a kill or a second power cut. Five paths with a depth of two are two full
batches and a short one. A pipe of one byte and outputs of two fill it. Five
sources for three or four threads leave a short chunk, or a thread without one.

**Deadlock** is checked except in `sched_keep_going`, where a worker may sleep
past the end (`sched_lost_release`, `sched_keep_going_hang`), in the runs
that show this, and in `structures` and `services`, whose machines stop when
their call is over (that calls of `process_exec` end is `CallsReturn`).

**Fairness.** `Scheduler`: weak fairness of every worker and of the thread in
`execute`. The operating system runs threads that are not blocked, and commands
exit; `wait` on the futex is not fair by itself, it needs a notification.
`ProgressQueue`: the same for producers and the progress thread; a producer
that spins on a full queue gets its turn because its look is repeated for ever
while the consumer empties the queue. `ProcessExec`: weak fairness of every
worker, every command and every descendant, as they are threads and processes
that the system runs and that end unless they are blocked; no failure is
fair. The other specifications are safety
only: nothing forces a user to build, or a caller to call.

## 4. Proofs

Each module `XProofs` extends `X`; `ServiceProofs` extends `Services` and
`StructureProofs` extends `Structures`, whose machines they are about. So a
theorem holds for all values of the constants and not of the instance that a run
checks. Every invariant was checked on the instance of the run first. Constants
are those of the modules; a theorem that needs more of them than the modules
assume says so in a named hypothesis.

Many operators of the models are recursive functions: loops over a text, folds
over a sequence, the rounding of a capacity. The library's induction theorems
take an operator as a parameter and cannot be used, but that the order of the
numbers is well founded is a fact about sets: a set of numbers that is not empty
has a least member (`LeastNumber` in `RingArithmetic`). From it follow an
induction on the rank of the members of a set (`RankInduction`), that a recursion
whose every turn lowers a rank defines a function (`TurnsExist`; `LoopExists` for
one that only goes on), and so does a row of steps (`StepsExist`). With these
what a recursive function computes is proved like anything else.

**SchedulerProofs**, for every finite acyclic graph (with double edges), every
number of workers, every set of failing steps, with and without `--keep-going`,
and every counter width with room for the counts. The assumptions are those of
`Scheduler`; that the graph has no cycle is what `execute` establishes before it
starts a worker.

* `TypeCorrect`: the counters stay in range through the wrap, the queue holds
  steps.
* `DependenciesFirst`, `QueueNeverFull`, `ImplementsContract`. None of these is
  inductive: that a started step has all its producers done depends on how the
  edges are counted. `DependencyInv` says where every step is: `PlaceInv`, a
  step that has left "pending", or is queued, pushed or held, is in exactly one
  of these places; `ZeroInv`, it is in one of them only when its in-degree is 0;
  `DegreeInv`, the in-degree is the number of in-edges that are not yet
  released, and an edge is released only after its producer is done;
  `WorkerInv`, what a worker at each label holds. Edges are then counted with
  cardinalities: in-degree 0 means that none is left (`ZeroMeansReady`). A queue
  without repetitions that does not hold the step to be pushed has room for it
  (`QueueFits`), and every change of `status` is a step of `BuildContract`.
* `ReadyQueueIsAClaimQueue`: every access to the ready queue is a step of
  `ClaimQueue`. To publish must end one claim and no other, which is
  `PublishInv`: the step that a worker publishes is in the queue, and no other
  worker publishes it.
* `NeverAllAsleep`, `ExitsOnlyAtTheEnd`, `ResultIsTrue`. `CountInv` ties
  `error_occurred` and `completed_count` to the steps; `PlacedInv` says that no
  step gets lost. `IdleMeansOver`: if the queue is empty and nobody holds a step
  then the build is over, since the pending steps would be a set in which every
  member waits for another one, which an acyclic graph does not have. The heart
  is `LastObserverLeaves`: if every worker is between its look at the queue and
  its next one, the exit test holds and somebody has still to evaluate it,
  because the last worker to join them has just seen an empty queue. So the last
  worker leaves and does not sleep.
* `NoTaskLeftAlone`: a worker goes to sleep or leaves only after it found
  nothing to take, and then either the queue is empty or the worker that
  publishes the head has still to look (`WatchInv`).
* `CounterFollowsQueue`: `tasks_available` equals `Balance`, the length of the
  queue with the adjustments that are under way, modulo the counter width
  (`AccountInv`); `EndInv`, only a worker that counted the last node stores
  anything else.

**MPMCQueueProofs**, for any numbers of threads and items and any requested
capacity of two or more: `CapacityRespected`, `NoTwoThreadsInACell`,
`RingQuietBetweenCalls`, `ImplementsClaimQueue`. A ring of one cell does break
`WithinCapacity` (section 3). `BitCeil` shows that the rounded capacity is a
number that is not less than the requested one. `PlacesInv`: a
place that is not yet published, or not yet free, has an owner who will make it
so; `OwnersInv`: an owner is within a lap of everybody else and owns its place
alone. These need each other: a successful compare-and-swap claims a free cell
because the sequence number it saw can only have grown (`SeenInv`) and the
position has not moved. `ItemsInv` and `DataInv` say which item is where; with
them each claim appends to the abstract queue, each take removes its published
head, and every other access is a stutter.

**ProgressQueueProofs**, for any workers and numbers of messages:
`NoMessageLost`, `ReaderNeverDisturbed`, `NoVainDequeue`. `PlacesInv` and
`OwnersInv` are as above with the consumer as the only taker; `CountInv`: what
is claimed is what is counted and the claims that are still to be counted, so a
counted message exists; `PillInv`: the pill is claimed after every message,
since `execute` has joined the workers.

**NodeTimesProofs**: `SlotsNotRacedFor`, `CachedAnswersAreCurrent`, for every
graph and all times. The hypothesis `ManifestMadeFirst` says that if a step
makes the manifest, every other step has a produced input, so that edges order
it behind that step; section 3 shows the race otherwise. `OrderInv`: what a step
that has begun comes after is done; `OwnerInv`: a busy slot belongs to the
thread that made it busy; `TimeInv`: a filled slot has the time of its file
unless the file was written and its invalidation is the writer's next access
(`Outdated`), while nobody else looks.

**ServiceProofs**. Each result is proved of its own module and then of
`Services`, whose steps are steps of one module and stutters of the others
(`EachPartRunsItsModule`).

* `CleanLeavesNothing`, for any number of paths and depth (`CleanAssumption`:
  they are numbers). `BatchInv`: a file of the batch that is still there is a
  request in the kernel or one whose failure has not been looked at, and the
  requests in the kernel, in the completion queue and seen are as many as were
  submitted; so when all are seen no file is left.
* `CallsLeaveNothing` and `CapturesAreComplete`, for any number of workers
  (`ExecAssumption`: commands write a number of bytes). `PlaceInv` says what is
  open and what has become of the child at each point of `process_exec`;
  `Numbered`, that the captured output and what is in the pipe are what was
  written. The end of file comes only when no process holds the pipe, hence when
  the command has ended.
* `CacheChangesAsAWhole`: `CacheFile` implements `AtomicCache`, for any number of
  runs and failures and any sizes of the payloads (`SizeAssumption`).
  `SavingInv`: what is in the temporary file and what the buffers still hold
  together are the image, so the file is whole when it is renamed, however
  `writev` divided it. `DiskInv`: everything that is, or can come back after a
  power cut, under the name of the cache is what remains of one run's image; and
  remains that the checksum accepts are that image (`HoldsRemains`).
* `SummariesAreOfAllInputs`, for every graph, all times and any number of threads
  (`SourcesAssumption`: edges lead to files that are produced). `StatInv`: a
  source that was not looked at lies ahead in the range of one thread, whatever
  the sizes of the chunks; `ReadInv`: what a thread found is the file's time;
  `SumInv`: a summary tells of the sources whose edges were passed, the newest
  time and whether one is missing.
* `LinksReadTheirInputs`. `RspAssumption` asks for distinct names of response
  files and that no write is torn. The code ensures neither, as section 3 shows;
  the theorem says that nothing else is needed.

**IncrementalBuildProofs**, for every set of steps, sources and headers and
every history of edits, builds, dry runs, cleans, failures, interrupts and
faults. The hypotheses are conditions on what a user does, and the run `inc` is
an instance of all of them; `inc_header`, `inc_lost_hash`,
`inc_named_manifest` and the remarks of section 3 show what happens without
them.

| Theorem | Property | Needs |
|---|---|---|
| `SuccessIsFresh` | `SuccessMeansFresh` | `OneManifest`, `NoOverrides`, `WholeOutputs` (a failed command leaves its old output or none), `KnownHeaders` (a header is edited once the cache knows who reads it) |
| `HashesAreTruthful` | `HashTruthful` | `OneManifest`, `NoOverrides`, `OneMishap` (no edit of the manifest during runs, or one fault of the cache) |
| `EveryEditIsNoticed` | `EditsAreNoticed` | `OneManifest`, `NoOverrides` |
| `NothingIsBuiltTwice` | `NothingToDo` | `OneManifest`, `NoOverrides` |

`SuccessMeansFresh` judges the end of a run; what carries over from one run to
the next is `Traces`: of every output there is, each input either is the one it
was made from or is not older than the output; and if that input is a header,
the `.d` file, every cache that may be used and the graph know it (`Noticed`).
An edit gives a file the newest time; a finished step is as new as anything its
command read; so `Traces` survives whatever happens, and a step that
`needsRebuild` passes is fresh (`UpToDateIsFresh`). `DepfilesKept` ties the `.d`
files to the cache for the next edit of a header. `NamedInv`: a cache that is
newer than the manifest has its definitions, as an edit makes the manifest newer
than any cache. `DueInv` is what is left of this if the manifest is edited under a
run: a valid cache, and what is loaded, may lack such an edit, but an edit between
two runs leaves no valid cache and nothing loaded, so nothing older comes back. `HashInv`: what a valid cache, and what a loaded graph, says of
a command line is true; while a run works, both speak of the same command lines,
else an interrupt could leave outputs that the old cache lies about.
`SettledInv`: after an undisturbed build with distinct times every input is
older than what is made from it, and cache and graph have the present hashes;
`LoadedInv` is why an unchanged cache already had them. No acyclicity is
assumed: a step that waits for itself does not start.

**StructureProofs**, for every manifest, every hash function, all keys and
values, all strings and all texts of depfiles. The assumptions are those of
`Structures`: what is parsed is a sequence of steps; hashes are numbers; two views
of one address and size show the same characters, as strings do not change where
they are; texts are sequences of characters. Of a text that a compiler
has written they say how it is put together (`DepfileAssumption`): a name
(`IsName`) has no newline and does not end in a backslash, for its reader
could not tell that from one that quotes what follows; a gap (`IsGap`) is blanks
and continued lines and begins with a blank; a target (`IsTarget`) has blanks, `#`,
`:` and backslashes quoted, but for the colon of a drive.

* `CyclesAreRefused`, `DegreesCountMentions`, `CommandsFollowInputs`. `LoadInv`:
  the nodes are the files read so far, and an edge is there for every mention,
  counted by a bijection between the mentions and the edges (`EdgesInv`), since
  a file mentioned twice has two. `KahnInv`: a node's counter is the number of
  edges that come from nodes not used up, and a node used up does not need
  itself; when the count stops early, what is left has a cycle because each of
  its nodes needs another one of them. `SortInv`: the stack is a path, the order
  has a node only after everything it leads to, and what is finished does not
  need itself; an edge that leads back to the stack closes a cycle.
* `FindAnswersAsAMap`, `InsertReturnsItsEntry`. `SlotsInv` is the order of Robin
  Hood hashing: each entry is as far from home as it says, and no entry is more
  than one step further from its home than the slot before it says. From
  it `find` may stop early, though `Swap`, `Pass`, growth and the reinsertion of
  the entry in hand come between; `CarryInv` says that the entry in hand would
  keep the order where it is. `SizeInv` counts the slots: a probe ends because
  one is free. `ContentInv` says in which of the slots, the hand and the queue of
  a growth the value of a key is; `ResultInv`, where the entry of the last
  insertion is.
* `ReferencesLeadBack`. `PoolInv`: the pool has each string once, the address
  cache stays less than half full, and what it remembers of an address leads to the
  string that is there.
* `DepfilesAreReadToTheEnd`, that each round of `parseDepfile` moves ahead and
  stays in the text, for every text. Each scanner returns a position that is not
  before the one it was given (`SkipStops`, `TargetEnds`, `TokenMoves`), by
  `RankInduction` on the distance to the end.
* `NamesComeBack`, that the names found in a text that a compiler has written are
  those it was written for, of any number and length. A name is cut into groups: a
  run of backslashes, perhaps none, with the character after it. What
  is written for a group is known (`GroupWritten`), `extractToken` passes it
  (`GroupPassed`) and ends where the name does (`NameEnds`), and
  `decodeDepfileToken` turns it back (`GroupDecoded`, `NameDecoded`). A gap and a
  target are cut as `IsGap` and `IsTarget` say, and the scanners stop behind them
  (`GapSkipped`, `TargetScanned`). `ReadSoFar` is the invariant: the reader is where
  the k-th name ends and has found the first k; `WrittenLayout` says where that is.

**Only model-checked.** All liveness: `Termination`, `PrinterEnds`,
`CallsReturn` and the fairness part of `BuildContract`; the prover knows no
`ENABLED`. Every safety property of the passing runs is stated by a theorem.

## 5. What is not modelled

The table of components in `PROJECT.json` gives the reason for each.

* Left out as wholes: the manifest parser (splitting of lines), the option
  parser, `StatCache` (not used by the program), work estimates (off by
  default), JSON and the output tools except for the order of commands, the
  wrappers of files, and rapidhash. The parsers and printers change no state
  that a property could relate to another; hashes are taken to be injective.
* In `CacheFile`: the layout of the records, which writer and reader list
  field by field. `parseBin` trusts offsets and counts once the checksum is
  right, which is why `AtomicCache` asks for the whole of what a run meant.
* In `ProcessExec`: the version for other systems than Linux, arguments and
  environment.
* In `Depfile`: the searches of eight bytes at once, taken as the searches
  they speed up.
* In `IncrementalBuild`: steps of the graph that produce the manifest (the slot of the
  manifest is in `NodeTimes`), response files (`ResponseFiles`), two processes
  of `cob` in one directory, which would share `.catalyst.bin.tmp`.
* In `Scheduler`, `MPMCQueue` and `ProgressQueue`: memory orders weaker than
  sequential consistency, texts of messages, the log file, priorities (off by default).

Two behaviours were met that no property judges: definitions given on the
command line are saved with the graph and stay in force, and a source edited
while its compile runs is taken for up to date by the next run, as times cannot
tell.

## 6. Plan

Further models: steps that write the manifest in `IncrementalBuild`; `Scheduler`
without `--keep-going` on the diamond with three workers; `NodeTimes` with
readers of the manifest that no edge orders after the step that writes it.
