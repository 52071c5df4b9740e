# Cache simulator: TLA+ models and proofs

This directory models the cache simulator (`src/`): its coherence directory,
protocols, processor cores and interconnects, its caches, policies and
prefetching, its thread pool, and the configuration, command line, trace and
profiling code around them. TLC checks the models on small instances, TLAPS
proves the properties that matter most for every instance. Paths below are
relative to the repository's `src/`.

## The system

| Component | State | Operations | Called by |
|---|---|---|---|
| `CoherenceController` | `directory_` (state, owner, sharers, dirty per address), counters | `processRequest`, `updateCacheState`, `handleWriteback`, queries | processor cores, from their threads |
| `ProcessorCore`, `MultiProcessorSystem` | an L1 per core, `ProcessorState` | `access`, `atomicAccess`, `handleCoherenceRequest` | trace threads |
| `globalBarrier` | `barrierCount_`, mutex, condition variable | arrive and wait | processor threads |
| `simulateParallelTraces` | `maxCycles` (atomic) | one thread per trace, compare-and-swap, join | client |
| `ThreadPool` | `tasks_`, `stop_`, mutex, condition variable | worker loop, `enqueue`, destructor | `ParallelTraceProcessor`, `ParallelBenchmark` |
| `ReplacementPolicy` | order, time stamps, reference or tree bits per set | `onAccess`, `onInstall`, `selectVictim` | `Cache` |
| `Cache` | blocks, a policy per set, `StreamBuffer` | `access`, prefetch, `invalidateBlock`, `updateMESIState` | `MemoryHierarchy`, `ProcessorCore` |
| `StridePredictor` | table of entries | `update`, `getStride` | `MemoryHierarchy`, `Cache` |
| `MemoryHierarchy` | L1, optional L2 and L3, predictor | `access` | `main`, tools |
| MSI, MESI, MOESI classes | none (transition functions) | local and remote reads and writes, eviction | `Cache` (one function), tests |
| Interconnects | `busOccupied_` or port flags, message queues | `sendMessage`, `receiveMessage` | processor threads |
| `VictimCache` | blocks, FIFO queue, `currentSize` | find, insert, remove, range invalidation, sort | tests |
| Write policies, `WriteCombiningBuffer` | none; buffer entries | `handleWrite`; `tryWrite`, `flush` | tests |
| `MemoryPool` | `blocks_`, `currentBlock_`, `currentIndex_` | `allocate`, `reset`, move | tests |
| `AdaptivePrefetcher` | strategy, distance, outcomes, stride per page | history, outcomes, adaptation, address | `MemoryHierarchy` |
| `ConfigManager` | a configuration | create, sweep, compare, load, save | `main`, tools |
| `CLIParser`, `main` | options, phase | parse, run | user |
| `TraceParser` | stream position, format, counters | three ways of reading, `reset` | `main`, tools |
| Trace generator and analyzer | a trace | generate, filter, classify | tools |
| `MemoryProfiler` | window, frequencies, strides, regions | define, track, detect, reset | tools |

Three parts are concurrent. The cores share the directory: every call on entries
takes `directoryMutex_`, but an access is several calls, and the L1 is touched
between them. The thread pool and the two synchronization functions use a mutex
with a condition variable or an atomic. The interconnects arbitrate between
senders with a condition variable (bus) or atomic flags (crossbar). Everything else is sequential, and hard
because of sequences: a write-back depends on flags set many accesses ago, a
policy is not told of invalidations, an access of the L1 makes several of the
L2. Nothing is persisted, there are no timeouts and no lossy channels, so there
is no crash recovery or retry to model.

What makes the parts correct: the directory gives a line to one writer or to
readers, and names everyone who loses it; a block is cached once and a write
accepted is never lost; a policy evicts the block it is meant to; a prefetch
does no harm; a task accepted by the pool runs once, its future gets ready, and
the destructor returns; the parallel simulation returns the maximum; messages
arrive once and in order; the protocols keep what was written last; a
configuration that is accepted can be built; the program runs what was asked
for; no access of a trace is skipped; classifiers recognise what made the trace.

## Modules

| Module | Models | Notes |
|---|---|---|
| `CoherenceSpec` | abstract specification: who may do what with a line | `Read`, `Write`, `Drop`, `Purge`; `SingleWriter` |
| `CoherenceController` | `core/multiprocessor/coherence_controller.cpp` | one action per operation; shown to implement `CoherenceSpec` |
| `MultiProcessorSystem` | `ProcessorCore` in `processor_core.cpp`, extending the controller | an access is a sequence of `pc` steps, one per call into the directory |
| `GlobalBarrier` | `MultiProcessorSystem::globalBarrier` | |
| `ParallelTraces` | `MultiProcessorSystem::simulateParallelTraces` | `compare_exchange_weak` may fail spuriously |
| `ThreadPool` | `utils/parallel_executor.h` | a step per critical section; notifications are steps of their own |
| `ReplacementPolicy` | `core/replacement_policy.h`, as pure operators | used by `PolicySet` and `CacheOps` |
| `PolicySet` | one set driven the way `Cache` drives it | remembers use and fill times as reference |
| `CacheOps` | `core/cache.cpp`, `core/stream_buffer.cpp`, as pure operators on a cache value | calls of the next level are returned as a sequence of requests |
| `Cache` | one `Cache` under its callers | |
| `StrideTable`, `StridePredictor` | `core/stride_predictor.cpp` | operators, and the predictor under arbitrary streams |
| `MemoryHierarchy` | `core/memory_hierarchy.cpp` | three instances of `CacheOps`, composed as `access` does |
| `CoherenceProtocol` | `core/{msi,mesi,moesi,coherence}_protocol.*` | the three classes on an atomic snooping bus, which is external; refines `CoherenceSpec` |
| `Interconnect` | `core/multiprocessor/interconnect.*` | bus, crossbar, mesh, ring and torus, a thread per sender |
| `VictimCache` | `core/victim_cache.h` | block vector, queue of indices and count kept separately, as in the code |
| `WritePolicy`, `WriteCombiningBuffer` | `core/write_policy.*` | what the model adds: which writes are owed or lost, and when each address was last written since the last flush |
| `MemoryPool` | `core/memory_pool.h` | an allocation is a range of a block; an index past `blocks_` leads to any block or to none |
| `AdaptivePrefetcher` | `core/adaptive_prefetcher.*` | |
| `Config` | `utils/config_utils.cpp` | a file is a sequence of lines (opening, object on one line, setting, close, blank) |
| `Program` | `utils/cli_parser.cpp`, `main.cpp` | arguments are classes of words; a step per turn of the parser's loop |
| `TraceParser` | `utils/trace_parser.cpp` | a line is its first character, its word count and its tokens |
| `TraceTools` | `utils/trace_utils.cpp`, `tools/trace_generator.cpp` | generate, filter, analyze |
| `MemoryProfiler` | `utils/profiler.h` | |
| `MultiProcessorSystemProofs` | theorems about the directory, and about the cores with it | |
| `ThreadPoolProofs` | theorems about the pool | |
| `FabricProofs` | theorems about the parallel traces, the protocols and the interconnects | |
| `CacheOpsProofs` | lemmas about the policies and the operations of one cache | cited by the next two |
| `CacheProofs`, `HierarchyProofs` | theorems about `PolicySet` and `Cache`, and about the levels together | |
| `SequentialProofs` | theorems about the memory pool, the write policies and buffer, the predictor, the prefetcher, the victim cache, configurations and the command line | |
| `TraceProofs` | theorems about the profiler, the trace analyzer and the trace parser | |
| `MCCores` | the cores or the memory hierarchy, for TLC | `unit` says which |
| `MCFabric` | the thread pool, the parallel traces, the interconnects or the protocols, for TLC | |
| `MCSequential` | the directory or one of the sequential components, for TLC | |
| other `MC*` | constants and views for TLC | |

Definitions named "Faulty variant" are what a bug in the definition below them
would look like; each property is known to fail with one of them.

**Directory.** `directory[a]` is the entry of address `a`; `known` is the set of
addresses that have one (`checkPermission` answers true for the others).
`response` holds who called last and the `invalidatedProcessors` returned, which
`LosersNamed` talks about. `owner_ = -1` is `NoOwner`; because `sharers_` can
receive it, sharers are a set over processors and `NoOwner`. The cast of -1 to
`uint32_t` is this one value.

**Cores.** `pc[p]` goes through `check`, `request`, `l1`, `miss`, `seal`. The L1
is abstracted to the MESI state of its blocks in one set, with any resident
block as victim. Directory entries are keyed by raw address and L1 blocks by
block number, as in the code. `DeliverySpec` adds `handleCoherenceRequest`, which
nothing in the repository calls; deliveries come between two accesses of the
receiver.

**Thread pool.** `place[t]` says where a thread is. The client enqueues its jobs, collects the futures in order,
and destroys the pool, early if a future rethrows. With `Chunks > 0` a job is
the lambda of `processMultipleConfigs`, which enqueues chunks in the same pool
and waits for them. Partitioning a trace and adding up results is data.

**Cache.** A cache is a value (blocks, policies, stream buffer) and an operation
yields a new one and the calls it made on the next level, whose results the
code ignores. Addresses are computed modulo `AddressSpace`, the 2^32 of the
code. `Policy = "Random"` takes its victim from `picks`. `unsaved` (in `Cache`)
is the model's own record of writes not yet passed on. An empty stream buffer
stays empty on `prefetch()`: the code then writes `buffer[0]` into memory the
vector no longer counts.

**Predictor.** A stride is the difference of two unsigned addresses read as an
`int32_t`, so it wraps around (`Distance`); `NumAddresses` is the 2^32 of the code.

**Memory pool.** `blocks_[currentBlock_]` past the end of the vector is undefined
behaviour: the pointer read there may be that of any block, or of memory that is
no block (`Indexed`). Requests larger than a block, which the code also cuts from
one block, are not modelled.

**Snooping.** The protocol classes are transition functions without a bus. The
bus is modelled from their comments: misses and upgrades are seen by all, a
cache whose state `requiresWriteback` supplies the data. `upToDate` and
`memoryCurrent` say which copies are what was written last.

**Interconnect.** A step is a critical section or an atomic operation; sleeping
for a number of nanoseconds is the gap between two steps. A crossbar sender that
finds its port occupied goes on, as in the code. The mesh is modelled for full
grids: in an incomplete last row a route passes a router that does not exist.
On a torus with an incomplete last row the hops charged may be links that do not
exist either: of 24 processors (5 by 5 less one), 19 to 4 is charged 2 hops,
wrapping around through the corner that is missing, where the fewest are 3.
`FewestHops` is checked and proved for full grids.

**Configuration.** What the compiler leaves uninitialised in a configuration read
from a file is any value (`Uninitialised`). Values are numbers; parsing keeps or
rejects them as the code does. A line of a JSON file a user may write is any of
`JsonLines`, braces balanced. Sizes are integers of the code's width: the products
`Cache` and `CacheConfig` form of ways and block size, and the doubled sizes of
`--benchmark`, are assumed not to exceed `MaxInt` (`ConfigAssumption`); what an
overflow would do is undefined and not modelled.

**Traces.** A token is of one of the kinds the code's parsers tell apart; a
malformed or too large hexadecimal address is read as 0, which the code does. A
line of three tokens is an access whatever its first token is, so `{ r 0x10` is one
in a file that is not taken for JSON.
The analyzer's thresholds (10 and 20 accesses, loops up to 50) are constants.

## Runs

Passing runs:

| Run | Shows | Instance |
|---|---|---|
| `cores` | cores: `EveryHolderIsAProcessor`, `CachedBlocksAreTracked`; hierarchy: `DirtyUntilWritten` | 2 cores, 2 accesses each, 2 blocks, 1-block L1; four setups of levels, write policy and prefetching |
| `cache` | `UniqueTags`, `NoLostWrite`, `DemandBlockStays` | 2 sets of 2 ways, 4 blocks, three configurations |
| `fabric` | pool: `OnePlace`, `NothingLost`, `PoolShutsDown`, `ResultsReturned`; traces: `ResultIsLongest`, `TracesReturn`; interconnects: `InOrderOnce`, `BusExclusive`, `PortsAreReleased`, `FewestHops`, `SendReturns`; protocols: `LatestIsKept`, `SnoopImplementsCoherenceSpec` | 3 workers, 2 jobs of 2 chunks; 3 threads of up to 2 accesses; 6 processors, 3 senders of 2 messages, 5 topologies; 3 caches, 3 protocols |
| `sequential` | directory: `OwnerSharersExclusive`, `LosersNamed`, `ImplementsCoherenceSpec`; policies: `VictimIsValid`, `EvictsOldest`; predictor: `SteadyEntryPredicts`; and those of the table below | 3 processors and 2 addresses, counters up to `MaxEvents`; see `MCSequential.cfg` |

The components of `sequential` share no state, and an operation of one is a single
step: one thread uses it at a time, or, in the directory, one thread has the mutex.
The four of `fabric` share no state among themselves, nor do the two of `cores`. An
initial state of these runs chooses the component (`unit`) whose steps the
behaviour takes; the others stay as they are. This explores the same states as a
run for each would. A unit of `sequential` may stop (a program ends, a trace is read), so deadlock is not
checked there.

| Unit | Property | What it says |
|---|---|---|
| victim | `VictimIsLatest` | an address is kept once, with the dirty flag inserted last |
| write | `WritePassedOnOrKept` | with a next level, no policy loses a write |
| buffer | `FlushIsComplete`, `DropsLeastRecent` | nothing is dropped unreported, and what is dropped is the oldest |
| pool | `ReusedBlocksOwned` | while the pool goes through blocks it has, allocations lie in them and never overlap |
| prefetcher | `StrideRunsAhead` | the stream of every page is followed, at a distance within bounds |
| config | `AcceptedConfigsBuild`, `JsonFollowsLastBrace` | accepted configurations can be constructed; a JSON setting goes to the object of the last brace, or to none after a closing one |
| program | `RunsWhatWasAsked` | the trace that runs is the one named |
| parser | `NoAccessSkipped` | reading is complete however it is mixed |
| tools | `TraceIsRecognised` | the analyzer recognises strides and loops |
| profiler | `ProfileIsOfItsRun`, `ProfiledLoopIsRecognised` | nothing survives a reset, every access is in one region; loops are recognised wherever the window starts |

Bounds. Two cores are enough for the core properties, which relate one holder to
one other; the directory has three processors, an owner and two sharers, and its
properties are proved for any number. Two accesses per core let each core meet a
line another core has changed. Three
workers are one more than the jobs that wait for their chunks, so the nested
jobs can finish. The policies' state is finite (the model remembers an order,
not times), so all sequences are covered, past the interval at which NRU clears
its bits; only FIFO counts. Caches are smaller than the blocks that compete for
them, so every cache run evicts. Three senders let two wait for the bus while
the third releases it; 6 processors are a full 3 by 2 grid, and even, so a ring
has two ways of equal length. Stream addresses reach around the end of the 8
addresses of the predictor. Three blocks of the memory pool are enough to run past
the vector, reset, go through the two blocks there are then and run past them
again. Three caches are a reader, an owner and a third
that disturbs both. The victim cache holds 2 of 3 addresses and the
write-combining buffer 3 of 4, so both overflow. A trace of 3 lines holds an
access on both sides of a malformed line or a comment, and is longer than the 2
lines the format is detected from. Five lines of JSON open a section inside
another and set a value after it. The profiler's window of 6 is shorter than its
7 accesses, so it slides. Views leave out variables that only record the last
step. Every counter a model bounds is named in its `CONSTANTS`.

Deadlock is not checked in `pool_full`: there the deadlock is the finding,
stated as a liveness property.

Violation runs, where the code does not do what its documentation or comments
say (details in `PROJECT.json`, `findings`):

| Run | What TLC finds |
|---|---|
| `modified_exclusive` | a block is Modified in one L1 and present in another: `invalidatedProcessors` is ignored |
| `l3` | the L3 is no superset of the L1 and the L2: the L1's fetch fills the L2 first, so nothing is left to ask the L3 for (`docs/features/l3-cache.md:47`) |
| `pool_full` | `processMultipleConfigs` hangs with as many configurations as workers |
| `barrier` | `globalBarrier` never releases the waiters |
| `plru` | PLRU evicts the block used last |
| `memory_pool` | the first `allocate` of a pool reads past `blocks_`, and the pointer it returns need not be memory of the pool |
| `json` | a setting that follows a nested object, or an object on one line, is taken for another object's |
| `config` | a saved configuration does not come back: INI files are refused at a blank line, JSON files lose all but the block size |

### Known divergences without a run of their own

Met while modelling; the modules follow the code.

* An atomic operation releases the directory between its write request and its
  access (`processor_core.cpp:86-90`); another core may take the line, although
  a comment speaks of "holding exclusive state".
* `updateCacheState(Invalid)` leaves `state_` alone, so a later reader enters
  `owner_ = -1` among the sharers (`coherence_controller.cpp:50`). Only
  `handleCoherenceRequest`, which nothing calls, leads there:
  `EveryHolderIsAProcessor` shows that the system by itself does not.
* A write that hits only the stream buffer is recorded nowhere
  (`cache.cpp:106-119`); `NoLostWrite` excludes prefetching caches.
* A write miss of a write-through cache installs a dirty block
  (`cache.cpp:187`), and does not write through.
* A changed stride inherits the confidence of the old one less one, so it can
  be predicted after a single occurrence; entries are chosen by address, so a
  constant stride spreads over the table (`stride_predictor.cpp:14, 29`).
* `MemoryHierarchy::access` never reports a prefetch hit, so its adaptive
  prefetcher never records an outcome and never changes its distance.
  `AdaptivePrefetcher` is checked under arbitrary outcomes. While the strategy
  is Adaptive nothing is learnt, and the tie makes it Stride for good.
* `VictimCache`: a removed block found again by address is overwritten without
  being counted, so `currentSize` can fall below zero and wrap
  (`victim_cache.h:98-107`); sorting leaves the indices in the queue stale.
* A full `WriteCombiningBuffer` drops a pending write, and only its return value
  says so. A write-back, no-allocate miss without a next level is lost;
  `handleWrite` then returns 0.
* Mesh input queues are filled and never drained. The crossbar's "round-robin"
  (`interconnect.cpp:298`) is a fixed priority, and a sender frees a port it did
  not acquire. A sender of the bus may be overtaken as often as others send.
* JSON: the branch for top-level keys is not reached; prefetching of a level is
  uninitialised if the file does not set it.
* A configuration loaded with `-c` is never validated (`main.cpp:363-373`):
  `AcceptedConfigsBuild` speaks of the ones made from arguments and strings.
* The documented trace format with program counter and thread
  (`trace_parser.h:43`, `docs/user/examples.md:227-234`, `r 0x1000 0x40000 1`) is
  refused: with three tokens or more `parseLine` takes the second for the type. In
  a file of mixed formats the lines of the others than the detected one are lost.
* An option with an optional value (`-p`, `-e`) takes the word that follows if it
  looks like one; `RunsWhatWasAsked` takes over that rule from the parser.
* `--benchmark` with a one-set L1 doubles its ways past its size and `Cache`
  throws; `AcceptedConfigsBuild` excludes that case. A sweep is never
  rechecked.
* Seven or more arguments without `-c` are taken for the legacy form and fail,
  although the usage text says that defaults are used.
* `TraceParser::reset` keeps the counters; a malformed hexadecimal address is 0.
* The trace tool's mixed pattern does not use its locality code, and its looping
  traces are classified as strided. `generateMixedTrace` leaves its temporary
  files behind on an unknown pattern.
* Defining a profiler region again resets its counts.

## Fairness

Liveness assumes weak fairness of each thread: a thread that can go on
eventually does, which the operating system's scheduler gives. Spurious wake-ups
are possible and never required. `ParallelTraces` also assumes strong fairness
of the exchanges together: `compare_exchange_weak` may fail spuriously, though not
for ever in every thread that tries. Nothing is assumed of the cores, whose
properties are invariants. A sender in `sendMessage` goes on whenever it can; receivers poll. That the bus
serves everyone rests on `MaxSends`: senders that never stop can starve one.
In `fabric` the same conditions hold for the component that runs.

## Proofs

Each theorem holds for every value of the constants that the modules' `ASSUME`s
allow: processors and addresses are any sets, finite where the code counts them;
the pool has a worker; a request fits into a block of the memory pool; a table, a
buffer, a cache and an address space are not empty. Each invariant theorem rests
on an inductive invariant, because the property alone is seldom inductive.

**`MultiProcessorSystemProofs`, the directory.** `TypeCorrect`; `HoldersExclusive`
from `TypeOK /\ OwnerSharersExclusive`, which is inductive; `LosersAreNamed`, a step
property that needs `OneKindOfHolder` (a leftover sharer of a Modified line would
lose its permission unnamed); `Refinement`, each operation mapped to an abstract
one or to a stutter through `getCacheLineState`; and `DirectorySingleWriter`.

**`MultiProcessorSystemProofs`, the cores.** `SystemDrivesDirectory`: a step of a core is one
directory operation or leaves the directory alone, so the system implements the
directory's specification, and by `SystemIsCoherent` the abstract one.
`HoldersAreProcessors` rests on the types of both and on what the cores report:
never Invalid, the one state that would clear an owner, which is why it holds
without deliveries only. `BlocksAreTracked` holds with deliveries too: only the
core that filled a block may be ahead of the directory, in the step `miss`, and
no entry of the directory is ever erased.

**`ThreadPoolProofs`.** `PoolTypeCorrect` and `DestructorLosesNothing`. `NothingLost`
only speaks of the end; the invariant says that every accepted task is queued, on
a worker or done (`Accounted`), that a worker leaves only a stopped and empty pool
(`Departed`), and that a busy worker holds a task (`InLoop`). It holds because a
stopped pool accepts nothing. `TasksInOnePlace` adds where new tasks come from: a
job makes its chunks in order and only while it runs (`Chunking`), so a task that
is enqueued is in none of the places yet (`Fresh`).

**`FabricProofs`.**
* `LongestIsReturned` and `MaximumNeverLowered`: a thread that has left its loop is
  covered by the maximum, and the maximum is some thread's count.
* `CopiesAreSole`, `NoWriteForgotten` and `SnoopRefinement`: a silent write makes all
  other copies stale, so `LatestIsKept` needs that a Modified or Exclusive copy is
  the only one, which in turn needs that MSI has no Exclusive state.
* `BusIsExclusive`, inductive once the senders' steps are typed.
* `CrossbarPortsAreReleased`: a port that is occupied was last set by a sender that
  has not released it, even though others may have released it in between.
* `DeliveredInOrderOnce`: for each pair, the numbers received, then those queued,
  then the one being sent increase (`QueuesFit`, `ReceivedFits`). A sender chooses
  its number long before its message is queued, so the invariant compares with the
  number under way according to the sender's step (`Sent`, `Undelivered`).
* `HopsAreFewest`: the reference is a search, `Within(s, n)`, which goes link by
  link. A function on processors that is zero at the source only, grows by at most
  one over a link and falls by one over some link from every other processor is
  what the search finds; the coordinates' formulas are such a function on a ring,
  a mesh and a torus. The hypothesis that a torus is a full grid is needed (see
  Interconnect above).

**`CacheOpsProofs` and `CacheProofs`.** The first says what each operation of a cache
does to its blocks, the second carries the invariants.
* `PoliciesNameValidBlocks` and `LRUAndFIFOEvictOldest`, from `SetInv`: the LRU
  order holds every way once (`PolicyFits`), and the order or the stamps, which are
  below the counter, agree with the true order of uses or fills (`AgesAgree`).
* `BlocksAreUnique` and `WritesAreKept`, from `CacheInv`. It holds through a whole
  access: the write-back of the victim, the fill, and a train of prefetches that
  each may evict. `Owed` says that what was written and not passed on is in a
  block due a write-back.
* `PrefetchSparesDemand`: no prefetch evicts the block its access fetched, *given*
  that the cache has more than one way and prefetches, if at all, under LRU. Both
  hypotheses are needed. With one way a prefetch into the same set replaces the
  block. With NRU and all reference bits set, the bits are cleared and way 0 is
  taken, whatever was just installed, and Random may pick any block. The `cache`
  run's prefetching configuration meets the hypotheses.

**`HierarchyProofs`.** `P1` and `P2` bring in the lemmas about one cache for the
geometries of the L1 and of the L2.
* `L3IsNeverUsed`, which says why `L3IsSuperset` fails: on a miss the L1 fetches the block from the L2 itself, after
  writing its victim back, so the block is present when the hierarchy looks it up
  there, and only a miss of that lookup goes on to the L3. The property excludes
  prefetching: what the L1 prefetches may push the block out of the L2 again, and
  a stream buffer of the L2 serves a fetch without installing the block.
* `DirtyBlocksAreKept`: a block that is dirty is due (`Due`): it stays dirty where it
  is, or its address is among the requests of the same access, in order. A request
  the L2 gets is due there afterwards or written through (`Kept`), and no later
  request of the same access undoes that. *Given* that the L2 has no stream buffer:
  a write-back that hits only the stream buffer of the L2 is recorded nowhere (the
  divergence above), so the hypothesis is needed. The L1 may prefetch.

**`SequentialProofs`.**
* `PoolReuseIsSound`: as long as `currentBlock_` indexes a block, it did so for every
  allocation since the last reset, because it only grows in between; what was
  handed out lies in blocks left behind or before `currentIndex_`.
* `PoliciesLoseNoWrite`: inductive with the type of the policy.
* `SteadyStreamsArePredicted`: `Learned` relates the confidence of an entry to how
  often its stride was seen in a row.
* `StreamsAreRunAhead`: the distance is within its bounds and the strategy never
  leaves Stride for a prefetcher built with Stride or Adaptive (`StrategyFits`),
  and the recorded stride is that of the page's last two accesses
  (`HistoryFits`).
* `FlushesAreComplete` and `LeastRecentIsDropped`, from `BufferInv`: slots hold
  different addresses, and the slot's stamp is the time of the address's last
  write, whether it filled the slot or was combined.
* `AcceptedConfigsAreBuilt`: a fact about numbers more than an invariant. A first
  level of a power of two bytes that is made of two or more whole sets can be made
  of sets twice as large, since the number of its sets is even.
* `WhatWasAskedRuns`: after each turn of the loop the options are those of the
  arguments read (`OptionsTellOf`), and the next argument is not the value of the
  one before (`ReadSoFar`). Which arguments are values is said by the reading of
  the whole line, without the parser's position.
* `VictimsAreLatest`: no two slots have one address, valid or not, and a valid slot
  has the dirty flag of the last insertion (`Current`). Uniqueness must include the
  slots given up, because an insertion reuses the slot of its address.
* `JsonFilesFollowLastBrace`: after n lines the section is that of the last brace
  (`InSection`) and every level holds the last setting of its section (`Holds`), for
  every file. That this is not the object the setting is nested in is what the run
  `json` shows.

**`TraceProofs`.**
* `ProfilesAreOfTheirRun`: what `trackAccess` keeps access by access is what the
  accesses since the last reset give (`Kept`): the window is their end, and the
  frequencies, strides and region totals are counts of them.
* `ProfiledLoopsAreRecognised` and `TracesAreRecognised`: a window of a loop repeats
  with the loop's length wherever it starts, so no shorter test calls it random.
* `AccessesAreHandedOut`: the three ways of reading number the accesses that are
  left (the k-th is the one with k - 1 before it), the reference goes through the
  lines one by one; both give the same sequence.

What a loop of the code computes is a recursive function on a range of numbers.
The library's induction theorems cannot be used with these provers, so such a
function is reasoned about with the least element of the set of numbers where the
claim fails (`WellFoundedInduction`): first that the function exists, then the
claim. Minima of stamps, last valid ways and the like are found in the same way.

Only model-checked: the liveness properties `PoolShutsDown`, `ResultsReturned`,
`TracesReturn` and `SendReturns`, since fairness and `ENABLED` are out of the prover's
reach. `DirtyUntilWritten`, `DemandBlockStays` and `FewestHops` are proved under the hypotheses named above, which the instances of
the runs meet.

## Not modelled

Latencies, cycle counts and statistics, except the directory's counters;
printing, formatting, logging, benchmarks and visualization, which no component
reads back; the analysis tools, which run the modelled components and print
averages; the power and area models (floating point). The snooping controller is
declared and not implemented. Memory barriers of a core only count and drain a
queue that nothing fills. Of the trace tools: hot ranges, the mixed pattern,
temporary files. Of the configuration: multiprocessor, power and output
settings. See `components` in `PROJECT.json`.

## Status

Every component the first inventory singled out is modelled: directory, cores,
pool and synchronization, policies, cache, predictor, hierarchy, protocols,
interconnects, victim cache, write policies and buffer, memory pool, prefetcher,
configuration, program, traces, profiler. Every safety and action property that a
passing run checks is a theorem, some under a hypothesis. Models that could follow:
the miss classification and counters of `Cache`, and its warm-up.
