# bxextensions: specifications and proofs

bxextensions is the C++ extension that bloXroute's gateways and relays load
from Python. It compresses and decompresses blocks by replacing transactions
with short ids, on a pool of threads, against a shared transaction service.
This directory holds TLA+ models of its concurrent core, of the transaction
service, of the block tasks and of the messages they read and write, the TLC
configurations that check them, and TLAPS proofs.

    tlc -workers 2 -config TransactionService.cfg MCTransactionService
    tlapm TransactionServiceProofs.tla

## 1. The system

| part | state | operations | who calls |
|---|---|---|---|
| `SafeBucketContainer` (libutils) | buckets, queued additions and removals, reader count, stop flag | `acquire_read`, `release_read`, `insert`, `erase`, `clear`, `stop_requested` | mapping tasks read, the main thread writes |
| `SafeQueue`, `QueueThread`, `ThreadPool` (libutils) | one queue, one thread and two stop flags per thread | `enqueue`, `dequeue`, stop, join | the caller and the main pool's threads |
| `TaskBase`, `MainTaskBase`, `SubTaskBase` (libtpe) | id, last executed id, completed, error; mutex and condition of a sub task | `before_execution`, `execute`, `wait`, `after_execution`, `assert_execution` | the pools |
| `TaskPoolExecutor` | a main pool, a sub pool | `init`, `enqueue_task`, destructor | Python |
| `TransactionService`, `Sha256ToShortIdsMap` | hash to short ids, short id to hash, contents, assign times, tracked blocks, removal history, pool of unseen transactions, sender nonces | assignment, message handlers, removal, block tracking, clear, sync, lookups | Python's main thread; tasks read |
| compression, decompression, mapping, cleanup tasks | block buffers, sub task objects kept between blocks | `init`, `_execute`, result accessors | main pool |
| `OrderedMap`, `DefaultMap`, `MapWrapper` | map plus insertion order, default factory, tracking of bytes | map operations | the service |
| `MemoryAllocationThread`, `ConcurrentAllocator` | callbacks and events, queues of free memory | `add`, `remove`, `notify`; `allocate`, `deallocate` | only tests at this commit |
| protocol messages, RLP, base64, JSON, byte buffers | none that outlives a call | parse, write, compress, decompress, synchronise | the tasks, the service, Python |
| crypto, exceptions, bindings | none that outlives a call | | |

How the parts interact: Python enqueues a main task on one thread of the main
pool and polls `is_completed`. The main task splits its block over sub tasks,
enqueues them on the sub pool and waits for them in order. Compression and
decompression read the maps of the transaction service without a lock while
Python's main thread keeps changing them; only the pool of transactions not
seen in blocks is protected, by the reader protocol of `SafeBucketContainer`.

What is hard: the reader protocol (blocking, deferred writes, wakeups), the
reuse of task objects after errors, the order of destruction, sub tasks that
outlive a failed main task, the six containers of the service that every call
must keep consistent, and the unlocked readers of these containers.
`PROJECT.json` lists each hazard with its line and the properties that cover it.

What makes each part correct:

* container: a reader sees one frozen content; every write is applied once the
  readers have gone; nobody sleeps without a reason;
* task pools: a task object is in one place at a time; success means that all
  parts were done; accepted tasks complete; the destructor returns;
* service: the two maps between hashes and short ids are inverse to each other;
  a short id never changes its meaning; a transaction leaves as a whole; the
  window of unconfirmed blocks is bounded; nonces are refused while they are
  fresh and only then; the history forgets no more than it must;
* block tasks: what one gateway compresses another decompresses to the same
  block, whatever the sub tasks' order and whatever happens to the service
  meanwhile; the results are of this block, not of the task object's last one;
* messages: a reader finds what the nodes and the other gateways write;
* allocator: every block of memory is in one place, queues stay bounded.

## 2. Modules

| module | models | state |
|---|---|---|
| `SnapshotReads` | the promise of the container, abstractly | content, active readers, whether a write is held back |
| `SafeBucketContainer` | `safe_bucket_container.h`, `bucket.h` | the fields of the class and where each reading thread is |
| `TaskPool` | queues, threads, task life cycle, executor | `TaskBase` fields of each task object, the queues, the threads, the destructor |
| `TransactionService` | `transaction_service.cpp`, `transaction_to_short_ids_map.cpp`, the window's `OrderedMap`, the history clean-up | one variable per container |
| `CompactBlockMapping` | `btc_compact_block_mapping_task.cpp` and its sub task, over an instance of `SafeBucketContainer` | the pool, two maps of the service, what each task shares with its sub tasks, the sub tasks |
| `BlockCompression` | the four compression tasks and their sub tasks | short ids and their ages, the task object, its sub tasks, the output a caller holds |
| `BlockDecompression` | the four decompression tasks and their sub tasks | short ids and contents, the task object, its sub tasks, the output buffer with its capacity, the pointers that have gone stale |
| `BlockCleanup` | the two cleanup tasks, their sub tasks, the confirmation task | entries and contents of the service, the task object, its three vectors |
| `MemoryAllocation` | `memory_allocation_thread.cpp`, `concurrent_allocator.h` | memory, queues, callbacks, events, clients, the thread |
| `OrderedMaps`, `SenderNonces`, `ContentCache` | `ordered_map.h`; the nonce map of `eth_transaction_validator.cpp` and its clearing; `map_wrapper.h` with the tracker of contents, the removal history with its clean-up, and what the bindings do to both | clock, maps in order of insertion, settings |
| `Buffers`, `ShortIds`, `Rlp` | buffer views and integers, the frame of compressed blocks, `rlp.cpp` and `rlp_encoder.h` | operators only |
| `EthMessages`, `EthBlocks`, `BtcMessages`, `OntMessages` | `utils/protocols/*` and the bytes the block tasks write | operators only |
| `ServiceMessages` | the sync buffer, the answers to queries by short id, the confirmation message | operators only |
| `NodeMessages` | the nodes' encodings, the reference the readers are checked against | operators only; translates no code |
| `WireFormats` | messages on their way through the operators above | one job, its wire and its outcome |
| `...Proofs` | theorems about the module they are named after, and their proofs (section 4) | |
| `CachesAndCleanupProofs` | theorems about `SenderNonces`, `ContentCache` and `BlockCleanup` | |
| `MC...` | scenarios, symmetry sets and constants for TLC | |

Definitions marked "Fault variant" belong to no specification: each is a
plausible mistake in the definition that follows it, and shows that the
property it is paired with in `PROJECT.json` notices it.

### SafeBucketContainer

Every public operation locks `_mtx` and is one action. Two are split:
`acquire_read` may block on the condition and goes on in `WakeUp` (after a
notification, or spuriously, as the predicate is evaluated again); the last
`release_read` holds the mutex in state `applying` and applies one queued
addition per step, then all removals. Removals are pairs of an item and the
bucket it was found in; applying them commutes and is idempotent, so a set
stands for the queue. `erase(predicate)` without readers advances an iterator to
an erased element; what it then visits is undefined and the model lets it stop
anywhere.

### TaskPool

A block is abstracted to the number of sub tasks it is split over, a sub task's
work to whether it throws. `task[t].executed` stands for
`_task_id == _last_executed_id`: each accepted execution draws a new id (an
assumption: the counter is incremented without synchronisation). The
sequence of one execution is `Enqueue` (caller), `MainStart`, `MainDispatch` and
`MainEnqueue` for each sub task, `MainWait` (and `MainWake`) for each of them;
`MainThrows` and the failing branches of `before_execution` and `wait` are the
error paths. `get_available_queue` reads queue sizes without the queues'
mutexes, so any queue may be chosen. `MainWakeSpuriously` is there because
`SubTaskBase::wait` tests its condition with `if`. `WaitForAll` names the main
tasks that wait for all of their sub task objects, as
`EthBlockDecompressionTask` does; all others wait for those they dispatched.

`_is_completed` is a volatile flag that the caller polls; the model makes
`after_execution` atomic, which is what the order of its assignments gives on
the platforms the extension is built for.

### TransactionService

The main thread makes all changes, so a call is an action; of a message with
several transactions, one transaction is an action. A call that only looks
something up, or returns early, is no action. Contents and times are
abstracted to their presence. Time-outs and validation answers are choices:
a message that times out or is rejected changes nothing; a transaction whose fee
is too low stores its contents only. The pool is the container above with a
single bucket: mapping tasks acquire and release it at any moment between calls,
and calls in between find it frozen. The clean-up of the history may drop any
part of it (the code drops the oldest entries by age and number).

### CompactBlockMapping

The pool is an instance of `SafeBucketContainer` whose readers are the mapping
tasks; `Acquire` and `Release` are its actions. One sub task per bucket runs the
loop of `BtcCompactTxMappingSubTask::_execute` with a step for each access to
data that others use: the claim of a position (`compare_and_swap`), the lookup
of the contents, the push to the shared vector (read the end, then store: a push
in between is lost, and a vector cut short by this shows, when it grows again,
what its memory held; `cells` is that memory, which is not reallocated in the
model), the placeholder's type, its short id, the counter, the test
to stop early. The main thread adds and removes transactions, sets contents and
tracks transactions in between. A short id is abstracted to its hash; the hash
of an entry is taken to have a short id (see `transaction_service.cpp:479` in
section 5). Prefilled transactions and the compression task
that takes over the result are in `BtcMessages`, as functions. A task that threw
is not used again, which is a bound. A block may repeat a compact id: only its
first position is entered in the map of compact ids. The keys of a block decide which compact id a transaction has, so the function from hashes
to compact ids is a field of the block.

### BlockCompression, BlockDecompression, BlockCleanup

A worker is a sub task, or the task itself where the code has no sub tasks
(Ethereum and consensus compression, consensus decompression). Every call a
worker makes on the service is a step, because the owner of the service assigns,
ages and removes transactions in between without a lock; so is every part that
`_dispatch` hands out, as the sub tasks of earlier parts already run. What the
pool itself does is in `TaskPool`; here a sub task that is enqueued runs at any
later moment.

Compression has the two questions `has_short_id` of the Bitcoin and Ontology sub
tasks as two steps, with the assign time read between them. Decompression has
the output buffer with its length, its capacity and a generation that changes
when the memory moves: a worker that wrote through a moved buffer, read a
removed transaction's contents, used a block that was released or ran past the
short ids sets `crashed` with the reason, and the behaviour ends there. A pointer
to contents becomes stale when they are removed and stays so when they are stored
again (`stale`). The maps are `unordered_map`s without a lock, so a change of the
service may meet a lookup that is under way: it misses an entry that is there, or
follows a pointer into memory that is gone (`Race`). Sizes are in units of which a
transaction has a few.

In compression the caller may keep a pointer to a finished output. What it shows
is the task's buffer for as long as it is the same one; `init` of the next block
asks `use_count` and either leaves the buffer to the caller and makes a new one,
or resets it (`OutputOf`).

Cleanup splits `push_back` into the read of the end and the store, which is the
race the sub tasks have on the task's vectors; `raced` remembers that two of them
met. A sub task that finds a transaction with `has_short_id` and no longer with
the const `operator[]` fails with `KeyError`, and the task with it.

The same task object is used for several blocks, also after one that made it
throw, and the caller may keep the output of an earlier block.

### MemoryAllocation

An action is one scope of a mutex. `_check_allocations` lets the mutex go for
every `operator new`, so each block it adds is a step; the length it counts from
is read once. The thread's mutex is held from the start of a round to the next
wait. The destructor sets the flag, then notifies; neither is under the mutex,
so the notification can come between the thread's test and its wait (`"missed"`).

### SenderNonces, ContentCache

A call of the service is an action; the clock advances in between. The nonce map
and the history are `OrderedMap`s, whose clean-ups look at the front only.
`passed` is a history variable: every validation that passed, with the setting
of that time. A validation without a time (from a blockchain node) leaves the
nonces out. In `ContentCache` the tracker adds and subtracts sizes modulo
`SizeMod`; `__setitem__` of the binding replaces contents past it. The bindings
also write, delete and clear the times of the removal history; `rewritten` is the
set of hashes whose time was written and not taken from the clock.

### The messages

A buffer is a sequence of bytes and offsets count from 0. Each reader and writer
is an operator under its name in the code, with exceptions as values. A hash is
the bytes that are hashed, so that two readers agree on a hash exactly if they
hash the same range. `WireFormats` takes one job at a time: a node's message is
written, then read or compressed, and what was written is decompressed or
processed by another gateway. The operators that recurse over buffers are
`RECURSIVE`, so these modules are for TLC only.

## 3. Runs

| run | instance | distinct states | shows |
|---|---|---|---|
| `container` | 2 items, 3 readers, 2 buckets of 1, 2 pending additions | 87 thousand | count, exclusive application, empty queues, fresh bucket indices, no lost wakeup; refinement of `SnapshotReads`; queued writes are applied |
| `task_pool` | 2 main tasks, 2+2 threads | 1.56 million | one place at a time, completed means out of the pool, success means all parts |
| `task_pool_shutdown` | 1 main task, 2+2 threads, destructor | 30 thousand | accepted tasks complete, the destructor ends |
| `task_pool_ethereum` | 1 main task that waits for all its sub task objects, 2+2 threads, no destructor | violation | a block that fills one part never completes |
| `transaction_service` | 2 hashes, 2 short ids, 2 blocks, counts 2 and 3, 1 reader | 278 thousand | the service's invariants and action properties |
| `compact_mapping` | 2 tasks, 2 buckets, 2 transactions, in two scenarios | 1.92 million | buckets stand still, no position is forgotten, missing indices are exactly the unfilled positions |
| `compact_mapping_counts` | 1 task, 2 buckets, 2 transactions, a block of distinct compact ids, all calls at once | violation | a transaction without contents makes the task throw while it holds the pool |
| `memory_allocation` | 1 allocator, 2 clients, queues of 1 | 247 thousand | blocks are in one place and large enough, queues bounded, callbacks alive, events handled, join returns |
| `block_compression` | 4 task classes, blocks of 1 and 3 transactions, 2 sub tasks, 2 blocks, 2 changes | 955 thousand | the compressed block stands for the block; ignored short ids, ages, kept output |
| `block_decompression` | 4 task classes, 8 messages, 2 sub tasks, 2 blocks, 2 changes | 367 thousand | the block comes out exactly; missing transactions are reported; crashes have five causes only |
| `wire_formats` | boundary cases of every message | 2.7 thousand | readers against writers against the nodes' encodings |
| `caches_and_cleanup` | three parts that share no state, one at a time. Nonces: 5 transactions of 2 senders, 2 settings, 3 seconds. Contents: 3 hashes, 2 sizes, 2 seconds. Cleanup: 3 task classes, blocks of 1 and 4 transactions, 2 confirmations, 2 blocks, 1 change | 1.85 million | refusals of nonces are justified and happen; byte counts; history clean-up; everything of a block is collected unless pushes raced; removed short ids and totals are exact |

Some properties are conjunctions of definitions that the comments and this text
also use on their own: `ReadersAndQueuesAgree` (the reader count, exclusive
application, empty queues without readers), `ThreadResponds` (`EventsHandled`,
`StopEnds`), `ResultExact` (with `IgnoredOfThisBlock`), `RlpCanonical`
(`AcceptedCanonical`, `IntRoundTrip`), `EthTransactionsExact`
(`TwoParsersAgree`, `SignedExact`), `BlocksRoundTrip` (`EthRoundTrip`,
`BtcRoundTrip`, `CompactRoundTrip`, `OntRoundTrip`, `ConsensusRoundTrip`),
`ServicesAgree` (`SyncFaithful`, `QueriesExact`, `ConfirmationRead`),
`NoncesRefused` (`RefusalJustified`, `ReuseRefused`) and `HistoryCleaned`
(`ExpiredForgotten`, `ForgetsOnlyWhatItMust`).

`TypeOK` of `TaskPool` and `MemoryAllocation` is proved, and that of
`CompactBlockMapping` describes its variables; no run lists them.
`AssignTimesTracked`, `WindowWithoutRepetition` and `PoolQueuesSound` of
`TransactionService` are proved, and no run lists them either.

Bounds. Two items over buckets of one make the insertion index wrap and put
duplicates of an item in two buckets; three readers are one that leaves, one
that stays and one that comes. Two sub threads are what a block can be split
over; two main tasks compete for queues and threads. The liveness of the pool is
checked with one main task, since two are too many states for a fair run: what
other tasks do to it is that they occupy threads, and every thread that can run
does so in the end. Two short ids make
duplicates; two hashes let a short id come back for another transaction; counts
2 and 3 with two blocks let the window fill, be trimmed, be lowered and hold a
block twice. `MaxPending` bounds the queue of additions, `MaxReaders` the
readers. `CounterSize` stands for 2^64 in the mapping: 8 is far from what two
positions count up to and lets a retraction below zero wrap around.

The mapping is explored in two scenarios, as everything at once is too much:
*collisions* (one task at a time, two transactions with one compact id or a
block that repeats one, and transactions come and go during a read) and *overlap* (two tasks at once,
distinct compact ids, contents arrive and transactions are tracked).
`NoneForgotten` is stated for blocks whose compact ids differ, `MappingExact`
moreover without collisions: with two hashes of one compact id,
or one hash that a removal and an addition during a read have put into two
buckets, two sub tasks race for a placeholder and its position can be filled and
missing at once.

Block tasks: two sub tasks, a block over both and one for the second use of the
object (`MaxBlocks` 2); the changes of the service (`MaxChanges`) are what it
takes to assign, age or remove between two reads. The short ids give one
transaction two of them. The decompression messages are a good block over both
sub tasks, a short id that is not known, one too few short ids, blocks larger
than their size in the last part, in the first part and with the merkle root, an
empty one and one with `NULL_TX_SID`; `MaxLength` bounds the output. The
allocator's limits are 1, so that queues are full and empty at once; `MaxOutside`
and `MaxEvents` bound what clients hold and push. The nonce clock of 3 seconds
passes both settings' ages (1 and 2); `MaxPasses` bounds the history variable.
Sender prices are 10 and 20 against a factor of 2.1 or 1.1.

`wire_formats` is a check of functions: all RLP prefixes around every boundary
with views that end early, integers of every width, legacy and typed
transactions with and without access lists, legacy transactions with v at 27, 28,
35, 36, 38, 256, 257 and 309, blocks with 0 to 3 uncles, every
subset of known transactions, every order and every subset of prefilled ones, a
script at the boundary of the variable-length integer, base64 of every length
modulo 3, services that share some transactions and short ids, also one that has
other contents under the same hash.

Deadlock is checked for the container, the service and the messages. The other
runs switch it off: after the destructor nothing is left to do; nor is there for
a mapping task that has failed, or when the bounds on blocks, changes and time
are used up.

Fairness. `container`: a task that reads releases, and the thread that holds the
mutex runs on; no task need start reading, and a blocked reader need not get the
mutex. Pool runs: every thread that can run does so in the end, a started
destructor continues; the caller need not call and no wakeup is spurious by
right. `memory_allocation`: the thread and a client inside a call run on, a
started destructor notifies; no client need call. The fairness of a reader's
release is not unconditional in the code: see the finding on
`btc_compact_block_mapping_task.cpp`.

## 4. Proofs

For all values of the constants under the `ASSUME`s. These say what the code
fixes or the deployment gives: finitely many readers and at least one bucket
(`ContainerAssumption`, `MappingAssumption`), finitely many transactions and a
64-bit counter that cannot be reached by counting each of them once per bucket
(`MappingAssumption`), counts and limits that are natural
numbers, the null short id is no short id (`ServiceAssumption`), task objects
that differ (`DistinctObjects`), short ids that stand for one hash each and a
flag that is no hash (`BlockCompressionAssumption`), transactions that are not
empty and blocks that fit the bound `MaxLength` of the modelled buffer
(`BlockDecompressionAssumption`), prices and ages
(`NoncesAssumption`, `ContentsAssumption`), finitely many transactions and short ids
(`BlockCleanupAssumption`). TLC evaluates all of them.

* `SafeBucketContainerProofs`: `TypeCorrect`, `CountAndQueues`,
  `RemovalsFindTheirItem`, `WakeupsNotLost`, and `ImplementsSnapshot`: every
  behaviour is one of `SnapshotReads`. The inductive invariant `IInv` conjoins
  the type invariant, the reader count as a cardinality, exclusive application,
  the empty queues, the fresh indices and the reason to sleep. They need one
  another: that the last release sees a count of 0 exactly if nobody else reads
  rests on the count, the fresh indices rest on nobody erasing during a read, and
  the reason to sleep on empty queues without readers. The refinement maps the
  states of readers to the set that reads, and applying one queued write to
  `Write`.
* `TransactionServiceProofs`: `TypeCorrect`, `MapsConsistent`, `WindowAndPool`,
  and the action properties `ShortIdsKeepTheirHash`, `WholeTransactionsLeave`,
  `WindowStaysBounded`. `IInv` conjoins four groups: the maps (inverse to each
  other, exactly the bound short ids have assign times), the pool, the window and
  the plain sets. Lemmas treat what the actions share (binding, forgetting, the
  pool's insert and erase); `StepOK` bundles what every step must give, and
  `NextOK` has one case per action.
* `TaskPoolProofs`: `TasksInOnePlace`, `CompletedTasksAreOut` and the action
  property `SuccessIsWhole`. Both pools are treated alike, as queues and what
  the threads run. No task is in two places (`PoolsOnce`) because
  `before_execution` refuses every task that is pending, and a task in a pool is
  pending (`PoolsPending`); a sub task between its `before_execution` and the push
  needs a conjunct of its own (`OnTheWay`). For the action property, sub tasks
  that were waited for stay completed (`WaitedFor`): only their own main task,
  which is still waiting, dispatches them.
* `MemoryAllocationProofs`: `NoBlockLost`, `QueuesKeepLimits`, `CallbacksAlive`.
  All queues of all allocators, and the thread's copy of what it frees, are one
  function from homes to sequences of blocks; no block is in two slots, and a
  block is allocated exactly if it is in a queue or with a caller (`BlocksOnce`).
  Every action takes, adds, moves or empties. The limit of a queue needs that the
  stale length the thread counts from is no smaller than the queue (`FillCounts`).
* `CachesAndCleanupProofs`: `HistoryIsCleaned`, `NoncesCleared`, `NonceReuseRefused`,
  `BytesAreExact`, and of `BlockCleanup` `BlockIsCollected` and the action property
  `CleanupIsExact`. A clean-up of the history that looks at the front only is enough as far as the times are in the
  order of insertion: of the entries whose time the bindings did not write they are, and none is
  later than the clock (`HistoryInOrder`). What an entry with a written time keeps back or takes
  along is what the two parts of `HistoryCleaned` make room for; that a refusal stems from a pass, and
  that every pass still within its setting is found, are `ItemsStem` and
  `PassesRegistered`. The bytes of the contents are the number of pairs of an entry
  and a unit of its size, so that adding or removing an entry adds or removes a
  finite set of pairs, and no induction over the map is needed. For a block that is
  cleaned up, there is for the vector of all transactions and for what each sub task
  has before it a sequence of positions of the block (`Collected`, existentially
  quantified): what lies there is what the block has at those positions, and each
  position handed out so far is in exactly one of them. A push that meets no other moves the position with its
  transaction; once two have met nothing is claimed (`Alone`). A sub task that has found a
  transaction, and fails to find it again, does so because it was removed in between (`Found`).
* `BlockCompressionProofs`: `BlocksAreExact`, `AgesRespected`, `KeptOutputsStay`.
  There is a cut of the block into consecutive segments, one per sub task; what a
  sub task has written stands for the first part of its segment and its offsets
  are the rest (`Segment`), while the block is split (`Dispatching`) and while the
  results are collected (`Collecting`). The cut is existentially quantified: it is
  nowhere in the code's state. An output that a caller holds is the task's buffer only
  until the next `init`, which finds by `use_count` that it must not reset it, and
  from then on the caller's own (`KeptApart`).
* `CompactBlockMappingProofs`: `BucketsStandStill` and `FailedTasksKeepThePool`,
  the second of which is the finding on `btc_compact_block_mapping_task.cpp` for
  all instances. The pool's part is not proved again: every step of the mapping
  is one of the container or leaves it alone, so the container's `IInv` and its
  step lemma are used through an instance; what is added is that a task is
  counted as a reader while its sub tasks run (`TasksRead`, `SubTasksAwaited`).
  `NoPositionForgotten` and `MappingIsExact` need an account of what the sub tasks
  did with each transaction of each bucket (claimed first or as a twin, pushed,
  filled, found, retracted), which is nowhere in the code's state and therefore
  existentially quantified (`Tallied`). It explains the claims, the placeholders, the
  counter (found less retracted, below zero as well) and the vector: pushes get lost,
  but the vector is then shorter than their number, and a sub task that has read an
  old end cannot make up for it (`VectorSound`). When the sub tasks have ended and the
  loop over the compact map is passed over, the two totals can only agree if no push
  was lost and every position was claimed (`NoPushLost`, with the firsts counted
  by an injection into the positions); otherwise the loop finds what is not filled.
  `std::sort` is treated by ranks (`SortSorts`), so that no induction is needed.
* `BlockDecompressionProofs`: `DecompressedExactly`, `MissingAreReported`,
  `EveryCrashExplained` and `TypesAndParts`. While nothing has crashed (`Working`),
  each sub task at work has a run of consecutive transactions before it, the offset
  where the first of them belongs and the short id it starts from (`Part`); every
  transaction of the block is in its place or before a sub task (`Covered`). The
  runs are existentially quantified, as nothing in the code's state names them. A
  copy puts one transaction into its place and touches no other, since places do not
  overlap (`Apart`, `CopyPlaces`), and the last part is the only one that may find
  the buffer too small. What was looked up is settled (`Lookups`), and a buffer the
  caller keeps is an older one than the task writes to (`HeldOlder`). A pointer is stale
  only if a transaction of the block was removed (`Dangling`), and a map can change under
  a lookup only while a block with short ids is not done. Once something
  has crashed nothing is claimed but its cause.

Only model-checked: the liveness properties (`QueuedWritesApplied`,
`AcceptedTasksComplete`, `ShutdownEnds`, `ThreadResponds`), since liveness under
fairness is outside what the prover does; and the messages (`RlpCanonical`,
`EthTransactionsExact`, `JsonExplained`, `BlocksRoundTrip`, `ServicesAgree`), whose
operators recurse over buffers.

## 5. Findings

* `btc_compact_block_mapping_task.cpp:111` counts a transaction without contents
  as missing twice, throws, and never releases the pool
  (`compact_mapping_counts`).
* `eth_block_decompression_task.cpp:126` waits for sub tasks that were not
  dispatched: on a pool of two or more threads a small first block never
  completes, its main thread is lost, and the destructor of the executor, which
  joins it, does not return (`task_pool_ethereum`).

Where the code does something a property had to make room for, the property says
for which cases it holds, and the models contain the other cases:

* `transaction_service.cpp:479` enters a hash with an empty set of short ids,
  which `get_short_id` dereferences; `safe_bucket_container.h:104` drops the
  removal of an item whose insertion is queued, so the pool keeps a removed
  transaction. Both are behaviours of `TransactionService`; its invariants hold
  in spite of them.
* `eth_block_decompression_task.cpp:202`, `btc_block_decompression_task.cpp:184`,
  `ont_consensus_block_decompression_task.cpp:107` and, twice,
  `transaction_service.cpp:245` (a pointer to contents that are removed, and a
  lookup while the map changes) are the five causes in `CrashesExplained`.
* `btc_block_compression_sub_task.cpp:37` and `:76`: stale ignored short ids, and
  an age that is skipped (`IgnoredOfThisBlock` and `AgeRespected` are stated for
  the tasks without them).
* `btc_block_cleanup_sub_task.cpp:37`: pushes that race, and one line before a
  `KeyError` for a transaction that was removed meanwhile (`CollectedUnlessRaced`).
* `transaction_service.cpp:125` and `:168` of the bindings: a time written into the
  removal history stands out of order, and entries behind it stay or go with it
  (`HistoryCleaned`).
* `memory_allocation_thread.cpp:16` and `:45`: notifications before a wait
  (`StopEnds`, `EventsHandled`).
* `eth_tx_message.cpp:34-43`: the comment says that the type byte of a legacy
  transaction inside a string is skipped and not hashed; the range that is
  hashed is one byte too long, so that the two readers' hashes differ from each
  other and from the node's (`TwoParsersAgree`).
* `eth_tx_message.cpp:63`, `string_helper.h:46`, `transaction_service.cpp:855`,
  `buffer_view.cpp:98`, `compact_block_data_service.cpp:81`,
  `bx_btc_block_message.cpp:54`: chain ids in a byte (v above 256, and 35 and 36,
  whose chain id is zero), values cut off in the JSON, uncles left out of it,
  fields of the header that are read from the wrong place since
  `BufferView::vector` does not add the offset of its view, prefilled
  transactions that are not the first, a version that looks like a short id.
  `SignedExact`, `JsonExplained`, `CompactRoundTrip` and `BtcRoundTrip` say
  exactly which inputs are affected.

Further places that a reader of the code should know, which no property is about:

* `task_base.cpp:13`: the task id counter is incremented by several threads
  without synchronisation, so ids can repeat.
* `btc_compact_tx_mapping_sub_task.cpp:67`: on a collision two sub tasks write
  one placeholder in either order. The model has the steps; `MappingExact` is
  stated without collisions.
* `compact_block_data_service.cpp:153`: of a compact id that occurs twice in a
  block only the first position is entered. If its transaction is known without
  contents, the two wrong counts of `btc_compact_block_mapping_task.cpp:96-112`
  cancel out and the second position is neither found nor reported missing; the
  model has this, and `NoneForgotten` is stated for distinct compact ids.
* `transaction_service.cpp:720`: a late answer with transactions brings back one
  that was removed meanwhile, as the history is not asked. The model has this.
* `safe_bucket_container.h:180`: a transaction that is removed and added during
  a read ends up in two buckets; the model of the container has this.

## 6. Plan

In this order:

1. An abstract specification of a task's life cycle, refined by `TaskPool`.
2. The loads and stores of the task id counter in `TaskPool`.
3. Which transaction an eviction makes final, with a history variable in
   `TransactionService`.

## 7. Not modelled

* Crypto (SHA-256, Keccak, SipHash, libsodium, the recovery of a sender):
  wrappers of libraries or published algorithms without state. A hash stands for
  the bytes that are hashed.
* Exceptions and backtraces: carriers of text. That a task keeps and rethrows an
  error is in `TaskPool`.
* Python bindings: declarations of the calls that are modelled, and conversions
  of buffers. What they do to the history of removed hashes and to the contents
  (assignment, deletion, `pop`, `clear`, the clean-ups) is in `ContentCache`; the
  history of short ids is the same code. Left out are `pop` and `__getitem__` of a
  key that is not in an `OrderedMap` (undefined: a null iterator is dereferenced),
  `__getitem__` of contents that are not there (a null pointer is entered past the
  tracker) and edits of the maps of short ids, past the service, through the
  bindings.
* Lookups that overlap a change of the maps, outside `BlockDecompression`: in
  compression, mapping and cleanup a lookup is one step. A map that is rehashed
  meanwhile can crash these tasks too.
* The base fee of an Ethereum block in its JSON, which is printed but never set.
* Statistics: byte sizes of tasks and containers, allocation trackers other than
  that of the contents.
* The wording and layout of JSON; what is printed under each key is modelled.
* The test and benchmark tasks (`test_task.cpp`, `w2_task.cpp`).
