# smart_scanner in TLA+

Specifications of the blockchain scanner in this repository, the TLC
configurations that model-check them, and TLAPS proofs about them. Paths are
relative to `src/`. `PROJECT.json` maps every definition to the lines it models
and lists the runs, the mutants that show that each property can fail, the
hazards of the code and the theorems.

    tlc -workers 2 -config ChainScanner.cfg MCChainScanner
    tlapm WatermarkProofs.tla

## 1. The system

`cmd/scanner/main.go` wires a Redis lock, RPC nodes, a `SchedulerManager` with
one `ChainScanner` per chain and a wallet API. The packages `reorg`, `consumer`,
`queue`, `storage`, `parser` and `plugin` are libraries that main does not start
yet; their code is modelled as an application would use it. There are no unit
tests.

| Part | State | Operations | Hard about it | Correct when |
|---|---|---|---|---|
| Lock `pkg/lock/lock.go` | a Redis key with TTL; value of each lock object | Lock, TryLock, LockWithRetry, Extend, Unlock | expiry under the holder, lost replies | a lease is honoured, one at a time; an orphaned key expires |
| Watermark `scheduler/watermark.go` | scanned, confirmed, finalized height, boundary; mutex and Redis lock | UpdateScanned/Confirmed/FinalizedHeight, ResetToHeight | load, check and store are apart; two locks | it is an atomic register; calls return |
| Scanner `scheduler/chain_scanner.go`, `worker.go` | task and result queue, workers, retries | generateTasks, processTask, processResults, retry | results in any order, full queues, dropped results, stale watermark, restart | blocks below the watermark are scanned or accounted for; nothing above the height of finalization_type; it catches up |
| Scanner lifecycle, same files | Running, context, channels, wait group | Start, Stop | Stop among sleeping and sending goroutines; closed channels | one crew at a time; all goroutines end |
| `scheduler/scheduler_manager.go` | map of scanners, mutex | Start, Stop, Restart, Add, Remove, status | copies of the map; blocking calls under the lock | one scanner per chain |
| Sharding `scheduler/sharding.go` | none that changes | GetShardRange, GetAllShardRanges, CalculateShard | remainders, more shards than blocks | ranges partition the blocks evenly |
| Reorg detector `reorg/detector.go` | check under way, event, statistics | tick, DetectReorg, findForkPoint, autoProcessReorg, Stop | chain and scanner move between reads | no false alarm (threshold above 0); exact fork point |
| Reorg processor `reorg/processor.go` | queue, workers, status | ProcessReorg, six steps, retries, Stop | steps that fail half way; two workers on one chain; scan tasks that saved before and raise the watermark after | no event lost; what a rollback deletes is put above the watermark; every event settled |
| Nodes `node/node_manager.go` | health, counters, mutex per node | Call, BatchCall, health checks | mutexes, atomic and plain counters, failover | calls return; the choice follows the weights |
| EVM client `node/evm_client.go`, `node/http_client.go` | request ids of each node's client | GetBlock, BatchGetBlocks | replies in any order, single errors in a batch, replies to somebody else | a call brings only the blocks it asked for |
| Database `storage/database.go` | blocks, transactions with their status twice, logs, reorg events, connection pool | save, batch, update, mark, delete, read | a save is a SELECT and an INSERT, without a unique index; the copies of a status; a batch that holds a connection and needs another | readers see what was stored; batches end |
| Storage manager, Redis, Elasticsearch `storage/` | master, replica, cache, index | save and read through | each store may fail by itself, stale cache and replica, two writers | a reader is told nothing or something that was stored; in the end what the master holds |
| Consumer `consumer/consumer.go`, `state_machine.go`, `reorg_handler.go` | map of the events being handled | ProcessTransaction, ProcessReorgEvent | status read, judged and written in three calls; redelivery; steps that fail | nothing is finalized that was not confirmed; one handler per event |
| Webhooks `consumer/webhook.go` | batch buffer, mutex, done channel | Send..., flush, SendReorgEvent, Stop | several flushers, retries, a buffer that fills up, Stop twice | batches in order; a reorg after what it undoes; nothing stays in the buffer |
| Queue `queue/` | offsets of the group | send, subscribe | commit before handling, rebalances, crashes | at most once, in order |
| Plugins, parsers | adapters | create, close, decode | nothing that is shared but for the adapter map, which has a mutex | |
| Wallet `wallet/` | none | transfer, queries | nonce read before send | |

How they interact. The scanner asks nodes through the node manager, raises the
watermark, and the watermark takes the Redis lock. The reorg packages read the
chain and the database while the scanner writes it, reset the watermark and
delete blocks. The scheduler manager starts and stops scanners. Queue, consumer,
storage and webhooks form a second pipeline behind the parsers: messages of the
queue become calls of the consumer and of the webhook handler, the consumer
writes one store while the scanner writes all of them through the storage
manager.

## 2. Modules

| Module | Models | Built on |
|---|---|---|
| `RedisLock` | one key, clients with lock objects, time in half seconds, lost replies of every command | |
| `WatermarkRegister` | abstract specification: the watermark as an atomic register | |
| `WatermarkManager` | the manager with mutex, Redis lock and load/store; implements the register | `WatermarkRegister` |
| `ChainScanner`, `MCChainScanner` | the pipeline of a running scanner | `WatermarkRegister` |
| `ScannerLifecycle` | Start and Stop, queues as lengths, crash on a closed channel | |
| `SchedulerManager` | the manager's operations; a running scanner's Stop never returns, as `ScannerLifecycle` finds | |
| `Sharding` | shard ranges, one round of the loop per step | |
| `BlockStore` | chain, database, scanned height and scan tasks (fetch, look up, insert, raise), shared by the two below | |
| `ReorgDetector` | detection loop and automatic processing, one step per read, write or locked section | `BlockStore` |
| `ReorgProcessor` | queue, workers, steps, retries, shutdown | `BlockStore` |
| `NodeManager`, `MCNodeManager` | calls with failover beside health checks | |
| `EvmClient`, `MCEvmClient` | requests for blocks, ids, replies, through the node manager | `NodeManager` |
| `WeakStore` | abstract specification: a reader is told nothing or something a store took before | |
| `Storage` | the manager's writes and reads over master, replica, cache and index, the two statements of a save, and the connection pool | |
| `Consumer`, `MCConsumer` | state machines and reorg handlers over each store, beside the scanner and readers; implements the weak store | `Storage`, `WeakStore` |
| `AtMostOnce` | abstract specification: a message is handled once at most, and in order | |
| `KafkaTopic` | producer, partitions, offsets, commits, rebalances; implements at-most-once | `AtMostOnce` |
| `LossyFifo` | abstract specification: batches in order, missing or repeated | |
| `BatchWebhook` | buffer, mutex, flushes, requests and retries, Stop; implements the lossy queue | `LossyFifo` |
| `Delivery` | a subscription whose handler is the webhook and that may end, and a process that dies at any time and starts again | `KafkaTopic`, `BatchWebhook` |
| `RedisLockProofs`, `ChainScannerProofs`, `ConsumerProofs`, `DeliveryProofs`, `EvmClientProofs` | theorems | the modules they name |
| `WatermarkProofs` | theorems | `WatermarkManager` |
| `SchedulerProofs` | theorems | `SchedulerManager`, `ScannerLifecycle`, `Sharding` |
| `ReorgProofs` | theorems | `ReorgDetector`, `ReorgProcessor` |

Four detailed modules are shown to implement an abstract one, each through an
`INSTANCE ... WITH` and its specification as a property: `WatermarkManager` the
register (its `wm` is the register), `Consumer` the weak store (what a reader
would be told now is the view), `KafkaTopic` at-most-once delivery, and
`BatchWebhook` the lossy queue.

How a row is saved (database.go 195 and 314). SaveBlock and SaveTransaction pass
one pointer to both `Assign` and `FirstOrCreate`. gorm selects the row into it;
if there is one, the values to assign are by then those of the row, so the row is
written back as it was read and nil is returned. If there is none it is inserted,
and since no index is unique two first saves make two rows. `Storage` has these
as `Connect`, `SelectRow` and `MasterWrites` (with `twins` for the heights that
have a second row), `BlockStore` as `SelectRow` and `InsertRow` (with `extra`).
The manager caches and indexes the new value in any case. So the weak store is a
promise about failures, and no more: a value reaches a reader only after some
store took it, where the master takes a value when its SaveTransaction returns
nil or its answer is lost. That the row then has the value is another property,
SavesReplaceRows, and it fails (section 5).

Each action is one operation or one atomic part of it: what lies between two
points at which another goroutine can interfere (a lock, a channel operation, a
call to Redis, a node or the database). Comments name ghost variables; they
record history for a property and never guard an action. A block is a height,
or a height and the number of the fork that made it, which stands for its hash.
Logging, metrics and the content of blocks are left out. A definition called a
mutant is a plausible mistake in the definition after it; no specification uses
it.

## 3. Runs

| Run | Checks | Shows |
|---|---|---|
| `redis_lock` | TypeOK, LeaseHonoured, OneLease, OrphanExpires | while a client has a lease the key has its value, so no two have one at once; after an Extend that failed with an unknown outcome the lease is the shorter of the two TTLs; a key whose owner never learnt of it expires |
| `watermark_manager` | MTypeOK, NoLostUpdate, RegisterSpec, CallsReturn | the manager implements the atomic register though the Redis lock expires, is orphaned or held elsewhere |
| `chain_scanner` | STypeOK, GapAccounted | the only blocks the watermark skips are those of a task given up or a short batch; retries, dropped results, lock conflicts and a restart skip none |
| `chain_scanner_live` | WithinFinalized, CatchesUp | batches are cut off at the height a node reported for the configured finalization_type (finalized, safe or latest), and the watermark reaches it, across a reset |
| `scanner_lifecycle` | OneCrew, QuittersEnd | crews overlap only around a cancel; after it all but the result processors end |
| `scheduler_manager` | GTypeOK, OneScannerPerChain | no order of calls gives a chain two running scanners that are not removed |
| `sharding` | RangesPartition, RangesBalanced | ranges are adjacent, complete and even |
| `reorg_detector` | DTypeOK, NoFalseAlarm, ForkPointExact | an event means a real reorg; if the chain did not reorganise during the check, it names the highest local block still on the chain |
| `reorg_processor` | PTypeOK, AcceptedIsAccounted, CleanedIsReset, EventsAreSettled | no accepted event is lost or done twice; what a processed event deleted was put above the watermark after that; every event is settled unless the processor is shut down |
| `node_manager` (`EvmClient.cfg`) | NTypeOK, SelectionIsProportional, BlocksWereAsked, CallsReturnUnchecked | the choice follows the weights; replies in any order never bring a block nobody asked for; calls return until a health check keeps a mutex |
| `consumer` | CTypeOK, OneHandlerPerEvent, FinalizedWasConfirmed, ImplementsWeakStore, ReadersConverge, OperationsReturn | stores that fail by themselves, two writers and a lagging replica never show a reader what no store took, and in the end show the JSON the master holds; the state machine's separate calls finalize nothing unconfirmed; batches that wait for a second connection end when the pool has one to spare |
| `delivery` | WTypeOK, ReorgAfterItsPast, ImplementsAtMostOnce, ImplementsFifo, BufferIsFlushed | no message is handled twice or out of order across lost commits, rebalances and crashes; batches reach the receiver in order; a reorg is not overtaken; no event stays in the buffer |

Bounds, and why they are enough. Three lock clients, so that one can expire, one
take over and one interfere; a TTL of two seconds, so that Extend shortens it,
with or without an answer, and time runs out in between. Two goroutines and heights 0..2 for the watermark:
a lost update takes two. Two workers, one result processor, one retry, queues of
capacity 1 and blocks 1..2 for the scanner: results overtake each other, queues
are full, a retried task meets its own copy. The batch is one block there; in
`chain_scanner_live` it is two, with one worker, so that it is cut off at the end. Two callers and two crews for Start
and Stop; three callers, two chains and three scanner objects for the manager.
Up to 6 shards and 15 blocks include more shards than blocks. Heights 0..3, two
reorganisations and a walk limited to 2 let the detector reach its limit and the
chain fork twice in a check. Two workers, two events, a queue of 1 and one retry
for the processor, over one block to roll back and two reorganisations, so that
two workers and the detector meet on the same height. One scan task at a time in
both: it fetches, looks up, inserts and raises in separate steps, and the next
one takes any block, so a task that is late is there. Two at the same time can
make a second row of a height (`extra`), which only validate reads: the theorems
are about any number of tasks, and `ReorgProcessor.cfg` also passes with two tasks
and `MaxForks = 1`, in about five minutes. Two callers and one check, two nodes with weights that
include 0, and two attempts where the code makes three: the second one is the
last and meets the node that failed; one request for a block and one for a batch
of two, so that replies change places. Two goroutines with two operations each,
two transactions of one block, three stores for the consumer to work on: two
writers, or a writer and a reorg handler, meet in every order. Three connections: two batches hold two of them, and
the SELECT of one takes the last while the other waits for it. Three events, a buffer of
three, one retry, one reorg and one crash for the delivery: the buffer can fill
up, be flushed by each of the flushers, and be lost.

`CHECK_DEADLOCK FALSE` stands where the bounds on calls, heights or
events let a model come to its end, or where the code itself may stop: a program
that has crashed, goroutines that wait for ever.

Symmetry (`chain_scanner`) is over goroutines that run the same code, and no
liveness is checked with it.

Fairness. `redis_lock`: time passes. `watermark_manager`: a goroutine that holds
a lock goes on, and a Go mutex starves nobody (strong fairness of MutexLock).
`chain_scanner_live`: goroutines run; nodes and lock do not fail for ever, so a
step that is tried again and again succeeds again and again. Without that the
promise cannot hold. `scanner_lifecycle`: goroutines run, and `select` picks at
random, so a case that is ready again and again is picked; nobody has to call
anything. `reorg_processor`: workers run, steps may fail each time, nobody has to
shut down. `node_manager`: calls under way go on, since a request has a timeout;
each may fail. `consumer`: a goroutine that does not wait for a connection goes
on, Redis expires its entries, the replica follows the master; nobody has to call
anything, and every call to a store may fail. `delivery`: a Go mutex starves
nobody (strong fairness of the steps of a goroutine), and the ticker of the flush
loop fires; no request has to succeed and no message has to come.

## 4. Proofs

All for every value of the constants that satisfies the named assumptions.

* `RedisLockProofs`: `TypeCorrect`, `LeasesAreHonoured`, `LeasesAreExclusive`,
  `GrantsAreHonoured`. That a lease is backed by the key is not inductive: it must
  also not outlast the key's time to live (`LeaseBacked`), and values of lock
  objects must differ (`OwnValues`), for otherwise one client's Unlock could delete
  the key of another. `LInv` is the conjunction. A lease is what a careful client
  may rely on: the TTL of the last nil reply, cut down to the requested TTL when an
  Extend returns an error, since EXPIRE may have run and its reply been lost. What
  the lock object itself remembers (`l.ttl`, the ghost `granted`) is not cut down;
  that it is honoured, too, is proved for callers that never shorten the lock
  (`NeverShortened`), and `RedisLockDoubts.cfg` shows that it fails for others. All
  but the first assume `WholeSecondExtends`, because Extend cuts its TTL down to
  whole seconds.
* `WatermarkProofs`: `TypeCorrect`, `UpdatesAreNotLost`,
  `ManagerImplementsRegister`. `MInv` adds to the types that a goroutine past
  its load holds the mutex and its copy is the current watermark
  (`NoLostUpdate`), and that its checks still pass (`ChecksPassed`). A store is
  then one step of the register, and every other step leaves `wm` alone. The
  Redis lock plays no part in the argument: within one process the mutex
  suffices.
* `ChainScannerProofs`: `TypeCorrect`, `ScansFinalizedOnly`,
  `GapsAreAccounted`. A watermark within
  the final height, what the node reports for finalization_type, is not inductive: a result on its way will become the
  watermark, and generateTasks will cut tasks up to the end it has read. `SInv`
  bounds every place that holds a block number (`Bounded`) and the range being
  cut (`Generating`). `GapAccounted` speaks of the watermark only;
  `CompleteBelow` says of every number that can become the watermark (the
  ends of tasks and results, the next block to cut) that no block below it is
  forgotten. Tasks are cut without holes from a watermark read earlier, so each
  end is complete, and each step that takes a block out of one place puts it
  into another, into `fetched` or into `lost`. The theorem assumes
  `MaxResets = 0`: with a reset it is false, as `ChainScannerDoubts.cfg` shows.
* `SchedulerProofs`: `ManagerTypeCorrect`, `OneScanner`, `OneCrewScans`,
  `ShardsPartition`, `ShardsBalanced`. Of the manager: between the start of a
  scanner and its entry in the map it runs unseen, and Start works on copies
  of the map that may be old. `GInv` says where every scanner not removed is: in
  the map under its chain (`MapFits`, `Placed`), or with the one caller that
  holds the mutex (`Holders`) and is about to store it, in which case the map has
  none for the chain (`StoresFit`).
  Of the lifecycle: `LInv` ties the number of starts to `Running` while no Stop
  has got as far as the cancel (`Unstopped`), and goroutines to the crews that
  were started. So a second crew means a Start after a Stop, and that Stop stands
  before its cancel or behind it, which is what `OneCrew` says.
  Of the shards: `ShInv` says each range computed so far is what the formulas
  give; adjacency and size follow from q * n + r = length, with 0 <= r < n.
* `ReorgProofs`, detector: `DetectorTypeCorrect`, `DetectorRaisesNoFalseAlarm`,
  `DetectorFindsForkPoint`. `DInv` says where the walk is: as far below the local
  tip as its depth says, and below it only once the chain has abandoned the tip
  and every stored block between. It rests on facts of the world in which the check
  runs: a reorganisation makes a fork with a number that no block has yet, so an
  abandoned block never comes back; a block that is on the chain stays unless the
  chain reorganises, which `ForkPointExact` excludes for the time of the check only;
  and a scan task never replaces a row, so what the walk found abandoned is still
  there when it ends. The second theorem assumes a threshold above 0, which
  NewReorgDetector (detector.go 95-103) does not enforce: with 0 findForkPoint makes
  an event about a tip that matches.
* `ReorgProofs`, processor: `ProcessorTypeCorrect`, `NoEventIsLost`,
  `CleanedHeightsAreReset`. `PInv` gives each accepted event one place: in the queue
  once (`QueueOK`), or with one worker (`WorkApart`), and what a worker holds fits
  the step it is at (`WorkOK`). The event that deletes a height is then still open
  when its worker comes to reset the watermark below that height, and other workers
  only reset it further down. It is a statement about the workers: a scan task
  that saved a block before clean_data may raise the watermark over the hole after
  reset_watermark, since nothing orders its save and its raise with a rollback, so
  that there is no hole at all below the watermark is not true and not claimed.
* `EvmClientProofs`: `ClientCallsThroughManager`, `NodesTypeCorrect`,
  `ChoiceIsProportional`, `CallersGetTheirBlocks`. Every step of the client is a
  step of the node manager or leaves its variables alone, so the manager's
  invariant `NInv` holds beneath it. The choice: the running sums of the weights
  exist and grow (`SumExists`, by the least counterexample, since the prover cannot
  instantiate an induction theorem), exactly one place is picked for each number
  (`PicksOne`), and the numbers that pick place i are those from the sum before it
  to the sum at it, as many as the weight. The blocks: `CInv` says that the numbers
  a caller has asked for stand at the node under its ids (`AskedOK`); others only
  append to them (`AsksStay`), so a reply that carries the id of place i brings the
  block of number i, and every other reply is left out.
* `ConsumerProofs`: `ConsumerTypeCorrect`, `OneHandler`,
  `FinalizedOnlyAfterConfirmed`, `StorageImplementsWeakStore`. What a reader sees
  was taken by a store before only if everything that can come to be seen was: the entries
  of each store and the values goroutines carry from one store to the next
  (`StoreInv`, with `Sound`, `JobsFit` and `TodoFits`). A finalized transaction
  was confirmed because whoever is past the validation has seen a confirmed
  status (`Judged`); this needs the hypothesis `FinalIsEarned`, that the scanner
  does not save transactions as finalized and no custom rule leads to finalized
  but from confirmed. `HandlerInv` relates the handler's map to the goroutines
  (`MapFits`, `OneHandlerPerEvent`), `PoolFits` counts the connections of batches
  and of SELECTs.
* `DeliveryProofs`: `DeliversAtMostOnce`, `WebhookTypeCorrect`,
  `ReorgNeverOvertakes`, `BatchesArriveInOrder`. `KInv` says that what was handled
  is committed and that a reader never goes back behind the commit. For the
  webhook, `WInv`: the buffer is a run of consecutive events (`BufferIsRun`), the
  batch on its way lies just before it and after what the receiver has
  (`BatchesInOrder`), a batch is sent under the mutex only (`Holders`), and what a
  reorg must not overtake has left the buffer when its caller has flushed
  (`PastIsTaken`).

Every safety property that a passing run checks is stated by one of these
theorems. Only model-checked: liveness (OrphanExpires, CallsReturn, CatchesUp,
QuittersEnd, EventsAreSettled, CallsReturnUnchecked, ReadersConverge,
OperationsReturn, BufferIsFlushed), since the prover does not reason about
fairness or ENABLED.

## 5. Where code and documents disagree

Disagreements between the code and its comments or documents, each with a
configuration that makes TLC produce the trace; the comments of the properties
name the lines. A configuration called `...Doubts` lists several properties, of
which one is active: TLC stops at the first violation, so the others are tried
one at a time.

| Configuration, module | Violated | What the code does |
|---|---|---|
| `RedisLockDoubts`, `RedisLock` | ExtendKeepsLock | Extend below one second deletes the key and returns nil (lock.go 103) |
| | GrantHonoured | Extend to a shorter TTL takes effect, its reply is lost, and the lock object keeps the longer `ttl` (lock.go 104) |
| `ChainScannerDoubts`, `MCChainScanner` | RescannedAfterReset | a result from before a reset raises the watermark over blocks nobody scanned again (chain_scanner.go 378) |
| | NoLostBlock | a task out of retries is forgotten while later ones raise the watermark (chain_scanner.go 443) |
| `ChainScannerResume`, `ChainScanner` | ResumesScan | a restart scans from block 1 (watermark.go 343) |
| `ScannerLifecycleDoubts`, `ScannerLifecycle` | StopCompletes | nobody closes resultQueue, so Stop never returns (chain_scanner.go 234) |
| | NoPanic | scheduler or retry sends on the closed queue (chain_scanner.go 231) |
| | RunningScans | Start after Stop runs with a cancelled context (chain_scanner.go 164) |
| `SchedulerManagerDoubts`, `SchedulerManager` | StatusAnswered | Remove hangs with the lock held |
| | StopsAll | the first Stop of a running scanner hangs, the others are not reached |
| | RemovedIsStopped | Start starts a scanner that was removed after the copy |
| `ShardingMatch`, `Sharding` | RangesMatchShards | ranges are contiguous, CalculateShard is modulo for block_number and 0 for address |
| `ReorgDetectorDoubts`, `ReorgDetector` | ResetsToSafeHeight | a fork of equal height counts as depth 1 |
| | ProcessedIsReverted | the range of a fork-point event is empty |
| | NoHoles | the watermark is reset before the blocks are deleted |
| | AverageIsFinite | the first average divides by 0 |
| | OrphansAreFound | once the scanner has passed the fork, tip and chain agree |
| `ReorgDetectorStop`, `ReorgDetector` | StopCompletes | Stop waits with the mutex the check needs |
| `ReorgProcessorDoubts`, `ReorgProcessor` | CleansOrphansOnly | clean_data deletes blocks of the new chain |
| | RetriesAreValid | a retry after clean_data cannot pass validate |
| | StatusIsTrue | one worker clears the status of another |
| | PStopCompletes | Stop waits with the mutex the workers need |
| `NodeManagerDoubts`, `MCNodeManager` | CallsReturn | the first health check deadlocks on its own mutex and every call hangs (node_manager.go 435) |
| | FailingNodeIsolated | the assignment comes after the deadlock |
| | CountsAreAtomic | a plain increment overwrites an atomic one |
| `ConsumerDoubts`, `MCConsumer` | TerminalIsFinal | validation reads the JSON copy, the update writes the column: a reverted transaction moves on, against "Reverted 状态不能转换到其他状态" (consumer/state_machine.go 85) |
| | RevertedIsRead | MarkTransactionsAsReverted, "标记交易为已回滚" (storage.go 377), writes the column only, readers read the JSON |
| | SavesReplaceRows | a save of an existing row changes nothing and returns nil, against "使用 ON DUPLICATE KEY UPDATE 处理重复插入" (database.go 194 and 313) |
| `ConsumerPool`, `MCConsumer` | OperationsReturn | two batches with a pool of two wait for each other's connection (database.go 332) |
| `DeliveryDoubts`, `Delivery` | CallersReturn | the caller that fills the buffer calls flush with the mutex in hand (webhook.go 398 and 415) |
| | CommittedWasHandled | offsets are committed before the handler runs, against "精确一次语义" (README.md 23) |

## 6. Not modelled, and the plan

* `scheduler/reorg_handler.go` and the block hash cache of the watermark: nothing
  stores a hash, so `checkReorg` always returns early and the handler is never
  called.
* The wallet keeps no state. Its transfer reads the nonce and sends in two calls,
  but it sends the JSON of the signed transaction where a node expects its RLP
  encoding, so no transfer gets as far as a race of nonces.
* Plugins have no caller in the program; the parsers decode, without state; the
  Solana and Tron clients answer every call with an error; the mock node is a
  test server. RocketMQ is a second library behind the interface of the queue.
* Of modelled parts: the unreachable parallel branch of the worker; statistics,
  metrics, logging, configuration; `GetHealthStatus`, `Close` and the alerts of
  the nodes; searches, pagination and index templates of the stores; ProcessLog
  and Start of the consumer, which change no state.
* A request to the webhook that the client has given up on and that reaches the
  receiver after the next attempt has ended (`BatchWebhook` says so).

A call to a node, a store or the database is an action that succeeds or fails.

Next, in this order:

1. Theorems about more than one run's question: which hypotheses on the calls
   exclude the disagreements of section 5, as `WholeSecondExtends` does for the
   lock and `MaxResets = 0` for the scanner.
2. `Close` and `GetHealthStatus` of the node manager.
