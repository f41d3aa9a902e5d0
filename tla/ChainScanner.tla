----------------------------- MODULE ChainScanner -----------------------------
(***************************************************************************)
(* internal/scheduler/chain_scanner.go and worker.go: the pipeline of one  *)
(* running scanner.  Every second generateTasks cuts the blocks between    *)
(* the watermark and the final height into tasks for taskQueue;            *)
(* workers fetch the blocks of a task and put a result on resultQueue;     *)
(* the processResults goroutines raise the watermark or start a delayed    *)
(* retry.  Nothing remembers which tasks are in flight, so the same blocks *)
(* are cut again on every tick until the watermark has passed them.        *)
(*                                                                         *)
(* The final height is what GetFinalizedHeight asks for: the block that    *)
(* the chain calls finalized, safe or, for every other finalization_type,  *)
(* latest.  Nothing below depends on which of the three it is.             *)
(* The watermark is the atomic register that WatermarkManager implements.  *)
(* Starting and stopping are in module ScannerLifecycle.                   *)
(***************************************************************************)
EXTENDS WatermarkRegister, Sequences

CONSTANTS MaxHeight,    \* bound on the chain of the model
          BatchSize,    \* Concurrency.BatchSize
          MaxRetries,   \* Concurrency.MaxRetries
          Workers,      \* MaxWorkersPerChain workers
          Handlers,     \* processResults goroutines, min(workers, 4)
          Retriers,     \* bound: goroutines sleeping before a retry
          QueueCap,     \* capacity of each queue, MaxWorkersPerChain*10
          MaxResets,    \* bound on the calls of ResetWatermark
          MaxRestarts,  \* bound on the restarts of the program
          ShortBatches, \* whether a node may leave blocks out of its answer
          None          \* a goroutine without a task or a result

Blocks == 1..MaxHeight

Tasks == [start: Blocks, end: Blocks, retries: 0..MaxRetries]

Results == [task: Tasks, ok: BOOLEAN]

Range(t) == t.start..t.end

ASSUME ScannerAssumption ==
    /\ MaxHeight \in Nat
    /\ Heights = 0..MaxHeight
    /\ BatchSize \in Nat \ {0}
    /\ MaxRetries \in Nat
    /\ QueueCap \in Nat \ {0}
    /\ MaxResets \in Nat
    /\ MaxRestarts \in Nat
    /\ ShortBatches \in BOOLEAN
    /\ None \notin Tasks \cup Results

VARIABLES final,        \* highest block so far with the configured tag
          gen,          \* generateTasks: state, next block, last block, batch
          taskQueue,
          worker,       \* task of each worker
          resultQueue,
          handler,      \* result of each processResults goroutine
          retrier,      \* task of each sleeping retry goroutine
          resets,       \* calls of ResetWatermark so far
          restarts,     \* restarts of the program so far
          fetched,      \* ghost: blocks fetched from the present chain
          lost          \* ghost: blocks of tasks that were given up

svars == <<wm, final, gen, taskQueue, worker, resultQueue, handler, retrier,
           resets, restarts, fetched, lost>>

ghosts == <<fetched, lost>>

counters == <<resets, restarts>>

Idle == [pc |-> "idle", next |-> 1, end |-> 0, batch |-> 1]

SInit ==
    /\ Init
    /\ final = 0
    /\ gen = Idle
    /\ taskQueue = << >>
    /\ worker = [w \in Workers |-> None]
    /\ resultQueue = << >>
    /\ handler = [h \in Handlers |-> None]
    /\ retrier = [r \in Retriers |-> None]
    /\ resets = 0
    /\ restarts = 0
    /\ fetched = {}
    /\ lost = {}

-----------------------------------------------------------------------------
(* The chain: the block with the configured tag moves up.                  *)
ChainFinalizes ==
    /\ final < MaxHeight
    /\ final' = final + 1
    /\ UNCHANGED <<wm, gen, taskQueue, worker, resultQueue, handler,
                   retrier, counters, ghosts>>

-----------------------------------------------------------------------------
(* scheduleTasks and generateTasks, one goroutine.                         *)

unchangedByGen == <<wm, final, worker, resultQueue, handler, retrier,
                    counters, ghosts>>

(* Mutant of ReadWatermark: one block too far.                             *)
ReadPastWatermark ==
    /\ gen.pc = "idle"
    /\ gen' = [Idle EXCEPT !.pc = "read", !.next = wm.scanned + 2]
    /\ UNCHANGED <<taskQueue, unchangedByGen>>

(* A tick: copy the watermark, before the two calls to the node.           *)
ReadWatermark ==
    /\ gen.pc = "idle"
    /\ gen' = [Idle EXCEPT !.pc = "read", !.next = wm.scanned + 1]
    /\ UNCHANGED <<taskQueue, unchangedByGen>>

(* Less than the batch size when the queue is under pressure: above 0.8 a  *)
(* quarter, above 0.5 a half, at least one block.                          *)
AtLeastOne(n) == IF n < 1 THEN 1 ELSE n

(* Mutant of BatchUnderPressure: the quotients may be 0.                   *)
BatchWithoutFloor(len) ==
    IF 10 * len > 8 * QueueCap THEN BatchSize \div 4
    ELSE IF 10 * len > 5 * QueueCap THEN BatchSize \div 2
    ELSE BatchSize

BatchUnderPressure(len) ==
    IF 10 * len > 8 * QueueCap THEN AtLeastOne(BatchSize \div 4)
    ELSE IF 10 * len > 5 * QueueCap THEN AtLeastOne(BatchSize \div 2)
    ELSE BatchSize

(* Mutant of ReadHeights: >= instead of > in the early return.             *)
ReadHeightsBelow(e) ==
    /\ gen.pc = "read"
    /\ gen' = IF gen.next >= e
                 THEN Idle
                 ELSE [gen EXCEPT !.pc = "fill", !.end = e,
                          !.batch = BatchUnderPressure(Len(taskQueue))]
    /\ UNCHANGED <<taskQueue, unchangedByGen>>

(* The node answers.  e = min(final height, current height); a node that   *)
(* lags behind the chain, or whose latest block was reorganised away,      *)
(* answers with less than the highest one so far.                          *)
ReadHeights(e) ==
    /\ gen.pc = "read"
    /\ gen' = IF gen.next > e
                 THEN Idle
                 ELSE [gen EXCEPT !.pc = "fill", !.end = e,
                          !.batch = BatchUnderPressure(Len(taskQueue))]
    /\ UNCHANGED <<taskQueue, unchangedByGen>>

HeightsFail ==
    /\ gen.pc = "read"
    /\ gen' = Idle
    /\ UNCHANGED <<taskQueue, unchangedByGen>>

Smaller(a, b) == IF a < b THEN a ELSE b

(* Mutant of NextTask: the last batch is not cut off.                      *)
NextTaskUncut ==
    [start |-> gen.next, end |-> gen.next + gen.batch - 1, retries |-> 0]

NextTask ==
    [start |-> gen.next,
     end |-> Smaller(gen.next + gen.batch - 1, gen.end),
     retries |-> 0]

Enqueue ==
    /\ gen.pc = "fill"
    /\ Len(taskQueue) < QueueCap
    /\ taskQueue' = Append(taskQueue, NextTask)
    /\ gen' = IF gen.next + gen.batch > gen.end
                 THEN Idle
                 ELSE [gen EXCEPT !.next = @ + gen.batch]
    /\ UNCHANGED unchangedByGen

(* The queue stays full for 100 ms: the rest of this tick is skipped.      *)
EnqueueTimeout ==
    /\ gen.pc = "fill"
    /\ Len(taskQueue) = QueueCap
    /\ gen' = Idle
    /\ UNCHANGED <<taskQueue, unchangedByGen>>

-----------------------------------------------------------------------------
(* The workers.                                                            *)

TakeTask(w) ==
    /\ worker[w] = None
    /\ taskQueue # << >>
    /\ worker' = [worker EXCEPT ![w] = Head(taskQueue)]
    /\ taskQueue' = Tail(taskQueue)
    /\ UNCHANGED <<wm, final, gen, resultQueue, handler, retrier, counters,
                   ghosts>>

(* The send at the end of processTask does not block: a result that finds  *)
(* the queue full is dropped.                                              *)
SendResult(w, ok) ==
    /\ resultQueue' = IF Len(resultQueue) < QueueCap
                         THEN Append(resultQueue,
                                     [task |-> worker[w], ok |-> ok])
                         ELSE resultQueue
    /\ worker' = [worker EXCEPT ![w] = None]
    /\ UNCHANGED <<wm, final, gen, taskQueue, handler, retrier, counters>>

(* scanBlocks succeeds with the blocks in got: BatchGetBlocks leaves out   *)
(* the ones the node does not have or that do not parse, and nobody        *)
(* compares BlocksScanned with the length of the task.                     *)
ScanOK(w, got) ==
    /\ worker[w] # None
    /\ got \subseteq Range(worker[w])
    /\ ShortBatches \/ got = Range(worker[w])
    /\ fetched' = fetched \cup got
    /\ lost' = lost \cup (Range(worker[w]) \ got)
    /\ SendResult(w, TRUE)

ScanFails(w) ==
    /\ worker[w] # None
    /\ SendResult(w, FALSE)
    /\ lost' = IF Len(resultQueue) < QueueCap
                  THEN lost ELSE lost \cup Range(worker[w])
    /\ UNCHANGED fetched

-----------------------------------------------------------------------------
(* The processResults goroutines.                                          *)

Receive(h) ==
    /\ handler[h] = None
    /\ resultQueue # << >>
    /\ handler' = [handler EXCEPT ![h] = Head(resultQueue)]
    /\ resultQueue' = Tail(resultQueue)
    /\ UNCHANGED <<wm, final, gen, taskQueue, worker, retrier,
                   counters, ghosts>>

(* handleSuccessResult calls UpdateScannedHeight, which fails when another *)
(* handler or instance holds the Redis lock; the error is only logged.     *)
UpdateWatermark(h) ==
    /\ handler[h] # None
    /\ handler[h].ok
    /\ handler' = [handler EXCEPT ![h] = None]
    /\ UNCHANGED <<final, gen, taskQueue, worker, resultQueue,
                   retrier, counters, ghosts>>

Advance(h) ==
    /\ UpdateWatermark(h)
    /\ LET e == handler[h].task.end
       IN  Scan(e) \/ (e <= wm.scanned /\ UNCHANGED wm)

LockConflict(h) == UpdateWatermark(h) /\ UNCHANGED wm

(* handleFailureResult: start a goroutine that sleeps and sends the task   *)
(* again ...                                                               *)
StartRetry(h, r) ==
    /\ handler[h] # None
    /\ ~ handler[h].ok
    /\ handler[h].task.retries < MaxRetries
    /\ retrier[r] = None
    /\ retrier' = [retrier EXCEPT ![r] =
                     [handler[h].task EXCEPT !.retries = @ + 1]]
    /\ handler' = [handler EXCEPT ![h] = None]
    /\ UNCHANGED <<wm, final, gen, taskQueue, worker, resultQueue,
                   counters, ghosts>>

(* ... or give the task up: the dead letter queue is a TODO.               *)
GiveUp(h) ==
    /\ handler[h] # None
    /\ ~ handler[h].ok
    /\ handler[h].task.retries >= MaxRetries
    /\ lost' = lost \cup Range(handler[h].task)
    /\ handler' = [handler EXCEPT ![h] = None]
    /\ UNCHANGED <<wm, final, gen, taskQueue, worker, resultQueue, retrier,
                   counters, fetched>>

(* Mutant of Requeue: a send that drops the task when the queue is full.   *)
RequeueOrDrop(r) ==
    /\ retrier[r] # None
    /\ taskQueue' = IF Len(taskQueue) < QueueCap
                       THEN Append(taskQueue, retrier[r]) ELSE taskQueue
    /\ retrier' = [retrier EXCEPT ![r] = None]
    /\ UNCHANGED <<wm, final, gen, worker, resultQueue, handler, counters,
                   ghosts>>

Requeue(r) ==
    /\ retrier[r] # None
    /\ Len(taskQueue) < QueueCap
    /\ taskQueue' = Append(taskQueue, retrier[r])
    /\ retrier' = [retrier EXCEPT ![r] = None]
    /\ UNCHANGED <<wm, final, gen, worker, resultQueue, handler, counters,
                   ghosts>>

-----------------------------------------------------------------------------
(* ResetWatermark, called when a reorg has orphaned the blocks above h:    *)
(* what was fetched of them is not of the present chain.                   *)
ResetWatermark(h) ==
    /\ resets < MaxResets
    /\ resets' = resets + 1
    /\ Reset(h)
    /\ fetched' = fetched \cap (1..h)
    /\ lost' = lost \cap (1..h)
    /\ UNCHANGED <<final, gen, taskQueue, worker, resultQueue, handler,
                   retrier, restarts>>

(* The program stops at any point and starts again: saveWatermark and      *)
(* loadWatermark do nothing, so the watermark starts at 0 like the rest.   *)
Restart ==
    /\ restarts < MaxRestarts
    /\ restarts' = restarts + 1
    /\ wm' = InitialWatermark
    /\ gen' = Idle
    /\ taskQueue' = << >>
    /\ worker' = [w \in Workers |-> None]
    /\ resultQueue' = << >>
    /\ handler' = [h \in Handlers |-> None]
    /\ retrier' = [r \in Retriers |-> None]
    /\ UNCHANGED <<final, resets, ghosts>>

GenNext == \/ ReadWatermark
           \/ \E e \in 0..final : ReadHeights(e)
           \/ HeightsFail
           \/ Enqueue
           \/ EnqueueTimeout

WorkerNext(w) == \/ TakeTask(w)
                 \/ \E got \in SUBSET Blocks : ScanOK(w, got)
                 \/ ScanFails(w)

HandlerNext(h) == \/ Receive(h)
                  \/ Advance(h)
                  \/ LockConflict(h)
                  \/ \E r \in Retriers : StartRetry(h, r)
                  \/ GiveUp(h)

SNext ==
    \/ ChainFinalizes
    \/ GenNext
    \/ \E w \in Workers : WorkerNext(w)
    \/ \E h \in Handlers : HandlerNext(h)
    \/ \E r \in Retriers : Requeue(r)
    \/ \E h \in Heights : ResetWatermark(h)
    \/ Restart

SSpec == SInit /\ [][SNext]_svars

(* Every goroutine keeps running.  Of the world outside it is assumed that *)
(* the nodes do not fail, lag or conflict for ever: if the pipeline comes  *)
(* again and again to the point of asking for the heights, of fetching     *)
(* blocks above the watermark for a queue with room, of raising the        *)
(* watermark, it succeeds again and again.                                 *)
Useful(t) == t.end > wm.scanned

DeliverUseful(w) ==
    /\ worker[w] # None
    /\ Useful(worker[w])
    /\ Len(resultQueue) < QueueCap
    /\ \E got \in SUBSET Blocks : ScanOK(w, got)

AdvanceUseful(h) ==
    /\ handler[h] # None
    /\ Useful(handler[h].task)
    /\ Advance(h)

Fairness ==
    /\ WF_svars(GenNext)
    /\ SF_svars(ReadHeights(final))
    /\ \A w \in Workers : WF_svars(WorkerNext(w))
    /\ \A h \in Handlers : WF_svars(HandlerNext(h))
    /\ \A r \in Retriers : SF_svars(Requeue(r))
    /\ SF_svars(\E w \in Workers : DeliverUseful(w))
    /\ SF_svars(\E h \in Handlers : AdvanceUseful(h))

SFairSpec == SSpec /\ Fairness

-----------------------------------------------------------------------------

STypeOK ==
    /\ wm \in Watermarks
    /\ final \in Heights
    /\ gen \in [pc: {"idle", "read", "fill"}, next: Nat \ {0}, end: Heights,
                batch: Nat \ {0}]
    /\ taskQueue \in Seq(Tasks)
    /\ Len(taskQueue) <= QueueCap
    /\ worker \in [Workers -> Tasks \cup {None}]
    /\ resultQueue \in Seq(Results)
    /\ Len(resultQueue) <= QueueCap
    /\ handler \in [Handlers -> Results \cup {None}]
    /\ retrier \in [Retriers -> Tasks \cup {None}]
    /\ resets \in 0..MaxResets
    /\ restarts \in 0..MaxRestarts
    /\ fetched \subseteq Blocks
    /\ lost \subseteq Blocks

(* Tasks that are still to be scanned, wherever they are.                  *)
Elements(q) == { q[i] : i \in DOMAIN q }

Failed(results) == { r.task : r \in { x \in results : ~ x.ok } }

Pending ==
    Elements(taskQueue)
      \cup { worker[w] : w \in { x \in Workers : worker[x] # None } }
      \cup { retrier[r] : r \in { x \in Retriers : retrier[x] # None } }
      \cup Failed(Elements(resultQueue))
      \cup Failed({ handler[h] : h \in { x \in Handlers : handler[x] # None } })

PendingBlocks == UNION { Range(t) : t \in Pending }

(* chain_scanner.go 438: a task that exceeded its retries is recorded in   *)
(* the dead letter queue.  So a block the watermark has passed has been    *)
(* fetched or is still to be: nothing else leads back to it.               *)
NoLostBlock == 1..wm.scanned \subseteq fetched \cup PendingBlocks

(* What is true of the watermark, although results arrive in any order,    *)
(* are dropped by full queues and lose their update to lock conflicts:     *)
(* the only blocks below it that are neither fetched nor under way are     *)
(* those of a task that was given up or of a batch that came back short.   *)
GapAccounted == 1..wm.scanned \subseteq fetched \cup PendingBlocks \cup lost

(* DESIGN_SCANNER.md 458 and 469: a reorg resets the watermark and the     *)
(* blocks above it are scanned again.  So once the watermark is back above *)
(* them they have been, on the new chain.                                  *)
RescannedAfterReset == resets > 0 => GapAccounted

(* No task, and so no watermark, goes beyond the highest block with the    *)
(* configured tag (finalized only if finalization_type says so), whichever *)
(* node answers generateTasks and however old the watermark is it read:    *)
(* the last batch is cut off at the end that was read.                     *)
WithinFinalized ==
    /\ wm.scanned <= final
    /\ \A t \in Pending : t.end <= final

(* Dropped results, full queues, lock conflicts, lagging nodes and resets  *)
(* delay the watermark but do not stop it: it reaches the top of the       *)
(* chain, because each tick cuts the same blocks again.                    *)
CatchesUp == final = MaxHeight ~> wm.scanned = MaxHeight

(* README 17: scanning resumes from the last point, not from the start.    *)
ResumesScan == [][Restart => wm'.scanned = wm.scanned]_svars

=============================================================================
