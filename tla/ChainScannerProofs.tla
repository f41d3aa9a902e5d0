-------------------------- MODULE ChainScannerProofs --------------------------
(***************************************************************************)
(* Proofs about ChainScanner, for any number of workers, result processors *)
(* and sleeping retries, any batch size, queue capacity and chain: the     *)
(* types, that neither a task nor the watermark ever goes beyond the       *)
(* final height, and that without a reset every block the watermark has    *)
(* passed was fetched, is still to be scanned, or belongs to a task that   *)
(* was given up or to a batch that came back short.                        *)
(***************************************************************************)
EXTENDS ChainScanner, TLAPS

(* WithinFinalized is not inductive: a result that succeeded will become   *)
(* the watermark, and generateTasks will make tasks up to the end it has   *)
(* read.  So whatever holds a block number is bounded.                     *)
Generating ==
    gen.pc = "fill" => gen.next <= gen.end /\ gen.end <= final

Bounded ==
    /\ wm.scanned <= final
    /\ \A i \in DOMAIN taskQueue : taskQueue[i].end <= final
    /\ \A w \in Workers : worker[w] # None => worker[w].end <= final
    /\ \A i \in DOMAIN resultQueue : resultQueue[i].task.end <= final
    /\ \A h \in Handlers : handler[h] # None => handler[h].task.end <= final
    /\ \A r \in Retriers : retrier[r] # None => retrier[r].end <= final

SInv == STypeOK /\ Generating /\ Bounded

-----------------------------------------------------------------------------

(* A queue after a send: the new element is last.                          *)
LEMMA AppendFacts ==
    ASSUME NEW S, NEW q \in Seq(S), NEW e \in S
    PROVE  /\ Append(q, e) \in Seq(S)
           /\ Len(Append(q, e)) = Len(q) + 1
           /\ \A i \in DOMAIN Append(q, e) :
                 Append(q, e)[i] = e \/ (i \in DOMAIN q /\ Append(q, e)[i] = q[i])
OBVIOUS

(* A queue after a receive: what is left was in it before.                 *)
LEMMA TailFacts ==
    ASSUME NEW S, NEW q \in Seq(S), q # << >>
    PROVE  /\ Head(q) \in S
           /\ 1 \in DOMAIN q
           /\ Head(q) = q[1]
           /\ Tail(q) \in Seq(S)
           /\ Len(Tail(q)) <= Len(q)
           /\ \A i \in DOMAIN Tail(q) : i + 1 \in DOMAIN q /\ Tail(q)[i] = q[i + 1]
OBVIOUS

(* Under pressure, too, a batch has at least one block.                    *)
LEMMA BatchType ==
    ASSUME NEW len \in Nat
    PROVE  BatchUnderPressure(len) \in Nat \ {0}
<1>1. BatchSize \in Nat \ {0} /\ QueueCap \in Nat
  BY ScannerAssumption
<1>2. BatchSize \div 4 \in Nat /\ BatchSize \div 2 \in Nat
  BY <1>1
<1> QED
  BY <1>1, <1>2 DEF BatchUnderPressure, AtLeastOne

(* Every operation of the register the scanner uses keeps the types.       *)
LEMMA RegisterType ==
    ASSUME NEW h \in Heights, wm \in Watermarks
    PROVE  /\ AfterScanned(wm, h) \in Watermarks
           /\ AfterScanned(wm, h).scanned = h
           /\ AfterReset(wm, h) \in Watermarks
           /\ AfterReset(wm, h).scanned = h
           /\ InitialWatermark \in Watermarks
           /\ InitialWatermark.scanned = 0
<1>1. BoundaryOf(h) \in Nat
  BY RegisterAssumption DEF BoundaryOf
<1> QED
  BY <1>1, RegisterAssumption
  DEF AfterScanned, AfterReset, InitialWatermark, Watermarks

LEMMA InvInit == SInit => SInv
<1> SUFFICES ASSUME SInit PROVE SInv
  OBVIOUS
<1>1. wm \in Watermarks /\ wm.scanned = 0
  BY RegisterAssumption DEF SInit, Init, InitialWatermark, Watermarks
<1>2. STypeOK
  BY <1>1, ScannerAssumption
  DEF SInit, STypeOK, Idle
<1> QED
  BY <1>1, <1>2 DEF SInit, SInv, Generating, Bounded, Idle

-----------------------------------------------------------------------------
(* Each goroutine's steps preserve the invariant.                          *)

(* generateTasks: only gen and taskQueue change.                           *)
LEMMA GenStep ==
    ASSUME SInv, UNCHANGED unchangedByGen,
           \/ ReadWatermark
           \/ \E e \in 0..final : ReadHeights(e)
           \/ HeightsFail
           \/ Enqueue
           \/ EnqueueTimeout
    PROVE  SInv'
<1> USE DEF SInv, STypeOK, unchangedByGen, counters, ghosts
<1>0. /\ wm.scanned \in Nat
      /\ final \in 0..MaxHeight
      /\ Heights = 0..MaxHeight
      /\ MaxHeight \in Nat
      /\ Idle \in [pc: {"idle", "read", "fill"}, next: Nat \ {0}, end: Heights,
                   batch: Nat \ {0}]
      /\ Idle.pc = "idle"
  BY ScannerAssumption, RegisterAssumption DEF Watermarks, Idle
<1>1. CASE ReadWatermark
  <2>1. gen' = [Idle EXCEPT !.pc = "read", !.next = wm.scanned + 1]
    BY <1>1 DEF ReadWatermark
  <2>2. wm.scanned + 1 \in Nat \ {0}
    BY <1>0
  <2>3. /\ gen' \in [pc: {"idle", "read", "fill"}, next: Nat \ {0},
                     end: Heights, batch: Nat \ {0}]
        /\ gen'.pc = "read"
    BY <1>0, <2>1, <2>2
  <2>4. UNCHANGED taskQueue
    BY <1>1 DEF ReadWatermark
  <2> QED
    BY <2>3, <2>4 DEF Generating, Bounded
<1>2. CASE \E e \in 0..final : ReadHeights(e)
  <2>1. PICK e \in 0..final : ReadHeights(e)
    BY <1>2
  <2>2. BatchUnderPressure(Len(taskQueue)) \in Nat \ {0}
    BY BatchType
  <2>3. e \in Heights
    BY <1>0
  <2>4. CASE gen.next > e
    BY <1>0, <2>1, <2>4 DEF ReadHeights, Generating, Bounded
  <2>5. CASE ~ (gen.next > e)
    <3>1. gen' = [gen EXCEPT !.pc = "fill", !.end = e,
                     !.batch = BatchUnderPressure(Len(taskQueue))]
      BY <2>1, <2>5 DEF ReadHeights
    <3> HIDE DEF unchangedByGen
    <3>2. gen' \in [pc: {"idle", "read", "fill"}, next: Nat \ {0},
                    end: Heights, batch: Nat \ {0}]
      BY <2>2, <2>3, <3>1
    <3>3. gen'.next <= gen'.end /\ gen'.end <= final
      BY <1>0, <2>5, <3>1
    <3>4. UNCHANGED taskQueue
      BY <2>1 DEF ReadHeights
    <3> QED
      BY <3>2, <3>3, <3>4 DEF unchangedByGen, Generating, Bounded
  <2> QED
    BY <2>4, <2>5
<1>3. CASE HeightsFail
  BY <1>0, <1>3 DEF HeightsFail, Generating, Bounded
<1>4. CASE Enqueue
  <2>1. /\ gen.next \in Nat \ {0}
        /\ gen.batch \in Nat \ {0}
        /\ gen.end \in Nat
        /\ gen.next <= gen.end
        /\ gen.end <= final
    BY <1>0, <1>4 DEF Enqueue, Generating
  <2>2. /\ NextTask.end \in Nat
        /\ gen.next <= NextTask.end
        /\ NextTask.end <= gen.end
    BY <2>1 DEF NextTask, Smaller
  <2>3. NextTask \in Tasks
    BY <1>0, <2>1, <2>2, ScannerAssumption DEF NextTask, Tasks, Blocks
  <2>4. taskQueue' = Append(taskQueue, NextTask) /\ Len(taskQueue) < QueueCap
    BY <1>4 DEF Enqueue
  <2>5. /\ taskQueue' \in Seq(Tasks)
        /\ Len(taskQueue') <= QueueCap
        /\ \A i \in DOMAIN taskQueue' :
              \/ taskQueue'[i] = NextTask
              \/ i \in DOMAIN taskQueue /\ taskQueue'[i] = taskQueue[i]
    <3>1. Len(taskQueue) \in Nat /\ QueueCap \in Nat
      BY ScannerAssumption
    <3> QED
      BY <2>3, <2>4, <3>1, AppendFacts
  <2>6. \A i \in DOMAIN taskQueue' : taskQueue'[i].end <= final'
    <3> SUFFICES ASSUME NEW i \in DOMAIN taskQueue'
                 PROVE  taskQueue'[i].end <= final
      OBVIOUS
    <3>1. NextTask.end <= final
      BY <1>0, <2>1, <2>2
    <3> QED
      BY <2>5, <3>1 DEF Bounded
  <2>7. /\ gen' \in [pc: {"idle", "read", "fill"}, next: Nat \ {0},
                     end: Heights, batch: Nat \ {0}]
        /\ Generating'
    <3>1. CASE gen.next + gen.batch > gen.end
      BY <1>0, <1>4, <3>1 DEF Enqueue, Generating
    <3>2. CASE ~ (gen.next + gen.batch > gen.end)
      <4>1. gen' = [gen EXCEPT !.next = gen.next + gen.batch]
        BY <1>4, <3>2 DEF Enqueue
      <4>2. /\ gen.next + gen.batch \in Nat \ {0}
            /\ gen.next + gen.batch <= gen.end
        BY <2>1, <3>2
      <4> QED
        BY <2>1, <4>1, <4>2 DEF Generating
    <3> QED
      BY <3>1, <3>2
  <2> QED
    BY <2>5, <2>6, <2>7 DEF Bounded
<1>5. CASE EnqueueTimeout
  BY <1>0, <1>5 DEF EnqueueTimeout, Generating, Bounded
<1> QED
  BY <1>1, <1>2, <1>3, <1>4, <1>5

(* A worker takes a task, and ends it with or without a result.            *)
LEMMA WorkerStep ==
    ASSUME SInv, NEW w \in Workers, WorkerNext(w)
    PROVE  SInv'
<1> USE DEF SInv, STypeOK, counters, ghosts
<1>1. CASE TakeTask(w)
  <2>1. /\ Head(taskQueue) \in Tasks
        /\ Head(taskQueue).end <= final
        /\ Tail(taskQueue) \in Seq(Tasks)
        /\ Len(Tail(taskQueue)) <= Len(taskQueue)
        /\ \A i \in DOMAIN Tail(taskQueue) : Tail(taskQueue)[i].end <= final
    BY <1>1, TailFacts DEF TakeTask, Bounded
  <2>2. Len(Tail(taskQueue)) <= QueueCap
    BY <2>1, ScannerAssumption
  <2> QED
    BY <1>1, <2>1, <2>2 DEF TakeTask, Generating, Bounded
<1>2. ASSUME NEW ok \in BOOLEAN, worker[w] # None, SendResult(w, ok)
      PROVE  /\ worker' \in [Workers -> Tasks \cup {None}]
             /\ resultQueue' \in Seq(Results)
             /\ Len(resultQueue') <= QueueCap
             /\ Generating'
             /\ Bounded'
  <2> DEFINE r == [task |-> worker[w], ok |-> ok]
  <2>1. r \in Results /\ worker[w] \in Tasks /\ r.task.end <= final
    BY <1>2 DEF Results, Bounded
  <2>2. /\ Append(resultQueue, r) \in Seq(Results)
        /\ Len(Append(resultQueue, r)) = Len(resultQueue) + 1
        /\ \A i \in DOMAIN Append(resultQueue, r) :
              Append(resultQueue, r)[i].task.end <= final
    <3>1. /\ Append(resultQueue, r) \in Seq(Results)
          /\ Len(Append(resultQueue, r)) = Len(resultQueue) + 1
          /\ \A i \in DOMAIN Append(resultQueue, r) :
                \/ Append(resultQueue, r)[i] = r
                \/ /\ i \in DOMAIN resultQueue
                   /\ Append(resultQueue, r)[i] = resultQueue[i]
      BY <2>1, AppendFacts
    <3> QED
      BY <2>1, <3>1 DEF Bounded
  <2>3. Len(resultQueue) \in Nat /\ QueueCap \in Nat
    BY ScannerAssumption
  <2>4. /\ resultQueue' \in Seq(Results)
        /\ Len(resultQueue') <= QueueCap
        /\ \A i \in DOMAIN resultQueue' : resultQueue'[i].task.end <= final
    <3>1. CASE Len(resultQueue) < QueueCap
      <4>1. resultQueue' = Append(resultQueue, r)
        BY <1>2, <3>1 DEF SendResult
      <4> HIDE DEF r
      <4> QED
        BY <2>2, <2>3, <3>1, <4>1
    <3>2. CASE ~ (Len(resultQueue) < QueueCap)
      BY <1>2, <3>2 DEF SendResult, Bounded
    <3> QED
      BY <3>1, <3>2
  <2>5. worker' = [worker EXCEPT ![w] = None]
    BY <1>2 DEF SendResult
  <2>6. UNCHANGED <<wm, final, gen, taskQueue, handler, retrier>>
    BY <1>2 DEF SendResult
  <2> QED
    BY <2>4, <2>5, <2>6 DEF Generating, Bounded
<1>3. CASE \E got \in SUBSET Blocks : ScanOK(w, got)
  <2>1. PICK got \in SUBSET Blocks : ScanOK(w, got)
    BY <1>3
  <2>2. /\ worker[w] \in Tasks /\ SendResult(w, TRUE)
        /\ worker[w] # None
    BY <2>1 DEF ScanOK
  <2>3. Range(worker[w]) \subseteq Blocks
    BY <2>2, ScannerAssumption DEF Tasks, Range, Blocks
  <2>4. fetched' \subseteq Blocks /\ lost' \subseteq Blocks
    BY <2>1, <2>3 DEF ScanOK
  <2> QED
    BY <1>2, <2>2, <2>4 DEF SendResult
<1>4. CASE ScanFails(w)
  <2>1. worker[w] \in Tasks /\ worker[w] # None /\ SendResult(w, FALSE)
    BY <1>4 DEF ScanFails
  <2>2. Range(worker[w]) \subseteq Blocks
    BY <2>1, ScannerAssumption DEF Tasks, Range, Blocks
  <2>3. fetched' \subseteq Blocks /\ lost' \subseteq Blocks
    BY <1>4, <2>2 DEF ScanFails
  <2> QED
    BY <1>2, <2>1, <2>3 DEF SendResult
<1> QED
  BY <1>1, <1>3, <1>4 DEF WorkerNext

(* A result processor receives a result and raises the watermark, starts a *)
(* retry or gives the task up.                                             *)
LEMMA HandlerStep ==
    ASSUME SInv, NEW h \in Handlers, HandlerNext(h)
    PROVE  SInv'
<1> USE DEF SInv, STypeOK, counters, ghosts
<1>0. \A x \in Results : x.task \in Tasks /\ x.task.end \in Heights
  BY ScannerAssumption DEF Results, Tasks, Blocks
<1>1. CASE Receive(h)
  <2>1. /\ Head(resultQueue) \in Results
        /\ Head(resultQueue).task.end <= final
        /\ Tail(resultQueue) \in Seq(Results)
        /\ Len(Tail(resultQueue)) <= Len(resultQueue)
        /\ \A i \in DOMAIN Tail(resultQueue) :
              Tail(resultQueue)[i].task.end <= final
    BY <1>1, TailFacts DEF Receive, Bounded
  <2>2. Len(Tail(resultQueue)) <= QueueCap
    BY <2>1, ScannerAssumption
  <2> QED
    BY <1>1, <2>1, <2>2 DEF Receive, Generating, Bounded
<1>2. ASSUME UpdateWatermark(h), wm' \in Watermarks, wm'.scanned <= final
      PROVE  SInv'
  BY <1>2 DEF UpdateWatermark, Generating, Bounded
<1>3. CASE Advance(h)
  <2> DEFINE e == handler[h].task.end
  <2>1. e \in Heights /\ e <= final
    BY <1>0, <1>3 DEF Advance, UpdateWatermark, Bounded
  <2>2. CASE Scan(e)
    BY <1>2, <1>3, <2>1, <2>2, RegisterType DEF Advance, Scan
  <2>3. CASE UNCHANGED wm
    BY <1>2, <1>3, <2>3 DEF Advance, Bounded
  <2> QED
    BY <1>3, <2>2, <2>3 DEF Advance
<1>4. CASE LockConflict(h)
  BY <1>2, <1>4 DEF LockConflict, Bounded
<1>5. CASE \E r \in Retriers : StartRetry(h, r)
  <2>1. PICK r \in Retriers : StartRetry(h, r)
    BY <1>5
  <2> DEFINE t == handler[h].task
             u == [t EXCEPT !.retries = @ + 1]
  <2>2. t \in Tasks /\ t.end <= final /\ t.retries < MaxRetries
    BY <1>0, <2>1 DEF StartRetry, Bounded
  <2>3. t.retries + 1 \in 0..MaxRetries
    BY <2>2, ScannerAssumption DEF Tasks
  <2>4. u \in Tasks /\ u.end <= final
    BY <2>2, <2>3 DEF Tasks
  <2>5. /\ retrier' = [retrier EXCEPT ![r] = u]
        /\ handler' = [handler EXCEPT ![h] = None]
        /\ UNCHANGED <<wm, final, gen, taskQueue, worker, resultQueue,
                       resets, restarts, fetched, lost>>
    BY <2>1 DEF StartRetry
  <2> HIDE DEF u
  <2> QED
    BY <2>4, <2>5 DEF Generating, Bounded
<1>6. CASE GiveUp(h)
  <2>1. Range(handler[h].task) \subseteq Blocks
    <3>1. handler[h].task \in Tasks
      BY <1>0, <1>6 DEF GiveUp
    <3> QED
      BY <3>1, ScannerAssumption DEF Tasks, Range, Blocks
  <2> QED
    BY <1>6, <2>1 DEF GiveUp, Generating, Bounded
<1> QED
  BY <1>1, <1>3, <1>4, <1>5, <1>6 DEF HandlerNext

(* A sleeping retry puts its task back.                                    *)
LEMMA RequeueStep ==
    ASSUME SInv, NEW r \in Retriers, Requeue(r)
    PROVE  SInv'
<1> USE DEF SInv, STypeOK, counters, ghosts
<1>1. retrier[r] \in Tasks /\ retrier[r].end <= final
  BY DEF Requeue, Bounded
<1>2. taskQueue' = Append(taskQueue, retrier[r]) /\ Len(taskQueue) < QueueCap
  BY DEF Requeue
<1>3. /\ taskQueue' \in Seq(Tasks)
      /\ Len(taskQueue') = Len(taskQueue) + 1
      /\ \A i \in DOMAIN taskQueue' :
            \/ taskQueue'[i] = retrier[r]
            \/ i \in DOMAIN taskQueue /\ taskQueue'[i] = taskQueue[i]
  BY <1>1, <1>2, AppendFacts
<1>4. Len(taskQueue') <= QueueCap
  BY <1>2, <1>3, ScannerAssumption
<1>5. \A i \in DOMAIN taskQueue' : taskQueue'[i].end <= final
  BY <1>1, <1>3 DEF Bounded
<1>6. /\ retrier' = [retrier EXCEPT ![r] = None]
      /\ UNCHANGED <<wm, final, gen, worker, resultQueue, handler, resets,
                     restarts, fetched, lost>>
  BY DEF Requeue
<1> QED
  BY <1>3, <1>4, <1>5, <1>6 DEF Generating, Bounded

(* The chain grows, a reorg resets the watermark, the program restarts.    *)
LEMMA WorldStep ==
    ASSUME SInv,
           \/ ChainFinalizes
           \/ \E h \in Heights : ResetWatermark(h)
           \/ Restart
    PROVE  SInv'
<1> USE DEF SInv, STypeOK, counters, ghosts
<1>0. /\ final \in 0..MaxHeight
      /\ Heights = 0..MaxHeight
      /\ MaxHeight \in Nat
      /\ wm.scanned \in 0..MaxHeight
  BY ScannerAssumption DEF Watermarks
<1>1. CASE ChainFinalizes
  <2>1. /\ final' \in Heights
        /\ final' = final + 1
    BY <1>0, <1>1 DEF ChainFinalizes
  <2>2. \A n \in 0..MaxHeight : n <= final => n <= final'
    BY <1>0, <2>1
  <2>3. \A t \in Tasks : t.end \in 0..MaxHeight
    BY <1>0 DEF Tasks, Blocks
  <2>4. \A x \in Results : x.task \in Tasks
    BY DEF Results
  <2>5. UNCHANGED <<wm, gen, taskQueue, worker, resultQueue, handler, retrier,
                    resets, restarts, fetched, lost>>
    BY <1>1 DEF ChainFinalizes
  <2>6. Generating'
    BY <1>0, <2>2, <2>5 DEF Generating
  <2>7. \A i \in DOMAIN taskQueue : taskQueue[i] \in Tasks
    OBVIOUS
  <2>8. \A i \in DOMAIN resultQueue : resultQueue[i] \in Results
    OBVIOUS
  <2>9. Bounded'
    BY <1>0, <2>2, <2>3, <2>4, <2>5, <2>7, <2>8 DEF Bounded
  <2> QED
    BY <2>1, <2>5, <2>6, <2>9
<1>2. CASE \E h \in Heights : ResetWatermark(h)
  <2>1. PICK h \in Heights : ResetWatermark(h)
    BY <1>2
  <2>2. /\ wm' \in Watermarks
        /\ wm'.scanned = h
        /\ h <= wm.scanned
    BY <2>1, RegisterType DEF ResetWatermark, Reset
  <2>3. wm'.scanned <= final
    BY <1>0, <2>2 DEF Bounded
  <2>4. resets' \in 0..MaxResets
    BY <2>1, ScannerAssumption DEF ResetWatermark
  <2>5. fetched' \subseteq Blocks /\ lost' \subseteq Blocks
    BY <2>1 DEF ResetWatermark
  <2>6. UNCHANGED <<final, gen, taskQueue, worker, resultQueue, handler,
                    retrier, restarts>>
    BY <2>1 DEF ResetWatermark
  <2> QED
    BY <2>2, <2>3, <2>4, <2>5, <2>6 DEF Generating, Bounded
<1>3. CASE Restart
  <2>1. wm' \in Watermarks /\ wm'.scanned = 0
    BY <1>0, <1>3, RegisterType DEF Restart
  <2>2. restarts' \in 0..MaxRestarts
    BY <1>3, ScannerAssumption DEF Restart
  <2>3. /\ gen' \in [pc: {"idle", "read", "fill"}, next: Nat \ {0},
                     end: Heights, batch: Nat \ {0}]
        /\ gen'.pc = "idle"
    BY <1>0, <1>3 DEF Restart, Idle
  <2>4. /\ taskQueue' = << >>
        /\ resultQueue' = << >>
        /\ worker' = [w \in Workers |-> None]
        /\ handler' = [h \in Handlers |-> None]
        /\ retrier' = [r \in Retriers |-> None]
        /\ UNCHANGED <<final, resets, fetched, lost>>
    BY <1>3 DEF Restart
  <2>5. STypeOK'
    BY <2>1, <2>2, <2>3, <2>4, ScannerAssumption
  <2> QED
    BY <1>0, <2>1, <2>3, <2>4, <2>5 DEF Generating, Bounded
<1> QED
  BY <1>1, <1>2, <1>3

LEMMA InvStep == SInv /\ [SNext]_svars => SInv'
<1> SUFFICES ASSUME SInv, [SNext]_svars PROVE SInv'
  OBVIOUS
<1>1. CASE GenNext
  <2>1. UNCHANGED unchangedByGen
    BY <1>1 DEF GenNext, ReadWatermark, ReadHeights, HeightsFail, Enqueue,
                EnqueueTimeout
  <2> QED
    BY <1>1, <2>1, GenStep DEF GenNext
<1>2. CASE UNCHANGED svars
  BY <1>2 DEF svars, SInv, STypeOK, Generating, Bounded
<1> QED
  BY <1>1, <1>2, WorkerStep, HandlerStep, RequeueStep, WorldStep DEF SNext

(* A task that is still to be scanned is in one of the bounded places.     *)
LEMMA InvWithin == SInv => WithinFinalized
<1> SUFFICES ASSUME SInv, NEW t \in Pending PROVE t.end <= final
  BY DEF SInv, Bounded, WithinFinalized
<1> USE DEF SInv, Bounded
<1>1. CASE t \in Elements(taskQueue)
  BY <1>1 DEF Elements
<1>2. CASE t \in Failed(Elements(resultQueue))
  BY <1>2 DEF Failed, Elements
<1>3. CASE t \in Failed({ handler[h] : h \in { x \in Handlers : handler[x] # None } })
  BY <1>3 DEF Failed
<1> QED
  BY <1>1, <1>2, <1>3 DEF Pending

-----------------------------------------------------------------------------

(* The inductive invariant holds in every reachable state.                 *)
LEMMA Invariance == SSpec => []SInv
BY InvInit, InvStep, PTL DEF SSpec

(* Types: batches are never empty, queues never exceed their capacity, and *)
(* no task leaves the blocks of the chain or its number of retries.        *)
THEOREM TypeCorrect == SSpec => []STypeOK
<1>1. SInv => STypeOK
  BY DEF SInv
<1> QED
  BY <1>1, Invariance, PTL

(* Neither the watermark nor a task that is still to be scanned goes       *)
(* beyond the highest block with the tag of finalization_type, across      *)
(* stale reads, lagging nodes, retries, resets and restarts.  With the     *)
(* type finalized that means that nothing else is scanned.                 *)
THEOREM ScansFinalizedOnly == SSpec => []WithinFinalized
BY InvWithin, Invariance, PTL

-----------------------------------------------------------------------------
(* No block is forgotten.                                                  *)

(* A block that some task still to be scanned contains.                    *)
UnderWay(b) ==
    \/ \E i \in DOMAIN taskQueue : b \in Range(taskQueue[i])
    \/ \E w \in Workers : worker[w] # None /\ b \in Range(worker[w])
    \/ \E r \in Retriers : retrier[r] # None /\ b \in Range(retrier[r])
    \/ \E i \in DOMAIN resultQueue :
          ~ resultQueue[i].ok /\ b \in Range(resultQueue[i].task)
    \/ \E h \in Handlers : /\ handler[h] # None
                           /\ ~ handler[h].ok
                           /\ b \in Range(handler[h].task)

Accounted(b) == b \in fetched \/ b \in lost \/ UnderWay(b)

(* GapAccounted speaks of the watermark only.  A result raises it to the   *)
(* end of its task, a task ends where generateTasks wanted it to, and that *)
(* started from an earlier watermark: each of these numbers has nothing    *)
(* unaccounted below it.                                                   *)
Complete(n) == \A b \in Blocks : b <= n => Accounted(b)

CompleteBelow ==
    /\ Complete(wm.scanned)
    /\ gen.pc # "idle" => Complete(gen.next - 1)
    /\ \A i \in DOMAIN taskQueue : Complete(taskQueue[i].end)
    /\ \A w \in Workers : worker[w] # None => Complete(worker[w].end)
    /\ \A i \in DOMAIN resultQueue : Complete(resultQueue[i].task.end)
    /\ \A h \in Handlers : handler[h] # None => Complete(handler[h].task.end)
    /\ \A r \in Retriers : retrier[r] # None => Complete(retrier[r].end)

GInv == SInv /\ CompleteBelow

-----------------------------------------------------------------------------

LEMMA UnderWayIsPending ==
    ASSUME NEW b
    PROVE  UnderWay(b) <=> b \in PendingBlocks
<1>1. ASSUME UnderWay(b) PROVE b \in PendingBlocks
  BY <1>1 DEF UnderWay, PendingBlocks, Pending, Elements, Failed
<1>2. ASSUME b \in PendingBlocks PROVE UnderWay(b)
  <2>1. PICK t \in Pending : b \in Range(t)
    BY <1>2 DEF PendingBlocks
  <2>2. CASE t \in Elements(taskQueue)
    BY <2>1, <2>2 DEF Elements, UnderWay
  <2>3. CASE t \in Failed(Elements(resultQueue))
    BY <2>1, <2>3 DEF Elements, Failed, UnderWay
  <2>4. CASE t \in Failed({ handler[h] : h \in { x \in Handlers :
                                                 handler[x] # None } })
    BY <2>1, <2>4 DEF Failed, UnderWay
  <2> QED
    BY <2>1, <2>2, <2>3, <2>4 DEF Pending, UnderWay
<1> QED
  BY <1>1, <1>2

LEMMA GapInv == GInv => GapAccounted
<1> SUFFICES ASSUME GInv, NEW b \in 1..wm.scanned
             PROVE  b \in fetched \cup PendingBlocks \cup lost
  BY DEF GapAccounted
<1>1. wm.scanned \in Nat /\ wm.scanned <= MaxHeight /\ MaxHeight \in Nat
  BY ScannerAssumption DEF GInv, SInv, STypeOK, Watermarks
<1>2. b \in Blocks /\ b <= wm.scanned
  BY <1>1 DEF Blocks
<1>3. Accounted(b)
  BY <1>2 DEF GInv, CompleteBelow, Complete
<1> QED
  BY <1>3, UnderWayIsPending DEF Accounted

LEMMA GapInit == SInit => GInv
<1> SUFFICES ASSUME SInit PROVE GInv
  OBVIOUS
<1>1. SInv
  BY InvInit
<1>2. Complete(0)
  BY ScannerAssumption DEF Complete, Blocks
<1>3. CompleteBelow
  BY <1>2 DEF SInit, Init, InitialWatermark, CompleteBelow, Idle
<1> QED
  BY <1>1, <1>3 DEF GInv

-----------------------------------------------------------------------------
(* No step but a restart lets a block be forgotten; and what a step writes *)
(* is complete because what it was read from is.                           *)

(* generateTasks.                                                          *)
LEMMA GenGap ==
    ASSUME GInv, GenNext
    PROVE  CompleteBelow'
<1> USE DEF GInv, unchangedByGen, counters, ghosts
<1>0. UNCHANGED <<wm, worker, resultQueue, handler, retrier, fetched, lost>>
  BY DEF GenNext, ReadWatermark, ReadHeights, HeightsFail, Enqueue,
         EnqueueTimeout
<1>1. CASE Enqueue
  <2>1. /\ taskQueue \in Seq(Tasks)
        /\ gen.next \in Nat \ {0}
        /\ gen.batch \in Nat \ {0}
        /\ gen.end \in Nat
        /\ gen.next <= gen.end
        /\ gen.end <= MaxHeight
        /\ MaxHeight \in Nat
        /\ Complete(gen.next - 1)
    BY <1>1, ScannerAssumption
    DEF Enqueue, SInv, STypeOK, Generating, CompleteBelow
  <2>2. taskQueue' = Append(taskQueue, NextTask)
    BY <1>1 DEF Enqueue
  <2>3. /\ NextTask.start = gen.next
        /\ NextTask.end \in Nat
        /\ gen.next <= NextTask.end
        /\ NextTask.end <= gen.end
        /\ NextTask.end = gen.end \/ NextTask.end = gen.next + gen.batch - 1
        /\ NextTask \in Tasks
    BY <2>1, ScannerAssumption DEF NextTask, Smaller, Tasks, Blocks
  <2>4. /\ \A i \in DOMAIN taskQueue : /\ i \in DOMAIN taskQueue'
                                       /\ taskQueue'[i] = taskQueue[i]
        /\ \E i \in DOMAIN taskQueue' : taskQueue'[i] = NextTask
        /\ \A i \in DOMAIN taskQueue' :
              \/ taskQueue'[i] = NextTask
              \/ i \in DOMAIN taskQueue /\ taskQueue'[i] = taskQueue[i]
    BY <2>1, <2>2, <2>3
  <2>5. \A b \in Blocks : Accounted(b) => Accounted(b)'
    BY <1>0, <2>4 DEF Accounted, UnderWay
  <2>6. \A b \in Range(NextTask) : Accounted(b)'
    BY <2>4 DEF Accounted, UnderWay
  <2>7. \A b \in Blocks : b <= NextTask.end => Accounted(b)'
    <3> SUFFICES ASSUME NEW b \in Blocks, b <= NextTask.end
                 PROVE  Accounted(b)'
      OBVIOUS
    <3>1. CASE b <= gen.next - 1
      BY <2>1, <2>5, <3>1 DEF Complete
    <3>2. CASE ~ (b <= gen.next - 1)
      <4>1. b \in Range(NextTask)
        BY <2>1, <2>3, <3>2 DEF Range, Blocks
      <4> QED
        BY <2>6, <4>1
    <3> QED
      BY <3>1, <3>2
  <2>8. gen'.pc # "idle" => Complete(gen.next - 1)'
    <3> SUFFICES ASSUME gen'.pc # "idle", NEW b \in Blocks, b <= gen'.next - 1
                 PROVE  Accounted(b)'
      BY DEF Complete
    <3>1. /\ ~ (gen.next + gen.batch > gen.end)
          /\ gen'.next = gen.next + gen.batch
      BY <1>1 DEF Enqueue, Idle, SInv, STypeOK
    <3>2. b <= NextTask.end
      BY <2>1, <2>3, <3>1 DEF Blocks, NextTask, Smaller
    <3> QED
      BY <2>7, <3>2
  <2> QED
    BY <1>0, <2>4, <2>5, <2>7, <2>8 DEF CompleteBelow, Complete
<1>2. CASE ~ Enqueue
  <2>1. /\ UNCHANGED taskQueue
        /\ \/ gen'.pc = "idle"
           \/ gen'.next = wm.scanned + 1
           \/ gen.pc # "idle" /\ gen'.next = gen.next
    <3>1. CASE ReadWatermark
      BY <3>1 DEF ReadWatermark, Idle
    <3>2. CASE \E e \in 0..final : ReadHeights(e)
      BY <3>2 DEF ReadHeights, Idle, SInv, STypeOK
    <3>3. CASE HeightsFail \/ EnqueueTimeout
      BY <3>3 DEF HeightsFail, EnqueueTimeout, Idle
    <3> QED
      BY <1>2, <3>1, <3>2, <3>3 DEF GenNext
  <2>2. \A b \in Blocks : Accounted(b) <=> Accounted(b)'
    BY <1>0, <2>1 DEF Accounted, UnderWay
  <2>3. wm.scanned \in Nat /\ gen.next \in Nat
    BY ScannerAssumption DEF SInv, STypeOK, Watermarks
  <2>4. gen'.pc # "idle" => Complete(gen.next - 1)'
    BY <2>1, <2>2, <2>3 DEF CompleteBelow, Complete
  <2> QED
    BY <1>0, <2>1, <2>2, <2>4 DEF CompleteBelow, Complete
<1> QED
  BY <1>1, <1>2

(* The workers.                                                            *)
LEMMA WorkerGap ==
    ASSUME GInv, NEW w \in Workers, WorkerNext(w)
    PROVE  CompleteBelow'
<1> USE DEF GInv, counters, ghosts
<1>0. /\ taskQueue \in Seq(Tasks)
      /\ resultQueue \in Seq(Results)
      /\ worker \in [Workers -> Tasks \cup {None}]
      /\ None \notin Tasks
  BY ScannerAssumption DEF SInv, STypeOK
<1>1. CASE TakeTask(w)
  <2> DEFINE t == Head(taskQueue)
  <2>1. /\ worker[w] = None
        /\ worker' = [worker EXCEPT ![w] = t]
        /\ taskQueue' = Tail(taskQueue)
        /\ taskQueue # << >>
        /\ UNCHANGED <<wm, gen, resultQueue, handler, retrier, fetched, lost>>
    BY <1>1 DEF TakeTask
  <2>2. /\ t \in Tasks
        /\ 1 \in DOMAIN taskQueue
        /\ t = taskQueue[1]
        /\ \A i \in DOMAIN taskQueue' : /\ i + 1 \in DOMAIN taskQueue
                                        /\ taskQueue'[i] = taskQueue[i + 1]
        /\ \A i \in DOMAIN taskQueue : \/ taskQueue[i] = t
                                       \/ /\ i - 1 \in DOMAIN taskQueue'
                                          /\ taskQueue'[i - 1] = taskQueue[i]
    BY <1>0, <2>1
  <2> HIDE DEF t
  <2>3. /\ worker'[w] = t
        /\ worker'[w] # None
        /\ \A x \in Workers : x # w => worker'[x] = worker[x]
    BY <1>0, <2>1, <2>2
  <2>4. \A b \in Blocks : Accounted(b) => Accounted(b)'
    BY <2>1, <2>2, <2>3 DEF Accounted, UnderWay
  <2> QED
    BY <2>1, <2>2, <2>3, <2>4 DEF CompleteBelow, Complete
<1>2. ASSUME NEW ok \in BOOLEAN, worker[w] # None, SendResult(w, ok),
             \A b \in Blocks : Accounted(b) => Accounted(b)'
      PROVE  CompleteBelow'
  <2> DEFINE x == [task |-> worker[w], ok |-> ok]
  <2>1. /\ worker' = [worker EXCEPT ![w] = None]
        /\ UNCHANGED <<wm, gen, taskQueue, handler, retrier>>
    BY <1>2 DEF SendResult
  <2>2. x \in Results /\ x.task = worker[w]
    BY <1>0, <1>2 DEF Results
  <2>3. resultQueue' = resultQueue \/ resultQueue' = Append(resultQueue, x)
    BY <1>2 DEF SendResult
  <2> HIDE DEF x
  <2>4. \A i \in DOMAIN resultQueue' :
            \/ resultQueue'[i] = x
            \/ i \in DOMAIN resultQueue /\ resultQueue'[i] = resultQueue[i]
    BY <1>0, <2>2, <2>3, AppendFacts
  <2>5. /\ worker'[w] = None
        /\ \A v \in Workers : v # w => worker'[v] = worker[v]
    BY <1>0, <2>1
  <2> QED
    BY <1>2, <2>1, <2>2, <2>4, <2>5 DEF CompleteBelow, Complete
<1>3. CASE \E got \in SUBSET Blocks : ScanOK(w, got)
  <2>1. PICK got \in SUBSET Blocks : ScanOK(w, got)
    BY <1>3
  <2>2. /\ worker[w] # None
        /\ SendResult(w, TRUE)
        /\ fetched' = fetched \cup got
        /\ lost' = lost \cup (Range(worker[w]) \ got)
    BY <2>1 DEF ScanOK
  <2>3. /\ \A v \in Workers : v # w => worker'[v] = worker[v]
        /\ UNCHANGED <<taskQueue, handler, retrier>>
        /\ \A i \in DOMAIN resultQueue : /\ i \in DOMAIN resultQueue'
                                         /\ resultQueue'[i] = resultQueue[i]
    BY <1>0, <2>2 DEF SendResult, Results
  <2>4. \A b \in Blocks : Accounted(b) => Accounted(b)'
    BY <2>2, <2>3 DEF Accounted, UnderWay
  <2> QED
    BY <1>2, <2>2, <2>4
<1>4. CASE ScanFails(w)
  <2> DEFINE x == [task |-> worker[w], ok |-> FALSE]
  <2>1. /\ worker[w] # None
        /\ SendResult(w, FALSE)
        /\ UNCHANGED fetched
        /\ worker[w] \in Tasks
    BY <1>0, <1>4 DEF ScanFails
  <2>2. /\ \A v \in Workers : v # w => worker'[v] = worker[v]
        /\ UNCHANGED <<taskQueue, handler, retrier>>
    BY <1>0, <2>1 DEF SendResult
  <2>3. CASE Len(resultQueue) < QueueCap
    <3>1. resultQueue' = Append(resultQueue, x) /\ UNCHANGED lost
      BY <1>4, <2>1, <2>3 DEF ScanFails, SendResult
    <3>2. x \in Results /\ x.task = worker[w] /\ ~ x.ok
      BY <2>1 DEF Results
    <3> HIDE DEF x
    <3>3. /\ \A i \in DOMAIN resultQueue : /\ i \in DOMAIN resultQueue'
                                           /\ resultQueue'[i] = resultQueue[i]
          /\ \E i \in DOMAIN resultQueue' : resultQueue'[i] = x
      BY <1>0, <3>1, <3>2
    <3>4. \A b \in Blocks : Accounted(b) => Accounted(b)'
      BY <2>1, <2>2, <3>1, <3>2, <3>3 DEF Accounted, UnderWay
    <3> QED
      BY <1>2, <2>1, <3>4
  <2>4. CASE ~ (Len(resultQueue) < QueueCap)
    <3>1. UNCHANGED resultQueue /\ lost' = lost \cup Range(worker[w])
      BY <1>4, <2>1, <2>4 DEF ScanFails, SendResult
    <3>2. \A b \in Blocks : Accounted(b) => Accounted(b)'
      BY <2>1, <2>2, <3>1 DEF Accounted, UnderWay
    <3> QED
      BY <1>2, <2>1, <3>2
  <2> QED
    BY <2>3, <2>4
<1> QED
  BY <1>1, <1>3, <1>4 DEF WorkerNext

(* The result processors.                                                  *)
LEMMA HandlerGap ==
    ASSUME GInv, NEW h \in Handlers, HandlerNext(h)
    PROVE  CompleteBelow'
<1> USE DEF GInv, counters, ghosts
<1>0. /\ resultQueue \in Seq(Results)
      /\ handler \in [Handlers -> Results \cup {None}]
      /\ retrier \in [Retriers -> Tasks \cup {None}]
      /\ None \notin Results
      /\ None \notin Tasks
      /\ \A x \in Results : x.task \in Tasks /\ x.task.end \in Heights
  BY ScannerAssumption DEF SInv, STypeOK, Results, Tasks, Blocks
<1>1. CASE Receive(h)
  <2> DEFINE x == Head(resultQueue)
  <2>1. /\ handler[h] = None
        /\ handler' = [handler EXCEPT ![h] = x]
        /\ resultQueue' = Tail(resultQueue)
        /\ resultQueue # << >>
        /\ UNCHANGED <<wm, gen, taskQueue, worker, retrier, fetched, lost>>
    BY <1>1 DEF Receive
  <2>2. /\ x \in Results
        /\ 1 \in DOMAIN resultQueue
        /\ x = resultQueue[1]
        /\ \A i \in DOMAIN resultQueue' :
              /\ i + 1 \in DOMAIN resultQueue
              /\ resultQueue'[i] = resultQueue[i + 1]
        /\ \A i \in DOMAIN resultQueue :
              \/ resultQueue[i] = x
              \/ /\ i - 1 \in DOMAIN resultQueue'
                 /\ resultQueue'[i - 1] = resultQueue[i]
    BY <1>0, <2>1
  <2> HIDE DEF x
  <2>3. /\ handler'[h] = x
        /\ handler'[h] # None
        /\ \A y \in Handlers : y # h => handler'[y] = handler[y]
    BY <1>0, <2>1, <2>2
  <2>4. \A b \in Blocks : Accounted(b) => Accounted(b)'
    BY <2>1, <2>2, <2>3 DEF Accounted, UnderWay
  <2> QED
    BY <2>1, <2>2, <2>3, <2>4 DEF CompleteBelow, Complete
<1>2. ASSUME UpdateWatermark(h),
             wm'.scanned = wm.scanned \/ wm'.scanned = handler[h].task.end
      PROVE  CompleteBelow'
  <2>1. /\ handler[h] # None
        /\ handler[h].ok
        /\ handler' = [handler EXCEPT ![h] = None]
        /\ UNCHANGED <<gen, taskQueue, worker, resultQueue, retrier, fetched,
                       lost>>
    BY <1>2 DEF UpdateWatermark
  <2>2. /\ handler'[h] = None
        /\ \A y \in Handlers : y # h => handler'[y] = handler[y]
    BY <1>0, <2>1
  <2>3. \A b \in Blocks : Accounted(b) => Accounted(b)'
    BY <2>1, <2>2 DEF Accounted, UnderWay
  <2> QED
    BY <1>2, <2>1, <2>2, <2>3 DEF CompleteBelow, Complete
<1>3. CASE Advance(h)
  <2> DEFINE e == handler[h].task.end
  <2>1. UpdateWatermark(h) /\ e \in Heights /\ wm \in Watermarks
    BY <1>0, <1>3 DEF Advance, UpdateWatermark, SInv, STypeOK
  <2>2. CASE Scan(e)
    BY <1>2, <2>1, <2>2, RegisterType DEF Scan
  <2>3. CASE UNCHANGED wm
    BY <1>2, <2>1, <2>3
  <2> QED
    BY <1>3, <2>2, <2>3 DEF Advance
<1>4. CASE LockConflict(h)
  BY <1>2, <1>4 DEF LockConflict
<1>5. CASE \E r \in Retriers : StartRetry(h, r)
  <2>1. PICK r \in Retriers : StartRetry(h, r)
    BY <1>5
  <2> DEFINE t == handler[h].task
             u == [t EXCEPT !.retries = @ + 1]
  <2>2. /\ handler[h] # None
        /\ ~ handler[h].ok
        /\ retrier[r] = None
        /\ retrier' = [retrier EXCEPT ![r] = u]
        /\ handler' = [handler EXCEPT ![h] = None]
        /\ UNCHANGED <<wm, gen, taskQueue, worker, resultQueue, fetched, lost>>
    BY <2>1 DEF StartRetry
  <2>3. /\ t \in Tasks
        /\ t.retries < MaxRetries
    BY <1>0, <2>1 DEF StartRetry
  <2>4. t.retries + 1 \in 0..MaxRetries
    BY <2>3, ScannerAssumption DEF Tasks
  <2>5. u \in Tasks /\ u.start = t.start /\ u.end = t.end
    BY <2>3, <2>4 DEF Tasks
  <2> HIDE DEF u
  <2>6. /\ retrier'[r] = u
        /\ retrier'[r] # None
        /\ \A y \in Retriers : y # r => retrier'[y] = retrier[y]
        /\ handler'[h] = None
        /\ \A y \in Handlers : y # h => handler'[y] = handler[y]
    BY <1>0, <2>2, <2>5
  <2>7. Range(u) = Range(t)
    BY <2>5 DEF Range
  <2>8. \A b \in Blocks : Accounted(b) => Accounted(b)'
    BY <2>2, <2>6, <2>7 DEF Accounted, UnderWay
  <2> QED
    BY <2>2, <2>5, <2>6, <2>8 DEF CompleteBelow, Complete
<1>6. CASE GiveUp(h)
  <2>1. /\ handler[h] # None
        /\ lost' = lost \cup Range(handler[h].task)
        /\ handler' = [handler EXCEPT ![h] = None]
        /\ UNCHANGED <<wm, gen, taskQueue, worker, resultQueue, retrier,
                       fetched>>
    BY <1>6 DEF GiveUp
  <2>2. /\ handler'[h] = None
        /\ \A y \in Handlers : y # h => handler'[y] = handler[y]
    BY <1>0, <2>1
  <2>3. \A b \in Blocks : Accounted(b) => Accounted(b)'
    BY <2>1, <2>2 DEF Accounted, UnderWay
  <2> QED
    BY <2>1, <2>2, <2>3 DEF CompleteBelow, Complete
<1> QED
  BY <1>1, <1>3, <1>4, <1>5, <1>6 DEF HandlerNext

(* A sleeping retry.                                                       *)
LEMMA RequeueGap ==
    ASSUME GInv, NEW r \in Retriers, Requeue(r)
    PROVE  CompleteBelow'
<1> USE DEF GInv, counters, ghosts
<1> DEFINE t == retrier[r]
<1>1. /\ t # None
      /\ taskQueue' = Append(taskQueue, t)
      /\ retrier' = [retrier EXCEPT ![r] = None]
      /\ UNCHANGED <<wm, gen, worker, resultQueue, handler, fetched, lost>>
  BY DEF Requeue
<1>2. t \in Tasks /\ taskQueue \in Seq(Tasks)
  BY <1>1 DEF SInv, STypeOK
<1>3. /\ retrier'[r] = None
      /\ \A y \in Retriers : y # r => retrier'[y] = retrier[y]
  BY <1>1 DEF SInv, STypeOK
<1>4. /\ \A i \in DOMAIN taskQueue : /\ i \in DOMAIN taskQueue'
                                     /\ taskQueue'[i] = taskQueue[i]
      /\ \E i \in DOMAIN taskQueue' : taskQueue'[i] = t
      /\ \A i \in DOMAIN taskQueue' :
            \/ taskQueue'[i] = t
            \/ i \in DOMAIN taskQueue /\ taskQueue'[i] = taskQueue[i]
  <2> HIDE DEF t
  <2> QED
    BY <1>1, <1>2
<1>5. \A b \in Blocks : Accounted(b) => Accounted(b)'
  BY <1>1, <1>3, <1>4 DEF Accounted, UnderWay
<1> QED
  BY <1>1, <1>3, <1>4, <1>5 DEF CompleteBelow, Complete

(* The chain grows, or the program starts again from a watermark of 0.     *)
LEMMA WorldGap ==
    ASSUME GInv, ChainFinalizes \/ Restart \/ UNCHANGED svars
    PROVE  CompleteBelow'
<1> USE DEF GInv, counters, ghosts
<1>1. CASE Restart
  <2>1. /\ wm'.scanned = 0
        /\ gen'.pc = "idle"
        /\ taskQueue' = << >>
        /\ resultQueue' = << >>
        /\ worker' = [w \in Workers |-> None]
        /\ handler' = [h \in Handlers |-> None]
        /\ retrier' = [r \in Retriers |-> None]
    BY <1>1 DEF Restart, InitialWatermark, Idle
  <2>2. \A b \in Blocks : ~ (b <= 0)
    BY ScannerAssumption DEF Blocks
  <2> QED
    BY <2>1, <2>2 DEF CompleteBelow, Complete
<1>2. CASE ChainFinalizes \/ UNCHANGED svars
  <2>1. UNCHANGED <<wm, gen, taskQueue, worker, resultQueue, handler, retrier,
                    fetched, lost>>
    BY <1>2 DEF ChainFinalizes, svars
  <2> QED
    BY <2>1 DEF CompleteBelow, Complete, Accounted, UnderWay
<1> QED
  BY <1>1, <1>2

(* A reset is the one step that is left out: it takes blocks out of        *)
(* fetched while results for the blocks above it are still on their way.   *)
LEMMA GapStep == MaxResets = 0 /\ GInv /\ [SNext]_svars => GInv'
<1> SUFFICES ASSUME MaxResets = 0, GInv, [SNext]_svars
             PROVE  GInv'
  OBVIOUS
<1>1. SInv'
  BY InvStep DEF GInv
<1>2. ~ \E h \in Heights : ResetWatermark(h)
  BY DEF GInv, SInv, STypeOK, ResetWatermark
<1>3. CompleteBelow'
  BY <1>2, GenGap, WorkerGap, HandlerGap, RequeueGap, WorldGap DEF SNext
<1> QED
  BY <1>1, <1>3 DEF GInv

-----------------------------------------------------------------------------

(* In a program in which no reorg resets the watermark, every block at or  *)
(* below the watermark was fetched, is in a task still to be scanned, or   *)
(* was given up: however many workers, result processors and retries run,  *)
(* in whatever order the results arrive, results dropped by a full queue,  *)
(* lock conflicts and restarts included.                                   *)
THEOREM GapsAreAccounted ==
    ASSUME MaxResets = 0
    PROVE  SSpec => []GapAccounted
<1>1. GInv /\ [SNext]_svars => GInv'
  BY GapStep
<1> QED
  BY <1>1, GapInit, GapInv, PTL DEF SSpec

=============================================================================
