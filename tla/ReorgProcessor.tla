---------------------------- MODULE ReorgProcessor ----------------------------
(***************************************************************************)
(* internal/reorg/processor.go: the event queue, the workers that take     *)
(* events of one chain through the six steps of processEvent with retries, *)
(* the status of the chain, and Stop.  Every step begins with a section    *)
(* under p.mu (updateProcessingStep), which Stop holds while it waits for  *)
(* the workers and the monitor.                                            *)
(*                                                                         *)
(* Events have the shapes that the detector and the chain adapters give    *)
(* them: the new block is at the height of the old one or one above, and   *)
(* the rollback is of the heights from new to old.  The status of an event *)
(* with a step that fails is that of its last attempt.  A rescan is a call *)
(* of ChainScanner.Start, an error for a scanner that runs: no step here.  *)
(***************************************************************************)
EXTENDS BlockStore, Sequences

CONSTANTS PWorkers,    \* workers, WorkerCount of them
          MaxEvents,   \* bound: events given to ProcessReorg
          QueueSize,
          MaxRetries

ASSUME ProcessorAssumption ==
    /\ MaxEvents \in Nat
    /\ QueueSize \in Nat
    /\ MaxRetries \in Nat

VARIABLES events,    \* the events given to ProcessReorg
          outcome,   \* what became of each
          queue,     \* eventQueue: indices into events
          work,      \* what each worker is doing
          busy,      \* IsProcessing of the chain
          cleaned,   \* ghost: heights that clean_data has deleted since a
                     \* worker last reset the watermark below them
          done,      \* ctx is cancelled
          stopping   \* Stop: "no", "waiting" with p.mu held, "returned"

procVars == <<events, outcome, queue, work, busy, cleaned>>

ctlVars == <<done, stopping>>

pvars == <<storeVars, procVars, ctlVars>>

Ids == 1 .. MaxEvents

(* state: "select", "begin" before updateProcessingStatus, the name of a   *)
(* step, "completed", "failed", "wait" for RetryInterval, "ended".         *)
Steps == {"validate", "mark_transactions", "revert_business_data",
          "clean_data", "reset_watermark", "mark_processed"}

WorkStates == Steps \cup {"select", "begin", "completed", "failed", "wait",
                          "ended"}

(* passed is a ghost: validate has succeeded for this event before.        *)
AtSelect == [state |-> "select", id |-> 0, attempt |-> 0, passed |-> FALSE]

PInit ==
    /\ StoreInit
    /\ events = << >>
    /\ outcome = [i \in Ids |-> "none"]
    /\ queue = << >>
    /\ work = [w \in PWorkers |-> AtSelect]
    /\ busy = FALSE
    /\ cleaned = {}
    /\ done = FALSE
    /\ stopping = "no"

PMu == stopping # "waiting"

EventOf(w) == events[work[w].id]

Goto(w, s) == work' = [work EXCEPT ![w].state = s]

-----------------------------------------------------------------------------
(* ProcessReorg: a send that does not block.  Its callers do not call it   *)
(* after Stop, which closes the queue.                                     *)

(* Mutant of Accept: a full queue is no error.                             *)
AcceptAlways(i) ==
    /\ outcome' = [outcome EXCEPT ![i] = "accepted"]
    /\ queue' = IF Len(queue) < QueueSize THEN Append(queue, i) ELSE queue

Accept(i) ==
    \/ /\ Len(queue) < QueueSize
       /\ outcome' = [outcome EXCEPT ![i] = "accepted"]
       /\ queue' = Append(queue, i)
    \/ /\ Len(queue) >= QueueSize
       /\ outcome' = [outcome EXCEPT ![i] = "refused"]
       /\ UNCHANGED queue

ProcessReorg(old, new) ==
    /\ stopping = "no"
    /\ Len(events) < MaxEvents
    /\ store[old] # NoBlock
    /\ new \in {old, old + 1}
    /\ chain[new] \notin {NoBlock, store[new]}
    /\ events' = Append(events, [old |-> old, new |-> Block(new, chain[new])])
    /\ Accept(Len(events) + 1)
    /\ UNCHANGED <<storeVars, work, busy, cleaned, ctlVars>>

-----------------------------------------------------------------------------
(* worker and processEventWithRetry.                                       *)

Take(w) ==
    /\ work[w].state = "select"
    /\ queue # << >>
    /\ work' = [work EXCEPT ![w] = [AtSelect EXCEPT !.state = "begin",
                                                    !.id = Head(queue)]]
    /\ queue' = Tail(queue)
    /\ UNCHANGED <<storeVars, events, outcome, busy, cleaned, ctlVars>>

(* ctx is done, or the queue is closed and empty.                          *)
WorkerEnds(w) ==
    /\ work[w].state = "select"
    /\ done \/ (stopping = "waiting" /\ queue = << >>)
    /\ Goto(w, "ended")
    /\ UNCHANGED <<storeVars, events, outcome, queue, busy, cleaned, ctlVars>>

Begin(w) ==
    /\ work[w].state = "begin"
    /\ PMu
    /\ busy' = TRUE
    /\ Goto(w, "validate")
    /\ UNCHANGED <<storeVars, events, outcome, queue, cleaned, ctlVars>>

(* The deferred clearProcessingStatus, and what processEventWithRetry does *)
(* with the result.                                                        *)
Completed(w) ==
    /\ work[w].state = "completed"
    /\ PMu
    /\ busy' = FALSE
    /\ work' = [work EXCEPT ![w] = AtSelect]
    /\ UNCHANGED <<storeVars, events, outcome, queue, cleaned, ctlVars>>

(* Mutant of AttemptFailed: one attempt too many.                          *)
AttemptFailedOnceMore(w) ==
    /\ work[w].state = "failed"
    /\ work[w].attempt <= MaxRetries
    /\ PMu
    /\ busy' = FALSE
    /\ Goto(w, "wait")
    /\ UNCHANGED <<storeVars, events, outcome, queue, cleaned, ctlVars>>

AttemptFailed(w) ==
    /\ work[w].state = "failed"
    /\ work[w].attempt < MaxRetries
    /\ PMu
    /\ busy' = FALSE
    /\ Goto(w, "wait")
    /\ UNCHANGED <<storeVars, events, outcome, queue, cleaned, ctlVars>>

GiveUp(w) ==
    /\ outcome' = [outcome EXCEPT ![work[w].id] = "failed"]
    /\ work' = [work EXCEPT ![w] = AtSelect]
    /\ UNCHANGED <<storeVars, events, queue, cleaned, ctlVars>>

LastAttemptFailed(w) ==
    /\ work[w].state = "failed"
    /\ work[w].attempt = MaxRetries
    /\ PMu
    /\ busy' = FALSE
    /\ GiveUp(w)

(* Mutant of NextAttempt: attempts are not counted.                        *)
NextAttemptUncounted(n) == n

NextAttempt(n) == n + 1

Retry(w) ==
    /\ work[w].state = "wait"
    /\ work' = [work EXCEPT ![w].state = "begin",
                            ![w].attempt = NextAttempt(@)]
    /\ UNCHANGED <<storeVars, events, outcome, queue, busy, cleaned, ctlVars>>

RetryCancelled(w) ==
    /\ work[w].state = "wait"
    /\ done
    /\ UNCHANGED busy
    /\ GiveUp(w)

-----------------------------------------------------------------------------
(* The steps of processEvent.                                              *)

PStep(w, s, next) == work[w].state = s /\ PMu /\ Goto(w, next)

ValidateEvent(w) ==
    /\ work[w].state = "validate"
    /\ PMu
    /\ EventOf(w).old # 0
    /\ EventOf(w).new.num # 0
    /\ Stored(EventOf(w).new)
    /\ work' = [work EXCEPT ![w].state = "mark_transactions",
                            ![w].passed = TRUE]
    /\ UNCHANGED <<storeVars, events, outcome, queue, busy, cleaned, ctlVars>>

(* The transactions of the heights, which are not modelled here.           *)
MarkRevertedTransactions(w) ==
    /\ PStep(w, "mark_transactions", "revert_business_data")
    /\ UNCHANGED <<storeVars, events, outcome, queue, busy, cleaned, ctlVars>>

(* A hook that applications fill in; its errors are logged only.           *)
RevertBusinessData(w) ==
    /\ PStep(w, "revert_business_data", "clean_data")
    /\ UNCHANGED <<storeVars, events, outcome, queue, busy, cleaned, ctlVars>>

CleanAffectedData(w) ==
    /\ PStep(w, "clean_data", "reset_watermark")
    /\ DeleteBlocks(EventOf(w).new.num, EventOf(w).old)
    /\ cleaned' = cleaned \cup (EventOf(w).new.num .. EventOf(w).old)
    /\ UNCHANGED <<chain, forks, scanned, job>>
    /\ UNCHANGED <<events, outcome, queue, busy, ctlVars>>

(* Mutant of ResetTo: the height of the old block itself.                  *)
ResetToOld(e) == e.old

ResetTo(e) == SafeHeight(e.old)

ResetScannerWatermark(w) ==
    /\ PStep(w, "reset_watermark", "mark_processed")
    /\ CanReset(ResetTo(EventOf(w)))
    /\ scanned' = ResetTo(EventOf(w))
    /\ cleaned' = { h \in cleaned : h <= scanned' }
    /\ UNCHANGED <<chain, forks, store, extra, job>>
    /\ UNCHANGED <<events, outcome, queue, busy, ctlVars>>

MarkEventAsProcessed(w) ==
    /\ PStep(w, "mark_processed", "completed")
    /\ outcome' = [outcome EXCEPT ![work[w].id] = "processed"]
    /\ UNCHANGED <<storeVars, events, queue, busy, cleaned, ctlVars>>

(* An error: a check of validateEvent, the database, or the Redis lock of  *)
(* the watermark.                                                          *)
StepFails(w) ==
    /\ \E s \in Steps \ {"revert_business_data"} : PStep(w, s, "failed")
    /\ UNCHANGED <<storeVars, events, outcome, queue, busy, cleaned, ctlVars>>

-----------------------------------------------------------------------------
(* The application cancels ctx and calls Stop, in either order.            *)

PCancel ==
    /\ ~ done
    /\ done' = TRUE
    /\ UNCHANGED <<storeVars, procVars, stopping>>

PStop ==
    /\ stopping = "no"
    /\ stopping' = "waiting"
    /\ UNCHANGED <<storeVars, procVars, done>>

(* Stop waits for the workers, and for the monitor goroutine, which only   *)
(* looks at the status now and then, until ctx is done.                    *)
PStopReturns ==
    /\ stopping = "waiting"
    /\ done
    /\ \A w \in PWorkers : work[w].state = "ended"
    /\ stopping' = "returned"
    /\ UNCHANGED <<storeVars, procVars, done>>

Works(w) ==
    \/ Take(w) \/ Begin(w) \/ ValidateEvent(w)
    \/ MarkRevertedTransactions(w) \/ RevertBusinessData(w)
    \/ CleanAffectedData(w) \/ ResetScannerWatermark(w)
    \/ MarkEventAsProcessed(w) \/ StepFails(w)
    \/ Completed(w) \/ AttemptFailed(w) \/ LastAttemptFailed(w) \/ Retry(w)

Quits(w) == WorkerEnds(w) \/ RetryCancelled(w)

(* The detector rolls back, too, when it finds the reorg: it resets the    *)
(* watermark below a stored block and deletes an abandoned one.  Without   *)
(* that no new block would take the row of an old one, as validate wants.  *)
DetectorResets ==
    /\ \E h \in HeightsIn(store) : /\ CanReset(SafeHeight(h))
                                  /\ scanned' = SafeHeight(h)
    /\ UNCHANGED <<chain, forks, store, extra, job>>

DetectorDeletes ==
    /\ \E h \in Orphans : DeleteBlocks(h, h)
    /\ UNCHANGED <<chain, forks, scanned, job>>

Input == \/ /\ World \/ DetectorResets \/ DetectorDeletes
            /\ UNCHANGED <<procVars, ctlVars>>
         \/ \E old, new \in Heights : ProcessReorg(old, new)

PShutdown == PCancel \/ PStop \/ PStopReturns

PNext == \/ Input
         \/ \E w \in PWorkers : Works(w) \/ Quits(w)
         \/ PShutdown

PSpec == PInit /\ [][PNext]_pvars

(* Workers go on.                                                          *)
PFairSpec == PSpec /\ \A w \in PWorkers : WF_pvars(Works(w))

PStopSpec ==
    /\ PSpec
    /\ \A w \in PWorkers : WF_pvars(Works(w) \/ Quits(w))
    /\ WF_pvars(PStopReturns)

-----------------------------------------------------------------------------

PTypeOK ==
    /\ StoreTypeOK
    /\ events \in Seq([old : Heights, new : Blocks])
    /\ Len(events) <= MaxEvents
    /\ outcome \in [Ids -> {"none", "refused", "accepted", "processed",
                            "failed"}]
    /\ queue \in Seq(1 .. Len(events))
    /\ Len(queue) <= QueueSize
    /\ work \in [PWorkers -> [state : WorkStates, id : 0 .. Len(events),
                              attempt : 0 .. MaxRetries, passed : BOOLEAN]]
    /\ busy \in BOOLEAN
    /\ cleaned \subseteq Heights
    /\ done \in BOOLEAN
    /\ stopping \in {"no", "waiting", "returned"}

(* An event that ProcessReorg accepted is in the queue or with exactly one *)
(* worker until it is processed or given up: none is lost between the      *)
(* channel, the retries and the shutdown, none is done twice.              *)
AcceptedIsAccounted ==
    \A i \in Ids : outcome[i] = "accepted" =>
        LET queued == { n \in 1 .. Len(queue) : queue[n] = i }
            held == { w \in PWorkers : work[w].id = i }
        IN \/ /\ \E n \in queued : queued = {n}
              /\ held = {}
           \/ /\ queued = {}
              /\ \E w \in held : held = {w}

(* A height that clean_data has deleted, and below which the watermark has *)
(* not been reset since, belongs to an event that a worker has yet to      *)
(* finish or that has failed: an event that counts as processed has had    *)
(* all it deleted put above the watermark after that, whatever steps of    *)
(* other workers on the same heights, failures and retries came between.   *)
(* The scanner may then still raise the watermark over it with a block     *)
(* that it saved before.                                                   *)
CleanedIsReset ==
    \A h \in cleaned :
        \/ \E w \in PWorkers :
              /\ work[w].passed
              /\ work[w].state \notin {"mark_processed", "completed"}
              /\ EventOf(w).old = h
        \/ \E i \in 1 .. Len(events) :
              outcome[i] = "failed" /\ events[i].old = h

(* processEventWithRetry ends: accepted events are processed or failed, in *)
(* the end all of them, unless the processor is shut down first.           *)
EventsAreSettled ==
    (\E i \in Ids : outcome[i] = "accepted") ~>
        \/ \A i \in Ids : outcome[i] # "accepted"
        \/ done
        \/ stopping # "no"

(* DESIGN 457: clean_data cleans the affected data, the blocks that the    *)
(* chain has abandoned.                                                    *)
CleansOrphansOnly ==
    \A w \in PWorkers : work[w].state = "clean_data" =>
        \A h \in EventOf(w).new.num .. EventOf(w).old :
            store[h] # NoBlock => h \in Orphans

(* Comment at 258: events are processed with retries.  An event that was   *)
(* valid in one attempt is valid in the next.                              *)
RetriesAreValid ==
    \A w \in PWorkers : work[w].state = "validate" /\ work[w].passed =>
        Stored(EventOf(w).new)

(* Field IsProcessing of ProcessingStatus: while a worker processes an     *)
(* event of the chain, the status says so.                                 *)
StatusIsTrue == \A w \in PWorkers : work[w].state \in Steps => busy

(* Comment at 154: Stop stops the processor; ctx is cancelled, too.        *)
PStopCompletes == stopping = "waiting" /\ done ~> stopping = "returned"

=============================================================================
