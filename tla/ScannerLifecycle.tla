--------------------------- MODULE ScannerLifecycle ---------------------------
(***************************************************************************)
(* Start and Stop of a ChainScanner (internal/scheduler/chain_scanner.go   *)
(* 158-237), called by any goroutine: main, the scheduler manager, the     *)
(* reorg processor.  Start spawns a crew: workers, processResults          *)
(* goroutines, the task scheduler and the two monitors; a retry goroutine  *)
(* is spawned per failed task and is in nobody's WaitGroup.  Stop cancels  *)
(* the context, closes taskQueue and waits for the crew.                   *)
(*                                                                         *)
(* Only what decides who runs and who blocks is modelled: queues are       *)
(* lengths; the content of tasks is in module ChainScanner.  Sending on a  *)
(* closed channel, and closing one twice, ends the program.                *)
(***************************************************************************)
EXTENDS Naturals, FiniteSets

CONSTANTS Controllers,  \* goroutines that call Start and Stop
          Workers,
          Processors,   \* processResults goroutines
          Scheduler,    \* scheduleTasks
          Monitor,      \* monitorWatermark and detectReorg: tick or quit
          QueueCap,     \* capacity of taskQueue and of resultQueue
          MaxRetriers,  \* bound: goroutines sleeping before a retry
          MaxStarts     \* bound: successful calls of Start

Crew == Workers \cup Processors \cup {Scheduler, Monitor}

Quitters == Crew \ Processors

Crews == 1..MaxStarts

ASSUME LifecycleAssumption ==
    /\ Scheduler \notin Workers \cup Processors
    /\ Monitor \notin Workers \cup Processors \cup {Scheduler}
    /\ Workers \cap Processors = {}
    /\ QueueCap \in Nat \ {0}
    /\ MaxRetriers \in Nat
    /\ MaxStarts \in Nat

VARIABLES statusRunning,  \* status.Running
          cancelled,      \* the context is cancelled
          closed,         \* taskQueue is closed
          tasks,          \* length of taskQueue
          results,        \* length of resultQueue
          call,           \* control state of each caller
          starts,         \* successful calls of Start: the crews so far
          go,             \* state of each goroutine of each crew
          retriers,       \* sleeping retry goroutines
          panicked        \* the program has crashed

lvars == <<statusRunning, cancelled, closed, tasks, results, call, starts,
           go, retriers, panicked>>

queues == <<closed, tasks, results, retriers>>

(* A caller is "idle", about to "spawn", "cancel" or "close", or in the    *)
(* "wait".  A goroutine is "none" before its crew starts; "ready" is one   *)
(* at its select or receive, a "busy" one works on a task, a result or a   *)
(* tick, and one that has ended is "done".                                 *)
LInit ==
    /\ statusRunning = FALSE
    /\ cancelled = FALSE
    /\ closed = FALSE
    /\ tasks = 0
    /\ results = 0
    /\ call = [c \in Controllers |-> "idle"]
    /\ starts = 0
    /\ go = [i \in Crew \X Crews |-> "none"]
    /\ retriers = 0
    /\ panicked = FALSE

Live(x, n) == go[<<x, n>>] \in {"ready", "busy"}

(* The counter of the WaitGroup is zero.                                   *)
NobodyLive == \A x \in Crew, n \in Crews : ~ Live(x, n)

-----------------------------------------------------------------------------
(* Start: the check and set of Running under mu, then the go statements.   *)

(* Mutant of StartFlag: no check of Running.                               *)
StartAlways(c) ==
    /\ call[c] = "idle"
    /\ starts < MaxStarts
    /\ statusRunning' = TRUE
    /\ starts' = starts + 1
    /\ call' = [call EXCEPT ![c] = "spawn"]
    /\ UNCHANGED <<cancelled, queues, go, panicked>>

StartFlag(c) ==
    /\ call[c] = "idle"
    /\ starts < MaxStarts
    /\ ~ statusRunning
    /\ statusRunning' = TRUE
    /\ starts' = starts + 1
    /\ call' = [call EXCEPT ![c] = "spawn"]
    /\ UNCHANGED <<cancelled, queues, go, panicked>>

Spawn(c) ==
    /\ call[c] = "spawn"
    /\ \E n \in 1..starts :
          /\ \A x \in Crew : go[<<x, n>>] = "none"
          /\ go' = [i \in Crew \X Crews |-> IF i[2] = n THEN "ready" ELSE go[i]]
    /\ call' = [call EXCEPT ![c] = "idle"]
    /\ UNCHANGED <<statusRunning, cancelled, queues, starts, panicked>>

(* Stop: the check and reset of Running under mu, then three steps.        *)
StopFlag(c) ==
    /\ call[c] = "idle"
    /\ statusRunning
    /\ statusRunning' = FALSE
    /\ call' = [call EXCEPT ![c] = "cancel"]
    /\ UNCHANGED <<cancelled, queues, starts, go, panicked>>

Cancel(c) ==
    /\ call[c] = "cancel"
    /\ cancelled' = TRUE
    /\ call' = [call EXCEPT ![c] = "close"]
    /\ UNCHANGED <<statusRunning, queues, starts, go, panicked>>

CloseQueue(c) ==
    /\ call[c] = "close"
    /\ closed' = TRUE
    /\ panicked' = closed
    /\ call' = [call EXCEPT ![c] = "wait"]
    /\ UNCHANGED <<statusRunning, cancelled, tasks, results, starts, go, retriers>>

StopReturns(c) ==
    /\ call[c] = "wait"
    /\ NobodyLive
    /\ call' = [call EXCEPT ![c] = "idle"]
    /\ UNCHANGED <<statusRunning, cancelled, queues, starts, go, panicked>>

CallerNext(c) == \/ StartFlag(c)
                 \/ Spawn(c)
                 \/ StopFlag(c)
                 \/ Cancel(c)
                 \/ CloseQueue(c)
                 \/ StopReturns(c)

-----------------------------------------------------------------------------
(* The crew.                                                               *)

callerVars == <<statusRunning, cancelled, call, starts>>

Move(x, n, from, to) ==
    /\ go[<<x, n>>] = from
    /\ go' = [go EXCEPT ![<<x, n>>] = to]
    /\ UNCHANGED callerVars

(* A worker's select: a task, the closed queue, or ctx.Done.               *)
WorkerTake(w, n) ==
    /\ Move(w, n, "ready", "busy")
    /\ tasks > 0
    /\ tasks' = tasks - 1
    /\ UNCHANGED <<closed, results, retriers, panicked>>

WorkerQuit(w, n) ==
    /\ Move(w, n, "ready", "done")
    /\ cancelled \/ (closed /\ tasks = 0)
    /\ UNCHANGED <<queues, panicked>>

(* The send of the result does not block.                                  *)
WorkerSend(w, n) ==
    /\ Move(w, n, "busy", "ready")
    /\ results' = IF results < QueueCap THEN results + 1 ELSE results
    /\ UNCHANGED <<closed, tasks, retriers, panicked>>

(* processResults ranges over resultQueue, which nobody closes.            *)
Receive(p, n) ==
    /\ Move(p, n, "ready", "busy")
    /\ results > 0
    /\ results' = results - 1
    /\ UNCHANGED <<closed, tasks, retriers, panicked>>

HandleResult(p, n) ==
    /\ Move(p, n, "busy", "ready")
    /\ \/ UNCHANGED retriers
       \/ retriers < MaxRetriers /\ retriers' = retriers + 1
    /\ UNCHANGED <<closed, tasks, results, panicked>>

(* scheduleTasks: its select picks a tick or, once cancelled, may quit.    *)
Tick(n) ==
    /\ Move(Scheduler, n, "ready", "busy")
    /\ UNCHANGED <<queues, panicked>>

SchedulerQuit(n) ==
    /\ Move(Scheduler, n, "ready", "done")
    /\ cancelled
    /\ UNCHANGED <<queues, panicked>>

(* generateTasks returns: the node failed, nothing is new, the last task   *)
(* is sent, the queue stayed full or the context is cancelled.             *)
TickEnds(n) ==
    /\ Move(Scheduler, n, "busy", "ready")
    /\ UNCHANGED <<queues, panicked>>

Enqueue(n) ==
    /\ Move(Scheduler, n, "busy", "busy")
    /\ ~ closed
    /\ tasks < QueueCap
    /\ tasks' = tasks + 1
    /\ UNCHANGED <<closed, results, retriers, panicked>>

(* The select of generateTasks finds both ctx.Done and the send on the     *)
(* closed queue ready, and picks the send.                                 *)
EnqueuePanics(n) ==
    /\ Move(Scheduler, n, "busy", "busy")
    /\ closed
    /\ panicked' = TRUE
    /\ UNCHANGED queues

(* Mutant of MonitorQuit: the select of the monitor has no ctx.Done.       *)
MonitorTicksOn(n) ==
    /\ Move(Monitor, n, "ready", "ready")
    /\ UNCHANGED <<queues, panicked>>

MonitorQuit(n) ==
    /\ Move(Monitor, n, "ready", "done")
    /\ cancelled
    /\ UNCHANGED <<queues, panicked>>

(* A retry goroutine wakes: send, panic or quit.                           *)
RetrySend ==
    /\ retriers > 0
    /\ ~ closed
    /\ tasks < QueueCap
    /\ tasks' = tasks + 1
    /\ retriers' = retriers - 1
    /\ UNCHANGED <<callerVars, closed, results, go, panicked>>

RetryPanics ==
    /\ retriers > 0
    /\ closed
    /\ panicked' = TRUE
    /\ UNCHANGED <<callerVars, queues, go>>

RetryQuit ==
    /\ retriers > 0
    /\ cancelled
    /\ retriers' = retriers - 1
    /\ UNCHANGED <<callerVars, closed, tasks, results, go, panicked>>

WorkerNext(w, n) == WorkerTake(w, n) \/ WorkerQuit(w, n) \/ WorkerSend(w, n)

ProcessorNext(p, n) == Receive(p, n) \/ HandleResult(p, n)

SchedulerNext(n) == \/ Tick(n)
                    \/ SchedulerQuit(n)
                    \/ TickEnds(n)
                    \/ Enqueue(n)
                    \/ EnqueuePanics(n)

RetryNext == RetrySend \/ RetryPanics \/ RetryQuit

LNext ==
    /\ ~ panicked
    /\ \/ \E c \in Controllers : CallerNext(c)
       \/ \E n \in Crews :
             \/ \E w \in Workers : WorkerNext(w, n)
             \/ \E p \in Processors : ProcessorNext(p, n)
             \/ SchedulerNext(n)
             \/ MonitorQuit(n)
       \/ RetryNext

LSpec == LInit /\ [][LNext]_lvars

(* Running goroutines run; nobody has to call Start or Stop, but a call    *)
(* goes on.  Go's select picks at random among the ready cases, so a case  *)
(* that is ready again and again is picked: hence SF for the cases of      *)
(* ctx.Done, and for the end of a tick, whose node calls and sends fail    *)
(* once the context is cancelled.  Fairness is assumed of each kind of     *)
(* goroutine as a whole, which is less than the Go scheduler gives.        *)
Running(A) == ~ panicked /\ A

CallProceeds(c) == Spawn(c) \/ Cancel(c) \/ CloseQueue(c) \/ StopReturns(c)

Fairness ==
    /\ WF_lvars(Running(\E c \in Controllers : CallProceeds(c)))
    /\ WF_lvars(Running(\E w \in Workers, n \in Crews : WorkerNext(w, n)))
    /\ SF_lvars(Running(\E w \in Workers, n \in Crews : WorkerQuit(w, n)))
    /\ WF_lvars(Running(\E p \in Processors, n \in Crews : ProcessorNext(p, n)))
    /\ SF_lvars(Running(\E n \in Crews : TickEnds(n)))
    /\ SF_lvars(Running(\E n \in Crews : SchedulerQuit(n)))
    /\ WF_lvars(Running(\E n \in Crews : MonitorQuit(n)))
    /\ WF_lvars(Running(RetryNext))
    /\ SF_lvars(Running(RetryQuit))

LFairSpec == LSpec /\ Fairness

-----------------------------------------------------------------------------

(* However Start and Stop of several goroutines interleave, two crews scan *)
(* the chain together only while a Stop is about to cancel the context or  *)
(* after it has: otherwise each crew would cut and scan the same blocks.   *)
OneCrew ==
    \A m, n \in Crews, x, y \in Quitters :
        m # n /\ Live(x, m) /\ Live(y, n) =>
            cancelled \/ \E c \in Controllers : call[c] = "cancel"

(* Unless the program crashes, workers, scheduler, monitors and retries    *)
(* all end after a Stop, although workers drain a full queue and the       *)
(* scheduler may be in the middle of a tick.                               *)
QuittersEnd ==
    cancelled ~> \/ panicked
                 \/ /\ \A x \in Quitters, n \in Crews : ~ Live(x, n)
                    /\ retriers = 0

(* main.go 145: the signals are handled for a graceful shutdown; Stop 234  *)
(* waits for all goroutines to finish.  So Stop returns.                   *)
StopCompletes ==
    \A c \in Controllers : call[c] = "wait" ~> panicked \/ call[c] # "wait"

(* chain_scanner.go 230: "close the task queue, to keep new tasks out".    *)
(* Closing it does not crash the program.                                  *)
NoPanic == ~ panicked

(* ScannerStatus.Running, line 33: whether the scanner is running.  With   *)
(* no call of Start or Stop under way, a scanner that says so can scan.    *)
RunningScans ==
    statusRunning /\ (\A c \in Controllers : call[c] = "idle") => ~ cancelled

=============================================================================
