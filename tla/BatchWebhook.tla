---------------------------- MODULE BatchWebhook ----------------------------
(***************************************************************************)
(* internal/consumer/webhook.go: BatchWebhookHandler on top of             *)
(* HTTPWebhookHandler.  Callers add events to a buffer, a loop and the     *)
(* callers of SendReorgEvent and Stop flush it, and a request is repeated  *)
(* until the receiver says it is fine or the attempts are used up.         *)
(*                                                                         *)
(* Events are numbered in the order in which the buffer took them.  The    *)
(* mutex is held while a batch is sent.  A caller that fills the buffer    *)
(* calls flush with the mutex in hand and waits for itself (lines 398 to   *)
(* 400 and 415): label "hung".                                             *)
(*                                                                         *)
(* A request that the client gives up on is handled by the receiver before *)
(* that, or never: a copy that arrives after the next attempt has ended is *)
(* not modelled.  After done is closed the loop may still take a tick that *)
(* is pending.                                                             *)
(***************************************************************************)
EXTENDS Naturals, Sequences, FiniteSets

CONSTANTS Callers,     \* goroutines that send, stop and report reorgs
          Flusher,     \* the goroutine of flushLoop
          BatchSize,   \* BatchSize or MaxBufferSize, whichever is smaller
          RetryCount,  \* retries of a request
          MaxEvents,   \* bound on the events accepted
          MaxReorgs    \* bound on the calls of SendReorgEvent

Nobody == "nobody"

ASSUME WebhookAssumption ==
    /\ Flusher \notin Callers
    /\ Nobody \notin Callers \cup {Flusher}
    /\ BatchSize \in Nat \ {0}
    /\ RetryCount \in Nat
    /\ MaxEvents \in Nat
    /\ MaxReorgs \in Nat

Goroutines == Callers \cup {Flusher}

VARIABLES buffer,    \* numbers of the events in the buffer
          accepted,  \* events taken so far
          mu,        \* holder of the mutex
          pc,        \* what each goroutine does
          then,      \* what it does after its flush
          out,       \* the batch or reorg event it is sending
          tries,     \* attempts it has left
          stopped,   \* done is closed
          panicked,  \* Stop closed done a second time
          last,      \* receiver: first and last event of the last batch
          reorgs,    \* reorg events accepted
          past       \* ghost: events accepted before the call of SendReorgEvent

wvars == <<buffer, accepted, mu, pc, then, out, tries, stopped, panicked, last,
           reorgs, past>>

NoBatch == <<0, 0>>

WInit ==
    /\ buffer = << >>
    /\ accepted = 0
    /\ mu = Nobody
    /\ pc = [g \in Goroutines |-> "idle"]
    /\ then = [g \in Goroutines |-> "idle"]
    /\ out = [g \in Goroutines |-> NoBatch]
    /\ tries = [g \in Goroutines |-> 0]
    /\ stopped = FALSE
    /\ panicked = FALSE
    /\ last = NoBatch
    /\ reorgs = 0
    /\ past = [g \in Goroutines |-> {}]

Goto(g, l) == pc' = [pc EXCEPT ![g] = l]

(* SendTransaction, SendLog and SendCustomEvent: addToBuffer, entered.     *)
Send(g) ==
    /\ pc[g] = "idle"
    /\ accepted < MaxEvents
    /\ Goto(g, "add")
    /\ UNCHANGED <<buffer, accepted, mu, then, out, tries, stopped, panicked, last,
                   reorgs, past>>

(* addToBuffer under the mutex, which is released at once unless the       *)
(* buffer is full.                                                         *)
AddToBuffer(g) ==
    /\ pc[g] = "add"
    /\ mu = Nobody
    /\ accepted < MaxEvents
    /\ accepted' = accepted + 1
    /\ buffer' = Append(buffer, accepted + 1)
    /\ IF Len(buffer) + 1 >= BatchSize
       THEN mu' = g /\ Goto(g, "hung")
       ELSE mu' = Nobody /\ Goto(g, "idle")
    /\ UNCHANGED <<then, out, tries, stopped, panicked, last, reorgs, past>>

(* flush, entered by g, which goes on with label l after it.               *)
EnterFlush(g, l) ==
    /\ Goto(g, "flush")
    /\ then' = [then EXCEPT ![g] = l]

(* Mutant of SendReorgEvent: at once, without the flush.                   *)
SendReorgEventAtOnce(g) ==
    /\ pc[g] = "idle"
    /\ reorgs < MaxReorgs
    /\ reorgs' = reorgs + 1
    /\ Goto(g, "reorg")
    /\ tries' = [tries EXCEPT ![g] = RetryCount + 1]
    /\ past' = [past EXCEPT ![g] = 1..accepted]
    /\ UNCHANGED <<buffer, accepted, mu, then, out, stopped, panicked, last>>

(* SendReorgEvent flushes first.                                           *)
SendReorgEvent(g) ==
    /\ pc[g] = "idle"
    /\ reorgs < MaxReorgs
    /\ reorgs' = reorgs + 1
    /\ EnterFlush(g, "reorg")
    /\ past' = [past EXCEPT ![g] = 1..accepted]
    /\ UNCHANGED <<buffer, accepted, mu, out, tries, stopped, panicked, last>>

(* Closing done twice panics.                                              *)
Stop(g) ==
    /\ pc[g] = "idle"
    /\ IF stopped
       THEN panicked' = TRUE /\ UNCHANGED <<pc, then, stopped>>
       ELSE stopped' = TRUE /\ EnterFlush(g, "idle") /\ UNCHANGED panicked
    /\ UNCHANGED <<buffer, accepted, mu, out, tries, last, reorgs, past>>

(* Mutant of Tick: the loop ends with its first flush.                     *)
TickOnce ==
    /\ pc[Flusher] = "idle"
    /\ EnterFlush(Flusher, "ended")
    /\ UNCHANGED <<buffer, accepted, mu, out, tries, stopped, panicked, last, reorgs, past>>

(* flushLoop: a tick, or the end of the loop.                              *)
Tick ==
    /\ pc[Flusher] = "idle"
    /\ EnterFlush(Flusher, "idle")
    /\ UNCHANGED <<buffer, accepted, mu, out, tries, stopped, panicked, last, reorgs, past>>

FlushLoopEnds ==
    /\ pc[Flusher] = "idle"
    /\ stopped
    /\ Goto(Flusher, "ended")
    /\ UNCHANGED <<buffer, accepted, mu, then, out, tries, stopped, panicked, last,
                   reorgs, past>>

(* The reorg event itself is sent without the mutex.                       *)
AfterFlush(g, l) ==
    /\ Goto(g, l)
    /\ then' = [then EXCEPT ![g] = "idle"]
    /\ tries' = [tries EXCEPT ![g] = IF l = "reorg" THEN RetryCount + 1 ELSE 0]

(* flush takes the mutex; an empty buffer is nothing to send.  Otherwise   *)
(* the buffer is emptied before the batch is sent.                         *)
FlushEmpty(g) ==
    /\ pc[g] = "flush"
    /\ mu = Nobody
    /\ buffer = << >>
    /\ AfterFlush(g, then[g])
    /\ UNCHANGED <<buffer, accepted, mu, out, stopped, panicked, last, reorgs, past>>

(* Mutant of HeldWhileSending: the mutex is released before the request.   *)
ReleasedBeforeSending(g) == mu' = Nobody

HeldWhileSending(g) == mu' = g

Flush(g) ==
    /\ pc[g] = "flush"
    /\ mu = Nobody
    /\ buffer # << >>
    /\ HeldWhileSending(g)
    /\ out' = [out EXCEPT ![g] = <<buffer[1], buffer[Len(buffer)]>>]
    /\ buffer' = << >>
    /\ tries' = [tries EXCEPT ![g] = RetryCount + 1]
    /\ Goto(g, "send")
    /\ UNCHANGED <<accepted, then, stopped, panicked, last, reorgs, past>>

(* The batch reaches the receiver, or not.                                 *)
Transmit(g) == last' = out[g] \/ UNCHANGED last

(* The flush is over: success goes on with what called it, failure ends    *)
(* the call with an error and the batch is gone.                           *)
EndFlush(g, ok) ==
    /\ mu' = IF mu = g THEN Nobody ELSE mu
    /\ out' = [out EXCEPT ![g] = NoBatch]
    /\ AfterFlush(g, IF ok THEN then[g] ELSE "idle")

(* sendRequest: an answer of 2xx.                                          *)
SendRequestOK(g) ==
    /\ pc[g] = "send"
    /\ last' = out[g]
    /\ EndFlush(g, TRUE)
    /\ UNCHANGED <<buffer, accepted, stopped, panicked, reorgs, past>>

(* sendRequest: an error, a timeout or another status; the receiver may    *)
(* have the batch all the same.  The next attempt follows.                 *)
SendRequestFails(g) ==
    /\ pc[g] = "send"
    /\ tries[g] > 1
    /\ Transmit(g)
    /\ tries' = [tries EXCEPT ![g] = @ - 1]
    /\ UNCHANGED <<buffer, accepted, mu, pc, then, out, stopped, panicked, reorgs, past>>

(* The last attempt fails, or the context of the flush ends in the wait.   *)
SendWithRetryFails(g) ==
    /\ pc[g] = "send"
    /\ Transmit(g)
    /\ EndFlush(g, FALSE)
    /\ UNCHANGED <<buffer, accepted, stopped, panicked, reorgs, past>>

(* The reorg event, with its own attempts, sent or given up.               *)
SendReorgRequest(g) ==
    /\ pc[g] = "reorg"
    /\ \/ tries' = [tries EXCEPT ![g] = 0] /\ Goto(g, "idle")
       \/ /\ tries[g] > 1
          /\ tries' = [tries EXCEPT ![g] = @ - 1]
          /\ UNCHANGED pc
    /\ past' = [past EXCEPT ![g] = IF tries'[g] = 0 THEN {} ELSE @]
    /\ UNCHANGED <<buffer, accepted, mu, then, out, stopped, panicked, last, reorgs>>

(* The process dies and is started again: the buffer is in memory only.    *)
Restart ==
    /\ buffer' = << >>
    /\ mu' = Nobody
    /\ pc' = [g \in Goroutines |-> "idle"]
    /\ then' = [g \in Goroutines |-> "idle"]
    /\ out' = [g \in Goroutines |-> NoBatch]
    /\ tries' = [g \in Goroutines |-> 0]
    /\ past' = [g \in Goroutines |-> {}]
    /\ stopped' = FALSE
    /\ panicked' = FALSE
    /\ UNCHANGED <<accepted, last, reorgs>>

GoOn(g) ==
    \/ AddToBuffer(g) \/ FlushEmpty(g) \/ Flush(g)
    \/ SendRequestOK(g) \/ SendRequestFails(g) \/ SendWithRetryFails(g)
    \/ SendReorgRequest(g)

-----------------------------------------------------------------------------
(* Events that a goroutine is sending.                                     *)
Sending(g) == IF out[g] = NoBatch THEN {} ELSE out[g][1]..out[g][2]

Buffered == {buffer[k] : k \in 1..Len(buffer)}

(* Every variable has its type; a batch is only sent by the goroutine that *)
(* holds the mutex, and the buffer stays below the batch size unless its   *)
(* filler hangs.                                                           *)
WTypeOK ==
    /\ buffer \in Seq(1..accepted)
    /\ Len(buffer) < BatchSize \/ pc[mu] = "hung"
    /\ pc \in [Goroutines -> {"idle", "add", "hung", "flush", "send", "reorg", "ended"}]
    /\ tries \in [Goroutines -> 0..RetryCount + 1]
    /\ \A g \in Goroutines : out[g] # NoBatch => mu = g

(* A reorg event is sent when no event accepted before the call of         *)
(* SendReorgEvent is still in the buffer or on its way: the receiver never *)
(* hears of a transaction after the rollback that undid it.                *)
ReorgAfterItsPast ==
    \A g \in Callers :
        pc[g] = "reorg" =>
            past[g] \cap (Buffered \cup UNION {Sending(k) : k \in Goroutines}) = {}

(* The receiver sees batches in the order of the events; only the batch    *)
(* that came last may come again.                                          *)
Fifo == INSTANCE LossyFifo WITH accepted <- accepted, last <- last

ImplementsFifo == Fifo!Spec

(* What is in the buffer is sent or given up, as long as the buffer never  *)
(* fills up and done is not closed.                                        *)
BufferIsFlushed ==
    \A n \in 1..MaxEvents :
        n \in Buffered ~> \/ n \notin Buffered
                          \/ stopped
                          \/ \E g \in Callers : pc[g] = "hung"

(* addToBuffer returns (a full buffer is flushed and the call goes on).    *)
CallersReturn == \A g \in Callers : pc[g] = "add" ~> pc[g] = "idle"
=============================================================================
