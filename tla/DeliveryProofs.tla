--------------------------- MODULE DeliveryProofs ---------------------------
(***************************************************************************)
(* Proofs about Delivery, for any partitions, goroutines, batch size and   *)
(* number of retries: the subscription implements an at-most-once channel, *)
(* the batches reach the receiver in order, and a reorg event is never     *)
(* sent before the events that came before it.                             *)
(***************************************************************************)
EXTENDS Delivery, TLAPS

-----------------------------------------------------------------------------
(* The subscription.                                                       *)

(* Everything that was delivered lies at or below the committed offset,    *)
(* and the reader never goes on below it.                                  *)
KInv ==
    /\ sent \in [Partitions -> Nat]
    /\ position \in [Partitions -> Nat]
    /\ committed \in [Partitions -> Nat]
    /\ done \in [Partitions -> SUBSET Nat]
    /\ deliveries \in Nat
    /\ known \subseteq Partitions
    /\ \A p \in Partitions : /\ committed[p] <= position[p]
                             /\ \A k \in done[p] : k <= committed[p]
                             /\ p \notin known => done[p] = {} /\ committed[p] = 0

LEMMA KInvInit == KInit => KInv
BY DEF KInit, KInv

(* The actions of the subscription and the producer keep the invariant.    *)
LEMMA KInvStep ==
    ASSUME KInv,
           \/ \E p \in Partitions : \/ \E n \in {1, 2} : SendMessage(p, n)
                                    \/ ReadMessage(p)
                                    \/ SkipMessage(p)
           \/ Subscribe \/ Handled \/ Leave
           \/ UNCHANGED kvars
    PROVE  KInv'
<1> USE DEF KInv
<1>1. ASSUME NEW p \in Partitions, NEW n \in {1, 2}, SendMessage(p, n) PROVE KInv'
  BY <1>1, KafkaAssumption DEF SendMessage
<1>2. ASSUME NEW p \in Partitions, ReadMessage(p) PROVE KInv'
  BY <1>2 DEF ReadMessage, Fetch, CommitOffset, Hand
<1>3. ASSUME NEW p \in Partitions, SkipMessage(p) PROVE KInv'
  BY <1>3 DEF SkipMessage, Fetch, CommitOffset
<1>4. CASE Subscribe
  BY <1>4 DEF Subscribe, StartOffset
<1>5. CASE Handled
  BY <1>5 DEF Handled
<1>6. CASE Leave
  BY <1>6 DEF Leave
<1>7. CASE UNCHANGED kvars
  BY <1>7 DEF kvars
<1> QED
  BY <1>1, <1>2, <1>3, <1>4, <1>5, <1>6, <1>7

(* Every step of Delivery is one of them, for the queue.                   *)
LEMMA QueueStep ==
    ASSUME [Next]_vars
    PROVE  \/ \E p \in Partitions : \/ \E n \in {1, 2} : SendMessage(p, n)
                                    \/ ReadMessage(p)
                                    \/ SkipMessage(p)
           \/ Subscribe \/ Handled \/ Leave
           \/ UNCHANGED kvars
BY DEF Next, vars, Queue, Hook, Receive, HandlerReturns, SubscriptionEnds, ProcessDies

LEMMA QueueInvariance == Spec => []KInv
<1>1. Init => KInv
  BY KInvInit DEF Init
<1>2. KInv /\ [Next]_vars => KInv'
  BY KInvStep, QueueStep
<1> QED
  BY <1>1, <1>2, PTL DEF Spec

(* A step of the queue is a step of the channel, or hidden from it.        *)
LEMMA QueueRefines ==
    ASSUME KInv, [Next]_vars
    PROVE  [Channel!Next]_<<sent, done, deliveries>>
<1> USE DEF KInv
<1>1. ASSUME NEW p \in Partitions, NEW n \in {1, 2}, SendMessage(p, n)
      PROVE  Channel!Next
  BY <1>1 DEF SendMessage, Channel!Next, Channel!Send
<1>2. ASSUME NEW p \in Partitions, ReadMessage(p)
      PROVE  Channel!Next
  <2>1. position[p] + 1 \in 1..sent[p]
    BY <1>2 DEF ReadMessage, Fetch
  <2>2. \A j \in done[p] : j < position[p] + 1
    BY <1>2
  <2>3. Channel!Deliver(p, position[p] + 1)
    BY <1>2, <2>2 DEF ReadMessage, Hand, Channel!Deliver
  <2> QED
    BY <2>1, <2>3 DEF Channel!Next
<1>3. ASSUME NEW p \in Partitions, SkipMessage(p)
      PROVE  UNCHANGED <<sent, done, deliveries>>
  BY <1>3 DEF SkipMessage
<1>4. Subscribe \/ Handled \/ Leave \/ UNCHANGED kvars => UNCHANGED <<sent, done, deliveries>>
  BY DEF Subscribe, Handled, Leave, kvars
<1> QED
  BY <1>1, <1>2, <1>3, <1>4, QueueStep

(* The subscription of kafka.go gives every message to its handler at most *)
(* once and in the order of the partition, whatever commits are lost and   *)
(* however often the process dies or the group is rebalanced.              *)
THEOREM DeliversAtMostOnce == Spec => ImplementsAtMostOnce
<1>1. Init => Channel!Init
  BY DEF Init, KInit, Channel!Init
<1>2. KInv /\ [Next]_vars => [Channel!Next]_<<sent, done, deliveries>>
  BY QueueRefines
<1> QED
  BY <1>1, <1>2, QueueInvariance, PTL DEF Spec, ImplementsAtMostOnce, Channel!Spec

-----------------------------------------------------------------------------
(* The webhook handler.                                                    *)

(* The last event that is no longer in the buffer.                         *)
Taken == accepted - Len(buffer)

(* Types that WTypeOK leaves out.                                          *)
WTypes ==
    /\ accepted \in Nat
    /\ buffer \in Seq(1..accepted)
    /\ mu \in Goroutines \cup {Nobody}
    /\ pc \in [Goroutines -> {"idle", "add", "hung", "flush", "send", "reorg", "ended"}]
    /\ then \in [Goroutines -> {"idle", "reorg"}]
    /\ out \in [Goroutines -> Nat \X Nat]
    /\ tries \in [Goroutines -> 0..RetryCount + 1]
    /\ last \in Nat \X Nat
    /\ past \in [Goroutines -> SUBSET Nat]

(* The buffer holds the events accepted last, without a gap.               *)
BufferIsRun ==
    /\ Len(buffer) <= accepted
    /\ \A i \in 1..Len(buffer) : buffer[i] = Taken + i

(* Who sends or hangs holds the mutex, and only they fill more than a      *)
(* batch.                                                                  *)
Holders ==
    /\ \A g \in Goroutines : pc[g] \in {"send", "hung"} => mu = g
    /\ \A g \in Goroutines : pc[g] # "send" => out[g] = NoBatch
    /\ Len(buffer) < BatchSize \/ (mu \in Goroutines /\ pc[mu] = "hung")

(* A batch on its way is later than the last one received, or that one,    *)
(* and earlier than the buffer.                                            *)
BatchesInOrder ==
    /\ last[2] <= Taken
    /\ \A g \in Goroutines :
          pc[g] = "send" => /\ 1 <= out[g][1]
                            /\ out[g][1] <= out[g][2]
                            /\ out[g][2] <= Taken
                            /\ last = out[g] \/ last[2] < out[g][1]

(* The events before a call of SendReorgEvent have left the buffer when    *)
(* its flush sends, and are before every batch on its way once the reorg   *)
(* event is sent.                                                          *)
PastIsTaken ==
    \A g \in Goroutines : \A x \in past[g] :
        /\ x <= accepted
        /\ pc[g] = "reorg" \/ (pc[g] = "send" /\ then[g] = "reorg") => x <= Taken
        /\ pc[g] = "reorg" =>
              \A k \in Goroutines : pc[k] = "send" => x < out[k][1]

WInv == WTypes /\ BufferIsRun /\ Holders /\ BatchesInOrder /\ PastIsTaken

LEMMA WInvInit == WInit => WInv
<1> SUFFICES ASSUME WInit PROVE WInv
  OBVIOUS
<1> USE WebhookAssumption DEF WInit, NoBatch
<1>1. WTypes
  BY DEF WTypes
<1>2. BufferIsRun /\ Holders
  BY DEF BufferIsRun, Holders, Taken
<1>3. BatchesInOrder /\ PastIsTaken
  BY DEF BatchesInOrder, PastIsTaken, Taken
<1> QED
  BY <1>1, <1>2, <1>3 DEF WInv

(* A step that leaves buffer, batches and mutex alone and moves goroutine  *)
(* g, which is not sending, to a label where it does not send either.      *)
LEMMA MoveKeepsInv ==
    ASSUME WInv, NEW g \in Goroutines,
           pc[g] \notin {"send", "hung", "reorg"},
           NEW l \in {"idle", "add", "flush", "ended"}, pc' = [pc EXCEPT ![g] = l],
           NEW m \in {"idle", "reorg"},
           then' = then \/ then' = [then EXCEPT ![g] = m],
           past' = past \/ past' = [past EXCEPT ![g] = 1..accepted],
           UNCHANGED <<buffer, accepted, mu, out, tries, last>>
    PROVE  WInv'
<1> USE DEF WInv
<1>1. WTypes'
  <2>1. past' \in [Goroutines -> SUBSET Nat]
    <3>1. 1..accepted \in SUBSET Nat
      BY DEF WTypes
    <3> QED
      BY <3>1 DEF WTypes
  <2>2. pc' \in [Goroutines -> {"idle", "add", "hung", "flush", "send", "reorg", "ended"}]
    BY DEF WTypes
  <2>3. then' \in [Goroutines -> {"idle", "reorg"}]
    BY DEF WTypes
  <2> QED
    BY <2>1, <2>2, <2>3 DEF WTypes
<1>2. BufferIsRun' /\ Holders'
  BY DEF BufferIsRun, Holders, Taken, WTypes
<1>3. BatchesInOrder'
  BY DEF BatchesInOrder, Taken, WTypes
<1>4. PastIsTaken'
  BY DEF PastIsTaken, Taken, WTypes
<1> QED
  BY <1>1, <1>2, <1>3, <1>4

(* Nobody sends while the mutex is free.                                   *)
LEMMA FreeMutex ==
    ASSUME WInv, mu = Nobody
    PROVE  \A g \in Goroutines : pc[g] \notin {"send", "hung"} /\ out[g] = NoBatch
BY WebhookAssumption DEF WInv, Holders, Goroutines

LEMMA AddToBufferKeepsInv ==
    ASSUME WInv, NEW g \in Goroutines, AddToBuffer(g)
    PROVE  WInv'
<1> USE DEF WInv, AddToBuffer, Goto
<1>1. /\ Len(buffer') = Len(buffer) + 1
      /\ \A i \in 1..Len(buffer) : buffer'[i] = buffer[i]
      /\ buffer'[Len(buffer) + 1] = accepted + 1
      /\ buffer' \in Seq(1..accepted')
      /\ Len(buffer) \in Nat
  BY DEF WTypes
<1> DEFINE full == Len(buffer) + 1 >= BatchSize
<1>2. /\ full => mu' = g /\ pc' = [pc EXCEPT ![g] = "hung"]
      /\ ~full => mu' = Nobody /\ pc' = [pc EXCEPT ![g] = "idle"]
  OBVIOUS
<1>8. WTypes'
  <2>1. accepted' \in Nat
    BY DEF WTypes
  <2>2. mu' \in Goroutines \cup {Nobody}
    BY <1>2
  <2>3. pc' \in [Goroutines -> {"idle", "add", "hung", "flush", "send", "reorg", "ended"}]
    BY <1>2 DEF WTypes
  <2> QED
    BY <1>1, <2>1, <2>2, <2>3 DEF WTypes
<1>3. Taken' = Taken /\ Taken + Len(buffer) = accepted /\ Taken \in Nat
  BY <1>1 DEF Taken, WTypes, BufferIsRun
<1>4. BufferIsRun'
  <2>1. Len(buffer') <= accepted'
    BY <1>1 DEF BufferIsRun, WTypes
  <2>2. ASSUME NEW i \in 1..Len(buffer') PROVE buffer'[i] = Taken + i
    <3>1. CASE i \in 1..Len(buffer)
      BY <1>1, <3>1 DEF BufferIsRun
    <3>2. CASE i = Len(buffer) + 1
      <4>1. Taken + (Len(buffer) + 1) = accepted + 1
        BY <1>1, <1>3
      <4> QED
        BY <1>1, <3>2, <4>1
    <3> QED
      BY <1>1, <3>1, <3>2
  <2> QED
    BY <1>3, <2>1, <2>2 DEF BufferIsRun
<1>5. Holders'
  <2>1. \A k \in Goroutines : pc[k] \notin {"send", "hung"} /\ out[k] = NoBatch
    BY FreeMutex
  <2>2. CASE full
    BY <1>2, <2>1, <2>2 DEF Holders, WTypes
  <2>3. CASE ~full
    BY <1>1, <1>2, <2>1, <2>3, WebhookAssumption DEF Holders, WTypes
  <2> QED
    BY <2>2, <2>3
<1>6. BatchesInOrder'
  BY <1>3 DEF BatchesInOrder, WTypes
<1>7. PastIsTaken'
  <2>1. \A k \in Goroutines : /\ pc'[k] = "send" => pc[k] = "send"
                              /\ pc'[k] = "reorg" => pc[k] = "reorg"
    BY <1>2 DEF WTypes
  <2>2. \A k \in Goroutines : \A x \in past[k] : x <= accepted + 1
    BY DEF PastIsTaken, WTypes
  <2> QED
    BY <1>3, <2>1, <2>2 DEF PastIsTaken
<1> QED
  BY <1>8, <1>4, <1>5, <1>6, <1>7

LEMMA FlushEmptyKeepsInv ==
    ASSUME WInv, NEW g \in Goroutines, FlushEmpty(g)
    PROVE  WInv'
<1> USE DEF WInv, FlushEmpty, AfterFlush, Goto
<1>0. \A k \in Goroutines : pc[k] \notin {"send", "hung"} /\ out[k] = NoBatch
  BY FreeMutex
<1>1. WTypes'
  BY WebhookAssumption DEF WTypes
<1>2. BufferIsRun'
  BY DEF BufferIsRun, Taken
<1>3. Holders'
  BY <1>0, WebhookAssumption DEF Holders, WTypes
<1>4. BatchesInOrder'
  BY <1>0 DEF BatchesInOrder, Taken, WTypes
<1>5. Taken = accepted /\ Taken' = accepted
  BY DEF Taken, WTypes
<1>6. PastIsTaken'
  BY <1>0, <1>5 DEF PastIsTaken, WTypes
<1> QED
  BY <1>1, <1>2, <1>3, <1>4, <1>6

LEMMA FlushKeepsInv ==
    ASSUME WInv, NEW g \in Goroutines, Flush(g)
    PROVE  WInv'
<1> USE DEF WInv, Flush, HeldWhileSending, Goto
<1>0. \A k \in Goroutines : pc[k] \notin {"send", "hung"} /\ out[k] = NoBatch
  BY FreeMutex
<1>1. Len(buffer) \in Nat \ {0} /\ Len(buffer') = 0
  BY DEF WTypes
<1>2. Taken \in Nat /\ Taken < accepted /\ Taken' = accepted
  BY <1>1 DEF Taken, WTypes, BufferIsRun
<1>3. buffer[1] = Taken + 1 /\ buffer[Len(buffer)] = accepted
  BY <1>1, <1>2 DEF BufferIsRun, Taken, WTypes
<1>4. out'[g] = <<Taken + 1, accepted>>
  BY <1>3 DEF WTypes
<1>5. WTypes'
  BY <1>2, <1>3, WebhookAssumption DEF WTypes
<1>6. BufferIsRun'
  BY <1>1 DEF BufferIsRun, WTypes
<1>7. Holders'
  BY <1>0, <1>1, WebhookAssumption DEF Holders, WTypes
<1>8. BatchesInOrder'
  BY <1>0, <1>2, <1>4 DEF BatchesInOrder, WTypes
<1>9. PastIsTaken'
  BY <1>0, <1>2, <1>4 DEF PastIsTaken, WTypes
<1> QED
  BY <1>5, <1>6, <1>7, <1>8, <1>9

(* Who sends is alone in it.                                               *)
LEMMA OneSender ==
    ASSUME WInv, NEW g \in Goroutines, pc[g] = "send"
    PROVE  /\ mu = g
           /\ \A k \in Goroutines : k # g => pc[k] \notin {"send", "hung"} /\ out[k] = NoBatch
           /\ Len(buffer) < BatchSize
BY DEF WInv, Holders

(* The end of a flush, whether the batch arrived or not.                   *)
LEMMA EndFlushKeepsInv ==
    ASSUME WInv, NEW g \in Goroutines, pc[g] = "send", NEW ok \in BOOLEAN,
           EndFlush(g, ok), Transmit(g),
           UNCHANGED <<buffer, accepted, past>>
    PROVE  WInv'
<1> USE DEF WInv
<1> DEFINE l == IF ok THEN then[g] ELSE "idle"
<1>0. /\ mu = g
      /\ \A k \in Goroutines : k # g => pc[k] \notin {"send", "hung"} /\ out[k] = NoBatch
      /\ Len(buffer) < BatchSize
  BY OneSender
<1>1. /\ mu' = Nobody
      /\ out' = [out EXCEPT ![g] = NoBatch]
      /\ pc' = [pc EXCEPT ![g] = l]
      /\ then' = [then EXCEPT ![g] = "idle"]
      /\ tries' \in [Goroutines -> 0..RetryCount + 1]
      /\ l \in {"idle", "reorg"}
      /\ l = "reorg" => then[g] = "reorg"
  BY <1>0, WebhookAssumption DEF EndFlush, AfterFlush, Goto, WTypes
<1>2. Taken' = Taken
  BY DEF Taken
<1>3. last' = last \/ last' = out[g]
  BY DEF Transmit
<1> HIDE DEF l
<1>4. WTypes'
  BY <1>1, <1>3 DEF WTypes, NoBatch
<1>5. BufferIsRun'
  BY <1>2 DEF BufferIsRun
<1>6. Holders'
  BY <1>0, <1>1 DEF Holders, WTypes
<1>7. BatchesInOrder'
  BY <1>0, <1>1, <1>2, <1>3 DEF BatchesInOrder, WTypes
<1>8. PastIsTaken'
  BY <1>0, <1>1, <1>2 DEF PastIsTaken, WTypes
<1> QED
  BY <1>4, <1>5, <1>6, <1>7, <1>8

LEMMA SendRequestFailsKeepsInv ==
    ASSUME WInv, NEW g \in Goroutines, SendRequestFails(g)
    PROVE  WInv'
<1> USE DEF WInv, SendRequestFails
<1>0. /\ mu = g
      /\ \A k \in Goroutines : k # g => pc[k] \notin {"send", "hung"} /\ out[k] = NoBatch
  BY OneSender
<1>1. last' = last \/ last' = out[g]
  BY DEF Transmit
<1>2. WTypes'
  BY <1>1, WebhookAssumption DEF WTypes
<1>3. BufferIsRun' /\ Holders'
  BY DEF BufferIsRun, Holders, Taken
<1>4. BatchesInOrder'
  BY <1>0, <1>1 DEF BatchesInOrder, WTypes, Taken
<1>5. PastIsTaken'
  BY DEF PastIsTaken, Taken
<1> QED
  BY <1>2, <1>3, <1>4, <1>5

LEMMA SendReorgRequestKeepsInv ==
    ASSUME WInv, NEW g \in Goroutines, SendReorgRequest(g)
    PROVE  WInv'
<1> USE DEF WInv, SendReorgRequest, Goto
<1>1. tries' \in [Goroutines -> 0..RetryCount + 1]
  <2>1. CASE tries' = [tries EXCEPT ![g] = 0]
    BY <2>1, WebhookAssumption DEF WTypes
  <2>2. CASE tries[g] > 1 /\ tries' = [tries EXCEPT ![g] = @ - 1]
    <3>1. tries[g] - 1 \in 0..RetryCount + 1
      BY <2>2, WebhookAssumption DEF WTypes
    <3> QED
      BY <2>2, <3>1 DEF WTypes
  <2> QED
    BY <2>1, <2>2
<1>2. pc' = pc \/ pc' = [pc EXCEPT ![g] = "idle"]
  OBVIOUS
<1>3. past' = past \/ past' = [past EXCEPT ![g] = {}]
  BY DEF WTypes
<1>4. WTypes'
  BY <1>1, <1>2, <1>3 DEF WTypes
<1>5. BufferIsRun' /\ Holders'
  BY <1>2 DEF BufferIsRun, Holders, Taken, WTypes
<1>6. BatchesInOrder'
  BY <1>2 DEF BatchesInOrder, WTypes, Taken
<1>7. PastIsTaken'
  BY <1>2, <1>3 DEF PastIsTaken, Taken, WTypes
<1> QED
  BY <1>4, <1>5, <1>6, <1>7

LEMMA RestartKeepsInv ==
    ASSUME WInv, Restart
    PROVE  WInv'
<1> USE WebhookAssumption DEF WInv, Restart, NoBatch
<1>1. WTypes'
  BY DEF WTypes
<1>2. BufferIsRun' /\ Holders'
  BY DEF BufferIsRun, Holders, Taken, WTypes
<1>3. BatchesInOrder' /\ PastIsTaken'
  BY DEF BatchesInOrder, PastIsTaken, Taken, WTypes, BufferIsRun
<1> QED
  BY <1>1, <1>2, <1>3

(* What a step of Delivery is for the webhook handler.                     *)
LEMMA HookStep ==
    ASSUME [Next]_vars
    PROVE  \/ Send(Reader) \/ Restart \/ Tick \/ FlushLoopEnds
           \/ \E g \in Callers : SendReorgEvent(g) \/ Stop(g)
           \/ \E g \in Goroutines : GoOn(g)
           \/ UNCHANGED wvars
BY DEF Next, vars, Queue, Hook, Receive, HandlerReturns, SubscriptionEnds, ProcessDies, Others

LEMMA WInvStep ==
    ASSUME WInv, [Next]_vars
    PROVE  WInv'
<1>0. Reader \in Goroutines /\ Flusher \in Goroutines /\ Callers \subseteq Goroutines
  BY DeliveryAssumption DEF Goroutines
<1>1. CASE Send(Reader)
  <2>1. pc[Reader] = "idle" /\ pc' = [pc EXCEPT ![Reader] = "add"]
    BY <1>1 DEF Send, Goto
  <2> QED
    BY <1>0, <1>1, <2>1, MoveKeepsInv DEF Send
<1>2. CASE Restart
  BY <1>2, RestartKeepsInv
<1>3. CASE Tick
  <2>1. /\ pc[Flusher] = "idle" /\ pc' = [pc EXCEPT ![Flusher] = "flush"]
        /\ then' = [then EXCEPT ![Flusher] = "idle"]
    BY <1>3 DEF Tick, EnterFlush, Goto
  <2> QED
    BY <1>0, <1>3, <2>1, MoveKeepsInv DEF Tick
<1>4. CASE FlushLoopEnds
  <2>1. pc[Flusher] = "idle" /\ pc' = [pc EXCEPT ![Flusher] = "ended"]
    BY <1>4 DEF FlushLoopEnds, Goto
  <2> QED
    BY <1>0, <1>4, <2>1, MoveKeepsInv DEF FlushLoopEnds
<1>5. ASSUME NEW g \in Callers, SendReorgEvent(g) PROVE WInv'
  <2>1. /\ pc[g] = "idle" /\ pc' = [pc EXCEPT ![g] = "flush"]
        /\ then' = [then EXCEPT ![g] = "reorg"]
        /\ past' = [past EXCEPT ![g] = 1..accepted]
    BY <1>5 DEF SendReorgEvent, EnterFlush, Goto
  <2> QED
    BY <1>0, <1>5, <2>1, MoveKeepsInv DEF SendReorgEvent
<1>6. ASSUME NEW g \in Callers, Stop(g) PROVE WInv'
  <2>1. CASE ~stopped
    <3>1. /\ pc[g] = "idle" /\ pc' = [pc EXCEPT ![g] = "flush"]
          /\ then' = [then EXCEPT ![g] = "idle"]
      BY <1>6, <2>1 DEF Stop, EnterFlush, Goto
    <3> QED
      BY <1>0, <1>6, <3>1, MoveKeepsInv DEF Stop
  <2>2. CASE stopped
    BY <1>6, <2>2
    DEF Stop, WInv, WTypes, BufferIsRun, Holders, BatchesInOrder, PastIsTaken, Taken
  <2> QED
    BY <2>1, <2>2
<1>7. ASSUME NEW g \in Goroutines, GoOn(g) PROVE WInv'
  <2>1. ASSUME SendRequestOK(g) PROVE WInv'
    <3>1. pc[g] = "send" /\ EndFlush(g, TRUE) /\ Transmit(g)
      BY <2>1 DEF SendRequestOK, Transmit
    <3> QED
      BY <2>1, <3>1, EndFlushKeepsInv DEF SendRequestOK
  <2>2. ASSUME SendWithRetryFails(g) PROVE WInv'
    BY <2>2, EndFlushKeepsInv DEF SendWithRetryFails
  <2> QED
    BY <1>7, <2>1, <2>2, AddToBufferKeepsInv, FlushEmptyKeepsInv, FlushKeepsInv,
       SendRequestFailsKeepsInv, SendReorgRequestKeepsInv DEF GoOn
<1>8. CASE UNCHANGED wvars
  BY <1>8
  DEF wvars, WInv, WTypes, BufferIsRun, Holders, BatchesInOrder, PastIsTaken, Taken
<1> QED
  BY <1>1, <1>2, <1>3, <1>4, <1>5, <1>6, <1>7, <1>8, HookStep

LEMMA HookInvariance == Spec => []WInv
<1>1. Init => WInv
  BY WInvInit DEF Init
<1>2. WInv /\ [Next]_vars => WInv'
  BY WInvStep
<1> QED
  BY <1>1, <1>2, PTL DEF Spec

(* Type correctness of the webhook handler: only the goroutine with the    *)
(* mutex sends a batch, and the buffer is full only when its filler hangs. *)
THEOREM WebhookTypeCorrect == Spec => []WTypeOK
<1>1. WInv => WTypeOK
  BY DEF WInv, WTypes, Holders, WTypeOK
<1> QED
  BY <1>1, HookInvariance, PTL

(* SendReorgEvent never overtakes an event accepted before it: neither the *)
(* buffer nor a batch on its way holds one when the reorg event is sent.   *)
THEOREM ReorgNeverOvertakes == Spec => []ReorgAfterItsPast
<1>1. ASSUME WInv PROVE ReorgAfterItsPast
  <2>1. SUFFICES ASSUME NEW g \in Goroutines, pc[g] = "reorg", NEW x \in past[g]
                 PROVE  /\ x \notin Buffered
                        /\ \A k \in Goroutines : x \notin Sending(k)
    BY DEF ReorgAfterItsPast, Goroutines
  <2>2. x \in Nat /\ x <= Taken
    BY <1>1, <2>1 DEF WInv, WTypes, PastIsTaken
  <2>3. x \notin Buffered
    <3> SUFFICES ASSUME NEW i \in 1..Len(buffer) PROVE x # buffer[i]
      BY DEF Buffered
    <3>1. buffer[i] = Taken + i /\ Taken \in Nat /\ i > 0
      BY <1>1 DEF WInv, BufferIsRun, Taken, WTypes
    <3> QED
      BY <2>2, <3>1
  <2>4. ASSUME NEW k \in Goroutines PROVE x \notin Sending(k)
    <3>1. CASE pc[k] = "send"
      BY <1>1, <2>1, <2>2, <3>1 DEF WInv, PastIsTaken, Sending, WTypes
    <3>2. CASE pc[k] # "send"
      BY <1>1, <3>2 DEF WInv, Holders, Sending
    <3> QED
      BY <3>1, <3>2
  <2> QED
    BY <2>3, <2>4
<1> QED
  BY <1>1, HookInvariance, PTL

(* Only these steps change what LossyFifo sees.                            *)
LEMMA HookRefines ==
    ASSUME WInv, [Next]_vars
    PROVE  [Fifo!Next]_<<accepted, last>>
<1>1. ASSUME NEW g \in Goroutines, AddToBuffer(g) PROVE Fifo!Next
  BY <1>1 DEF AddToBuffer, Fifo!Next, Fifo!Accept
<1>2. ASSUME NEW g \in Goroutines, pc[g] = "send", last' = out[g], UNCHANGED accepted
      PROVE  [Fifo!Next]_<<accepted, last>>
  <2>1. CASE last = out[g]
    BY <1>2, <2>1
  <2>2. CASE last[2] < out[g][1]
    <3>1. out[g] = <<out[g][1], out[g][2]>>
      BY DEF WInv, WTypes
    <3>2. /\ out[g][1] \in 1..accepted
          /\ out[g][2] \in 1..accepted
          /\ out[g][1] <= out[g][2]
      BY <1>2 DEF WInv, WTypes, BatchesInOrder, BufferIsRun, Taken
    <3> QED
      BY <1>2, <2>2, <3>1, <3>2 DEF Fifo!Next, Fifo!Arrive
  <2> QED
    BY <1>2, <2>1, <2>2 DEF WInv, BatchesInOrder
<1>3. ASSUME NEW g \in Goroutines, GoOn(g) PROVE [Fifo!Next]_<<accepted, last>>
  BY <1>1, <1>2, <1>3
  DEF GoOn, FlushEmpty, Flush, SendRequestOK, SendRequestFails, SendWithRetryFails,
      SendReorgRequest, Transmit
<1>4. CASE \/ Send(Reader) \/ Restart \/ Tick \/ FlushLoopEnds
           \/ \E g \in Callers : SendReorgEvent(g) \/ Stop(g)
           \/ UNCHANGED wvars
  BY <1>4 DEF Send, Restart, Tick, FlushLoopEnds, SendReorgEvent, Stop, wvars
<1> QED
  BY <1>3, <1>4, HookStep

(* BatchWebhookHandler implements the lossy queue: batches arrive in the   *)
(* order of their events, and only the last one may come again.            *)
THEOREM BatchesArriveInOrder == Spec => ImplementsFifo
<1>1. Init => Fifo!Init
  BY DEF Init, WInit, NoBatch, Fifo!Init
<1>2. WInv /\ [Next]_vars => [Fifo!Next]_<<accepted, last>>
  BY HookRefines
<1> QED
  BY <1>1, <1>2, HookInvariance, PTL DEF Spec, ImplementsFifo, Fifo!Spec
=============================================================================
