------------------------------ MODULE Delivery ------------------------------
(***************************************************************************)
(* From the queue to the receiver of the notifications: the loop of        *)
(* SubscribeNormalizedTransactions calls SendTransaction of a              *)
(* BatchWebhookHandler as its handler and reads the next message when it   *)
(* has returned; another goroutine of the process reports reorgs and       *)
(* stops the handler.  The process may die at any time and start again.    *)
(***************************************************************************)
EXTENDS KafkaTopic, BatchWebhook

CONSTANTS Reader,      \* the goroutine of the subscription
          MaxRestarts  \* bound on the restarts of the process

ASSUME DeliveryAssumption == Reader \in Callers /\ MaxRestarts \in Nat

VARIABLES restarts

vars == <<kvars, wvars, restarts>>

Init == KInit /\ WInit /\ restarts = 0

Queue(A) == A /\ UNCHANGED <<wvars, restarts>>

Hook(A) == A /\ UNCHANGED <<kvars, restarts>>

(* The loop hands the message to SendTransaction.                          *)
Receive(p) ==
    /\ ReadMessage(p)
    /\ Send(Reader)
    /\ UNCHANGED restarts

(* The handler has returned.                                               *)
HandlerReturns ==
    /\ pc[Reader] = "idle"
    /\ Queue(Handled)

(* The context of the subscription is cancelled; the loop notices between  *)
(* two messages.                                                           *)
SubscriptionEnds ==
    /\ reading
    /\ inHand = NoMessage
    /\ Queue(Leave)

(* At any time, whatever the goroutines are doing; also the end of a       *)
(* panic.                                                                  *)
ProcessDies ==
    /\ restarts < MaxRestarts
    /\ restarts' = restarts + 1
    /\ Leave
    /\ Restart

Others == Callers \ {Reader}

Next ==
    \/ \E p \in Partitions, n \in {1, 2} : Queue(SendMessage(p, n))
    \/ ProcessDies
    \/ /\ ~panicked
       /\ \/ \E p \in Partitions : Receive(p) \/ Queue(SkipMessage(p))
          \/ Queue(Subscribe)
          \/ HandlerReturns
          \/ SubscriptionEnds
          \/ \E g \in Goroutines : Hook(GoOn(g))
          \/ \E g \in Others : Hook(SendReorgEvent(g)) \/ Hook(Stop(g))
          \/ Hook(Tick) \/ Hook(FlushLoopEnds)

Spec == Init /\ [][Next]_vars

(* Goroutines that wait for the mutex get it in turn, since a Go mutex     *)
(* does not starve them; the ticker of the loop fires.                     *)
FairSpec ==
    /\ Spec
    /\ \A g \in Goroutines : SF_vars(~panicked /\ Hook(GoOn(g)))
    /\ WF_vars(~panicked /\ Hook(Tick))

=============================================================================
