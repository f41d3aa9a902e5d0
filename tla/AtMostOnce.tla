----------------------------- MODULE AtMostOnce -----------------------------
(***************************************************************************)
(* What a subscription gives its handler: every message of a partition at  *)
(* most once, and those of one partition in the order in which they were   *)
(* sent.  A message may never be delivered.                                *)
(***************************************************************************)
EXTENDS Naturals

CONSTANTS Partitions

VARIABLES sent,       \* messages in each partition
          done,       \* positions delivered, by partition
          deliveries  \* how often the handler was called

Init ==
    /\ sent = [p \in Partitions |-> 0]
    /\ done = [p \in Partitions |-> {}]
    /\ deliveries = 0

Send(p) ==
    /\ \E n \in {1, 2} : sent' = [sent EXCEPT ![p] = @ + n]
    /\ UNCHANGED <<done, deliveries>>

Deliver(p, k) ==
    /\ \A j \in done[p] : j < k
    /\ done' = [done EXCEPT ![p] = @ \cup {k}]
    /\ deliveries' = deliveries + 1
    /\ UNCHANGED sent

Next == \E p \in Partitions : Send(p) \/ \E k \in 1..sent[p] : Deliver(p, k)

Spec == Init /\ [][Next]_<<sent, done, deliveries>>
=============================================================================
