----------------------------- MODULE LossyFifo -----------------------------
(***************************************************************************)
(* What the receiver of batched notifications may rely on: batches of      *)
(* consecutive events in the order in which the events were accepted.  A   *)
(* batch may be missing, and a batch may come again until the next one     *)
(* comes, but never after it.                                              *)
(***************************************************************************)
EXTENDS Naturals

VARIABLES accepted,  \* number of events accepted
          last       \* first and last event of the batch that came last

Init == accepted = 0 /\ last = <<0, 0>>

Accept == accepted' = accepted + 1 /\ UNCHANGED last

(* Another copy of the last batch changes nothing.                         *)
Arrive(lo, hi) ==
    /\ last[2] < lo
    /\ lo <= hi
    /\ last' = <<lo, hi>>
    /\ UNCHANGED accepted

Next == Accept \/ \E lo, hi \in 1..accepted : Arrive(lo, hi)

Spec == Init /\ [][Next]_<<accepted, last>>
=============================================================================
