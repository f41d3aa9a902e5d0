----------------------------- MODULE WeakStore -----------------------------
(***************************************************************************)
(* What the storage layer promises to a reader: it is told nothing, or a   *)
(* value that a store took under that name before, never one whose save    *)
(* failed.  Nothing is promised about how recent the value is, nor that    *)
(* the master keeps every value it took; that readers come to see what the *)
(* master holds is ReadersConverge of Consumer.                            *)
(***************************************************************************)
CONSTANTS Items,   \* names of the stored things
          None     \* the answer "not found"

VARIABLES stored,  \* the values that were ever taken, by item
          view     \* what a reader is told, by item

Told == \A i \in Items : view[i] \in stored[i] \cup {None}

Init == Told

(* A writer adds values; what a reader is told changes to one of them.     *)
Next ==
    /\ \A i \in Items : stored[i] \subseteq stored'[i]
    /\ Told'

Spec == Init /\ [][Next]_<<stored, view>>
=============================================================================
