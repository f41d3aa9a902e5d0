-------------------------- MODULE WatermarkRegister --------------------------
(***************************************************************************)
(* What a WatermarkManager (internal/scheduler/watermark.go) promises its  *)
(* callers: one watermark per chain that every operation reads and writes  *)
(* atomically.  The manager itself, with its two locks and its copy-and-   *)
(* store of an immutable record, is module WatermarkManager, which         *)
(* implements this one; the scanner and the reorg modules use it as it is  *)
(* given here.                                                             *)
(***************************************************************************)
EXTENDS Naturals

CONSTANTS Heights,   \* block heights callers pass in
          Depth      \* WatermarkConfig.ReorgDetectionDepth

ASSUME RegisterAssumption ==
    /\ Heights \subseteq Nat
    /\ 0 \in Heights
    /\ Depth \in Nat

VARIABLE wm

Watermarks == [scanned: Heights, confirmed: Heights,
               finalized: Heights, boundary: Nat]

(* NewWatermarkManager: all heights 0; loadWatermark restores nothing.     *)
InitialWatermark ==
    [scanned |-> 0, confirmed |-> 0, finalized |-> 0, boundary |-> 0]

(* Mutant of BoundaryOf: the subtraction without the clip at 0.            *)
BoundaryUnclipped(h) == h - Depth

(* max(0, height - ReorgDetectionDepth), computed in int64.                *)
BoundaryOf(h) == IF h > Depth THEN h - Depth ELSE 0

(* The watermark each operation stores, given the current one.             *)
AfterScanned(w, h)   == [w EXCEPT !.scanned = h, !.boundary = BoundaryOf(h)]
AfterConfirmed(w, h) == [w EXCEPT !.confirmed = h,
                                  !.boundary = BoundaryOf(w.scanned)]
AfterFinalized(w, h) == [w EXCEPT !.finalized = h]
AfterReset(w, h)     == [w EXCEPT !.scanned = h]

Init == wm = InitialWatermark

Scan(h)     == h > wm.scanned   /\ wm' = AfterScanned(wm, h)
Confirm(h)  == h > wm.confirmed /\ wm' = AfterConfirmed(wm, h)
Finalize(h) == h > wm.finalized /\ wm' = AfterFinalized(wm, h)
Reset(h)    == h <= wm.scanned  /\ wm' = AfterReset(wm, h)

Next == \E h \in Heights : Scan(h) \/ Confirm(h) \/ Finalize(h) \/ Reset(h)

Spec == Init /\ [][Next]_wm

=============================================================================
