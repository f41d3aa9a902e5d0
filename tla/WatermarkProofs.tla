--------------------------- MODULE WatermarkProofs ---------------------------
(***************************************************************************)
(* Proofs about WatermarkManager, for any number of goroutines, any set of *)
(* heights and any reorg depth: the critical section of mu is exclusive,   *)
(* no update is lost, and the manager implements WatermarkRegister.        *)
(***************************************************************************)
EXTENDS WatermarkManager, TLAPS

(* The inductive invariant.  To NoLostUpdate it adds the types and that a  *)
(* goroutine about to store has passed the early return of its operation   *)
(* with the watermark it loaded: that is what makes Store one operation of *)
(* the register.                                                           *)
ChecksPassed == \A p \in Procs : pc[p] = "store" => ~ Rejected(p, snap[p])

MInv == MTypeOK /\ NoLostUpdate /\ ChecksPassed

-----------------------------------------------------------------------------

(* The clipped subtraction of the reorg depth is a height.                 *)
LEMMA BoundaryType ==
    ASSUME NEW h \in Nat
    PROVE  BoundaryOf(h) \in Nat
BY RegisterAssumption DEF BoundaryOf

(* Every operation of the register keeps the watermark well formed.        *)
LEMMA AfterType ==
    ASSUME NEW w \in Watermarks, NEW h \in Heights
    PROVE  /\ AfterScanned(w, h) \in Watermarks
           /\ AfterConfirmed(w, h) \in Watermarks
           /\ AfterFinalized(w, h) \in Watermarks
           /\ AfterReset(w, h) \in Watermarks
<1>1. h \in Nat /\ w.scanned \in Nat
  BY RegisterAssumption DEF Watermarks
<1>2. BoundaryOf(h) \in Nat /\ BoundaryOf(w.scanned) \in Nat
  BY <1>1, BoundaryType
<1> QED
  BY <1>2
  DEF Watermarks, AfterScanned, AfterConfirmed, AfterFinalized, AfterReset

LEMMA InitialType == InitialWatermark \in Watermarks
BY RegisterAssumption DEF InitialWatermark, Watermarks

(* What a goroutine stores is well formed.                                 *)
LEMMA StoreNewType ==
    ASSUME MTypeOK, NEW p \in Procs, StoreNew(p)
    PROVE  wm' \in Watermarks
<1> DEFINE h == call[p].height
<1>1. h \in Heights /\ snap[p] \in Watermarks /\ call[p].op \in Ops
  BY DEF MTypeOK
<1>2. /\ AfterScanned(snap[p], h) \in Watermarks
      /\ AfterConfirmed(snap[p], h) \in Watermarks
      /\ AfterFinalized(snap[p], h) \in Watermarks
      /\ AfterReset(snap[p], h) \in Watermarks
  BY <1>1, AfterType
<1> QED
  BY <1>1, <1>2 DEF StoreNew, Ops

-----------------------------------------------------------------------------

LEMMA InvInit == MInit => MInv
<1> SUFFICES ASSUME MInit PROVE MInv
  OBVIOUS
<1>1. MTypeOK
  BY InitialType, RegisterAssumption
  DEF MInit, Init, MTypeOK, States, Ops, NoCall
<1>2. NoLostUpdate /\ ChecksPassed
  BY DEF MInit, NoLostUpdate, ChecksPassed, InCritical
<1> QED
  BY <1>1, <1>2 DEF MInv

(* The types are preserved by every step.                                  *)
LEMMA TypeStep == MTypeOK /\ [MNext]_mvars => MTypeOK'
<1> SUFFICES ASSUME MTypeOK, [MNext]_mvars PROVE MTypeOK'
  OBVIOUS
<1> USE DEF MTypeOK, States, Goto, Return
<1>0. NoCall \in [op: Ops, height: Heights]
  BY RegisterAssumption DEF NoCall, Ops
<1>1. ASSUME NEW p \in Procs, NEW o \in Ops, NEW h \in Heights, Call(p, o, h)
      PROVE  MTypeOK'
  BY <1>1 DEF Call
<1>2. ASSUME NEW p \in Procs, MutexLock(p) PROVE MTypeOK'
  BY <1>2 DEF MutexLock
<1>3. ASSUME NEW p \in Procs, LockOK(p) PROVE MTypeOK'
  BY <1>3 DEF LockOK
<1>4. ASSUME NEW p \in Procs, LockFails(p) PROVE MTypeOK'
  BY <1>0, <1>4 DEF LockFails
<1>5. ASSUME NEW p \in Procs, Load(p) PROVE MTypeOK'
  BY <1>5 DEF Load
<1>6. ASSUME NEW p \in Procs, Store(p) PROVE MTypeOK'
  BY <1>6, StoreNewType, InitialType DEF Store
<1>7. ASSUME NEW p \in Procs, MutexUnlock(p) PROVE MTypeOK'
  BY <1>0, <1>7 DEF MutexUnlock
<1>8. ASSUME NEW p \in Procs, LockRelease(p) PROVE MTypeOK'
  BY <1>0, <1>8 DEF LockRelease
<1>9. CASE KeyExpires
  BY <1>9 DEF KeyExpires
<1>10. CASE TakenElsewhere
  BY <1>10 DEF TakenElsewhere
<1>11. CASE UNCHANGED mvars
  BY <1>11 DEF mvars
<1> QED
  BY <1>1, <1>2, <1>3, <1>4, <1>5, <1>6, <1>7, <1>8, <1>9, <1>10, <1>11
  DEF MNext, Finish

(* The steps of p outside the critical section disturb nobody in it.       *)
LEMMA SectionStep ==
    MInv /\ [MNext]_mvars => NoLostUpdate' /\ ChecksPassed'
<1> SUFFICES ASSUME MInv, [MNext]_mvars
             PROVE  NoLostUpdate' /\ ChecksPassed'
  OBVIOUS
<1> USE DEF MInv, NoLostUpdate, ChecksPassed, InCritical, Rejected,
            Goto, Return
<1>0. MTypeOK
  OBVIOUS
<1>1. ASSUME NEW p \in Procs, NEW o \in Ops, NEW h \in Heights, Call(p, o, h)
      PROVE  NoLostUpdate' /\ ChecksPassed'
  BY <1>0, <1>1 DEF Call, MTypeOK
<1>2. ASSUME NEW p \in Procs, MutexLock(p)
      PROVE  NoLostUpdate' /\ ChecksPassed'
  <2>1. \A q \in Procs : ~ InCritical(q)
    BY <1>2, ManagerAssumption DEF MutexLock
  <2> QED
    BY <1>0, <1>2, <2>1 DEF MutexLock, MTypeOK
<1>3. ASSUME NEW p \in Procs, LockOK(p)
      PROVE  NoLostUpdate' /\ ChecksPassed'
  BY <1>0, <1>3 DEF LockOK, MTypeOK
<1>4. ASSUME NEW p \in Procs, LockFails(p)
      PROVE  NoLostUpdate' /\ ChecksPassed'
  BY <1>0, <1>4 DEF LockFails, MTypeOK
<1>5. ASSUME NEW p \in Procs, Load(p)
      PROVE  NoLostUpdate' /\ ChecksPassed'
  BY <1>0, <1>5 DEF Load, MTypeOK
<1>6. ASSUME NEW p \in Procs, Store(p)
      PROVE  NoLostUpdate' /\ ChecksPassed'
  <2>1. \A q \in Procs : InCritical(q) => q = p
    BY <1>6 DEF Store
  <2> QED
    BY <1>0, <1>6, <2>1 DEF Store, MTypeOK
<1>7. ASSUME NEW p \in Procs, MutexUnlock(p)
      PROVE  NoLostUpdate' /\ ChecksPassed'
  <2>1. \A q \in Procs : InCritical(q) => q = p
    BY <1>7 DEF MutexUnlock
  <2> QED
    BY <1>0, <1>7, <2>1 DEF MutexUnlock, MTypeOK
<1>8. ASSUME NEW p \in Procs, LockRelease(p)
      PROVE  NoLostUpdate' /\ ChecksPassed'
  BY <1>0, <1>8 DEF LockRelease, MTypeOK
<1>9. CASE KeyExpires
  BY <1>9 DEF KeyExpires
<1>10. CASE TakenElsewhere
  BY <1>10 DEF TakenElsewhere
<1>11. CASE UNCHANGED mvars
  BY <1>11 DEF mvars
<1> QED
  BY <1>1, <1>2, <1>3, <1>4, <1>5, <1>6, <1>7, <1>8, <1>9, <1>10, <1>11
  DEF MNext, Finish

LEMMA InvStep == MInv /\ [MNext]_mvars => MInv'
BY TypeStep, SectionStep DEF MInv

(* The inductive invariant holds in every reachable state.                 *)
LEMMA Invariance == MSpec => []MInv
BY InvInit, InvStep, PTL DEF MSpec

-----------------------------------------------------------------------------

(* watermark.go 82-299: the types of the manager's state hold for any      *)
(* number of goroutines.                                                   *)
THEOREM TypeCorrect == MSpec => []MTypeOK
<1>1. MInv => MTypeOK
  BY DEF MInv
<1> QED
  BY <1>1, Invariance, PTL

(* watermark.go 97-98: mu alone makes load-check-store exclusive, whatever *)
(* happens to the Redis lock, so no update overwrites another.             *)
THEOREM UpdatesAreNotLost == MSpec => []NoLostUpdate
<1>1. MInv => NoLostUpdate
  BY DEF MInv
<1> QED
  BY <1>1, Invariance, PTL

(* A step that stores is one operation of the register.                    *)
LEMMA StoreIsOperation ==
    ASSUME MInv, NEW p \in Procs, Store(p)
    PROVE  Next
<1> DEFINE h == call[p].height
<1>1. /\ h \in Heights
      /\ call[p].op \in Ops
      /\ snap[p] = wm
      /\ ~ Rejected(p, wm)
      /\ wm.scanned \in Nat
      /\ StoreNew(p)
  BY RegisterAssumption
  DEF MInv, MTypeOK, NoLostUpdate, ChecksPassed, Store, Watermarks
<1>2. h \in Nat
  BY <1>1, RegisterAssumption
<1>3. CASE call[p].op = "scanned"
  <2>1. wm.scanned \in Nat /\ ~ (h <= wm.scanned)
    BY <1>1, <1>3 DEF Rejected
  <2>2. Scan(h)
    BY <1>1, <1>2, <1>3, <2>1 DEF StoreNew, Scan
  <2> QED
    BY <1>1, <2>2 DEF Next
<1>4. CASE call[p].op = "confirmed"
  <2>1. wm.confirmed \in Nat
    BY RegisterAssumption DEF MInv, MTypeOK, Watermarks
  <2>2. Confirm(h)
    BY <1>1, <1>2, <1>4, <2>1 DEF Rejected, StoreNew, Confirm
  <2> QED
    BY <1>1, <2>2 DEF Next
<1>5. CASE call[p].op = "finalized"
  <2>1. wm.finalized \in Nat
    BY RegisterAssumption DEF MInv, MTypeOK, Watermarks
  <2>2. Finalize(h)
    BY <1>1, <1>2, <1>5, <2>1 DEF Rejected, StoreNew, Finalize
  <2> QED
    BY <1>1, <2>2 DEF Next
<1>6. CASE call[p].op = "reset"
  <2>1. Reset(h)
    BY <1>1, <1>2, <1>6 DEF Rejected, StoreNew, Reset
  <2> QED
    BY <1>1, <2>1 DEF Next
<1> QED
  BY <1>1, <1>3, <1>4, <1>5, <1>6 DEF Ops

(* Only Store changes the watermark.                                       *)
LEMMA StepRefines == MInv /\ [MNext]_mvars => [Next]_wm
<1> SUFFICES ASSUME MInv, [MNext]_mvars PROVE [Next]_wm
  OBVIOUS
<1>1. CASE \E p \in Procs : Store(p)
  BY <1>1, StoreIsOperation
<1>2. CASE ~ \E p \in Procs : Store(p)
  BY <1>2
  DEF MNext, Finish, Call, LockOK, LockFails, MutexLock, Load, MutexUnlock,
      LockRelease, KeyExpires, TakenElsewhere, mvars
<1> QED
  BY <1>1, <1>2

(* The manager implements the atomic register: its steps map to one        *)
(* operation each, or to none.                                             *)
THEOREM ManagerImplementsRegister == MSpec => RegisterSpec
<1>1. MInit => Init
  BY DEF MInit
<1> QED
  BY <1>1, Invariance, StepRefines, PTL DEF MSpec, RegisterSpec

=============================================================================
