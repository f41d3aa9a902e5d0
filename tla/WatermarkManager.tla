--------------------------- MODULE WatermarkManager ---------------------------
(***************************************************************************)
(* internal/scheduler/watermark.go: the watermark of one chain and the     *)
(* goroutines that update it (result processors, reorg handlers, API       *)
(* callers).  UpdateScannedHeight and ResetToHeight first take the Redis   *)
(* lock of the chain with one SETNX and then the local mutex mu;           *)
(* UpdateConfirmedHeight and UpdateFinalizedHeight take mu only.  Under mu *)
(* a call loads the watermark pointer, builds a new record from it and     *)
(* stores that: three steps other goroutines run between.                  *)
(*                                                                         *)
(* The Redis lock is modelled as module RedisLock shows it to behave: its  *)
(* TTL may expire under the holder, a reply may be lost, and another       *)
(* instance of the program may hold it.  saveWatermark and loadWatermark   *)
(* do nothing (lines 343-350), so a restart is Init.                       *)
(***************************************************************************)
EXTENDS WatermarkRegister

CONSTANTS Procs,    \* goroutines of this instance
          NoProc,   \* mu is free
          Free,     \* the Redis key does not exist
          Orphan    \* the key has a value no goroutine here will delete

ASSUME ManagerAssumption ==
    /\ NoProc \notin Procs
    /\ Free \notin Procs
    /\ Orphan \notin Procs
    /\ Free # Orphan

VARIABLES rkey,    \* Redis key lock:watermark:<chain>
          mu,      \* holder of the mutex
          pc,      \* control state of each goroutine
          call,    \* operation and height of its current call
          snap     \* watermark it loaded under mu

mvars == <<wm, rkey, mu, pc, call, snap>>

Ops == {"scanned", "confirmed", "finalized", "reset"}

LockedOps == {"scanned", "reset"}   \* operations that take the Redis lock

(* "setnx": about to send SETNX; "mutex": waiting for mu; "load": mu held, *)
(* before the Load; "store": loaded, checks passed; "unmutex": the         *)
(* deferred mu.Unlock is next; "unlock": the deferred lock.Unlock is next. *)
States == {"idle", "setnx", "mutex", "load", "store", "unmutex", "unlock"}

(* Values of the locals of a goroutine that is not using them.             *)
NoCall == [op |-> "scanned", height |-> 0]

MInit ==
    /\ Init
    /\ rkey = Free
    /\ mu = NoProc
    /\ pc = [p \in Procs |-> "idle"]
    /\ call = [p \in Procs |-> NoCall]
    /\ snap = [p \in Procs |-> InitialWatermark]

Goto(p, s) == pc' = [pc EXCEPT ![p] = s]

Return(p) == Goto(p, "idle") /\ call' = [call EXCEPT ![p] = NoCall]

Call(p, o, h) ==
    /\ pc[p] = "idle"
    /\ call' = [call EXCEPT ![p] = [op |-> o, height |-> h]]
    /\ Goto(p, IF o \in LockedOps THEN "setnx" ELSE "mutex")
    /\ UNCHANGED <<wm, rkey, mu, snap>>

LockOK(p) ==
    /\ pc[p] = "setnx"
    /\ rkey = Free
    /\ rkey' = p
    /\ Goto(p, "mutex")
    /\ UNCHANGED <<wm, mu, call, snap>>

(* Lock returns ErrLockConflict or a Redis error: the call fails and the   *)
(* height is dropped.  After a lost reply the key may have been set.       *)
LockFails(p) ==
    /\ pc[p] = "setnx"
    /\ IF rkey = Free THEN rkey' \in {Free, Orphan} ELSE UNCHANGED rkey
    /\ Return(p)
    /\ UNCHANGED <<wm, mu, snap>>

(* Mutant of MutexLock: the operation does not wait for mu.                *)
MutexIgnored(p) ==
    /\ pc[p] = "mutex"
    /\ mu' = p
    /\ Goto(p, "load")
    /\ UNCHANGED <<wm, rkey, call, snap>>

MutexLock(p) ==
    /\ pc[p] = "mutex"
    /\ mu = NoProc
    /\ mu' = p
    /\ Goto(p, "load")
    /\ UNCHANGED <<wm, rkey, call, snap>>

(* Mutant of Rejected: UpdateScannedHeight without its early return.       *)
RejectedUnlessScanned(p, w) ==
    LET h == call[p].height
    IN  \/ call[p].op = "confirmed" /\ h <= w.confirmed
        \/ call[p].op = "finalized" /\ h <= w.finalized
        \/ call[p].op = "reset"     /\ h > w.scanned

(* The early return of each operation: height not above the current one,   *)
(* or above the scanned height for a reset.                                *)
Rejected(p, w) ==
    LET h == call[p].height
    IN  \/ call[p].op = "scanned"   /\ h <= w.scanned
        \/ call[p].op = "confirmed" /\ h <= w.confirmed
        \/ call[p].op = "finalized" /\ h <= w.finalized
        \/ call[p].op = "reset"     /\ h > w.scanned

Load(p) ==
    /\ pc[p] = "load"
    /\ IF Rejected(p, wm)
          THEN Goto(p, "unmutex") /\ UNCHANGED snap
          ELSE Goto(p, "store") /\ snap' = [snap EXCEPT ![p] = wm]
    /\ UNCHANGED <<wm, rkey, mu, call>>

(* The new record is a function of what was loaded, not of what the        *)
(* pointer holds now.                                                      *)
StoreNew(p) ==
    LET h == call[p].height
    IN  \/ call[p].op = "scanned"   /\ wm' = AfterScanned(snap[p], h)
        \/ call[p].op = "confirmed" /\ wm' = AfterConfirmed(snap[p], h)
        \/ call[p].op = "finalized" /\ wm' = AfterFinalized(snap[p], h)
        \/ call[p].op = "reset"     /\ wm' = AfterReset(snap[p], h)

Store(p) ==
    /\ pc[p] = "store"
    /\ StoreNew(p)
    /\ snap' = [snap EXCEPT ![p] = InitialWatermark]
    /\ Goto(p, "unmutex")
    /\ UNCHANGED <<rkey, mu, call>>

(* Mutant of MutexUnlock: UpdateConfirmedHeight and UpdateFinalizedHeight  *)
(* return without unlocking.                                               *)
MutexKept(p) ==
    /\ pc[p] = "unmutex"
    /\ IF call[p].op \in LockedOps
          THEN Goto(p, "unlock") /\ mu' = NoProc /\ UNCHANGED call
          ELSE Return(p) /\ UNCHANGED mu
    /\ UNCHANGED <<wm, rkey, snap>>

MutexUnlock(p) ==
    /\ pc[p] = "unmutex"
    /\ mu' = NoProc
    /\ IF call[p].op \in LockedOps
          THEN Goto(p, "unlock") /\ UNCHANGED call
          ELSE Return(p)
    /\ UNCHANGED <<wm, rkey, snap>>

(* The deferred lock.Unlock: deletes the key if it is still ours.  Its     *)
(* error is ignored; if the command was not sent, the key is left behind.  *)
LockRelease(p) ==
    /\ pc[p] = "unlock"
    /\ rkey' \in IF rkey = p THEN {Free, Orphan} ELSE {rkey}
    /\ Return(p)
    /\ UNCHANGED <<wm, mu, snap>>

(* The TTL of the key runs out, or its holder elsewhere deletes it.        *)
KeyExpires ==
    /\ rkey # Free
    /\ rkey' = Free
    /\ UNCHANGED <<wm, mu, pc, call, snap>>

(* Another instance of the program takes the lock of this chain.           *)
TakenElsewhere ==
    /\ rkey = Free
    /\ rkey' = Orphan
    /\ UNCHANGED <<wm, mu, pc, call, snap>>

Finish(p) == LockOK(p) \/ LockFails(p) \/ Load(p) \/ Store(p)
                \/ MutexUnlock(p) \/ LockRelease(p)

MNext ==
    \/ \E p \in Procs :
          \/ \E o \in Ops, h \in Heights : Call(p, o, h)
          \/ MutexLock(p)
          \/ Finish(p)
    \/ KeyExpires
    \/ TakenElsewhere

MSpec == MInit /\ [][MNext]_mvars

(* A goroutine inside a call keeps running; sync.Mutex hands mu to every   *)
(* waiter in time (it turns fair after 1 ms of starvation).                *)
Fairness == \A p \in Procs : WF_mvars(Finish(p)) /\ SF_mvars(MutexLock(p))

MFairSpec == MSpec /\ Fairness

-----------------------------------------------------------------------------

MTypeOK ==
    /\ wm \in Watermarks
    /\ rkey \in Procs \cup {Free, Orphan}
    /\ mu \in Procs \cup {NoProc}
    /\ pc \in [Procs -> States]
    /\ call \in [Procs -> [op: Ops, height: Heights]]
    /\ snap \in [Procs -> Watermarks]

(* The critical section of mu is exclusive, and what was loaded in it is   *)
(* still current when it is stored, although the Redis lock may have       *)
(* expired meanwhile: no update of another goroutine is overwritten.       *)
InCritical(p) == pc[p] \in {"load", "store", "unmutex"}

NoLostUpdate ==
    \A p \in Procs :
        /\ InCritical(p) => mu = p
        /\ pc[p] = "store" => snap[p] = wm

(* Every reachable step of the manager is one atomic operation of the      *)
(* register or leaves the watermark alone.                                 *)
RegisterSpec == Init /\ [][Next]_wm

(* Each call returns, however often SETNX conflicts and the others call.   *)
CallsReturn == \A p \in Procs : pc[p] # "idle" ~> pc[p] = "idle"

=============================================================================
