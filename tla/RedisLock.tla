------------------------------ MODULE RedisLock ------------------------------
(***************************************************************************)
(* pkg/lock/lock.go: the Redis lock every distributed critical section of  *)
(* the scanner is built on.  One Redis key is modelled, and the clients    *)
(* (goroutines of any instance) that create lock objects for it, take it   *)
(* with SETNX and a TTL, extend it and release it with the compare-and-    *)
(* delete script.                                                          *)
(*                                                                         *)
(* Time advances in ticks of half a second, because Extend passes whole    *)
(* seconds to EXPIRE (line 103) while SETNX keeps the TTL as given.  A     *)
(* reply of Redis may be lost: the command ran or did not, and the caller  *)
(* sees an error in both cases.                                            *)
(***************************************************************************)
EXTENDS Naturals

CONSTANTS Clients,      \* goroutines that use the lock
          Values,       \* lock values, the UnixNano strings of generateLockValue
          NoValue,      \* the key does not exist
          TTL,          \* TTL of CreateLock, in ticks
          ExtendTTLs,   \* TTLs that callers pass to Extend, in ticks
          MaxTries      \* largest maxRetries passed to LockWithRetry

ASSUME LockAssumption ==
    /\ NoValue \notin Values
    /\ TTL \in Nat \ {0}
    /\ ExtendTTLs \subseteq Nat
    /\ MaxTries \in Nat \ {0}

TicksPerSecond == 2

VARIABLES key,     \* value stored under the Redis key, or NoValue
          left,    \* ticks until Redis expires the key (0 when there is none)
          pc,      \* control state of each client
          value,   \* value of each client's lock object
          tries,   \* SETNX attempts the client may still make
          granted, \* ghost: ticks left of what the last nil reply granted
          lease    \* ghost: ticks for which the client may rely on the lock

vars == <<key, left, pc, value, tries, granted, lease>>

(* An idle client has no lock object; a "trying" client is about to send   *)
(* SETNX; a "waiting" client sleeps in LockWithRetry; for a "holding" one  *)
(* Lock returned nil (l.locked = true).                                    *)
States == {"idle", "trying", "waiting", "holding"}

HasObject(c) == pc[c] # "idle"

Init ==
    /\ key = NoValue
    /\ left = 0
    /\ pc = [c \in Clients |-> "idle"]
    /\ value \in [Clients -> Values]
    /\ tries = [c \in Clients |-> 0]
    /\ granted = [c \in Clients |-> 0]
    /\ lease = [c \in Clients |-> 0]

(* generateLockValue: the nanosecond of creation, assumed to differ from   *)
(* that of every lock object in use and of the one that set the key.       *)
Fresh(v) == /\ key # v
            /\ \A d \in Clients : HasObject(d) => value[d] # v

NewObject(c, v) ==
    /\ Fresh(v)
    /\ value' = [value EXCEPT ![c] = v]

(* CreateLock, CreateLockWithTTL and TryLock make one attempt;             *)
(* LockWithRetry makes up to maxRetries, each with a new object.           *)
Create(c, v, n) ==
    /\ pc[c] = "idle"
    /\ NewObject(c, v)
    /\ pc' = [pc EXCEPT ![c] = "trying"]
    /\ tries' = [tries EXCEPT ![c] = n]
    /\ UNCHANGED <<key, left, granted, lease>>

(* Mutants of SetKey: SETNX without its TTL; SET instead of SETNX.         *)
SetKeyForEver(c) ==
    /\ key = NoValue
    /\ key' = value[c]
    /\ left' = 0

SetKeyAlways(c) == key' = value[c] /\ left' = TTL

SetKey(c) ==
    /\ key = NoValue
    /\ key' = value[c]
    /\ left' = TTL

(* A nil reply grants the lock for t ticks from now on; 0 takes it away.   *)
Grant(c, t) ==
    /\ granted' = [granted EXCEPT ![c] = t]
    /\ lease' = [lease EXCEPT ![c] = t]

(* Lock succeeds: SETNX created the key.                                   *)
LockOK(c) ==
    /\ pc[c] = "trying"
    /\ SetKey(c)
    /\ pc' = [pc EXCEPT ![c] = "holding"]
    /\ Grant(c, TTL)
    /\ tries' = [tries EXCEPT ![c] = 0]
    /\ UNCHANGED value

(* Lock returns an error.  A single attempt gives up; LockWithRetry sleeps *)
(* while it has attempts left.                                             *)
LockFails(c) ==
    /\ pc[c] = "trying"
    /\ tries' = [tries EXCEPT ![c] = @ - 1]
    /\ pc' = [pc EXCEPT ![c] = IF tries[c] > 1 THEN "waiting" ELSE "idle"]
    /\ UNCHANGED <<value, granted, lease>>

LockConflict(c) ==
    /\ key # NoValue
    /\ LockFails(c)
    /\ UNCHANGED <<key, left>>

(* The reply of SETNX is lost: the key may exist with nobody to delete it. *)
LockReplyLost(c) ==
    /\ LockFails(c)
    /\ SetKey(c) \/ UNCHANGED <<key, left>>

Retry(c, v) ==
    /\ pc[c] = "waiting"
    /\ NewObject(c, v)
    /\ pc' = [pc EXCEPT ![c] = "trying"]
    /\ UNCHANGED <<key, left, tries, granted, lease>>

(* ctx is done while LockWithRetry sleeps.                                 *)
RetryCancelled(c) ==
    /\ pc[c] = "waiting"
    /\ pc' = [pc EXCEPT ![c] = "idle"]
    /\ tries' = [tries EXCEPT ![c] = 0]
    /\ UNCHANGED <<key, left, value, granted, lease>>

(* Unlock ends the caller's use of the object, whatever it returns.        *)
EndUse(c) ==
    /\ pc[c] = "holding"
    /\ pc' = [pc EXCEPT ![c] = "idle"]
    /\ Grant(c, 0)
    /\ UNCHANGED <<value, tries>>

(* Mutant of DeleteIfOwn: a plain DEL instead of the script.               *)
DeleteAny(c) == key' = NoValue /\ left' = 0

(* The script of Unlock: delete the key if it still has our value.         *)
DeleteIfOwn(c) ==
    IF key = value[c] THEN key' = NoValue /\ left' = 0
                      ELSE UNCHANGED <<key, left>>

Unlock(c) == EndUse(c) /\ DeleteIfOwn(c)

(* The command never reached Redis; the key stays until it expires.  When  *)
(* only the reply is lost the effect is that of Unlock.                    *)
UnlockNotSent(c) == EndUse(c) /\ UNCHANGED <<key, left>>

(* EXPIRE takes int(ttl.Seconds()); with 0 Redis deletes the key at once.  *)
WholeSeconds(t) == TicksPerSecond * (t \div TicksPerSecond)

(* Every TTL passed to Extend is a number of whole seconds, as the TTLs of *)
(* the program are.                                                        *)
WholeSecondExtends == \A t \in ExtendTTLs : WholeSeconds(t) = t

Expire(t) ==
    /\ left' = WholeSeconds(t)
    /\ key' = IF WholeSeconds(t) = 0 THEN NoValue ELSE key

(* Extend returns nil, and the caller goes on for another t.               *)
ExtendOK(c, t) ==
    /\ pc[c] = "holding"
    /\ key = value[c]
    /\ Expire(t)
    /\ Grant(c, t)
    /\ UNCHANGED <<pc, value, tries>>

(* Extend returns ErrLockNotHeld: the caller knows the lock is gone.       *)
ExtendFails(c) ==
    /\ pc[c] = "holding"
    /\ key # value[c]
    /\ Grant(c, 0)
    /\ UNCHANGED <<key, left, pc, value, tries>>

(* Extend returns another error: the script ran or did not.  The lock      *)
(* object keeps its old TTL; a caller that wants to be safe has to reckon  *)
(* with the shorter of the old and the new one.                            *)
ExtendReplyLost(c, t) ==
    /\ pc[c] = "holding"
    /\ \/ key = value[c] /\ Expire(t)
       \/ UNCHANGED <<key, left>>
    /\ lease' = [lease EXCEPT ![c] = IF t < @ THEN t ELSE @]
    /\ UNCHANGED <<pc, value, tries, granted>>

(* Half a second passes, in Redis and for every client.                    *)
OneLess(f) == [c \in Clients |-> IF f[c] > 0 THEN f[c] - 1 ELSE 0]

Tick ==
    /\ left > 0 \/ \E c \in Clients : granted[c] > 0
    /\ left' = IF left > 0 THEN left - 1 ELSE 0
    /\ key' = IF left > 1 THEN key ELSE NoValue
    /\ granted' = OneLess(granted)
    /\ lease' = OneLess(lease)
    /\ UNCHANGED <<pc, value, tries>>

Step(c) ==
    \/ \E v \in Values, n \in 1..MaxTries : Create(c, v, n)
    \/ LockOK(c)
    \/ LockConflict(c)
    \/ LockReplyLost(c)
    \/ \E v \in Values : Retry(c, v)
    \/ RetryCancelled(c)
    \/ Unlock(c)
    \/ UnlockNotSent(c)
    \/ \E t \in ExtendTTLs : ExtendOK(c, t)
    \/ ExtendFails(c)
    \/ \E t \in ExtendTTLs : ExtendReplyLost(c, t)

Next == Tick \/ \E c \in Clients : Step(c)

Spec == Init /\ [][Next]_vars

(* Redis' clock does not stop.  Nothing else is assumed of the clients.    *)
FairSpec == Spec /\ WF_vars(Tick)

-----------------------------------------------------------------------------

(* Types, and the TTL: a key exists exactly while it has time left, so no  *)
(* command leaves a key that never expires.                                *)
TypeOK ==
    /\ key \in Values \cup {NoValue}
    /\ left \in Nat
    /\ (key = NoValue) <=> (left = 0)
    /\ pc \in [Clients -> States]
    /\ value \in [Clients -> Values]
    /\ tries \in [Clients -> 0..MaxTries]
    /\ \A c \in Clients : tries[c] > 0 <=> pc[c] \in {"trying", "waiting"}
    /\ granted \in [Clients -> Nat]
    /\ lease \in [Clients -> Nat]
    /\ \A c \in Clients : lease[c] <= granted[c]

(* A client that was granted the lock, or a longer TTL, owns the key until *)
(* that time has passed, whatever other clients lock, extend, release or   *)
(* lose: SETNX, Unlock (70-76) and Extend (95-101) touch nobody else's     *)
(* key.  After an Extend that failed with an unknown outcome (104-106) the *)
(* client counts on the shorter of the two TTLs only.                      *)
LeaseHonoured == \A c \in Clients : lease[c] > 0 => key = value[c]

(* Hence at most one client at a time may rely on the lock, which is all   *)
(* the critical sections it guards need.                                   *)
OneLease ==
    \A c, d \in Clients : lease[c] > 0 /\ lease[d] > 0 => c = d

(* The same of what nil replies granted, as the lock object remembers it   *)
(* in its ttl: an Extend that returns an error leaves l.ttl as it was      *)
(* (104-110).  It does not hold: the TTL in Redis may be shorter by then.  *)
GrantHonoured == \A c \in Clients : granted[c] > 0 => key = value[c]

(* No caller shortens the lock: every Extend passes the same TTL, which is *)
(* no shorter than that of Lock.  GrantHonoured holds for such callers.    *)
NeverShortened == \A t, u \in ExtendTTLs : t = u /\ t >= TTL

(* Line 89, Extend: "extend the expiry time of the lock".  A successful    *)
(* Extend leaves the caller with the lock.                                 *)
ExtendKeepsLock ==
    [][\A c \in Clients, t \in ExtendTTLs :
          ExtendOK(c, t) => key' = value[c]]_vars

(* A key nobody will delete, because a reply was lost or its client gave   *)
(* up, does not block the others for ever: its TTL frees it.               *)
Orphaned == /\ key # NoValue
            /\ \A c \in Clients : pc[c] = "holding" => value[c] # key

OrphanExpires == Orphaned ~> (key = NoValue)

=============================================================================
