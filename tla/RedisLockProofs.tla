--------------------------- MODULE RedisLockProofs ---------------------------
(***************************************************************************)
(* Proofs about RedisLock, for any number of clients, any TTLs and any     *)
(* number of attempts: a granted lease is honoured and at most one client  *)
(* at a time has one.                                                      *)
(*                                                                         *)
(* The argument: the value of a lock object in use is nobody else's, so    *)
(* the compare-and-delete and compare-and-expire scripts reach the key of  *)
(* their own caller only; and no client relies on more time than the key   *)
(* has left, so the key outlives every lease.  The second part needs       *)
(* Extend to be called with whole seconds.  What nil replies granted, as   *)
(* against what a careful client relies on, is honoured if no call of      *)
(* Extend shortens the TTL: the last theorem.                              *)
(***************************************************************************)
EXTENDS RedisLock, TLAPS

LeaseBacked ==
    \A c \in Clients :
        lease[c] > 0 => pc[c] = "holding" /\ key = value[c] /\ lease[c] <= left

OwnValues ==
    \A c, d \in Clients :
        HasObject(c) /\ HasObject(d) /\ value[c] = value[d] => c = d

LInv == TypeOK /\ LeaseBacked /\ OwnValues

-----------------------------------------------------------------------------

LEMMA WholeSecondsType ==
    ASSUME NEW t \in Nat
    PROVE  WholeSeconds(t) \in Nat
BY DEF WholeSeconds, TicksPerSecond

LEMMA InvInit == Init => LInv
BY LockAssumption
   DEF Init, LInv, TypeOK, LeaseBacked, OwnValues, HasObject, States

(* Types do not depend on the other two parts.                             *)
LEMMA TypeStep == TypeOK /\ [Next]_vars => TypeOK'
<1> SUFFICES ASSUME TypeOK, [Next]_vars PROVE TypeOK'
  OBVIOUS
<1> USE LockAssumption DEF TypeOK, States
<1>1. ASSUME NEW c \in Clients, NEW v \in Values, NEW n \in 1..MaxTries,
             Create(c, v, n)
      PROVE  TypeOK'
  BY <1>1 DEF Create, NewObject
<1>2. ASSUME NEW c \in Clients, LockOK(c) PROVE TypeOK'
  BY <1>2 DEF LockOK, SetKey, Grant
<1>3. ASSUME NEW c \in Clients, LockFails(c)
      PROVE  /\ pc' \in [Clients -> States]
             /\ tries' \in [Clients -> 0..MaxTries]
             /\ \A d \in Clients :
                   tries'[d] > 0 <=> pc'[d] \in {"trying", "waiting"}
             /\ UNCHANGED <<value, granted, lease>>
  <2>1. tries[c] - 1 \in 0..MaxTries /\ tries[c] > 0
    BY <1>3 DEF LockFails
  <2> QED
    BY <1>3, <2>1 DEF LockFails
<1>4. ASSUME NEW c \in Clients, LockConflict(c) PROVE TypeOK'
  BY <1>3, <1>4 DEF LockConflict
<1>5. ASSUME NEW c \in Clients, LockReplyLost(c) PROVE TypeOK'
  BY <1>3, <1>5 DEF LockReplyLost, SetKey
<1>6. ASSUME NEW c \in Clients, NEW v \in Values, Retry(c, v) PROVE TypeOK'
  BY <1>6 DEF Retry, NewObject
<1>7. ASSUME NEW c \in Clients, RetryCancelled(c) PROVE TypeOK'
  BY <1>7 DEF RetryCancelled
<1>8. ASSUME NEW c \in Clients, Unlock(c) PROVE TypeOK'
  BY <1>8 DEF Unlock, EndUse, DeleteIfOwn, Grant
<1>9. ASSUME NEW c \in Clients, UnlockNotSent(c) PROVE TypeOK'
  BY <1>9 DEF UnlockNotSent, EndUse, Grant
<1>10. ASSUME NEW c \in Clients, NEW t \in ExtendTTLs, ExtendOK(c, t)
       PROVE  TypeOK'
  BY <1>10, WholeSecondsType DEF ExtendOK, Expire, Grant
<1>11. ASSUME NEW c \in Clients, ExtendFails(c) PROVE TypeOK'
  BY <1>11 DEF ExtendFails, Grant
<1>12. ASSUME NEW c \in Clients, NEW t \in ExtendTTLs, ExtendReplyLost(c, t)
       PROVE  TypeOK'
  BY <1>12, WholeSecondsType DEF ExtendReplyLost, Expire
<1>13. CASE Tick
  BY <1>13 DEF Tick, OneLess
<1>14. CASE UNCHANGED vars
  BY <1>14 DEF vars
<1> QED
  BY <1>1, <1>2, <1>4, <1>5, <1>6, <1>7, <1>8, <1>9, <1>10, <1>11, <1>12,
     <1>13, <1>14
  DEF Next, Step

(* The parts that relate leases, values and the key.                       *)
LEMMA LeaseStep ==
    WholeSecondExtends /\ LInv /\ [Next]_vars => LeaseBacked' /\ OwnValues'
<1> SUFFICES ASSUME WholeSecondExtends, LInv, [Next]_vars
             PROVE  LeaseBacked' /\ OwnValues'
  OBVIOUS
<1> USE LockAssumption DEF LInv, TypeOK, LeaseBacked, OwnValues, HasObject
<1>0. key = NoValue => \A c \in Clients : ~ (lease[c] > 0)
  OBVIOUS
<1>1. ASSUME NEW c \in Clients, NEW v \in Values, NEW n \in 1..MaxTries,
             Create(c, v, n)
      PROVE  LeaseBacked' /\ OwnValues'
  BY <1>1 DEF Create, NewObject, Fresh
<1>2. ASSUME NEW c \in Clients, LockOK(c)
      PROVE  LeaseBacked' /\ OwnValues'
  BY <1>0, <1>2 DEF LockOK, SetKey, Grant
<1>3. ASSUME NEW c \in Clients, LockConflict(c)
      PROVE  LeaseBacked' /\ OwnValues'
  BY <1>3 DEF LockConflict, LockFails
<1>4. ASSUME NEW c \in Clients, LockReplyLost(c)
      PROVE  LeaseBacked' /\ OwnValues'
  BY <1>0, <1>4 DEF LockReplyLost, LockFails, SetKey
<1>5. ASSUME NEW c \in Clients, NEW v \in Values, Retry(c, v)
      PROVE  LeaseBacked' /\ OwnValues'
  BY <1>5 DEF Retry, NewObject, Fresh
<1>6. ASSUME NEW c \in Clients, RetryCancelled(c)
      PROVE  LeaseBacked' /\ OwnValues'
  BY <1>6 DEF RetryCancelled
<1>7. ASSUME NEW c \in Clients, Unlock(c)
      PROVE  LeaseBacked' /\ OwnValues'
  <2>1. \A d \in Clients : lease[d] > 0 /\ d # c => key # value[c]
    BY <1>7 DEF Unlock, EndUse, Grant
  <2> QED
    BY <1>7, <2>1 DEF Unlock, EndUse, DeleteIfOwn, Grant
<1>8. ASSUME NEW c \in Clients, UnlockNotSent(c)
      PROVE  LeaseBacked' /\ OwnValues'
  BY <1>8 DEF UnlockNotSent, EndUse, Grant
<1>9. ASSUME NEW c \in Clients, NEW t \in ExtendTTLs, ExtendOK(c, t)
      PROVE  LeaseBacked' /\ OwnValues'
  <2>1. \A d \in Clients : lease[d] > 0 => d = c
    BY <1>9 DEF ExtendOK
  <2>2. t \in Nat /\ WholeSeconds(t) = t
    BY DEF WholeSecondExtends
  <2>3. left' = t /\ (t > 0 => key' = key)
    BY <1>9, <2>2 DEF ExtendOK, Expire
  <2>4. \A d \in Clients : lease'[d] > 0 => d = c /\ lease'[d] = t
    BY <1>9, <2>1 DEF ExtendOK, Grant
  <2>5. UNCHANGED <<pc, value>> /\ pc[c] = "holding" /\ key = value[c]
    BY <1>9 DEF ExtendOK
  <2> QED
    BY <2>2, <2>3, <2>4, <2>5
<1>10. ASSUME NEW c \in Clients, ExtendFails(c)
       PROVE  LeaseBacked' /\ OwnValues'
  BY <1>10 DEF ExtendFails, Grant
<1>11. ASSUME NEW c \in Clients, NEW t \in ExtendTTLs, ExtendReplyLost(c, t)
       PROVE  LeaseBacked' /\ OwnValues'
  <2>1. t \in Nat /\ WholeSeconds(t) = t
    BY DEF WholeSecondExtends
  <2>2. UNCHANGED <<pc, value>>
    BY <1>11 DEF ExtendReplyLost
  <2>3. \A d \in Clients : lease'[d] > 0 =>
            lease[d] > 0 /\ lease'[d] <= lease[d] /\ (d = c => lease'[d] <= t)
    BY <1>11, <2>1 DEF ExtendReplyLost
  <2>4. lease' \in [Clients -> Nat]
    BY TypeStep
  <2>5. CASE UNCHANGED <<key, left>>
    BY <2>2, <2>3, <2>4, <2>5
  <2>6. CASE key = value[c] /\ Expire(t)
    <3>1. pc[c] = "holding" /\ left' = t /\ (t > 0 => key' = key)
      BY <1>11, <2>1, <2>6 DEF ExtendReplyLost, Expire
    <3>2. \A d \in Clients : lease'[d] > 0 => d = c
      BY <2>3, <2>6, <3>1
    <3> QED
      BY <2>1, <2>2, <2>3, <2>4, <3>1, <3>2
  <2> QED
    BY <1>11, <2>5, <2>6 DEF ExtendReplyLost
<1>12. CASE Tick
  BY <1>12 DEF Tick, OneLess
<1>13. CASE UNCHANGED vars
  BY <1>13 DEF vars
<1> QED
  BY <1>1, <1>2, <1>3, <1>4, <1>5, <1>6, <1>7, <1>8, <1>9, <1>10, <1>11,
     <1>12, <1>13
  DEF Next, Step

(* What nil replies granted, when no Extend shortens the TTL.              *)
GrantBacked ==
    \A c \in Clients :
        granted[c] > 0 => /\ pc[c] = "holding"
                          /\ key = value[c]
                          /\ granted[c] <= left
                          /\ \A t \in ExtendTTLs : granted[c] <= t

LEMMA GrantStep ==
    WholeSecondExtends /\ NeverShortened /\ LInv /\ GrantBacked /\ [Next]_vars
    => GrantBacked'
<1> SUFFICES ASSUME WholeSecondExtends, NeverShortened, LInv, GrantBacked,
                    [Next]_vars
             PROVE  GrantBacked'
  OBVIOUS
<1> USE LockAssumption DEF LInv, TypeOK, OwnValues, GrantBacked, HasObject
<1>0. key = NoValue => \A c \in Clients : ~ (granted[c] > 0)
  OBVIOUS
<1>1. ASSUME NEW c \in Clients, NEW v \in Values, NEW n \in 1..MaxTries,
             Create(c, v, n)
      PROVE  GrantBacked'
  BY <1>1 DEF Create, NewObject
<1>2. ASSUME NEW c \in Clients, LockOK(c) PROVE GrantBacked'
  BY <1>0, <1>2 DEF LockOK, SetKey, Grant, NeverShortened
<1>3. ASSUME NEW c \in Clients, LockConflict(c) PROVE GrantBacked'
  BY <1>3 DEF LockConflict, LockFails
<1>4. ASSUME NEW c \in Clients, LockReplyLost(c) PROVE GrantBacked'
  BY <1>0, <1>4 DEF LockReplyLost, LockFails, SetKey
<1>5. ASSUME NEW c \in Clients, NEW v \in Values, Retry(c, v)
      PROVE  GrantBacked'
  BY <1>5 DEF Retry, NewObject
<1>6. ASSUME NEW c \in Clients, RetryCancelled(c) PROVE GrantBacked'
  BY <1>6 DEF RetryCancelled
<1>7. ASSUME NEW c \in Clients, Unlock(c) PROVE GrantBacked'
  <2>1. \A d \in Clients : granted[d] > 0 /\ d # c => key # value[c]
    BY <1>7 DEF Unlock, EndUse, Grant
  <2> QED
    BY <1>7, <2>1 DEF Unlock, EndUse, DeleteIfOwn, Grant
<1>8. ASSUME NEW c \in Clients, UnlockNotSent(c) PROVE GrantBacked'
  BY <1>8 DEF UnlockNotSent, EndUse, Grant
<1>9. ASSUME NEW c \in Clients, NEW t \in ExtendTTLs, ExtendOK(c, t)
      PROVE  GrantBacked'
  <2>1. t \in Nat /\ WholeSeconds(t) = t /\ \A u \in ExtendTTLs : u = t
    BY DEF WholeSecondExtends, NeverShortened
  <2>2. pc[c] = "holding" /\ key = value[c] /\ UNCHANGED <<pc, value>>
    BY <1>9 DEF ExtendOK
  <2>3. left' = t /\ (t > 0 => key' = key)
    BY <1>9, <2>1 DEF ExtendOK, Expire
  <2>4. \A d \in Clients : granted'[d] > 0 => d = c /\ granted'[d] = t
    BY <1>9, <2>2 DEF ExtendOK, Grant
  <2> QED
    BY <2>1, <2>2, <2>3, <2>4
<1>10. ASSUME NEW c \in Clients, ExtendFails(c) PROVE GrantBacked'
  BY <1>10 DEF ExtendFails, Grant
<1>11. ASSUME NEW c \in Clients, NEW t \in ExtendTTLs, ExtendReplyLost(c, t)
       PROVE  GrantBacked'
  <2>1. t \in Nat /\ WholeSeconds(t) = t /\ t >= TTL
    BY DEF WholeSecondExtends, NeverShortened
  <2>2. UNCHANGED <<pc, value, granted>>
    BY <1>11 DEF ExtendReplyLost
  <2>3. CASE UNCHANGED <<key, left>>
    BY <2>2, <2>3
  <2>4. CASE Expire(t)
    BY <2>1, <2>2, <2>4 DEF Expire
  <2> QED
    BY <1>11, <2>3, <2>4 DEF ExtendReplyLost
<1>12. CASE Tick
  BY <1>12 DEF Tick, OneLess
<1>13. CASE UNCHANGED vars
  BY <1>13 DEF vars
<1> QED
  BY <1>1, <1>2, <1>3, <1>4, <1>5, <1>6, <1>7, <1>8, <1>9, <1>10, <1>11,
     <1>12, <1>13
  DEF Next, Step

LEMMA InvImpliesLease == LInv => LeaseHonoured /\ OneLease
BY DEF LInv, LeaseBacked, OwnValues, LeaseHonoured, OneLease, HasObject

-----------------------------------------------------------------------------

(* lock.go 31-37 and 51-112: types, and no command of the lock leaves a    *)
(* key without a TTL, whatever is passed to Extend.                        *)
THEOREM TypeCorrect == Spec => []TypeOK
<1>1. Init => TypeOK
  BY InvInit DEF LInv
<1> QED
  BY <1>1, TypeStep, PTL DEF Spec

(* lock.go 70-76 and 95-112: with whole-second extensions, a client that   *)
(* has a lease owns the key; the lease is the shorter of the old and the   *)
(* new TTL after an Extend that failed with an unknown outcome.            *)
THEOREM LeasesAreHonoured ==
    ASSUME WholeSecondExtends
    PROVE  Spec => []LeaseHonoured
<1>1. LInv /\ [Next]_vars => LInv'
  BY TypeStep, LeaseStep DEF LInv
<1>2. LInv => LeaseHonoured
  BY InvImpliesLease
<1> QED
  BY <1>1, <1>2, InvInit, PTL DEF Spec

(* ... and no two clients hold one together.                               *)
THEOREM LeasesAreExclusive ==
    ASSUME WholeSecondExtends
    PROVE  Spec => []OneLease
<1>1. LInv /\ [Next]_vars => LInv'
  BY TypeStep, LeaseStep DEF LInv
<1>2. LInv => OneLease
  BY InvImpliesLease
<1> QED
  BY <1>1, <1>2, InvInit, PTL DEF Spec

(* lock.go 104-110: if all callers of Extend pass one TTL, no shorter than *)
(* that of Lock, then a client also owns the key for as long as the last   *)
(* nil reply granted it, whatever later calls of Extend returned.          *)
THEOREM GrantsAreHonoured ==
    ASSUME WholeSecondExtends, NeverShortened
    PROVE  Spec => []GrantHonoured
<1>1. Init => GrantBacked
  BY DEF Init, GrantBacked
<1>2. LInv /\ [Next]_vars => LInv'
  BY TypeStep, LeaseStep DEF LInv
<1>3. LInv /\ GrantBacked /\ [Next]_vars => GrantBacked'
  BY GrantStep
<1>4. GrantBacked => GrantHonoured
  BY DEF GrantBacked, GrantHonoured
<1> QED
  BY <1>1, <1>2, <1>3, <1>4, InvInit, PTL DEF Spec

=============================================================================
