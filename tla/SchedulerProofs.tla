--------------------------- MODULE SchedulerProofs ---------------------------
(***************************************************************************)
(* Proofs about SchedulerManager, ScannerLifecycle and Sharding, the parts *)
(* of internal/scheduler around the pipeline of a scanner: for any         *)
(* goroutines, chains and scanners a chain has one scanner at most, and a  *)
(* scanner one crew at most until it is stopped; for any number of shards  *)
(* and any range of blocks the shard ranges are a partition.               *)
(***************************************************************************)
EXTENDS SchedulerManager, ScannerLifecycle, Sharding, TLAPS

-----------------------------------------------------------------------------
(* SchedulerManager.                                                       *)
(*                                                                         *)
(* OneScannerPerChain is not inductive.  AddScanner checks the map, starts *)
(* the scanner and stores it in separate steps, so between them a scanner  *)
(* runs that the map does not show; and Start starts scanners from a copy  *)
(* of the map that may be old.  GInv says where every scanner that was     *)
(* created and not removed is: in the map under its chain, or with the one *)
(* caller that is about to store it, and then the map has no other.        *)

(* Who adds or removes a scanner holds mu and works on a chain.            *)
Holders ==
    \A p \in Callers :
        pc[p] \in {"adding", "storing", "removing"} =>
            mu = p /\ arg[p] \in Chains

(* The map has a scanner under the chain it was created for.               *)
MapFits == \A c \in Chains : map[c] # None => chain[map[c]] = c

(* Who is about to store a scanner has it in hand, and the map has none    *)
(* for its chain.                                                          *)
StoresFit ==
    \A p \in Callers : pc[p] = "storing" =>
        map[arg[p]] = None /\ \A s \in todo[p] : chain[s] = arg[p]

(* A scanner that is not removed is in the map or about to be stored.      *)
Placed ==
    \A s \in Created \ removed :
        \/ map[chain[s]] = s
        \/ \E p \in Callers : pc[p] = "storing" /\ todo[p] = {s}
                                 /\ arg[p] = chain[s]

GInv == GTypeOK /\ Holders /\ MapFits /\ StoresFit /\ Placed

LEMMA GInitially == GInit => GInv
<1> SUFFICES ASSUME GInit PROVE GInv
    OBVIOUS
<1> USE ManagerAssumption DEF GInit
<1>1. GTypeOK
    BY DEF GTypeOK, CallerStates, Created
<1>2. Holders /\ StoresFit
    BY DEF Holders, StoresFit
<1>3. MapFits
    BY DEF MapFits
<1>4. Placed
    BY DEF Placed, Created
<1> QED
    BY <1>1, <1>2, <1>3, <1>4 DEF GInv

(* Steps that leave the map, the scanners and arg alone and neither begin  *)
(* nor end a call under mu.                                                *)
LEMMA Aside ==
    ASSUME GInv, NEW p \in Callers,
           UNCHANGED <<map, mu, chain, arg, removed>>,
           running' \in [Scanners -> BOOLEAN],
           pc[p] \in {"idle", "starting", "stopping", "restarting", "asking"},
           NEW q \in {"idle", "starting", "stopping", "restarting", "asking",
                      "hung"},
           Goto(p, q),
           todo' \in [Callers -> SUBSET Created],
           \A r \in Callers \ {p} : todo'[r] = todo[r]
    PROVE  GInv'
<1> USE ManagerAssumption DEF GInv, GTypeOK, Goto
<1>1. GTypeOK'
    BY DEF Created, CallerStates
<1>2. Holders'
    BY DEF Holders, CallerStates
<1>3. MapFits'
    BY DEF MapFits
<1>4. StoresFit'
    BY DEF StoresFit, CallerStates
<1>5. Placed'
  <2>1. \A r \in Callers : pc[r] = "storing" =>
            pc'[r] = "storing" /\ todo'[r] = todo[r]
      OBVIOUS
  <2> SUFFICES ASSUME NEW s \in Created \ removed
               PROVE  \/ map[chain[s]] = s
                      \/ \E r \in Callers : pc'[r] = "storing"
                            /\ todo'[r] = {s} /\ arg[r] = chain[s]
      BY DEF Placed, Created
  <2>2. ASSUME NEW r \in Callers, pc[r] = "storing", todo[r] = {s},
               arg[r] = chain[s]
        PROVE  pc'[r] = "storing" /\ todo'[r] = {s} /\ arg[r] = chain[s]
      BY <2>1, <2>2
  <2>3. \/ map[chain[s]] = s
        \/ \E r \in Callers : pc[r] = "storing" /\ todo[r] = {s}
                                 /\ arg[r] = chain[s]
      BY DEF Placed
  <2> QED
      BY <2>2, <2>3
<1> QED
    BY <1>1, <1>2, <1>3, <1>4, <1>5

(* A call of Start, Stop, Restart or of a query, and what it does.         *)
LEMMA ReadersKeepGInv ==
    ASSUME GInv, NEW p \in Callers,
           \/ CallStart(p) \/ CallStop(p) \/ Ask(p) \/ Answer(p) \/ Return(p)
           \/ \E c \in Chains : CallRestart(p, c)
           \/ \E s \in Scanners :
                 StartOne(p, s) \/ StopOne(p, s) \/ RestartOne(p, s)
    PROVE  GInv'
<1> USE ManagerAssumption DEF GInv, GTypeOK
<1>1. Listed \subseteq Created
    BY DEF Listed, Created, MapFits
<1>2. ASSUME CallStart(p) \/ CallStop(p)
      PROVE  GInv'
    BY <1>1, <1>2, Aside DEF CallStart, CallStop, Copy
<1>3. ASSUME NEW c \in Chains, CallRestart(p, c)
      PROVE  GInv'
  <2>1. {map[c]} \subseteq Created
      BY <1>3 DEF CallRestart, Created, MapFits
  <2> QED
      BY <1>3, <2>1, Aside DEF CallRestart, Copy
<1>4. ASSUME Ask(p) \/ Answer(p) \/ Return(p)
      PROVE  GInv'
    BY <1>4, Aside DEF Ask, Answer, Return
<1>5. ASSUME NEW s \in Scanners, StartOne(p, s)
      PROVE  GInv'
  <2>1. Goto(p, "starting")
      BY <1>5 DEF StartOne, Goto
  <2> QED
      BY <1>5, <2>1, Aside DEF StartOne
<1>6. ASSUME NEW s \in Scanners, StopOne(p, s)
      PROVE  GInv'
  <2>1. Goto(p, "stopping") \/ Goto(p, "hung")
      BY <1>6 DEF StopOne
  <2> QED
      BY <1>6, <2>1, Aside DEF StopOne
<1>7. ASSUME NEW s \in Scanners, RestartOne(p, s)
      PROVE  GInv'
  <2>1. Goto(p, "starting") \/ Goto(p, "hung")
      BY <1>7 DEF RestartOne
  <2> QED
      BY <1>7, <2>1, Aside DEF RestartOne
<1> QED
    BY <1>2, <1>3, <1>4, <1>5, <1>6, <1>7

(* AddScanner: it checks, starts and stores under mu.                      *)
LEMMA AddKeepsGInv ==
    ASSUME GInv, NEW p \in Callers,
           \/ \E c \in Chains : CallAdd(p, c)
           \/ AddFails(p)
           \/ \E s \in Scanners : AddCreate(p, s)
           \/ AddStore(p)
    PROVE  GInv'
<1> USE ManagerAssumption DEF GInv, GTypeOK, Goto
<1>1. ASSUME NEW c \in Chains, CallAdd(p, c)
      PROVE  GInv'
  <2> USE <1>1 DEF CallAdd, Lock
  <2>1. GTypeOK'
      BY DEF Created, CallerStates
  <2>2. Holders'
      BY DEF Holders, CallerStates
  <2>3. MapFits' /\ StoresFit'
      BY DEF MapFits, StoresFit, CallerStates
  <2>4. Placed'
      BY DEF Placed, Created, CallerStates
  <2> QED
      BY <2>1, <2>2, <2>3, <2>4
<1>2. ASSUME AddFails(p)
      PROVE  GInv'
  <2> USE <1>2 DEF AddFails, Unlock
  <2>1. GTypeOK'
      BY DEF Created, CallerStates
  <2>2. Holders'
      BY DEF Holders, CallerStates
  <2>3. MapFits' /\ StoresFit'
      BY DEF MapFits, StoresFit, CallerStates
  <2>4. Placed'
      BY DEF Placed, Created, CallerStates
  <2> QED
      BY <2>1, <2>2, <2>3, <2>4
<1>3. ASSUME NEW s \in Scanners, AddCreate(p, s)
      PROVE  GInv'
  <2> USE <1>3 DEF AddCreate
  <2>1. mu = p /\ arg[p] \in Chains
      BY DEF Holders
  <2>2. Created' = Created \cup {s}
      BY <2>1 DEF Created
  <2>3. GTypeOK'
      BY <2>1, <2>2 DEF CallerStates
  <2>4. Holders'
      BY <2>1 DEF Holders, CallerStates
  <2>5. MapFits'
      BY <2>1 DEF MapFits
  <2>6. StoresFit'
      BY <2>1 DEF StoresFit, Holders, CallerStates
  <2>7. Placed'
    <3> SUFFICES ASSUME NEW t \in Created', t \notin removed'
                 PROVE  \/ map'[chain'[t]] = t
                        \/ \E q \in Callers : pc'[q] = "storing"
                              /\ todo'[q] = {t} /\ arg'[q] = chain'[t]
        BY DEF Placed
    <3>1. CASE t = s
        BY <3>1, <2>1
    <3>2. CASE t # s
        BY <3>2, <2>2 DEF Placed, Created, CallerStates
    <3> QED
        BY <3>1, <3>2
  <2> QED
      BY <2>3, <2>4, <2>5, <2>6, <2>7
<1>4. ASSUME AddStore(p)
      PROVE  GInv'
  <2> USE <1>4 DEF AddStore, Unlock
  <2>1. mu = p /\ arg[p] \in Chains /\ map[arg[p]] = None
      BY DEF Holders, StoresFit
  <2>2. PICK s \in todo[p] : map' = [map EXCEPT ![arg[p]] = s]
      OBVIOUS
  <2>3. s \in Scanners /\ chain[s] = arg[p]
      BY DEF StoresFit, Created
  <2>4. GTypeOK'
      BY <2>1, <2>2, <2>3 DEF Created, CallerStates
  <2>5. Holders'
      BY <2>1 DEF Holders, CallerStates
  <2>6. MapFits'
      BY <2>1, <2>2, <2>3 DEF MapFits
  <2>7. StoresFit'
      BY <2>1 DEF StoresFit, Holders, CallerStates
  <2>8. Placed'
    <3> SUFFICES ASSUME NEW t \in Created, t \notin removed
                 PROVE  map'[chain[t]] = t
        BY DEF Placed, Created
    <3>1. CASE map[chain[t]] = t
        BY <3>1, <2>1, <2>2 DEF Created
    <3>2. ASSUME NEW q \in Callers, pc[q] = "storing", todo[q] = {t},
                 arg[q] = chain[t]
          PROVE  map'[chain[t]] = t
      <4>1. q = p
          BY <3>2, <2>1 DEF Holders
      <4> QED
          BY <4>1, <3>2, <2>1, <2>2
    <3> QED
        BY <3>1, <3>2 DEF Placed
  <2> QED
      BY <2>4, <2>5, <2>6, <2>7, <2>8
<1> QED
    BY <1>1, <1>2, <1>3, <1>4

(* RemoveScanner: it stops the scanner and takes it out of the map.        *)
LEMMA RemoveKeepsGInv ==
    ASSUME GInv, NEW p \in Callers,
           \/ \E c \in Chains : CallRemove(p, c)
           \/ RemoveHangs(p) \/ Remove(p)
    PROVE  GInv'
<1> USE ManagerAssumption DEF GInv, GTypeOK, Goto
<1>1. ASSUME NEW c \in Chains, CallRemove(p, c)
      PROVE  GInv'
  <2> USE <1>1 DEF CallRemove, Lock
  <2>1. GTypeOK'
      BY DEF Created, CallerStates
  <2>2. Holders'
      BY DEF Holders, CallerStates
  <2>3. MapFits' /\ StoresFit'
      BY DEF MapFits, StoresFit, CallerStates
  <2>4. Placed'
      BY DEF Placed, Created, CallerStates
  <2> QED
      BY <2>1, <2>2, <2>3, <2>4
<1>2. ASSUME RemoveHangs(p)
      PROVE  GInv'
  <2> USE <1>2 DEF RemoveHangs
  <2>1. GTypeOK'
      BY DEF Created, CallerStates
  <2>2. Holders'
      BY DEF Holders, CallerStates
  <2>3. MapFits' /\ StoresFit'
      BY DEF MapFits, StoresFit, CallerStates
  <2>4. Placed'
      BY DEF Placed, Created, CallerStates
  <2> QED
      BY <2>1, <2>2, <2>3, <2>4
<1>3. ASSUME Remove(p)
      PROVE  GInv'
  <2> USE <1>3 DEF Remove, Unlock
  <2>1. mu = p /\ arg[p] \in Chains
      BY DEF Holders
  <2>2. {map[arg[p]]} \ {None} \subseteq Created
      BY <2>1 DEF MapFits, Created
  <2>3. GTypeOK'
      BY <2>1, <2>2 DEF Created, CallerStates
  <2>4. Holders'
      BY <2>1 DEF Holders, CallerStates
  <2>5. MapFits'
      BY <2>1 DEF MapFits
  <2>6. StoresFit'
      BY <2>1 DEF StoresFit, Holders, CallerStates
  <2>7. Placed'
    <3> SUFFICES ASSUME NEW t \in Created, t \notin removed'
                 PROVE  map'[chain[t]] = t
        BY DEF Placed, Created
    <3>1. t \notin removed /\ t # map[arg[p]] /\ chain[t] \in Chains
        BY DEF Created
    <3>2. map[chain[t]] = t
        BY <3>1, <2>1 DEF Placed, Holders
    <3> QED
        BY <3>1, <3>2, <2>1
  <2> QED
      BY <2>3, <2>4, <2>5, <2>6, <2>7
<1> QED
    BY <1>1, <1>2, <1>3

LEMMA GInvHolds == GSpec => []GInv
<1>1. GInv /\ [GNext]_gvars => GInv'
  <2> SUFFICES ASSUME GInv, [GNext]_gvars PROVE GInv'
      OBVIOUS
  <2>1. CASE UNCHANGED gvars
      BY <2>1 DEF gvars, GInv, GTypeOK, Created, Holders, MapFits, StoresFit,
         Placed
  <2>2. ASSUME NEW p \in Callers, Calls(p) \/ Proceeds(p) \/ Answer(p)
        PROVE  GInv'
      BY <2>2, ReadersKeepGInv, AddKeepsGInv, RemoveKeepsGInv
         DEF Calls, Proceeds
  <2> QED
      BY <2>1, <2>2 DEF GNext
<1> QED
    BY GInitially, <1>1, PTL DEF GSpec

(* The manager's variables keep their types, and callers only hold and     *)
(* remove scanners that were created.                                      *)
THEOREM ManagerTypeCorrect == GSpec => []GTypeOK
<1>1. GInv => GTypeOK
    BY DEF GInv
<1> QED
    BY GInvHolds, <1>1, PTL

(* Of the scanners that AddScanner and NewSchedulerManager created for a   *)
(* chain and RemoveScanner did not remove, at most one runs, for any       *)
(* number of callers: the check of the map (272), the start (301) and the  *)
(* store (305) are under mu, and old copies of the map only start scanners *)
(* that are in it or removed.                                              *)
THEOREM OneScanner == GSpec => []OneScannerPerChain
<1>1. GInv => OneScannerPerChain
  <2> SUFFICES ASSUME GInv, NEW s \in Created \ removed,
                      NEW t \in Created \ removed, chain[s] = chain[t]
               PROVE  s = t
      BY DEF OneScannerPerChain
  <2> USE ManagerAssumption DEF GInv, GTypeOK
  <2>1. CASE map[chain[s]] = s
      BY <2>1 DEF Placed, StoresFit, Created
  <2>2. CASE map[chain[t]] = t
      BY <2>2 DEF Placed, StoresFit, Created
  <2>3. CASE map[chain[s]] # s /\ map[chain[t]] # t
      BY <2>3 DEF Placed, Holders
  <2> QED
      BY <2>1, <2>2, <2>3
<1> QED
    BY GInvHolds, <1>1, PTL

-----------------------------------------------------------------------------
(* ScannerLifecycle.                                                       *)

(* OneCrew is not inductive: it does not say why there is one crew.  As    *)
(* long as no Stop has got through its check of Running, Start has at most *)
(* once, and has if and only if Running is set; crews are those of calls   *)
(* of Start that got through.                                              *)
Unstopped == ~ cancelled /\ \A c \in Controllers : call[c] # "cancel"

LInv ==
    /\ statusRunning \in BOOLEAN
    /\ starts \in 0..MaxStarts
    /\ call \in [Controllers -> {"idle", "spawn", "cancel", "close", "wait"}]
    /\ go \in [Crew \X Crews -> {"none", "ready", "busy", "done"}]
    /\ Unstopped => starts = (IF statusRunning THEN 1 ELSE 0)
    /\ \A x \in Crew, n \in Crews : go[<<x, n>>] # "none" => n <= starts

LEMMA LInitially == LInit => LInv
<1> SUFFICES ASSUME LInit PROVE LInv
  OBVIOUS
<1> USE LifecycleAssumption DEF LInit
<1>5. statusRunning \in BOOLEAN
  OBVIOUS
<1>1. starts \in 0..MaxStarts
  OBVIOUS
<1>2. /\ call \in [Controllers -> {"idle", "spawn", "cancel", "close", "wait"}]
      /\ go \in [Crew \X Crews -> {"none", "ready", "busy", "done"}]
  OBVIOUS
<1>3. \A x \in Crew, n \in Crews : go[<<x, n>>] = "none"
  OBVIOUS
<1>4. starts = (IF statusRunning THEN 1 ELSE 0)
  OBVIOUS
<1> QED
  BY <1>1, <1>2, <1>3, <1>4, <1>5 DEF LInv

(* The steps of Start and Stop.                                            *)
LEMMA CallersKeepLInv ==
    ASSUME LInv, NEW c \in Controllers, CallerNext(c)
    PROVE  LInv'
<1> USE LifecycleAssumption DEF LInv, Unstopped, Crews
<1>1. CASE StartFlag(c)
  BY <1>1 DEF StartFlag
<1>2. CASE Spawn(c)
  BY <1>2 DEF Spawn, queues
<1>3. CASE StopFlag(c)
  BY <1>3 DEF StopFlag
<1>4. CASE Cancel(c)
  BY <1>4 DEF Cancel
<1>5. CASE CloseQueue(c)
  BY <1>5 DEF CloseQueue
<1>6. CASE StopReturns(c)
  BY <1>6 DEF StopReturns
<1> QED
  BY <1>1, <1>2, <1>3, <1>4, <1>5, <1>6 DEF CallerNext

(* A step of a goroutine of a crew, which has started.                     *)
LEMMA MovesKeepLInv ==
    ASSUME LInv, NEW x \in Crew, NEW n \in Crews,
           NEW from \in {"ready", "busy"}, NEW to \in {"ready", "busy", "done"},
           Move(x, n, from, to)
    PROVE  LInv'
BY DEF LInv, Unstopped, Move, callerVars, Crews

(* The goroutines of the crews and the retries.                            *)
LEMMA GoroutinesKeepLInv ==
    ASSUME LInv,
           \/ \E n \in Crews : \/ \E w \in Workers : WorkerNext(w, n)
                               \/ \E p \in Processors : ProcessorNext(p, n)
                               \/ SchedulerNext(n)
                               \/ MonitorQuit(n)
           \/ RetryNext
    PROVE  LInv'
<1>1. ASSUME NEW n \in Crews, NEW w \in Workers, WorkerNext(w, n)
      PROVE  LInv'
  BY <1>1, MovesKeepLInv
  DEF WorkerNext, WorkerTake, WorkerQuit, WorkerSend, Crew
<1>2. ASSUME NEW n \in Crews, NEW p \in Processors, ProcessorNext(p, n)
      PROVE  LInv'
  BY <1>2, MovesKeepLInv DEF ProcessorNext, Receive, HandleResult, Crew
<1>3. ASSUME NEW n \in Crews, SchedulerNext(n) \/ MonitorQuit(n)
      PROVE  LInv'
  BY <1>3, MovesKeepLInv
  DEF SchedulerNext, Tick, SchedulerQuit, TickEnds, Enqueue, EnqueuePanics,
      MonitorQuit, Crew
<1>4. CASE RetryNext
  BY <1>4 DEF RetryNext, RetrySend, RetryPanics, RetryQuit, callerVars, LInv,
     Unstopped
<1> QED
  BY <1>1, <1>2, <1>3, <1>4

(* However Start and Stop interleave, two crews of one scanner are only    *)
(* alive together when a Stop has reset Running (line 216) and cancels the *)
(* context next, or has cancelled it: for any callers, any number of       *)
(* workers and of restarts.                                                *)
THEOREM OneCrewScans == LSpec => []OneCrew
<1>1. LInv /\ [LNext]_lvars => LInv'
  <2> SUFFICES ASSUME LInv, [LNext]_lvars PROVE LInv'
    OBVIOUS
  <2>1. CASE UNCHANGED lvars
    BY <2>1 DEF lvars, LInv, Unstopped
  <2>2. CASE LNext
    BY <2>2, CallersKeepLInv, GoroutinesKeepLInv DEF LNext
  <2> QED
    BY <2>1, <2>2
<1>2. LInv => OneCrew
  BY DEF LInv, OneCrew, Unstopped, Live, Quitters, Crews
<1> QED
  BY LInitially, <1>1, <1>2, PTL DEF LSpec

-----------------------------------------------------------------------------
(* Sharding.                                                               *)
(*                                                                         *)
(* The argument: with total = n * q + r and r < n, shard i starts at       *)
(* lo + i * q + min(i, r).  So shard i + 1 starts one block after shard i  *)
(* ends, shard 0 starts at lo, and shard n would start at lo + total.      *)

(* Quotient and remainder of the number of blocks.                         *)
LEMMA Division ==
    ASSUME NEW n \in Nat \ {0}, NEW lo \in Nat, NEW hi \in Nat, lo <= hi
    PROVE  /\ BlocksPerShard(n, lo, hi) \in Nat
           /\ Remainder(n, lo, hi) \in 0..(n - 1)
           /\ hi - lo + 1 = n * BlocksPerShard(n, lo, hi)
                               + Remainder(n, lo, hi)
BY DEF BlocksPerShard, Remainder

(* Where a shard starts if the next one exists, and where it ends: the     *)
(* clipping never cuts.                                                    *)
LEMMA Adjacent ==
    ASSUME NEW n \in Nat \ {0}, NEW lo \in Nat, NEW hi \in Nat, lo <= hi,
           NEW i \in 0..(n - 1)
    PROVE  /\ ShardEnd(i, n, lo, hi) + 1 = ShardStart(i + 1, n, lo, hi)
           /\ ShardStart(i, n, lo, hi) \in Nat
           /\ ShardEnd(i, n, lo, hi) \in Int
<1> DEFINE q == BlocksPerShard(n, lo, hi)
           r == Remainder(n, lo, hi)
<1>1. q \in Nat /\ r \in 0..(n - 1) /\ hi - lo + 1 = n * q + r
  BY Division
<1>2. i * q \in Nat /\ (i + 1) * q = i * q + q /\ n * q \in Nat
  BY <1>1
<1>3. (i + 1) * q <= n * q
  <2>1. n * q = (i + 1) * q + (n - i - 1) * q
    BY <1>1
  <2>2. (n - i - 1) * q \in Nat
    BY <1>1
  <2> QED
    BY <1>1, <1>2, <2>1, <2>2
<1> HIDE DEF q, r
<1>4. ShardStart(i, n, lo, hi) = lo + i * q + (IF i < r THEN i ELSE r)
  BY DEF ShardStart, q, r
<1>5. ShardStart(i + 1, n, lo, hi)
        = lo + (i + 1) * q + (IF i + 1 < r THEN i + 1 ELSE r)
  BY DEF ShardStart, q, r
<1>6. ShardEnd(i, n, lo, hi)
        = Clip(ShardStart(i, n, lo, hi) + q - 1 + (IF i < r THEN 1 ELSE 0), hi)
  BY DEF ShardEnd, q, r
<1> DEFINE a == i * q
           m == n * q
<1> HIDE DEF a, m
<1>7. a \in Nat /\ m \in Nat /\ a + q <= m /\ hi - lo + 1 = m + r
  BY <1>1, <1>2, <1>3 DEF a, m
<1>8. ShardStart(i, n, lo, hi) = lo + a + (IF i < r THEN i ELSE r)
  BY <1>4 DEF a
<1>9. ShardStart(i + 1, n, lo, hi)
        = lo + a + q + (IF i + 1 < r THEN i + 1 ELSE r)
  BY <1>1, <1>2, <1>5, <1>7 DEF a
<1>10. ShardStart(i, n, lo, hi) + q - 1 + (IF i < r THEN 1 ELSE 0) <= hi
  BY <1>1, <1>7, <1>8
<1> QED
  BY <1>1, <1>6, <1>7, <1>8, <1>9, <1>10 DEF Clip

(* Every shard has q blocks or one more.                                   *)
LEMMA ShardSize ==
    ASSUME NEW n \in Nat \ {0}, NEW lo \in Nat, NEW hi \in Nat, lo <= hi,
           NEW i \in 0..(n - 1)
    PROVE  ShardEnd(i, n, lo, hi) - ShardStart(i, n, lo, hi) + 1
             \in {BlocksPerShard(n, lo, hi), BlocksPerShard(n, lo, hi) + 1}
<1> DEFINE q == BlocksPerShard(n, lo, hi)
           r == Remainder(n, lo, hi)
           s == ShardStart(i, n, lo, hi)
<1>1. q \in Nat /\ r \in 0..(n - 1)
  BY Division
<1>2. /\ ShardEnd(i, n, lo, hi) + 1 = ShardStart(i + 1, n, lo, hi)
      /\ s \in Nat
      /\ ShardEnd(i, n, lo, hi) \in Int
  BY Adjacent
<1>3. (i + 1) * q = i * q + q /\ i * q \in Nat
  BY <1>1
<1>4. ShardStart(i + 1, n, lo, hi)
        = lo + (i + 1) * q + (IF i + 1 < r THEN i + 1 ELSE r)
  BY DEF ShardStart
<1>5. s = lo + i * q + (IF i < r THEN i ELSE r)
  BY DEF ShardStart
<1> HIDE DEF q, r, s
<1>6. ShardStart(i + 1, n, lo, hi) - s \in {q, q + 1}
  BY <1>1, <1>3, <1>4, <1>5
<1>7. ShardEnd(i, n, lo, hi) - s + 1 \in {q, q + 1}
  BY <1>1, <1>2, <1>6
<1> QED
  BY <1>7 DEF q, s

(* The first shard starts with the range, the last one ends with it.       *)
LEMMA Ends ==
    ASSUME NEW n \in Nat \ {0}, NEW lo \in Nat, NEW hi \in Nat, lo <= hi
    PROVE  /\ ShardStart(0, n, lo, hi) = lo
           /\ ShardEnd(n - 1, n, lo, hi) = hi
<1>1. /\ BlocksPerShard(n, lo, hi) \in Nat
      /\ Remainder(n, lo, hi) \in 0..(n - 1)
      /\ hi - lo + 1 = n * BlocksPerShard(n, lo, hi) + Remainder(n, lo, hi)
  BY Division
<1>2. ShardStart(0, n, lo, hi) = lo
  BY <1>1 DEF ShardStart
<1>3. n - 1 \in 0..(n - 1) /\ (n - 1) + 1 = n
  OBVIOUS
<1>4. ShardStart(n, n, lo, hi) = hi + 1
  BY <1>1 DEF ShardStart
<1>5. /\ ShardEnd(n - 1, n, lo, hi) + 1 = ShardStart((n - 1) + 1, n, lo, hi)
      /\ ShardEnd(n - 1, n, lo, hi) \in Int
  BY <1>3, Adjacent
<1>6. ShardEnd(n - 1, n, lo, hi) + 1 = hi + 1
  BY <1>3, <1>4, <1>5
<1>7. ShardEnd(n - 1, n, lo, hi) = hi
  BY <1>5, <1>6
<1> QED
  BY <1>2, <1>7

-----------------------------------------------------------------------------

(* The inductive invariant: every range computed so far is the one of its  *)
(* shard.                                                                  *)
Inputs ==
    /\ count \in Nat \ {0}
    /\ startBlock \in Nat
    /\ endBlock \in Nat
    /\ startBlock <= endBlock

Computed ==
    /\ ranges \in Seq([start: Int, end: Int])
    /\ Len(ranges) <= count
    /\ \A i \in 1..Len(ranges) :
          /\ ranges[i].start = ShardStart(i - 1, count, startBlock, endBlock)
          /\ ranges[i].end = ShardEnd(i - 1, count, startBlock, endBlock)

ShInv == Inputs /\ Computed

LEMMA InvInit == ShInit => ShInv
BY ShardingAssumption DEF ShInit, ShInv, Inputs, Computed

LEMMA InvStep == ShInv /\ [NextRange]_shvars => ShInv'
<1> SUFFICES ASSUME ShInv, [NextRange]_shvars PROVE ShInv'
  OBVIOUS
<1>1. CASE NextRange
  <2> DEFINE k == Len(ranges)
             x == [start |-> ShardStart(k, count, startBlock, endBlock),
                   end |-> ShardEnd(k, count, startBlock, endBlock)]
  <2>1. /\ ranges \in Seq([start: Int, end: Int])
        /\ k \in Nat /\ k < count
        /\ ranges' = Append(ranges, x)
        /\ UNCHANGED <<count, startBlock, endBlock>>
    BY <1>1 DEF NextRange, ShInv, Computed
  <2>2. Inputs /\ Inputs'
    BY <2>1 DEF ShInv, Inputs
  <2>3. k \in 0..(count - 1)
    BY <2>1, <2>2 DEF Inputs
  <2>4. x \in [start: Int, end: Int]
    <3>1. /\ ShardStart(k, count, startBlock, endBlock) \in Nat
          /\ ShardEnd(k, count, startBlock, endBlock) \in Int
      BY <2>2, <2>3, Adjacent DEF Inputs
    <3> QED
      BY <3>1
  <2> HIDE DEF x
  <2>5. /\ ranges' \in Seq([start: Int, end: Int])
        /\ Len(ranges') = k + 1
        /\ ranges'[k + 1] = x
        /\ \A i \in 1..k : ranges'[i] = ranges[i]
    BY <2>1, <2>4
  <2>6. Computed'
    <3>1. \A i \in 1..k :
            /\ ranges'[i].start
                 = ShardStart(i - 1, count', startBlock', endBlock')
            /\ ranges'[i].end = ShardEnd(i - 1, count', startBlock', endBlock')
      BY <2>1, <2>5 DEF ShInv, Computed
    <3>2. /\ ranges'[k + 1].start
               = ShardStart(k, count', startBlock', endBlock')
          /\ ranges'[k + 1].end = ShardEnd(k, count', startBlock', endBlock')
      BY <2>1, <2>5 DEF x
    <3>3. \A i \in 1..(k + 1) : i \in 1..k \/ (i = k + 1 /\ i - 1 = k)
      BY <2>1
    <3>4. \A i \in 1..(k + 1) :
            /\ ranges'[i].start
                 = ShardStart(i - 1, count', startBlock', endBlock')
            /\ ranges'[i].end = ShardEnd(i - 1, count', startBlock', endBlock')
      BY <3>1, <3>2, <3>3
    <3>5. k + 1 <= count'
      BY <2>1, <2>2 DEF Inputs
    <3> QED
      BY <2>5, <3>4, <3>5 DEF Computed
  <2> QED
    BY <2>2, <2>6 DEF ShInv
<1>2. CASE UNCHANGED shvars
  BY <1>2 DEF shvars, ShInv, Inputs, Computed
<1> QED
  BY <1>1, <1>2

LEMMA InvPartition == ShInv => RangesPartition
<1> SUFFICES ASSUME ShInv PROVE RangesPartition
  OBVIOUS
<1>1. /\ count \in Nat \ {0}
      /\ startBlock \in Nat /\ endBlock \in Nat /\ startBlock <= endBlock
      /\ Len(ranges) \in Nat /\ Len(ranges) <= count
      /\ DOMAIN ranges = 1..Len(ranges)
  BY DEF ShInv, Inputs, Computed
<1>2. ASSUME NEW i \in DOMAIN ranges
      PROVE  ranges[i].start
               = IF i = 1 THEN startBlock ELSE ranges[i - 1].end + 1
  <2>1. ranges[i].start = ShardStart(i - 1, count, startBlock, endBlock)
    BY <1>1 DEF ShInv, Computed
  <2>2. CASE i = 1
    BY <1>1, <2>1, <2>2, Ends
  <2>3. CASE i # 1
    <3>1. i - 1 \in 1..Len(ranges) /\ i - 2 \in 0..(count - 1)
      BY <1>1, <2>3
    <3>2. ranges[i - 1].end
            = ShardEnd((i - 1) - 1, count, startBlock, endBlock)
      BY <3>1 DEF ShInv, Computed
    <3>3. (i - 1) - 1 = i - 2 /\ (i - 2) + 1 = i - 1
      BY <1>1
    <3>4. ShardEnd(i - 2, count, startBlock, endBlock) + 1
            = ShardStart((i - 2) + 1, count, startBlock, endBlock)
      BY <1>1, <3>1, Adjacent
    <3> QED
      BY <2>1, <2>3, <3>2, <3>3, <3>4
  <2> QED
    BY <2>2, <2>3
<1>3. ASSUME Len(ranges) = count PROVE ranges[count].end = endBlock
  <2>1. count \in 1..Len(ranges)
    BY <1>1, <1>3
  <2>2. ranges[count].end = ShardEnd(count - 1, count, startBlock, endBlock)
    BY <2>1 DEF ShInv, Computed
  <2> QED
    BY <1>1, <2>2, Ends
<1> QED
  BY <1>2, <1>3 DEF RangesPartition

LEMMA InvBalanced == ShInv => RangesBalanced
<1> SUFFICES ASSUME ShInv, NEW i \in DOMAIN ranges, NEW j \in DOMAIN ranges
             PROVE  Size(ranges[i]) <= Size(ranges[j]) + 1
  BY DEF RangesBalanced
<1> DEFINE q == BlocksPerShard(count, startBlock, endBlock)
<1>1. /\ count \in Nat \ {0}
      /\ startBlock \in Nat /\ endBlock \in Nat /\ startBlock <= endBlock
      /\ i \in 1..Len(ranges) /\ j \in 1..Len(ranges)
      /\ Len(ranges) \in Nat /\ Len(ranges) <= count
  BY DEF ShInv, Inputs, Computed
<1>2. i - 1 \in 0..(count - 1) /\ j - 1 \in 0..(count - 1)
  BY <1>1
<1>3. q \in Nat
  BY <1>1, Division
<1>4. Size(ranges[i]) \in {q, q + 1}
  BY <1>1, <1>2, ShardSize DEF Size, ShInv, Computed
<1>5. Size(ranges[j]) \in {q, q + 1}
  BY <1>1, <1>2, ShardSize DEF Size, ShInv, Computed
<1> HIDE DEF q
<1> QED
  BY <1>3, <1>4, <1>5

(* sharding.go 68-97 and 111-122: for any number of shards and any         *)
(* non-empty range of blocks the computed ranges are adjacent, start at    *)
(* startBlock and end at endBlock.                                         *)
THEOREM ShardsPartition == ShSpec => []RangesPartition
BY InvInit, InvStep, InvPartition, PTL DEF ShSpec

(* ... and two shards differ by one block at most.                         *)
THEOREM ShardsBalanced == ShSpec => []RangesBalanced
BY InvInit, InvStep, InvBalanced, PTL DEF ShSpec

=============================================================================
