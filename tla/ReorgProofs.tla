----------------------------- MODULE ReorgProofs -----------------------------
(***************************************************************************)
(* Proofs about the two reorg components of one chain: what the detector   *)
(* reports (ReorgDetector) and how the processor treats the events it is   *)
(* given (ReorgProcessor), whatever the chain and the scanner do between   *)
(* their steps.                                                            *)
(***************************************************************************)
EXTENDS ReorgDetector, ReorgProcessor, WellFoundedInduction, TLAPS

-----------------------------------------------------------------------------
(* The highest block.                                                      *)

Below == { p \in Nat \X Nat : p[1] < p[2] }

LEMMA BelowIsWellFounded == IsWellFoundedOn(Below, Nat)
<1>1. OpToRel(<, Nat) = Below
  BY DEF OpToRel, Below
<1> QED
  BY <1>1, NatLessThanWellFounded

(* A set of heights that is not empty has a highest.                       *)
LEMMA HasGreatest ==
    ASSUME NEW n \in Nat, NEW S \in SUBSET (0..n), S # {}
    PROVE  \E h \in S : \A g \in S : g <= h
<1> DEFINE T == { k \in 0..n : \E h \in S : k = n - h }
<1>1. T \subseteq Nat /\ T # {}
  <2>1. PICK h \in S : TRUE
    OBVIOUS
  <2>2. n - h \in T
    BY <2>1
  <2>3. \A k \in T : k \in Nat
    OBVIOUS
  <2> HIDE DEF T
  <2> QED
    BY <2>2, <2>3
<1>2. PICK x \in T : \A y \in T : ~ (<<y, x>> \in Below)
  <2> HIDE DEF T
  <2> QED
    BY <1>1, BelowIsWellFounded, WFMin
<1>3. PICK h \in S : x = n - h
  BY <1>2
<1>4. ASSUME NEW g \in S PROVE g <= h
  <2>1. n - g \in T /\ n - g \in Nat /\ x \in Nat
    BY <1>1, <1>2
  <2>2. ~ (n - g < x)
    BY <2>1, <1>2 DEF Below
  <2> QED
    BY <2>2, <1>3
<1> QED
  BY <1>4

(* Top returns the highest block, if there is a block.                     *)
LEMMA TopIsHighest ==
    ASSUME NEW blocks, HeightsIn(blocks) # {}
    PROVE  /\ Top(blocks) \in Heights
           /\ blocks[Top(blocks)] # NoBlock
           /\ \A g \in HeightsIn(blocks) : g <= Top(blocks)
<1>1. MaxHeight \in Nat /\ HeightsIn(blocks) \in SUBSET (0..MaxHeight)
  BY StoreAssumption DEF HeightsIn, Heights
<1>2. \E h \in HeightsIn(blocks) : \A g \in HeightsIn(blocks) : g <= h
  BY <1>1, HasGreatest
<1>3. /\ Top(blocks) \in HeightsIn(blocks)
      /\ \A g \in HeightsIn(blocks) : g <= Top(blocks)
  BY <1>2 DEF Top
<1> QED
  BY <1>3 DEF HeightsIn

-----------------------------------------------------------------------------
(* The world: chain and scanner.                                           *)

(* The node serves a block at every height up to its head.                 *)
ChainShape ==
    \E t \in Heights : \A h \in Heights : chain[h] # NoBlock <=> h <= t

NoFutureForks == \A h \in Heights : chain[h] <= forks /\ store[h] <= forks

StoredWithinChain ==
    \A h \in Heights : store[h] # NoBlock => chain[h] # NoBlock

(* The block of a scan task has been on the chain.                         *)
JobsKnown ==
    \A t \in Tasks : chain[job[t].num] # NoBlock /\ job[t].fork <= forks

WorldInv == /\ StoreTypeOK /\ ChainShape /\ NoFutureForks
            /\ StoredWithinChain /\ JobsKnown

(* A block that somebody has seen on the chain at some time.               *)
Known(b) == chain[b.num] # NoBlock /\ b.fork <= forks

(* Top(chain) is the head.                                                 *)
LEMMA HeadOfChain ==
    ASSUME StoreTypeOK, ChainShape
    PROVE  /\ Top(chain) \in Heights
           /\ \A h \in Heights : chain[h] # NoBlock <=> h <= Top(chain)
<1>1. PICK t \in Heights : \A h \in Heights : chain[h] # NoBlock <=> h <= t
  BY DEF ChainShape
<1>2. t \in HeightsIn(chain)
  BY <1>1, StoreAssumption DEF HeightsIn, Heights
<1>3. /\ Top(chain) \in Heights
      /\ chain[Top(chain)] # NoBlock
      /\ t <= Top(chain)
  BY <1>2, TopIsHighest
<1>4. Top(chain) = t
  BY <1>1, <1>3, StoreAssumption DEF Heights
<1> QED
  BY <1>1, <1>4

LEMMA WorldInitially == StoreInit => WorldInv
<1> SUFFICES ASSUME StoreInit PROVE WorldInv
  OBVIOUS
<1> USE StoreAssumption DEF StoreInit, Heights, Forks, NoBlock
<1>0. \A t \in Tasks : /\ job[t] = [at |-> "none", num |-> 0, fork |-> 0]
                       /\ job[t].num = 0 /\ job[t].fork = 0
  BY DEF NoJob, Job, Block
<1>1. StoreTypeOK
  <2>1. job \in [Tasks -> [at : JobStates, num : Heights, fork : Forks]]
    BY DEF NoJob, Job, Block, JobStates
  <2> QED
    BY <2>1 DEF StoreTypeOK
<1>2. ChainShape
  <2>1. 0 \in Heights /\ \A h \in Heights : chain[h] # NoBlock <=> h <= 0
    OBVIOUS
  <2> QED
    BY <2>1 DEF ChainShape
<1>3. NoFutureForks /\ StoredWithinChain
  BY DEF NoFutureForks, StoredWithinChain
<1>4. JobsKnown
  <2>1. chain[0] = 0
    OBVIOUS
  <2>2. ASSUME NEW t \in Tasks
        PROVE  chain[job[t].num] # NoBlock /\ job[t].fork <= forks
    <3>1. job[t].num = 0 /\ job[t].fork = 0
      BY <1>0
    <3>2. chain[job[t].num] = 0
      BY <2>1, <3>1
    <3> QED
      BY <3>1, <3>2
  <2> QED
    BY <2>2 DEF JobsKnown
<1> QED
  BY <1>1, <1>2, <1>3, <1>4 DEF WorldInv

(* A step of the world.  A known block stays known, one that the chain has *)
(* abandoned stays abandoned, and one that is on the chain stays there     *)
(* unless the chain reorganises.                                           *)
KnownBlocksStay ==
    \A b \in Blocks : chain[b.num] # NoBlock /\ b.fork <= forks =>
        /\ chain'[b.num] # NoBlock
        /\ b.fork <= forks'
        /\ chain[b.num] # b.fork => chain'[b.num] # b.fork
        /\ forks' = forks => chain'[b.num] = chain[b.num]

LEMMA GrowKeepsWorld ==
    ASSUME WorldInv, Grow
    PROVE  WorldInv' /\ KnownBlocksStay
<1> USE StoreAssumption DEF WorldInv, StoreTypeOK, Heights, Forks, NoBlock
<1>1. /\ Top(chain) \in Heights /\ Top(chain) + 1 \in Heights
      /\ \A h \in Heights : chain[h] # NoBlock <=> h <= Top(chain)
      /\ chain' = [chain EXCEPT ![Top(chain) + 1] = forks]
      /\ UNCHANGED <<forks, store, extra, scanned, job>>
  <2>1. Top(chain) < MaxHeight
    BY DEF Grow
  <2> QED
    BY HeadOfChain, <2>1 DEF Grow
<1>2. StoreTypeOK'
  BY <1>1
<1>3. ChainShape'
  <2>1. \A h \in Heights : chain'[h] # NoBlock <=> h <= Top(chain) + 1
    BY <1>1
  <2> QED
    BY <1>1, <2>1 DEF ChainShape
<1>4. NoFutureForks' /\ StoredWithinChain' /\ JobsKnown'
  BY <1>1 DEF NoFutureForks, StoredWithinChain, JobsKnown
<1>5. KnownBlocksStay
  BY <1>1 DEF KnownBlocksStay, Blocks
<1> QED
  BY <1>2, <1>3, <1>4, <1>5

LEMMA ReorganiseKeepsWorld ==
    ASSUME WorldInv, NEW a \in Heights, NEW n \in Heights, Reorganise(a, n)
    PROVE  WorldInv' /\ KnownBlocksStay /\ forks' = forks + 1
<1> USE StoreAssumption DEF WorldInv, StoreTypeOK, Heights, Forks, NoBlock
<1>1. /\ Top(chain) \in Heights /\ a < Top(chain) /\ n >= Top(chain)
      /\ \A h \in Heights : chain[h] # NoBlock <=> h <= Top(chain)
      /\ forks < MaxForks /\ forks' = forks + 1
      /\ chain' = [h \in Heights |->
                      IF h <= a THEN chain[h]
                      ELSE IF h <= n THEN forks + 1 ELSE NoBlock]
      /\ UNCHANGED <<store, extra, scanned, job>>
  BY HeadOfChain DEF Reorganise
<1>2. StoreTypeOK'
  BY <1>1
<1>3. ChainShape'
  <2>1. \A h \in Heights : chain'[h] # NoBlock <=> h <= n
    BY <1>1
  <2> QED
    BY <1>1, <2>1 DEF ChainShape
<1>4. NoFutureForks' /\ StoredWithinChain' /\ JobsKnown'
  <2>1. /\ \A h \in Heights : chain'[h] <= forks'
        /\ \A h \in Heights : chain[h] # NoBlock => chain'[h] # NoBlock
    BY <1>1 DEF NoFutureForks
  <2>3. NoFutureForks' /\ StoredWithinChain'
    BY <1>1, <2>1 DEF NoFutureForks, StoredWithinChain
  <2>2. ASSUME NEW t \in Tasks
        PROVE  chain'[job'[t].num] # NoBlock /\ job'[t].fork <= forks'
    <3>1. job[t].num \in Heights /\ job[t].fork \in Forks
      OBVIOUS
    <3>2. chain[job[t].num] # NoBlock /\ job[t].fork <= forks
      BY DEF JobsKnown
    <3>3. job[t].num <= n
      BY <1>1, <3>1, <3>2
    <3>4. chain'[job[t].num] # NoBlock
      BY <1>1, <3>1, <3>2, <3>3
    <3> QED
      BY <1>1, <3>1, <3>2, <3>4
  <2> QED
    BY <2>2, <2>3 DEF JobsKnown
<1>5. KnownBlocksStay
  BY <1>1 DEF KnownBlocksStay, Blocks
<1> QED
  BY <1>1, <1>2, <1>3, <1>4, <1>5

(* The scanner leaves every row of the first kind as it is: it only fills  *)
(* in heights that have none, with blocks that have been on the chain.     *)
RowsStay == \A h \in Heights : store[h] # NoBlock => store'[h] = store[h]

JobOK == [at : JobStates, num : Heights, fork : Forks]

LEMMA SameChainKeepsWorld ==
    ASSUME WorldInv, UNCHANGED <<chain, forks>>,
           store' \in [Heights -> Forks \cup {NoBlock}],
           extra' \subseteq Blocks,
           scanned' \in Heights,
           job' \in [Tasks -> JobOK],
           \A h \in Heights : \/ store'[h] = store[h]
                              \/ store'[h] = NoBlock
                              \/ /\ chain[h] # NoBlock
                                 /\ store'[h] <= forks,
           \A t \in Tasks : /\ chain[job'[t].num] # NoBlock
                            /\ job'[t].fork <= forks
    PROVE  WorldInv' /\ KnownBlocksStay
<1>1. NoBlock <= forks
  BY StoreAssumption DEF WorldInv, StoreTypeOK, NoBlock, Forks
<1>2. StoreTypeOK'
  BY DEF WorldInv, StoreTypeOK, JobOK
<1>3. ChainShape'
  BY DEF WorldInv, ChainShape
<1>4. NoFutureForks' /\ StoredWithinChain' /\ JobsKnown'
  BY <1>1 DEF WorldInv, NoFutureForks, StoredWithinChain, JobsKnown
<1>5. KnownBlocksStay
  BY DEF KnownBlocksStay
<1> QED
  BY <1>2, <1>3, <1>4, <1>5 DEF WorldInv

LEMMA ScanKeepsWorld ==
    ASSUME WorldInv, NEW t \in Tasks, Scan(t) \/ Forget(t)
    PROVE  WorldInv' /\ KnownBlocksStay /\ RowsStay /\ UNCHANGED forks
<1> USE StoreAssumption DEF JobOK, JobStates
<1>1. /\ job[t] \in JobOK
      /\ chain[job[t].num] # NoBlock /\ job[t].fork <= forks
      /\ job \in [Tasks -> JobOK]
      /\ \A u \in Tasks : chain[job[u].num] # NoBlock /\ job[u].fork <= forks
      /\ store \in [Heights -> Forks \cup {NoBlock}]
      /\ extra \subseteq Blocks /\ scanned \in Heights
      /\ chain \in [Heights -> Forks \cup {NoBlock}]
      /\ forks \in Nat
  BY DEF WorldInv, StoreTypeOK, JobsKnown, Forks
<1>2. chain[0] # NoBlock /\ 0 \in Heights /\ 0 \in Forks /\ 0 <= forks
  BY <1>1 DEF WorldInv, ChainShape, Heights, Forks
<1>3. ASSUME NEW j \in JobOK, job' = [job EXCEPT ![t] = j],
             chain[j.num] # NoBlock, j.fork <= forks
      PROVE  /\ job' \in [Tasks -> JobOK]
             /\ \A u \in Tasks : /\ chain[job'[u].num] # NoBlock
                                /\ job'[u].fork <= forks
  BY <1>1, <1>3
<1>4. NoJob \in JobOK /\ NoJob.num = 0 /\ NoJob.fork = 0
  BY <1>2 DEF NoJob, Job, Block
<1>5. CASE Fetch(t)
  <2>1. PICK h \in 1 .. Top(chain) :
            job' = [job EXCEPT ![t] = Job("fetched", Block(h, chain[h]))]
    BY <1>5 DEF Fetch
  <2>2. h \in Heights /\ chain[h] # NoBlock
    BY HeadOfChain DEF WorldInv, Heights
  <2>3. chain[h] \in Forks /\ chain[h] <= forks
    BY <1>1, <2>2 DEF WorldInv, NoFutureForks
  <2> DEFINE j == Job("fetched", Block(h, chain[h]))
  <2>4. j \in JobOK /\ j.num = h /\ j.fork = chain[h]
    BY <2>2, <2>3 DEF Job, Block
  <2>5. UNCHANGED <<chain, forks, store, extra, scanned>>
    BY <1>5 DEF Fetch
  <2>6. /\ job' \in [Tasks -> JobOK]
        /\ \A u \in Tasks : /\ chain[job'[u].num] # NoBlock
                           /\ job'[u].fork <= forks
    <3> HIDE DEF j
    <3> QED
      BY <1>3, <2>1, <2>2, <2>3, <2>4 DEF j
  <2> QED
    BY <1>1, <2>5, <2>6, SameChainKeepsWorld DEF RowsStay
<1>6. CASE SelectRow(t)
  <2> DEFINE j == IF store[job[t].num] = NoBlock
                    THEN Job("absent", job[t])
                    ELSE Job("saved", Block(job[t].num, 0))
  <2>1. /\ job' = [job EXCEPT ![t] = j]
        /\ UNCHANGED <<chain, forks, store, extra, scanned>>
    BY <1>1, <1>6 DEF SelectRow
  <2>2. j \in JobOK /\ j.num = job[t].num /\ j.fork <= forks
    BY <1>1, <1>2 DEF Job, Block
  <2>3. /\ job' \in [Tasks -> JobOK]
        /\ \A u \in Tasks : /\ chain[job'[u].num] # NoBlock
                           /\ job'[u].fork <= forks
    <3> HIDE DEF j
    <3> QED
      BY <1>1, <1>3, <2>1, <2>2
  <2> QED
    BY <1>1, <2>1, <2>3, SameChainKeepsWorld DEF RowsStay
<1>7. CASE InsertRow(t)
  <2> DEFINE b == Block(job[t].num, job[t].fork)
             j == Job("saved", Block(b.num, 0))
  <2>1. /\ b.num = job[t].num /\ b.fork = job[t].fork
        /\ b \in Blocks /\ b.fork \in Forks /\ b.num \in Heights
    BY <1>1 DEF Block, Blocks
  <2>2. j \in JobOK /\ j.num = job[t].num /\ j.fork <= forks
    BY <1>1, <1>2 DEF Job, Block
  <2>3. /\ job' = [job EXCEPT ![t] = j]
        /\ UNCHANGED <<chain, forks, scanned>>
        /\ \/ /\ store[b.num] = NoBlock
              /\ store' = [store EXCEPT ![b.num] = b.fork]
              /\ UNCHANGED extra
           \/ /\ extra' = extra \cup {b}
              /\ UNCHANGED store
    BY <1>7 DEF InsertRow
  <2>4. /\ job' \in [Tasks -> JobOK]
        /\ \A u \in Tasks : /\ chain[job'[u].num] # NoBlock
                           /\ job'[u].fork <= forks
    <3> HIDE DEF j, b
    <3> QED
      BY <1>1, <1>3, <2>3, <2>2
  <2> HIDE DEF j, b
  <2>5. /\ store' \in [Heights -> Forks \cup {NoBlock}]
        /\ extra' \subseteq Blocks
        /\ RowsStay
        /\ \A h \in Heights : \/ store'[h] = store[h]
                              \/ /\ chain[h] # NoBlock
                                 /\ store'[h] <= forks
    BY <1>1, <2>1, <2>3 DEF RowsStay
  <2> QED
    BY <1>1, <2>3, <2>4, <2>5, SameChainKeepsWorld
<1>8. CASE UpdateScannedHeight(t) \/ Forget(t)
  <2>1. /\ job' = [job EXCEPT ![t] = NoJob]
        /\ UNCHANGED <<chain, forks, store, extra>>
        /\ scanned' \in {scanned, job[t].num}
    BY <1>8 DEF UpdateScannedHeight, Forget
  <2>2. scanned' \in Heights
    BY <1>1, <2>1
  <2>3. /\ job' \in [Tasks -> JobOK]
        /\ \A u \in Tasks : /\ chain[job'[u].num] # NoBlock
                           /\ job'[u].fork <= forks
    BY <1>1, <1>2, <1>3, <1>4, <2>1
  <2> QED
    BY <1>1, <2>1, <2>2, <2>3, SameChainKeepsWorld DEF RowsStay
<1> QED
  BY <1>5, <1>6, <1>7, <1>8 DEF Scan

LEMMA WorldKeepsWorld ==
    ASSUME WorldInv, World
    PROVE  /\ WorldInv' /\ KnownBlocksStay /\ RowsStay
           /\ forks' \in Forks /\ (forks' = forks \/ forks' = forks + 1)
<1>1. /\ WorldInv' /\ KnownBlocksStay /\ RowsStay
      /\ (forks' = forks \/ forks' = forks + 1)
  <2>1. CASE Grow
    BY <2>1, GrowKeepsWorld DEF Grow, RowsStay
  <2>2. CASE \E a, n \in Heights : Reorganise(a, n)
    BY <2>2, ReorganiseKeepsWorld DEF Reorganise, RowsStay
  <2>3. CASE \E t \in Tasks : Scan(t) \/ Forget(t)
    BY <2>3, ScanKeepsWorld
  <2> QED
    BY <2>1, <2>2, <2>3 DEF World
<1> QED
  BY <1>1 DEF WorldInv, StoreTypeOK

(* A rollback deletes blocks and moves the watermark.                      *)
LEMMA RollbackKeepsWorld ==
    ASSUME WorldInv, UNCHANGED <<chain, forks, job>>,
           store' \in [Heights -> Forks \cup {NoBlock}],
           \A h \in Heights : store'[h] = store[h] \/ store'[h] = NoBlock,
           extra' \subseteq Blocks,
           scanned' \in Heights
    PROVE  WorldInv'
BY SameChainKeepsWorld DEF WorldInv, StoreTypeOK, JobsKnown, JobOK

LEMMA DeleteBlocksRemoves ==
    ASSUME StoreTypeOK, NEW from, NEW to, DeleteBlocks(from, to)
    PROVE  /\ store' \in [Heights -> Forks \cup {NoBlock}]
           /\ \A h \in Heights : store'[h] = store[h] \/ store'[h] = NoBlock
           /\ extra' \subseteq Blocks
BY DEF DeleteBlocks, StoreTypeOK

-----------------------------------------------------------------------------
(* The detector.                                                           *)
(*                                                                         *)
(* The argument: the block the walk stands on is always as far below the   *)
(* local tip as the depth says, the walk leaves a block only when the      *)
(* chain does not have it, a block the chain has abandoned never comes     *)
(* back, and the scanner replaces no row the walk has read.                *)

Walking == {"walk", "down", "next"}

(* What the walk has passed is in the database still, and abandoned unless *)
(* the chain has reorganised since.                                        *)
Walked ==
    /\ store[cur.num] = cur.fork
    /\ \A h \in Heights : cur.num < h /\ h <= tip.num =>
          store[h] # NoBlock /\ (forks = started => store[h] # chain[h])

AlarmIsTrue == Threshold > 0 => NoFalseAlarm

DInv ==
    /\ DTypeOK
    /\ WorldInv
    /\ Known(tip) /\ Known(cur) /\ Known(event.old) /\ Known(event.new)
    /\ started <= forks
    /\ chain[latest] # NoBlock
    /\ pc \in Walking =>
          /\ tip.num < latest
          /\ Walked
          /\ cur.num + depth = tip.num
          /\ depth = 0 => cur = tip
          /\ depth > 0 => ~ OnChain(tip)
    /\ pc = "down" => ~ OnChain(cur)
    /\ pc = "next" =>
          /\ depth >= Threshold
          /\ forks = started => OnChain(cur)
    /\ AlarmIsTrue
    /\ ForkPointExact

(* What the steps of the check leave alone.                                *)
LEMMA SameWorld ==
    ASSUME WorldInv, UNCHANGED storeVars
    PROVE  WorldInv'
BY DEF WorldInv, StoreTypeOK, ChainShape, NoFutureForks, StoredWithinChain,
       JobsKnown, storeVars

LEMMA GenesisIsKnown == WorldInv => Genesis \in Blocks /\ Known(Genesis)
<1> SUFFICES ASSUME WorldInv PROVE Genesis \in Blocks /\ Known(Genesis)
  OBVIOUS
<1> USE StoreAssumption DEF WorldInv, StoreTypeOK, Heights, Forks
<1>1. chain[0] # NoBlock /\ 0 <= forks
  BY DEF ChainShape
<1> QED
  BY <1>1 DEF Genesis, Block, Blocks, Known

LEMMA DInitially == DInit => DInv
<1> SUFFICES ASSUME DInit PROVE DInv
  OBVIOUS
<1>1. WorldInv
  BY WorldInitially DEF DInit
<1>2. Genesis \in Blocks /\ Known(Genesis)
  BY <1>1, GenesisIsKnown
<1>3. DTypeOK
  <2>1. stats \in [detected : 0 .. 1, finite : BOOLEAN]
    BY DEF DInit
  <2> QED
    BY <1>1, <1>2, <2>1, StoreAssumption
    DEF DTypeOK, WorldInv, DInit, NoEvent, Events, LoopStates, Heights, Forks
<1>4. started <= forks
  BY DEF DInit, StoreInit
<1>5. chain[latest] # NoBlock
  BY <1>2 DEF DInit, Known, Genesis, Block
<1> QED
  BY <1>1, <1>2, <1>3, <1>4, <1>5
  DEF DInv, DInit, NoEvent, AlarmIsTrue, NoFalseAlarm, ForkPointExact,
      Handling, Walking

LEMMA ChainKeepsDInv == ASSUME DInv, Chain PROVE DInv'
<1>1. /\ WorldInv' /\ KnownBlocksStay /\ RowsStay /\ forks' \in Forks
      /\ forks' = forks \/ forks' = forks + 1
      /\ UNCHANGED <<pc, locals, stats, stop>>
  BY WorldKeepsWorld DEF Chain, DInv
<1>2. UNCHANGED <<pc, latest, tip, cur, depth, event, started, stats, stop>>
  BY <1>1 DEF locals, scan
<1>3. forks \in Int /\ started \in Int
  BY StoreAssumption DEF DInv, DTypeOK, StoreTypeOK, Forks
<1>4. DTypeOK'
  BY <1>1, <1>2 DEF DInv, DTypeOK, WorldInv
<1>5. \A b \in Blocks : Known(b) =>
          /\ chain'[b.num] # NoBlock
          /\ b.fork <= forks'
          /\ ~ OnChain(b) => chain'[b.num] # b.fork
          /\ forks' = forks => chain'[b.num] = chain[b.num]
  BY <1>1 DEF KnownBlocksStay, Known, OnChain
<1>6. /\ tip \in Blocks /\ cur \in Blocks
      /\ event.old \in Blocks /\ event.new \in Blocks
      /\ Known(tip) /\ Known(cur) /\ Known(event.old) /\ Known(event.new)
  BY DEF DInv, DTypeOK, Events
<1>7. (Known(tip) /\ Known(cur) /\ Known(event.old) /\ Known(event.new))'
  BY <1>2, <1>5, <1>6 DEF Known
<1>8. /\ started' <= forks'
      /\ forks' = started' => forks' = forks /\ forks = started
  BY <1>1, <1>2, <1>3 DEF DInv
<1>9. /\ ~ OnChain(tip) => ~ OnChain(tip)'
      /\ ~ OnChain(cur) => ~ OnChain(cur)'
  BY <1>2, <1>5, <1>6 DEF OnChain
<1>10. forks' = forks =>
          /\ OnChain(cur) => OnChain(cur)'
          /\ OnChain(event.old) => OnChain(event.old)'
          /\ OnChain(event.new) => OnChain(event.new)'
  BY <1>2, <1>5, <1>6 DEF OnChain
<1>11. \A h \in Heights : store[h] # NoBlock => store'[h] = store[h]
  BY <1>1 DEF RowsStay
<1>12. \A h \in Heights : chain[h] # NoBlock =>
          /\ chain'[h] # NoBlock
          /\ forks' = forks => chain'[h] = chain[h]
  <2> TAKE h \in Heights
  <2> HAVE chain[h] # NoBlock
  <2>1. chain[h] \in Forks /\ chain[h] <= forks
    BY DEF DInv, WorldInv, StoreTypeOK, NoFutureForks
  <2>2. Block(h, chain[h]) \in Blocks /\ Known(Block(h, chain[h]))
    BY <2>1 DEF Block, Blocks, Known
  <2> QED
    BY <2>2, <1>5 DEF Block
<1>13. ForkPointExact'
  <2> SUFFICES ASSUME pc' \in Handling, event'.new.num > event'.old.num,
                      forks' = started'
               PROVE  /\ OnChain(event.old)'
                      /\ OnChain(event.new)'
                      /\ event'.new.num = event'.old.num + 1
                      /\ event'.old.num + event'.depth = tip'.num
                      /\ \A h \in Heights :
                            event'.old.num < h /\ h <= tip'.num => h \in Orphans'
    BY DEF ForkPointExact
  <2>1. pc \in Handling /\ event.new.num > event.old.num /\ forks = started
    BY <1>2, <1>8
  <2>2. /\ OnChain(event.old) /\ OnChain(event.new)
        /\ event.new.num = event.old.num + 1
        /\ event.old.num + event.depth = tip.num
        /\ \A h \in Heights :
              event.old.num < h /\ h <= tip.num => h \in Orphans
    BY <2>1 DEF DInv, ForkPointExact
  <2>3. forks' = forks
    BY <1>8
  <2>4. ASSUME NEW h \in Heights, h \in Orphans PROVE h \in Orphans'
    <3>1. store[h] # NoBlock /\ store[h] # chain[h] /\ chain[h] # NoBlock
      BY <2>4 DEF Orphans, HeightsIn, DInv, WorldInv, StoredWithinChain
    <3>2. store'[h] = store[h] /\ chain'[h] = chain[h]
      BY <3>1, <2>3, <1>11, <1>12
    <3> QED
      BY <3>1, <3>2 DEF Orphans, HeightsIn
  <2> QED
    BY <2>2, <2>3, <2>4, <1>2, <1>10
<1>14. AlarmIsTrue'
  BY <1>2, <1>9 DEF DInv, AlarmIsTrue, NoFalseAlarm
<1>15. pc \in Walking => Walked'
  <2> SUFFICES ASSUME pc \in Walking PROVE Walked'
    OBVIOUS
  <2>1. Walked
    BY DEF DInv
  <2>2. store'[cur.num] = cur.fork
    <3>1. cur.num \in Heights /\ cur.fork # NoBlock
      BY <1>6, StoreAssumption DEF Blocks, Forks, NoBlock
    <3> QED
      BY <2>1, <3>1, <1>11 DEF Walked
  <2>3. ASSUME NEW h \in Heights, cur.num < h, h <= tip.num
        PROVE  store'[h] # NoBlock /\ (forks' = started' => store'[h] # chain'[h])
    <3>1. store[h] # NoBlock /\ (forks = started => store[h] # chain[h])
      BY <2>1, <2>3 DEF Walked
    <3>2. chain[h] # NoBlock
      BY <3>1 DEF DInv, WorldInv, StoredWithinChain
    <3>3. store'[h] = store[h] /\ (forks' = forks => chain'[h] = chain[h])
      BY <3>1, <3>2, <1>11, <1>12
    <3> QED
      BY <3>1, <3>3, <1>8
  <2> QED
    BY <2>2, <2>3, <1>2 DEF Walked
<1>16. chain'[latest'] # NoBlock
  BY <1>2, <1>12 DEF DInv, DTypeOK
<1> QED
  BY <1>1, <1>2, <1>4, <1>7, <1>8, <1>9, <1>10, <1>13, <1>14, <1>15, <1>16
  DEF DInv

LEMMA ReturnKeepsDInv == ASSUME DInv, Return PROVE DInv'
<1>1. UNCHANGED storeVars /\ UNCHANGED <<stats, stop>>
  BY DEF Return
<1>2. WorldInv'
  BY <1>1, SameWorld DEF DInv
<1>3. Genesis \in Blocks /\ Known(Genesis)
  BY GenesisIsKnown DEF DInv
<1>4. /\ pc' = "idle" /\ latest' = 0 /\ tip' = Genesis /\ cur' = Genesis
      /\ depth' = 0 /\ event' = NoEvent /\ started' = 0
  BY DEF Return
<1>5. DTypeOK'
  BY <1>1, <1>2, <1>3, <1>4, StoreAssumption
  DEF DInv, DTypeOK, WorldInv, NoEvent, Events, LoopStates, Heights, Forks
<1>6. (Known(tip) /\ Known(cur) /\ Known(event.old) /\ Known(event.new))'
  BY <1>1, <1>3, <1>4 DEF Known, NoEvent, storeVars
<1>7. started' <= forks'
  BY <1>2, <1>4, StoreAssumption DEF WorldInv, StoreTypeOK, Forks
<1>8. chain'[latest'] # NoBlock
  BY <1>1, <1>3, <1>4 DEF Known, Genesis, Block, storeVars
<1> QED
  BY <1>2, <1>4, <1>5, <1>6, <1>7, <1>8
  DEF DInv, AlarmIsTrue, NoFalseAlarm, ForkPointExact, Handling, Walking

(* Steps that move the loop on and change nothing that DInv speaks of, and *)
(* lead to a place that DInv says nothing about.                           *)
LEMMA QuietStep ==
    ASSUME DInv, UNCHANGED <<storeVars, tip, cur, depth, event, stats>>,
           pc' \in LoopStates, started' \in Forks, started' <= forks,
           latest' \in Heights, chain[latest'] # NoBlock,
           stop' \in {"running", "cancelled", "stopping", "stopped"},
           \/ pc' = pc /\ started' = started /\ latest' = latest
           \/ pc' \in {"height", "local", "error", "ended", "clear"}
           \/ pc \in Handling /\ pc' \in Handling /\ started' = started
    PROVE  DInv'
<1>1. WorldInv'
  BY SameWorld DEF DInv
<1>2. DTypeOK'
  BY <1>1 DEF DInv, DTypeOK, WorldInv
<1>3. UNCHANGED <<chain, forks, store>>
  BY DEF storeVars
<1>4. AlarmIsTrue' /\ ForkPointExact'
  BY <1>3 DEF DInv, AlarmIsTrue, NoFalseAlarm, ForkPointExact, Handling,
              OnChain, Orphans, HeightsIn
<1>5. pc' \in Walking => pc' = pc /\ started' = started /\ latest' = latest
  BY DEF Walking, Handling
<1>6. pc' \in {"next", "down"} => pc' \in Walking
  BY DEF Walking
<1>7. pc' \in Walking => Walked'
  BY <1>3, <1>5 DEF DInv, Walked
<1> QED
  BY <1>1, <1>2, <1>3, <1>4, <1>5, <1>6, <1>7 DEF DInv, Known, OnChain

(* The check: each step changes the place in the loop and at most what the *)
(* walk has found.                                                         *)
LEMMA CheckKeepsDInv == ASSUME DInv, Check PROVE DInv'
<1> USE StoreAssumption, DetectorAssumption
<1>1. CASE Tick
  <2>1. started' = forks /\ forks \in Forks
    BY <1>1 DEF Tick, DInv, DTypeOK, StoreTypeOK
  <2>2. started' <= forks /\ pc' = "height"
    BY <1>1, <2>1 DEF Tick, Step, Forks
  <2> QED
    BY <1>1, <2>1, <2>2, QuietStep
    DEF Tick, scan, LoopStates, DInv, DTypeOK
<1>2. CASE GetLatestHeight
  <2>1. latest' \in Heights /\ chain[latest'] # NoBlock
    BY <1>2, HeadOfChain DEF GetLatestHeight, DInv, WorldInv, Heights
  <2> QED
    BY <1>2, <2>1, QuietStep
    DEF GetLatestHeight, Step, LoopStates, DInv, DTypeOK
<1>3. CASE NoLocalBlock \/ LocalAhead \/ SameHash \/ MatchTooShallow
           \/ HandleDetectionError
  BY <1>3, ReturnKeepsDInv
  DEF NoLocalBlock, LocalAhead, SameHash, MatchTooShallow,
      HandleDetectionError
<1>4. CASE GetLatestBlock
  <2>1. /\ pc' \in {"same", "walk"}
        /\ tip' = Block(Top(store), store[Top(store)])
        /\ cur' = tip' /\ depth' = 0
        /\ UNCHANGED <<storeVars, latest, event, stats, stop, started>>
    BY <1>4 DEF GetLatestBlock
  <2>2. /\ Top(store) \in Heights /\ store[Top(store)] # NoBlock
    BY <1>4, TopIsHighest DEF GetLatestBlock
  <2>3. tip' \in Blocks /\ Known(tip)'
    BY <2>1, <2>2 DEF DInv, WorldInv, StoreTypeOK, NoFutureForks,
                      StoredWithinChain, Known, Block, Blocks, storeVars
  <2>4. /\ tip'.num + 0 = tip'.num /\ tip'.num = Top(store)
        /\ tip'.fork = store[Top(store)] /\ tip'.num \in Nat
    BY <2>1, <2>3 DEF Block, Blocks, Heights
  <2>5. WorldInv'
    BY <2>1, SameWorld DEF DInv
  <2>6. DTypeOK'
    BY <2>1, <2>3, <2>5
    DEF DInv, DTypeOK, WorldInv, LoopStates, Heights
  <2>7. pc' = "walk" => tip'.num < latest'
    <3>1. latest \in Nat /\ Top(store) \in Nat /\ latest >= Top(store)
      BY <1>4, <2>2 DEF GetLatestBlock, DInv, DTypeOK, Heights
    <3>2. pc' = "walk" => latest # Top(store)
      BY <1>4 DEF GetLatestBlock
    <3> QED
      BY <2>1, <2>4, <3>1, <3>2
  <2>8. Walked'
    BY <2>1, <2>4 DEF Walked, storeVars, Heights
  <2>9. AlarmIsTrue' /\ ForkPointExact'
    BY <2>1 DEF AlarmIsTrue, NoFalseAlarm, ForkPointExact, Handling
  <2>10. (chain[latest] # NoBlock)' /\ (started <= forks)'
    BY <2>1 DEF DInv, storeVars
  <2>11. Known(cur)' /\ Known(event.old)' /\ Known(event.new)'
    BY <2>1, <2>3 DEF DInv, Known, storeVars
  <2>12. /\ pc' # "down" /\ pc' # "next"
         /\ pc' \in Walking => pc' = "walk"
         /\ ~ (depth' > 0)
    BY <2>1 DEF Walking
  <2> QED
    BY <2>1, <2>3, <2>4, <2>5, <2>6, <2>7, <2>8, <2>9, <2>10, <2>11, <2>12
    DEF DInv
<1>5. CASE OtherHash
  <2>1. /\ pc' = "create" /\ ~ OnChain(tip)
        /\ event' = [old |-> tip, new |-> Block(tip.num, chain[tip.num]),
                     depth |-> 1]
        /\ UNCHANGED <<storeVars, scan, stats, stop, started>>
    BY <1>5 DEF OtherHash, Step
  <2>2. Block(tip.num, chain[tip.num]) \in Blocks
    BY DEF DInv, DTypeOK, WorldInv, StoreTypeOK, Known, Block, Blocks
  <2>3. tip.num \in Nat /\ tip.num \in Heights
    BY DEF DInv, DTypeOK, Blocks, Heights
  <2>4. Known(event.old)' /\ Known(event.new)'
    BY <2>1, <2>3
    DEF DInv, WorldInv, NoFutureForks, Known, Block, storeVars
  <2>5. WorldInv'
    BY <2>1, SameWorld DEF DInv
  <2>6. DTypeOK'
    BY <2>1, <2>2, <2>5
    DEF DInv, DTypeOK, WorldInv, LoopStates, Heights, Events, scan
  <2>7. AlarmIsTrue' /\ ForkPointExact'
    BY <2>1, <2>3
    DEF AlarmIsTrue, NoFalseAlarm, ForkPointExact, OnChain, Block, scan,
        storeVars
  <2> QED
    BY <2>1, <2>4, <2>5, <2>6, <2>7 DEF DInv, Known, Walking, scan, storeVars
<1>6. CASE Match
  <2>1. /\ pc = "walk" /\ pc' = "next" /\ OnChain(cur)
        /\ depth >= Threshold
        /\ UNCHANGED <<storeVars, locals, stats, stop>>
    BY <1>6 DEF Match, Step, DeepEnough
  <2>2. UNCHANGED <<latest, tip, cur, depth, event, started>>
    BY <2>1 DEF locals, scan
  <2>3. WorldInv'
    BY <2>1, SameWorld DEF DInv
  <2>4. DTypeOK'
    BY <2>1, <2>2, <2>3 DEF DInv, DTypeOK, WorldInv, LoopStates
  <2>5. Walked'
    BY <2>1, <2>2 DEF DInv, Walked, Walking, storeVars
  <2> QED
    BY <2>1, <2>2, <2>3, <2>4, <2>5
    DEF DInv, AlarmIsTrue, NoFalseAlarm, ForkPointExact, Handling, Walking,
        Known, OnChain, storeVars
<1>7. CASE Mismatch
  <2>1. /\ pc = "walk" /\ pc' = "down" /\ ~ OnChain(cur)
        /\ UNCHANGED <<storeVars, locals, stats, stop>>
    BY <1>7 DEF Mismatch, Step
  <2>2. UNCHANGED <<latest, tip, cur, depth, event, started>>
    BY <2>1 DEF locals, scan
  <2>3. WorldInv'
    BY <2>1, SameWorld DEF DInv
  <2>4. DTypeOK'
    BY <2>1, <2>2, <2>3 DEF DInv, DTypeOK, WorldInv, LoopStates
  <2>5. Walked'
    BY <2>1, <2>2 DEF DInv, Walked, Walking, storeVars
  <2> QED
    BY <2>1, <2>2, <2>3, <2>4, <2>5
    DEF DInv, AlarmIsTrue, NoFalseAlarm, ForkPointExact, Handling, Walking,
        Known, OnChain, storeVars
<1>8. CASE Down
  <2>1. /\ pc = "down" /\ pc' \in {"walk", "error"}
        /\ cur.num > 0 /\ store[cur.num - 1] # NoBlock
        /\ cur' = Block(cur.num - 1, store[cur.num - 1])
        /\ depth' = depth + 1
        /\ UNCHANGED <<storeVars, latest, tip, event, stats, stop, started>>
    BY <1>8 DEF Down
  <2>2. /\ cur.num \in Heights /\ tip.num \in Heights /\ depth \in Heights
        /\ cur.num + depth = tip.num
        /\ depth = 0 => cur = tip
        /\ depth > 0 => ~ OnChain(tip)
        /\ ~ OnChain(cur)
        /\ Walked /\ tip.num < latest
        /\ cur.fork # NoBlock
    BY <2>1, StoreAssumption
    DEF DInv, DTypeOK, Blocks, Walking, Forks, NoBlock
  <2>3. /\ cur.num - 1 \in Heights /\ depth + 1 \in Heights /\ depth + 1 > 0
        /\ (cur.num - 1) + (depth + 1) = tip.num
        /\ depth > 0 \/ depth = 0
    BY <2>1, <2>2 DEF Heights
  <2>4. ~ OnChain(tip)
    BY <2>2, <2>3
  <2>5. cur' \in Blocks /\ Known(cur)'
    BY <2>1, <2>3
    DEF DInv, WorldInv, StoreTypeOK, NoFutureForks, StoredWithinChain,
        Known, Block, Blocks, storeVars
  <2>6. WorldInv'
    BY <2>1, SameWorld DEF DInv
  <2>7. DTypeOK'
    BY <2>1, <2>3, <2>5, <2>6 DEF DInv, DTypeOK, WorldInv, LoopStates
  <2>8. cur'.num + depth' = tip'.num /\ depth' > 0 /\ depth' # 0
    BY <2>1, <2>3 DEF Block, Heights
  <2>9. ~ OnChain(tip)'
    BY <2>1, <2>4 DEF OnChain, storeVars
  <2>10. Walked'
    <3>1. cur'.num = cur.num - 1 /\ cur'.fork = store[cur.num - 1]
      BY <2>1 DEF Block
    <3>2. \A h \in Heights : cur.num - 1 < h => h = cur.num \/ cur.num < h
      BY <2>2 DEF Heights
    <3>3. store[cur.num] # NoBlock /\ store[cur.num] # chain[cur.num]
      BY <2>2 DEF Walked, OnChain
    <3> QED
      BY <2>1, <2>2, <3>1, <3>2, <3>3 DEF Walked, storeVars
  <2>11. AlarmIsTrue' /\ ForkPointExact'
    BY <2>1 DEF AlarmIsTrue, NoFalseAlarm, ForkPointExact, Handling
  <2>12. pc' # "down" /\ pc' # "next"
    BY <2>1
  <2>13. /\ Known(tip)' /\ Known(event.old)' /\ Known(event.new)'
         /\ (chain[latest] # NoBlock)' /\ (started <= forks)'
         /\ tip'.num < latest'
    BY <2>1, <2>2 DEF DInv, Known, storeVars
  <2> QED
    BY <2>5, <2>6, <2>7, <2>8, <2>9, <2>10, <2>11, <2>12, <2>13 DEF DInv
<1>9. CASE DownFails
  BY <1>9, QuietStep
  DEF DownFails, Step, locals, scan, LoopStates, DInv, DTypeOK
<1>10. CASE GetNewBlock
  <2>1. /\ pc = "next" /\ pc' = "create"
        /\ event' = [old |-> cur, new |-> Block(cur.num + 1, chain[cur.num + 1]),
                     depth |-> depth]
        /\ UNCHANGED <<storeVars, scan, stats, stop, started>>
    BY <1>10 DEF GetNewBlock, Step, NextBlock
  <2>2. /\ cur \in Blocks /\ tip \in Blocks
        /\ cur.num \in Heights /\ tip.num \in Heights /\ depth \in Heights
        /\ cur.num + depth = tip.num
        /\ depth > 0 => ~ OnChain(tip)
        /\ depth >= Threshold
        /\ forks = started => OnChain(cur)
        /\ Walked /\ tip.num < latest /\ latest \in Heights
        /\ chain[latest] # NoBlock
    BY <2>1 DEF DInv, DTypeOK, Blocks, Walking
  <2>3. /\ cur.num + 1 \in Heights /\ cur.num + 1 <= latest
        /\ Threshold > 0 => depth > 0
    BY <2>2 DEF Heights
  <2>4. chain[cur.num + 1] # NoBlock
    <3>1. PICK t \in Heights : \A h \in Heights : chain[h] # NoBlock <=> h <= t
      BY DEF DInv, WorldInv, ChainShape
    <3>2. latest <= t
      BY <2>2, <3>1
    <3> QED
      BY <2>2, <2>3, <3>1, <3>2 DEF Heights
  <2>5. Block(cur.num + 1, chain[cur.num + 1]) \in Blocks
    BY <2>3, <2>4 DEF DInv, WorldInv, StoreTypeOK, Block, Blocks
  <2>6. Known(event.old)' /\ Known(event.new)'
    BY <2>1, <2>3, <2>4
    DEF DInv, WorldInv, NoFutureForks, Known, Block, storeVars
  <2>7. WorldInv'
    BY <2>1, SameWorld DEF DInv
  <2>8. DTypeOK'
    <3>1. event' \in Events
      BY <2>1, <2>2, <2>5 DEF Events, Heights
    <3> QED
      BY <2>1, <2>7, <3>1 DEF DInv, DTypeOK, WorldInv, LoopStates, scan
  <2>9. AlarmIsTrue' /\ ForkPointExact'
    <3>1. /\ event'.old = cur /\ event'.new.num = cur.num + 1
          /\ event'.new.fork = chain[cur.num + 1] /\ event'.depth = depth
          /\ UNCHANGED <<chain, forks, store, tip, started>>
      BY <2>1 DEF Block, scan, storeVars
    <3>2. AlarmIsTrue'
      BY <2>2, <2>3, <3>1 DEF AlarmIsTrue, NoFalseAlarm, OnChain
    <3>3. ForkPointExact'
      BY <2>2, <3>1 DEF ForkPointExact, OnChain, Walked, Orphans, HeightsIn
    <3> QED
      BY <3>2, <3>3
  <2> QED
    BY <2>1, <2>6, <2>7, <2>8, <2>9 DEF DInv, Known, Walking, scan, storeVars
<1> QED
  BY <1>1, <1>2, <1>3, <1>4, <1>5, <1>6, <1>7, <1>8, <1>9, <1>10 DEF Check

(* The steps of the handling keep event and tip; three of them change the  *)
(* watermark, the blocks and the transactions.                             *)
LEMMA HandleKeepsDInv == ASSUME DInv, Handle PROVE DInv'
<1> USE DEF LoopStates, Handling
<1>1. CASE CreateReorgEvent
  <2>1. /\ pc = "create" /\ pc' = "handle"
        /\ UNCHANGED <<storeVars, locals, stop>>
    BY <1>1 DEF CreateReorgEvent, Step
  <2>2. stats' \in [detected : 0..1, finite : BOOLEAN]
    <3>1. stats.detected \in 0..1
      BY DEF DInv, DTypeOK
    <3>2. (IF event.new.num > event.old.num THEN 1 ELSE stats.detected) \in 0..1
      BY <3>1
    <3> QED
      BY <1>1, <3>2 DEF CreateReorgEvent
  <2>3. UNCHANGED <<latest, tip, cur, depth, event, started>>
    BY <2>1 DEF locals, scan
  <2>4. WorldInv'
    BY <2>1, SameWorld DEF DInv
  <2>5. DTypeOK'
    BY <2>1, <2>2, <2>3, <2>4 DEF DInv, DTypeOK, WorldInv
  <2> QED
    BY <2>1, <2>3, <2>4, <2>5
    DEF DInv, AlarmIsTrue, NoFalseAlarm, ForkPointExact, Walking, Known,
        OnChain, Orphans, HeightsIn, storeVars
<1>2. CASE BeginHandling \/ SaveReorgEvent \/ SaveProcessed
  <2>1. UNCHANGED <<storeVars, latest, tip, cur, depth, event, started>>
    BY <1>2 DEF BeginHandling, SaveReorgEvent, SaveProcessed, locals, scan
  <2>2. \/ pc \in Handling /\ pc' \in Handling
        \/ pc' = "clear"
    BY <1>2 DEF BeginHandling, SaveReorgEvent, SaveProcessed, Step
  <2>3. UNCHANGED <<stats, stop>>
    BY <1>2 DEF BeginHandling, SaveReorgEvent, SaveProcessed
  <2> QED
    BY <2>1, <2>2, <2>3, QuietStep DEF DInv, DTypeOK
<1>3. CASE ResetWatermark \/ DeleteData \/ MarkTransactions
  <2>1. /\ pc \in Handling /\ pc' \in Handling
        /\ UNCHANGED <<chain, forks, job, locals, stats, stop>>
    BY <1>3
    DEF ResetWatermark, DeleteData, MarkTransactions, Step, storeVars
  <2>2. UNCHANGED <<latest, tip, cur, depth, event, started>>
    BY <2>1 DEF locals, scan
  <2>3. scanned' \in Heights
    <3>1. CASE ResetWatermark
      <4>1. event.old.num \in Heights /\ scanned' = SafeHeight(event.old.num)
        BY <3>1
        DEF ResetWatermark, DInv, DTypeOK, Events, Blocks
      <4> QED
        BY <4>1, StoreAssumption DEF SafeHeight, Heights
    <3> QED
      BY <1>3, <3>1
      DEF DeleteData, MarkTransactions, DInv, DTypeOK, StoreTypeOK, storeVars
  <2>4. \/ UNCHANGED <<store, extra>>
        \/ DeleteBlocks(event.new.num, event.old.num)
    BY <1>3 DEF ResetWatermark, DeleteData, MarkTransactions, storeVars
  <2>5. /\ store' \in [Heights -> Forks \cup {NoBlock}]
        /\ \A h \in Heights : store'[h] = store[h] \/ store'[h] = NoBlock
        /\ extra' \subseteq Blocks
    BY <2>4, DeleteBlocksRemoves DEF DInv, DTypeOK, StoreTypeOK
  <2>6. WorldInv'
    BY <2>1, <2>3, <2>5, RollbackKeepsWorld DEF DInv
  <2>7. DTypeOK'
    BY <2>1, <2>2, <2>6 DEF DInv, DTypeOK, WorldInv
  <2>8. event.new.num > event.old.num => UNCHANGED store
    <3>1. event.new.num \in Nat /\ event.old.num \in Nat
      BY DEF DInv, DTypeOK, Events, Blocks, Heights
    <3>2. store = [h \in Heights |-> store[h]]
      BY DEF DInv, DTypeOK, StoreTypeOK
    <3>3. CASE DeleteBlocks(event.new.num, event.old.num)
      BY <3>1, <3>2, <3>3 DEF DeleteBlocks, Heights
    <3> QED
      BY <2>4, <3>3
  <2>9. ForkPointExact'
    BY <2>1, <2>2, <2>8
    DEF DInv, ForkPointExact, OnChain, Orphans, HeightsIn
  <2> QED
    BY <2>1, <2>2, <2>6, <2>7, <2>9
    DEF DInv, AlarmIsTrue, NoFalseAlarm, Walking, Known, OnChain
<1>4. CASE EndHandling
  BY <1>4, ReturnKeepsDInv DEF EndHandling
<1> QED
  BY <1>1, <1>2, <1>3, <1>4 DEF Handle

LEMMA FailuresKeepDInv == ASSUME DInv, Fails \/ Shutdown PROVE DInv'
<1>1. UNCHANGED <<storeVars, locals, stats>>
  BY DEF Fails, CallFails, HandlingFails, Shutdown, Cancel, LoopEnds, Stop,
         StopReturns
<1>2. UNCHANGED <<latest, tip, cur, depth, event, started>>
  BY <1>1 DEF locals, scan
<1>3. pc' = pc \/ pc' \in {"error", "clear", "ended"}
  BY DEF Fails, CallFails, HandlingFails, Shutdown, Cancel, LoopEnds, Stop,
         StopReturns, Step
<1>4. stop' \in {"running", "cancelled", "stopping", "stopped"}
  BY DEF Fails, CallFails, HandlingFails, Shutdown, Cancel, LoopEnds, Stop,
         StopReturns, DInv, DTypeOK
<1> QED
  BY <1>1, <1>2, <1>3, <1>4, QuietStep DEF DInv, DTypeOK, LoopStates

LEMMA DInvInductive == DInv /\ [DNext]_dvars => DInv'
<1> SUFFICES ASSUME DInv, [DNext]_dvars PROVE DInv'
  OBVIOUS
<1>1. CASE Chain
  BY <1>1, ChainKeepsDInv
<1>2. CASE Check
  BY <1>2, CheckKeepsDInv
<1>3. CASE Handle
  BY <1>3, HandleKeepsDInv
<1>4. CASE Fails \/ Shutdown
  BY <1>4, FailuresKeepDInv
<1>5. CASE UNCHANGED dvars
  BY <1>5, QuietStep DEF dvars, locals, scan, DInv, DTypeOK
<1> QED
  BY <1>1, <1>2, <1>3, <1>4, <1>5 DEF DNext

LEMMA DetectorInvariant == DSpec => []DInv
  BY DInitially, DInvInductive, PTL DEF DSpec

(* The variables of the detection loop, among them the blocks of the walk  *)
(* and of the event, stay in their types: a walk never leaves the chain,   *)
(* and an event always has two blocks.                                     *)
THEOREM DetectorTypeCorrect == DSpec => []DTypeOK
<1>1. DInv => DTypeOK
  BY DEF DInv
<1> QED
  BY <1>1, DetectorInvariant, PTL

(* With a threshold above 0, an event is only made about a local tip that  *)
(* the chain has abandoned, for chains of any height with any number of    *)
(* reorganisations between the calls of findForkPoint: DetectReorg (line   *)
(* 254) raises no false alarm.                                             *)
THEOREM DetectorRaisesNoFalseAlarm ==
    ASSUME Threshold > 0
    PROVE  DSpec => []NoFalseAlarm
<1>1. DInv => NoFalseAlarm
  BY DEF DInv, AlarmIsTrue
<1> QED
  BY <1>1, DetectorInvariant, PTL

(* Without a reorganisation during the check, findForkPoint (line 341)     *)
(* finds the highest local block on the chain, at any threshold and depth  *)
(* bound and whatever the scanner saves meanwhile: the old block is on the *)
(* chain, with its successor there, and at every height above it up to the *)
(* local tip, as many as the depth says, the database holds a block that   *)
(* the chain has abandoned.                                                *)
THEOREM DetectorFindsForkPoint == DSpec => []ForkPointExact
<1>1. DInv => ForkPointExact
  BY DEF DInv
<1> QED
  BY <1>1, DetectorInvariant, PTL

-----------------------------------------------------------------------------
(* The processor.                                                          *)
(*                                                                         *)
(* The argument: an accepted event has exactly one place, in the queue or  *)
(* with a worker, and a worker has an event exactly while it is busy.  So  *)
(* the event that deletes a height is still open when its worker comes to  *)
(* reset the watermark below that height, and resets of others take only   *)
(* heights away for which nobody has to account any more.                  *)

(* The events given to ProcessReorg.                                       *)
EventsOK ==
    /\ \A i \in Ids : outcome[i] # "none" <=> i <= Len(events)
    /\ \A i \in 1 .. Len(events) :
          events[i].new.num \in {events[i].old, events[i].old + 1}

(* The queue holds accepted events, each once, that no worker has.         *)
QueueOK ==
    /\ \A m, n \in 1 .. Len(queue) : queue[m] = queue[n] => m = n
    /\ \A n \in 1 .. Len(queue) :
          /\ outcome[queue[n]] = "accepted"
          /\ \A w \in PWorkers : work[w].id # queue[n]

(* No two workers have the same event.                                     *)
WorkApart ==
    \A v, w \in PWorkers :
        work[v].id = work[w].id /\ work[w].id # 0 => v = w

(* What a worker has, by the step it is at.                                *)
WorkOK(w) ==
    /\ work[w].id = 0 <=> work[w].state \in {"select", "ended"}
    /\ work[w].id # 0 => outcome[work[w].id] =
          IF work[w].state = "completed" THEN "processed" ELSE "accepted"
    /\ work[w].passed => work[w].id # 0 /\ EventOf(w).old # 0
    /\ work[w].state \in Steps \ {"validate"} => work[w].passed
    /\ work[w].state = "wait" => work[w].attempt < MaxRetries

Held(i) == \E w \in PWorkers : work[w].id = i

Queued(i) == \E n \in 1 .. Len(queue) : queue[n] = i

NoneLost == \A i \in Ids : outcome[i] = "accepted" => Queued(i) \/ Held(i)

WorkRecords == [state : WorkStates, id : 0 .. Len(events),
                attempt : 0 .. MaxRetries, passed : BOOLEAN]

(* All but the heights cleaned.                                            *)
PCore ==
    /\ PTypeOK
    /\ WorldInv
    /\ EventsOK
    /\ QueueOK
    /\ WorkApart
    /\ \A w \in PWorkers : WorkOK(w)
    /\ NoneLost

PInv == PCore /\ CleanedIsReset

(* The events that account for a height, as CleanedIsReset has them.       *)
Owned(h) ==
    \/ \E w \in PWorkers :
          /\ work[w].passed
          /\ work[w].state \notin {"mark_processed", "completed"}
          /\ EventOf(w).old = h
    \/ \E i \in 1 .. Len(events) :
          outcome[i] = "failed" /\ events[i].old = h

LEMMA CleanedByHeight == CleanedIsReset <=> \A h \in cleaned : Owned(h)
BY DEF CleanedIsReset, Owned

LEMMA PInitially == PInit => PInv
<1> SUFFICES ASSUME PInit PROVE PInv
  OBVIOUS
<1> USE StoreAssumption, ProcessorAssumption DEF PInit
<1>1. WorldInv
  BY WorldInitially
<1>2. /\ AtSelect \in WorkRecords
      /\ AtSelect.id = 0 /\ AtSelect.state = "select" /\ AtSelect.passed = FALSE
  BY DEF AtSelect, WorkRecords, WorkStates
<1>3. work \in [PWorkers -> WorkRecords]
  BY <1>2
<1>4. PTypeOK
  <2>1. outcome \in [Ids -> {"none", "refused", "accepted", "processed",
                             "failed"}]
    OBVIOUS
  <2>2. /\ events \in Seq([old : Heights, new : Blocks])
        /\ Len(events) = 0 /\ Len(queue) = 0
        /\ queue \in Seq(1 .. Len(events))
    OBVIOUS
  <2>3. /\ busy \in BOOLEAN /\ done \in BOOLEAN /\ cleaned \subseteq Heights
        /\ stopping \in {"no", "waiting", "returned"}
    OBVIOUS
  <2>4. StoreTypeOK
    BY <1>1 DEF WorldInv
  <2> QED
    BY <1>3, <2>1, <2>2, <2>3, <2>4 DEF PTypeOK, WorkRecords
<1>5. EventsOK /\ QueueOK /\ NoneLost
  BY DEF EventsOK, QueueOK, NoneLost, Ids
<1>6. WorkApart /\ \A w \in PWorkers : WorkOK(w)
  BY <1>2 DEF WorkApart, WorkOK, Steps
<1>7. CleanedIsReset
  BY DEF CleanedIsReset
<1> QED
  BY <1>1, <1>4, <1>5, <1>6, <1>7 DEF PInv, PCore

(* The variables of the processor that no lemma has to speak of.           *)
CtlOK ==
    /\ busy \in BOOLEAN
    /\ done \in BOOLEAN
    /\ stopping \in {"no", "waiting", "returned"}
    /\ cleaned \subseteq Heights

(* A worker moves on with the event it has, or without one.                *)
LEMMA MoveKeepsCore ==
    ASSUME PCore, NEW w \in PWorkers, UNCHANGED <<events, outcome, queue>>,
           NEW r \in WorkRecords, work' = [work EXCEPT ![w] = r],
           r.id = work[w].id,
           WorldInv', CtlOK', WorkOK(w)'
    PROVE  PCore'
<1>1. /\ work \in [PWorkers -> WorkRecords]
      /\ work' \in [PWorkers -> WorkRecords]
      /\ \A v \in PWorkers : work'[v].id = work[v].id
      /\ \A v \in PWorkers : v # w => work'[v] = work[v]
  BY DEF PCore, PTypeOK, WorkRecords
<1>2. PTypeOK'
  BY <1>1 DEF PCore, PTypeOK, WorkRecords, WorldInv, CtlOK
<1>3. EventsOK'
  BY DEF PCore, EventsOK
<1>4. QueueOK' /\ WorkApart' /\ NoneLost'
  BY <1>1 DEF PCore, QueueOK, WorkApart, NoneLost, Held, Queued
<1>5. \A v \in PWorkers : WorkOK(v)'
  <2> SUFFICES ASSUME NEW v \in PWorkers, v # w PROVE WorkOK(v)'
    OBVIOUS
  <2> QED
    BY <1>1 DEF PCore, WorkOK, EventOf
<1> QED
  BY <1>2, <1>3, <1>4, <1>5 DEF PCore

(* No worker and no event moves.                                           *)
LEMMA RestKeepsCore ==
    ASSUME PCore, UNCHANGED <<events, outcome, queue, work>>,
           WorldInv', CtlOK'
    PROVE  PCore'
<1>1. PTypeOK'
  BY DEF PCore, PTypeOK, WorldInv, CtlOK
<1>2. \A w \in PWorkers : WorkOK(w)'
  BY DEF PCore, WorkOK, EventOf
<1> QED
  BY <1>1, <1>2
  DEF PCore, EventsOK, QueueOK, WorkApart, NoneLost, Held, Queued

(* A worker is done with its event, which is settled.                      *)
LEMMA ReleaseKeepsCore ==
    ASSUME PCore, NEW w \in PWorkers, UNCHANGED <<events, queue>>,
           work[w].id # 0, work' = [work EXCEPT ![w] = AtSelect],
           \/ outcome' = outcome /\ work[w].state = "completed"
           \/ outcome' = [outcome EXCEPT ![work[w].id] = "failed"],
           WorldInv', CtlOK'
    PROVE  PCore'
<1> DEFINE i == work[w].id
<1>1. work \in [PWorkers -> WorkRecords] /\ i \in 1 .. Len(events)
  BY DEF PCore, PTypeOK, WorkRecords
<1>2. i \in Ids
  BY <1>1, ProcessorAssumption DEF PCore, PTypeOK, Ids
<1>3. /\ AtSelect \in WorkRecords /\ AtSelect.id = 0
      /\ AtSelect.state = "select" /\ AtSelect.passed = FALSE
  BY ProcessorAssumption DEF AtSelect, WorkRecords, WorkStates, PCore, PTypeOK
<1>4. /\ work' \in [PWorkers -> WorkRecords] /\ work'[w] = AtSelect
      /\ \A v \in PWorkers : v # w => work'[v] = work[v] /\ work[v].id # i
  BY <1>1, <1>3 DEF PCore, WorkApart
<1>5. /\ outcome' \in [Ids -> {"none", "refused", "accepted", "processed",
                               "failed"}]
      /\ outcome'[i] \in {"processed", "failed"}
      /\ \A j \in Ids : j # i => outcome'[j] = outcome[j]
  <2>1. work[w].state = "completed" => outcome[i] = "processed"
    BY DEF PCore, WorkOK
  <2> QED
    BY <1>2, <2>1 DEF PCore, PTypeOK
<1>6. outcome[i] # "none"
  BY DEF PCore, WorkOK
<1> HIDE DEF i
<1>7. PTypeOK'
  BY <1>4, <1>5 DEF PCore, PTypeOK, WorkRecords, WorldInv, CtlOK
<1>8. EventsOK'
  BY <1>2, <1>5, <1>6 DEF PCore, EventsOK
<1>9. QueueOK'
  <2>1. \A n \in 1 .. Len(queue) : queue[n] # i /\ queue[n] \in Ids
    BY ProcessorAssumption DEF i, PCore, PTypeOK, QueueOK, Ids
  <2>2. \A n \in 1 .. Len(queue) : outcome'[queue[n]] = "accepted"
    BY <1>5, <2>1 DEF PCore, QueueOK
  <2>3. \A n \in 1 .. Len(queue) : queue[n] # 0
    BY <2>1 DEF Ids
  <2> QED
    BY <1>3, <1>4, <2>2, <2>3 DEF PCore, QueueOK
<1>10. WorkApart'
  BY <1>3, <1>4 DEF PCore, WorkApart
<1>11. \A v \in PWorkers : WorkOK(v)'
  <2>1. WorkOK(w)'
    BY <1>3, <1>4 DEF WorkOK, Steps
  <2>2. ASSUME NEW v \in PWorkers, v # w PROVE WorkOK(v)'
    <3>1. work[v].id # 0 => work[v].id \in Ids /\ work[v].id # i
      <4>1. Len(events) \in Nat /\ Len(events) <= MaxEvents
        BY DEF PCore, PTypeOK
      <4>2. work[v].id \in 0 .. Len(events) /\ work[v].id # i
        BY <1>1, <1>4, <2>2 DEF WorkRecords
      <4> QED
        BY <4>1, <4>2, ProcessorAssumption DEF Ids
    <3> QED
      BY <1>4, <1>5, <2>2, <3>1 DEF PCore, WorkOK, EventOf
  <2> QED
    BY <2>1, <2>2
<1>12. NoneLost'
  <2> SUFFICES ASSUME NEW j \in Ids, outcome'[j] = "accepted"
               PROVE  Queued(j)' \/ Held(j)'
    BY DEF NoneLost
  <2>1. j # i /\ outcome[j] = "accepted"
    BY <1>5
  <2>2. Queued(j) \/ \E v \in PWorkers : work[v].id = j
    BY <2>1 DEF PCore, NoneLost, Held
  <2>3. \A v \in PWorkers : work[v].id = j => work'[v].id = j
    BY <1>4, <2>1 DEF i
  <2> QED
    BY <2>2, <2>3 DEF Queued, Held
<1> QED
  BY <1>7, <1>8, <1>9, <1>10, <1>11, <1>12 DEF PCore

(* Who accounts for a height goes on to do so, unless its worker resets    *)
(* the watermark.                                                          *)
LEMMA OwnersStay ==
    ASSUME PCore, NEW w \in PWorkers, UNCHANGED events,
           NEW r, work' = [work EXCEPT ![w] = r],
           \A i \in 1 .. Len(events) :
               outcome[i] = "failed" => outcome'[i] = "failed",
           work[w].passed /\ work[w].state \notin {"mark_processed",
                                                   "completed"} =>
               /\ r.passed
               /\ r.state \notin {"mark_processed", "completed"}
               /\ r.id = work[w].id
    PROVE  \A h \in Heights : Owned(h) => Owned(h)'
<1> SUFFICES ASSUME NEW h \in Heights, Owned(h) PROVE Owned(h)'
  OBVIOUS
<1>1. work \in [PWorkers -> WorkRecords]
  BY DEF PCore, PTypeOK, WorkRecords
<1>2. work'[w] = r /\ \A v \in PWorkers : v # w => work'[v] = work[v]
  BY <1>1
<1>3. ASSUME NEW v \in PWorkers,
             work[v].passed,
             work[v].state \notin {"mark_processed", "completed"},
             EventOf(v).old = h
      PROVE  Owned(h)'
  <2>1. /\ work'[v].passed
        /\ work'[v].state \notin {"mark_processed", "completed"}
        /\ work'[v].id = work[v].id
    BY <1>2, <1>3
  <2> QED
    BY <1>3, <2>1 DEF Owned, EventOf
<1>4. ASSUME NEW i \in 1 .. Len(events),
             outcome[i] = "failed", events[i].old = h
      PROVE  Owned(h)'
  BY <1>4 DEF Owned
<1> QED
  BY <1>3, <1>4 DEF Owned

(* Nothing is cleaned or reset.                                            *)
LEMMA CleanedKept ==
    ASSUME PInv, UNCHANGED cleaned,
           \A h \in Heights : Owned(h) => Owned(h)'
    PROVE  CleanedIsReset'
<1>1. \A h \in cleaned : Owned(h)'
  BY CleanedByHeight DEF PInv, PCore, PTypeOK
<1>2. (\A h \in cleaned : Owned(h))'
  BY <1>1
<1> QED
  BY <1>2, CleanedByHeight, PTL

(* A worker moves on within its event, short of the reset.                 *)
LEMMA MoveKeepsPInv ==
    ASSUME PInv, NEW w \in PWorkers, UNCHANGED <<events, outcome, queue>>,
           NEW r \in WorkRecords, work' = [work EXCEPT ![w] = r],
           r.id = work[w].id,
           work[w].passed => r.passed,
           work[w].passed =>
               r.state \notin {"mark_processed", "completed"},
           UNCHANGED cleaned,
           WorldInv', CtlOK', WorkOK(w)'
    PROVE  PInv'
<1>1. PCore'
  BY MoveKeepsCore DEF PInv
<1>2. \A h \in Heights : Owned(h) => Owned(h)'
  BY OwnersStay DEF PInv
<1>3. CleanedIsReset'
  BY <1>2, CleanedKept
<1> QED
  BY <1>1, <1>3 DEF PInv

LEMMA ElementsOfSeq ==
    ASSUME NEW S, NEW q \in Seq(S)
    PROVE  Len(q) \in Nat /\ \A i \in 1 .. Len(q) : q[i] \in S
OBVIOUS

(* ProcessReorg: the event is new to queue and workers.                    *)
LEMMA ProcessReorgKeepsPInv ==
    ASSUME PInv, NEW old \in Heights, NEW new \in Heights,
           ProcessReorg(old, new)
    PROVE  PInv'
<1> DEFINE e == [old |-> old, new |-> Block(new, chain[new])]
           k == Len(events) + 1
<1>1. /\ events' = Append(events, e)
      /\ Len(events) < MaxEvents
      /\ new \in {old, old + 1}
      /\ chain[new] # NoBlock
      /\ UNCHANGED <<storeVars, work, busy, cleaned, ctlVars>>
      /\ Accept(k)
  BY DEF ProcessReorg
<1>2. /\ events \in Seq([old : Heights, new : Blocks])
      /\ Len(events) \in Nat
      /\ \A i \in 1 .. Len(events) : events[i] \in [old : Heights, new : Blocks]
  <2>1. events \in Seq([old : Heights, new : Blocks])
    BY DEF PInv, PCore, PTypeOK
  <2> QED
    BY <2>1, ElementsOfSeq
<1>3. k \in Ids /\ k \notin 1 .. Len(events)
  BY <1>1, <1>2, ProcessorAssumption DEF Ids
<1>4. e \in [old : Heights, new : Blocks] /\ e.new.num \in {e.old, e.old + 1}
  BY <1>1 DEF PInv, PCore, WorldInv, StoreTypeOK, Block, Blocks
<1>5. /\ events' \in Seq([old : Heights, new : Blocks])
      /\ Len(events') = k
      /\ \A i \in 1 .. Len(events) : events'[i] = events[i]
      /\ events'[k] = e
  BY <1>1, <1>2, <1>4
<1>6. /\ outcome \in [Ids -> {"none", "refused", "accepted", "processed",
                              "failed"}]
      /\ outcome[k] = "none"
  BY <1>2, <1>3 DEF PInv, PCore, PTypeOK, EventsOK
<1>7. /\ outcome' \in [Ids -> {"none", "refused", "accepted", "processed",
                               "failed"}]
      /\ \A i \in Ids : i # k => outcome'[i] = outcome[i]
      /\ \/ outcome'[k] = "accepted" /\ queue' = Append(queue, k)
            /\ Len(queue) < QueueSize
         \/ outcome'[k] = "refused" /\ queue' = queue
  BY <1>1, <1>3, <1>6 DEF Accept
<1>8. /\ queue \in Seq(1 .. Len(events))
      /\ Len(queue) \in Nat /\ Len(queue) <= QueueSize
      /\ \A n \in 1 .. Len(queue) : queue[n] \in 1 .. Len(events)
  BY DEF PInv, PCore, PTypeOK
<1> HIDE DEF e
<1>9. /\ queue' \in Seq(1 .. k)
      /\ Len(queue') <= QueueSize
      /\ \A n \in 1 .. Len(queue) : queue'[n] = queue[n]
      /\ \/ /\ Len(queue') = Len(queue) + 1 /\ queue'[Len(queue) + 1] = k
            /\ outcome'[k] = "accepted"
         \/ Len(queue') = Len(queue) /\ outcome'[k] = "refused"
  <2>1. queue \in Seq(1 .. k)
    BY <1>2, <1>8
  <2>2. CASE queue' = queue /\ outcome'[k] = "refused"
    BY <1>8, <2>1, <2>2
  <2>3. CASE /\ outcome'[k] = "accepted" /\ queue' = Append(queue, k)
             /\ Len(queue) < QueueSize
    <3>1. k \in 1 .. k
      BY <1>2
    <3> HIDE DEF k
    <3> QED
      BY <1>8, <2>1, <2>3, <3>1, ProcessorAssumption
  <2> QED
    BY <1>7, <2>2, <2>3
<1>10. \A n \in 1 .. Len(queue) : queue[n] # k
  BY <1>3, <1>8
<1>11. work \in [PWorkers -> WorkRecords]
  BY DEF PInv, PCore, PTypeOK, WorkRecords
<1>12. \A w \in PWorkers : work[w].id # k /\ work[w].id \in 0 .. Len(events)
  BY <1>2, <1>11 DEF WorkRecords
<1>13. WorldInv'
  BY <1>1, SameWorld DEF PInv, PCore
<1>14. PTypeOK'
  <2>1. \A w \in PWorkers :
           work[w] \in [state : WorkStates, id : 0 .. k,
                        attempt : 0 .. MaxRetries, passed : BOOLEAN]
    BY <1>2, <1>11 DEF WorkRecords
  <2>2. work' \in [PWorkers -> [state : WorkStates, id : 0 .. k,
                                attempt : 0 .. MaxRetries,
                                passed : BOOLEAN]]
    BY <1>1, <1>11, <2>1
  <2>3. Len(events') <= MaxEvents
    BY <1>1, <1>2, <1>5, ProcessorAssumption
  <2> QED
    BY <1>1, <1>5, <1>7, <1>9, <1>13, <2>2, <2>3
    DEF PInv, PCore, PTypeOK, WorldInv, ctlVars
<1>15. EventsOK'
  <2>1. \A i \in Ids : outcome'[i] # "none" <=> i <= k
    BY <1>2, <1>3, <1>7 DEF PInv, PCore, EventsOK, Ids
  <2>2. \A i \in 1 .. k :
            events'[i].new.num \in {events'[i].old, events'[i].old + 1}
    BY <1>2, <1>4, <1>5 DEF PInv, PCore, EventsOK
  <2> QED
    BY <1>5, <2>1, <2>2 DEF EventsOK
<1>16. \A i \in 1 .. Len(events) : i \in Ids /\ outcome'[i] = outcome[i]
  BY <1>1, <1>2, <1>3, <1>7, ProcessorAssumption DEF Ids
<1> HIDE DEF k
<1>17. QueueOK'
  <2>1. \A n \in 1 .. Len(queue') :
           \/ n \in 1 .. Len(queue) /\ queue'[n] = queue[n]
           \/ n = Len(queue) + 1 /\ queue'[n] = k /\ outcome'[k] = "accepted"
    BY <1>8, <1>9
  <2>2. \A m, n \in 1 .. Len(queue') : queue'[m] = queue'[n] => m = n
    BY <1>10, <2>1 DEF PInv, PCore, QueueOK
  <2>3. \A n \in 1 .. Len(queue') : outcome'[queue'[n]] = "accepted"
    BY <1>8, <1>16, <2>1 DEF PInv, PCore, QueueOK
  <2>4. \A n \in 1 .. Len(queue'), w \in PWorkers : work[w].id # queue'[n]
    BY <1>12, <2>1 DEF PInv, PCore, QueueOK
  <2> QED
    BY <1>1, <2>2, <2>3, <2>4 DEF QueueOK
<1>18. WorkApart'
  BY <1>1 DEF PInv, PCore, WorkApart
<1>19. \A w \in PWorkers : WorkOK(w)'
  <2> SUFFICES ASSUME NEW w \in PWorkers PROVE WorkOK(w)'
    OBVIOUS
  <2>1. work[w].id # 0 => work[w].id \in 1 .. Len(events)
    BY <1>2, <1>12
  <2>2. work[w].id # 0 => EventOf(w)' = EventOf(w)
    BY <1>1, <1>5, <2>1 DEF EventOf
  <2> QED
    BY <1>1, <1>16, <2>1, <2>2 DEF PInv, PCore, WorkOK
<1>20. NoneLost'
  <2> SUFFICES ASSUME NEW i \in Ids, outcome'[i] = "accepted"
               PROVE  Queued(i)' \/ Held(i)'
    BY DEF NoneLost
  <2>1. CASE i = k
    <3>1. Len(queue) + 1 \in 1 .. Len(queue') /\ queue'[Len(queue) + 1] = k
      BY <1>8, <1>9, <2>1
    <3> QED
      BY <2>1, <3>1 DEF Queued
  <2>2. CASE i # k
    <3>1. Queued(i) \/ Held(i)
      BY <1>7, <2>2 DEF PInv, PCore, NoneLost
    <3>2. \A n \in 1 .. Len(queue) : n \in 1 .. Len(queue')
      BY <1>8, <1>9
    <3> QED
      BY <1>1, <1>9, <3>1, <3>2 DEF Queued, Held
  <2> QED
    BY <2>1, <2>2
<1>21. CleanedIsReset'
  <2>1. UNCHANGED cleaned
    BY <1>1
  <2>2. ASSUME NEW h \in Heights, Owned(h) PROVE Owned(h)'
    <3>1. ASSUME NEW w \in PWorkers,
                 work[w].passed,
                 work[w].state \notin {"mark_processed", "completed"},
                 EventOf(w).old = h
          PROVE  Owned(h)'
      <4>1. work[w].id \in 1 .. Len(events)
        BY <1>2, <1>12, <3>1 DEF PInv, PCore, WorkOK
      <4>2. EventOf(w)' = EventOf(w)
        BY <1>1, <1>5, <4>1 DEF EventOf
      <4> QED
        BY <1>1, <3>1, <4>2 DEF Owned
    <3>2. ASSUME NEW i \in 1 .. Len(events),
                 outcome[i] = "failed", events[i].old = h
          PROVE  Owned(h)'
      <4>1. i \in 1 .. Len(events') /\ events'[i] = events[i]
        BY <1>2, <1>5 DEF k
      <4> QED
        BY <1>16, <3>2, <4>1 DEF Owned
    <3> QED
      BY <2>2, <3>1, <3>2 DEF Owned
  <2> QED
    BY <2>1, <2>2, CleanedKept
<1> QED
  BY <1>13, <1>14, <1>15, <1>17, <1>18, <1>19, <1>20, <1>21 DEF PInv, PCore

LEMMA ShorterQueue ==
    ASSUME NEW S, NEW q \in Seq(S), q # << >>
    PROVE  /\ Head(q) = q[1] /\ Head(q) \in S
           /\ Tail(q) \in Seq(S)
           /\ Len(q) \in Nat \ {0}
           /\ Len(Tail(q)) = Len(q) - 1
           /\ \A n \in 1 .. Len(Tail(q)) :
                 n + 1 \in 1 .. Len(q) /\ Tail(q)[n] = q[n + 1]
OBVIOUS

(* The worker takes the place of the queue in the accounts.                *)
LEMMA TakeKeepsPInv ==
    ASSUME PInv, NEW w \in PWorkers, Take(w)
    PROVE  PInv'
<1> DEFINE r == [AtSelect EXCEPT !.state = "begin", !.id = Head(queue)]
<1>1. /\ work[w].state = "select" /\ queue # << >>
      /\ work' = [work EXCEPT ![w] = r]
      /\ queue' = Tail(queue)
      /\ UNCHANGED <<storeVars, events, outcome, busy, cleaned, ctlVars>>
  BY DEF Take
<1>2. /\ queue \in Seq(1 .. Len(events)) /\ Len(queue) <= QueueSize
      /\ Len(events) \in Nat /\ Len(events) <= MaxEvents
      /\ work \in [PWorkers -> WorkRecords]
  BY DEF PInv, PCore, PTypeOK, WorkRecords
<1>3. /\ Head(queue) = queue[1] /\ Head(queue) \in 1 .. Len(events)
      /\ Tail(queue) \in Seq(1 .. Len(events))
      /\ Len(queue) \in Nat \ {0}
      /\ Len(Tail(queue)) = Len(queue) - 1
      /\ \A n \in 1 .. Len(Tail(queue)) :
            n + 1 \in 1 .. Len(queue) /\ Tail(queue)[n] = queue[n + 1]
  BY <1>1, <1>2, ShorterQueue
<1>4. /\ r \in WorkRecords /\ r.id = Head(queue) /\ r.id # 0
      /\ r.state = "begin" /\ r.passed = FALSE
  <2>1. r \in [state : {"begin"}, id : {Head(queue)}, attempt : {0},
               passed : {FALSE}]
    BY DEF AtSelect
  <2>2. "begin" \in WorkStates /\ 0 \in 0 .. MaxRetries
    BY ProcessorAssumption DEF WorkStates
  <2>3. Head(queue) \in 0 .. Len(events) /\ Head(queue) # 0
    BY <1>2, <1>3
  <2> HIDE DEF r
  <2>4. /\ r.id = Head(queue) /\ r.state = "begin"
        /\ r.passed = FALSE /\ r.attempt = 0
    BY <2>1
  <2>5. r \in WorkRecords
    BY <2>1, <2>2, <2>3 DEF WorkRecords
  <2> QED
    BY <2>3, <2>4, <2>5
<1> HIDE DEF r
<1>5. /\ work' \in [PWorkers -> WorkRecords] /\ work'[w] = r
      /\ \A v \in PWorkers : v # w => work'[v] = work[v]
  BY <1>1, <1>2, <1>4
<1>6. work[w].id = 0 /\ ~ work[w].passed
  <2>1. work[w].id = 0
    BY <1>1 DEF PInv, PCore, WorkOK
  <2> QED
    BY <2>1 DEF PInv, PCore, WorkOK
<1>7. WorldInv'
  BY <1>1, SameWorld DEF PInv, PCore
<1>8. PTypeOK'
  <2>1. Len(queue') <= QueueSize
    BY <1>1, <1>2, <1>3, ProcessorAssumption
  <2>2. WorkRecords' = WorkRecords
    BY <1>1 DEF WorkRecords
  <2> QED
    BY <1>1, <1>3, <1>5, <1>7, <2>1, <2>2
    DEF PInv, PCore, PTypeOK, WorldInv, WorkRecords, ctlVars
<1>9. EventsOK'
  BY <1>1 DEF PInv, PCore, EventsOK
<1>10. \A n \in 1 .. Len(queue') :
           /\ n + 1 \in 1 .. Len(queue) /\ queue'[n] = queue[n + 1]
           /\ n \in Nat /\ queue'[n] # queue[1]
  <2>1. 1 \in 1 .. Len(queue)
    BY <1>3
  <2>2. \A n \in 1 .. Len(queue') :
            n + 1 \in 1 .. Len(queue) /\ queue'[n] = queue[n + 1] /\ n \in Nat
    BY <1>1, <1>3
  <2> QED
    BY <2>1, <2>2 DEF PInv, PCore, QueueOK
<1>11. QueueOK'
  <2>1. \A m, n \in 1 .. Len(queue') : queue'[m] = queue'[n] => m = n
    <3> SUFFICES ASSUME NEW m \in 1 .. Len(queue'), NEW n \in 1 .. Len(queue'),
                        queue'[m] = queue'[n]
                 PROVE  m = n
      OBVIOUS
    <3>1. m + 1 = n + 1
      BY <1>10 DEF PInv, PCore, QueueOK
    <3> QED
      BY <1>10, <3>1
  <2>2. \A n \in 1 .. Len(queue') : outcome'[queue'[n]] = "accepted"
    BY <1>1, <1>10 DEF PInv, PCore, QueueOK
  <2>3. \A n \in 1 .. Len(queue'), v \in PWorkers : work'[v].id # queue'[n]
    <3> SUFFICES ASSUME NEW n \in 1 .. Len(queue'), NEW v \in PWorkers
                 PROVE  work'[v].id # queue'[n]
      OBVIOUS
    <3>1. CASE v = w
      BY <1>3, <1>4, <1>5, <1>10, <3>1
    <3>2. CASE v # w
      BY <1>5, <1>10, <3>2 DEF PInv, PCore, QueueOK
    <3> QED
      BY <3>1, <3>2
  <2> QED
    BY <2>1, <2>2, <2>3 DEF QueueOK
<1>12. /\ 1 \in 1 .. Len(queue) /\ outcome[queue[1]] = "accepted"
       /\ \A v \in PWorkers : work[v].id # queue[1]
  BY <1>3 DEF PInv, PCore, QueueOK
<1>13. WorkApart'
  <2> SUFFICES ASSUME NEW u \in PWorkers, NEW v \in PWorkers,
                      work'[u].id = work'[v].id, work'[v].id # 0
               PROVE  u = v
    BY DEF WorkApart
  <2> QED
    BY <1>3, <1>4, <1>5, <1>12 DEF PInv, PCore, WorkApart
<1>14. \A v \in PWorkers : WorkOK(v)'
  <2>1. WorkOK(w)'
    BY <1>1, <1>3, <1>4, <1>5, <1>12 DEF WorkOK, Steps
  <2>2. ASSUME NEW v \in PWorkers, v # w PROVE WorkOK(v)'
    BY <1>1, <1>5, <2>2 DEF PInv, PCore, WorkOK, EventOf
  <2> QED
    BY <2>1, <2>2
<1>15. NoneLost'
  <2> SUFFICES ASSUME NEW i \in Ids, outcome[i] = "accepted"
               PROVE  Queued(i)' \/ Held(i)'
    BY <1>1 DEF NoneLost
  <2>1. ASSUME NEW n \in 1 .. Len(queue), queue[n] = i, n # 1
        PROVE  Queued(i)'
    <3>1. n - 1 \in 1 .. Len(queue') /\ (n - 1) + 1 = n
      BY <1>1, <1>3, <2>1
    <3> QED
      BY <1>10, <2>1, <3>1 DEF Queued
  <2>2. CASE queue[1] = i
    BY <1>3, <1>4, <1>5, <2>2 DEF Held
  <2>3. ASSUME NEW v \in PWorkers, work[v].id = i PROVE Held(i)'
    <3>1. i # 0
      BY DEF Ids
    <3> QED
      BY <1>5, <1>6, <2>3, <3>1 DEF Held
  <2> QED
    BY <2>1, <2>2, <2>3 DEF PInv, PCore, NoneLost, Queued, Held
<1>16. PCore'
  BY <1>7, <1>8, <1>9, <1>11, <1>13, <1>14, <1>15 DEF PCore
<1>17. CleanedIsReset'
  <2>1. \A h \in Heights : Owned(h) => Owned(h)'
    BY <1>1, <1>6, OwnersStay DEF PInv
  <2> QED
    BY <1>1, <2>1, CleanedKept
<1> QED
  BY <1>16, <1>17 DEF PInv

LEMMA GotoRecord ==
    ASSUME PCore, NEW w \in PWorkers, NEW s \in WorkStates, Goto(w, s)
    PROVE  \E r \in WorkRecords :
              /\ work' = [work EXCEPT ![w] = r]
              /\ r.state = s
              /\ r.id = work[w].id
              /\ r.attempt = work[w].attempt
              /\ r.passed = work[w].passed
<1>1. work \in [PWorkers -> WorkRecords]
  BY DEF PCore, PTypeOK, WorkRecords
<1> DEFINE r == [work[w] EXCEPT !.state = s]
<1>2. work[w] \in WorkRecords
  BY <1>1
<1>3. /\ r \in WorkRecords
      /\ r.state = s /\ r.id = work[w].id
      /\ r.attempt = work[w].attempt /\ r.passed = work[w].passed
  BY <1>2 DEF WorkRecords
<1>4. work' = [work EXCEPT ![w] = r]
  BY DEF Goto
<1> HIDE DEF r
<1> QED
  BY <1>3, <1>4

(* Between the steps that change the database or the watermark.            *)
LEMMA GotoKeepsPInv ==
    ASSUME PInv, NEW w \in PWorkers, NEW s \in WorkStates, Goto(w, s),
           UNCHANGED <<events, outcome, queue, cleaned>>,
           WorldInv', CtlOK',
           s \in {"select", "ended"} <=> work[w].state \in {"select", "ended"},
           s # "completed", work[w].state # "completed",
           work[w].passed => s # "mark_processed",
           s \in Steps \ {"validate"} => work[w].passed,
           s = "wait" => work[w].attempt < MaxRetries
    PROVE  PInv'
<1>1. PICK r \in WorkRecords :
         /\ work' = [work EXCEPT ![w] = r]
         /\ r.state = s
         /\ r.id = work[w].id
         /\ r.attempt = work[w].attempt
         /\ r.passed = work[w].passed
  BY GotoRecord DEF PInv
<1>2. work'[w] = r
  BY <1>1 DEF PInv, PCore, PTypeOK
<1>3. WorkOK(w)
  BY DEF PInv, PCore
<1>4. WorkOK(w)'
  BY <1>1, <1>2, <1>3 DEF WorkOK, EventOf
<1> QED
  BY <1>1, <1>4, MoveKeepsPInv

(* The state of p.mu and the like after the step of a worker.              *)
LEMMA WorkersKeepCtl ==
    ASSUME PInv, UNCHANGED ctlVars, busy' \in {busy, TRUE, FALSE},
           cleaned' \subseteq Heights
    PROVE  CtlOK'
BY DEF PInv, PCore, PTypeOK, CtlOK, ctlVars

(* The steps that only move the worker on.                                 *)
LEMMA PlainStepsKeepPInv ==
    ASSUME PInv, NEW w \in PWorkers,
           \/ WorkerEnds(w) \/ Begin(w) \/ AttemptFailed(w)
           \/ MarkRevertedTransactions(w) \/ RevertBusinessData(w)
           \/ StepFails(w)
    PROVE  PInv'
<1>1. /\ UNCHANGED <<storeVars, events, outcome, queue, cleaned>>
      /\ UNCHANGED ctlVars /\ busy' \in {busy, TRUE, FALSE}
  BY DEF WorkerEnds, Begin, AttemptFailed, MarkRevertedTransactions,
         RevertBusinessData, StepFails
<1>2. CtlOK'
  BY <1>1, WorkersKeepCtl DEF PInv, PCore, PTypeOK
<1>3. WorldInv'
  BY <1>1, SameWorld DEF PInv, PCore
<1>4. WorkOK(w)
  BY DEF PInv, PCore
<1>5. CASE WorkerEnds(w)
  <2>1. work[w].state = "select" /\ Goto(w, "ended") /\ ~ work[w].passed
    BY <1>4, <1>5 DEF WorkerEnds, WorkOK
  <2> QED
    BY <1>1, <1>2, <1>3, <2>1, GotoKeepsPInv DEF WorkStates, Steps
<1>6. CASE Begin(w)
  <2>1. work[w].state = "begin" /\ Goto(w, "validate")
    BY <1>6 DEF Begin
  <2> QED
    BY <1>1, <1>2, <1>3, <2>1, GotoKeepsPInv DEF WorkStates, Steps
<1>7. CASE AttemptFailed(w)
  <2>1. /\ work[w].state = "failed" /\ Goto(w, "wait")
        /\ work[w].attempt < MaxRetries
    BY <1>7 DEF AttemptFailed
  <2> QED
    BY <1>1, <1>2, <1>3, <2>1, GotoKeepsPInv DEF WorkStates, Steps
<1>8. CASE MarkRevertedTransactions(w)
  <2>1. /\ work[w].state = "mark_transactions"
        /\ Goto(w, "revert_business_data") /\ work[w].passed
    BY <1>4, <1>8 DEF MarkRevertedTransactions, PStep, WorkOK, Steps
  <2> QED
    BY <1>1, <1>2, <1>3, <2>1, GotoKeepsPInv DEF WorkStates, Steps
<1>9. CASE RevertBusinessData(w)
  <2>1. /\ work[w].state = "revert_business_data"
        /\ Goto(w, "clean_data") /\ work[w].passed
    BY <1>4, <1>9 DEF RevertBusinessData, PStep, WorkOK, Steps
  <2> QED
    BY <1>1, <1>2, <1>3, <2>1, GotoKeepsPInv DEF WorkStates, Steps
<1>10. CASE StepFails(w)
  <2>1. work[w].state \in Steps /\ Goto(w, "failed")
    BY <1>10 DEF StepFails, PStep
  <2> QED
    BY <1>1, <1>2, <1>3, <2>1, GotoKeepsPInv DEF WorkStates, Steps
<1> QED
  BY <1>5, <1>6, <1>7, <1>8, <1>9, <1>10

LEMMA ValidateKeepsPInv ==
    ASSUME PInv, NEW w \in PWorkers, ValidateEvent(w)
    PROVE  PInv'
<1> DEFINE r == [work[w] EXCEPT !.state = "mark_transactions",
                                !.passed = TRUE]
<1>1. /\ work[w].state = "validate" /\ EventOf(w).old # 0
      /\ work' = [work EXCEPT ![w] = r]
      /\ UNCHANGED <<storeVars, events, outcome, queue, busy, cleaned,
                      ctlVars>>
  BY DEF ValidateEvent
<1>2. work \in [PWorkers -> WorkRecords]
  BY DEF PInv, PCore, PTypeOK, WorkRecords
<1>3. /\ r \in WorkRecords /\ r.id = work[w].id /\ r.passed = TRUE
      /\ r.state = "mark_transactions"
  <2>1. work[w] \in WorkRecords
    BY <1>2
  <2> QED
    BY <2>1 DEF WorkRecords, WorkStates, Steps
<1> HIDE DEF r
<1>4. work'[w] = r
  BY <1>1, <1>2
<1>5. WorkOK(w)
  BY DEF PInv, PCore
<1>6. WorkOK(w)'
  BY <1>1, <1>3, <1>4, <1>5 DEF WorkOK, EventOf, Steps
<1>7. WorldInv'
  BY <1>1, SameWorld DEF PInv, PCore
<1>8. CtlOK'
  BY <1>1, WorkersKeepCtl DEF PInv, PCore, PTypeOK
<1> QED
  BY <1>1, <1>3, <1>6, <1>7, <1>8, MoveKeepsPInv

LEMMA RetryKeepsPInv ==
    ASSUME PInv, NEW w \in PWorkers, Retry(w)
    PROVE  PInv'
<1> DEFINE r == [work[w] EXCEPT !.state = "begin",
                                !.attempt = work[w].attempt + 1]
<1>1. /\ work[w].state = "wait"
      /\ work' = [work EXCEPT ![w] = r]
      /\ UNCHANGED <<storeVars, events, outcome, queue, busy, cleaned,
                      ctlVars>>
  BY DEF Retry, NextAttempt
<1>2. work \in [PWorkers -> WorkRecords]
  BY DEF PInv, PCore, PTypeOK, WorkRecords
<1>3. WorkOK(w)
  BY DEF PInv, PCore
<1>4. /\ r \in WorkRecords /\ r.id = work[w].id
      /\ r.passed = work[w].passed /\ r.state = "begin"
  <2>1. work[w] \in WorkRecords
    BY <1>2
  <2>2. work[w].attempt + 1 \in 0 .. MaxRetries
    BY <1>1, <1>3, <2>1, ProcessorAssumption DEF WorkOK, WorkRecords
  <2> QED
    BY <2>1, <2>2 DEF WorkRecords, WorkStates
<1> HIDE DEF r
<1>5. work'[w] = r
  BY <1>1, <1>2
<1>6. WorkOK(w)'
  BY <1>1, <1>3, <1>4, <1>5 DEF WorkOK, EventOf, Steps
<1>7. WorldInv'
  BY <1>1, SameWorld DEF PInv, PCore
<1>8. CtlOK'
  BY <1>1, WorkersKeepCtl DEF PInv, PCore, PTypeOK
<1> QED
  BY <1>1, <1>4, <1>6, <1>7, <1>8, MoveKeepsPInv

(* clean_data: only the height of the old block can be deleted, and the    *)
(* worker owns it.                                                         *)
LEMMA CleanKeepsPInv ==
    ASSUME PInv, NEW w \in PWorkers, CleanAffectedData(w)
    PROVE  PInv'
<1> DEFINE e == EventOf(w)
<1>1. /\ work[w].state = "clean_data" /\ Goto(w, "reset_watermark")
      /\ DeleteBlocks(e.new.num, e.old)
      /\ cleaned' = cleaned \cup (e.new.num .. e.old)
      /\ UNCHANGED <<chain, forks, scanned, job>>
      /\ UNCHANGED <<events, outcome, queue, busy, ctlVars>>
  BY DEF CleanAffectedData, PStep
<1>2. PICK r \in WorkRecords :
         /\ work' = [work EXCEPT ![w] = r]
         /\ r.state = "reset_watermark"
         /\ r.id = work[w].id
         /\ r.attempt = work[w].attempt
         /\ r.passed = work[w].passed
  BY <1>1, GotoRecord DEF PInv, WorkStates, Steps
<1>3. work \in [PWorkers -> WorkRecords] /\ work'[w] = r
  BY <1>2 DEF PInv, PCore, PTypeOK, WorkRecords
<1>4. WorkOK(w)
  BY DEF PInv, PCore
<1>5. work[w].passed /\ work[w].id # 0
  BY <1>1, <1>4 DEF WorkOK, Steps
<1>6. work[w].id \in 1 .. Len(events)
  BY <1>3, <1>5 DEF WorkRecords
<1>7. e.old \in Heights /\ e.new.num \in {e.old, e.old + 1}
  <2>1. events \in Seq([old : Heights, new : Blocks])
    BY DEF PInv, PCore, PTypeOK
  <2>2. e \in [old : Heights, new : Blocks]
    BY <1>6, <2>1, ElementsOfSeq DEF EventOf
  <2> QED
    BY <1>6, <2>2 DEF PInv, PCore, EventsOK, EventOf
<1> HIDE DEF e
<1>8. \A h \in cleaned' : h \in Heights /\ (h \in cleaned \/ h = e.old)
  BY <1>1, <1>7, StoreAssumption DEF PInv, PCore, PTypeOK, Heights
<1>9. WorldInv'
  BY <1>1, DeleteBlocksRemoves, RollbackKeepsWorld
  DEF PInv, PCore, WorldInv, StoreTypeOK
<1>10. CtlOK'
  BY <1>1, <1>8, WorkersKeepCtl
<1>11. WorkOK(w)'
  BY <1>1, <1>2, <1>3, <1>4, <1>5 DEF WorkOK, EventOf
<1>12. PCore'
  BY <1>1, <1>2, <1>9, <1>10, <1>11, MoveKeepsCore DEF PInv
<1>13. \A h \in Heights : Owned(h) => Owned(h)'
  BY <1>1, <1>2, OwnersStay DEF PInv
<1>14. \A h \in Heights : h = e.old => Owned(h)'
  BY <1>1, <1>2, <1>3, <1>5 DEF Owned, EventOf, e
<1>15. \A h \in cleaned' : Owned(h)'
  BY <1>8, <1>13, <1>14, CleanedByHeight DEF PInv
<1>16. CleanedIsReset'
  <2>1. (\A h \in cleaned : Owned(h))'
    BY <1>15
  <2> QED
    BY <2>1, CleanedByHeight, PTL
<1> QED
  BY <1>12, <1>16 DEF PInv

(* reset_watermark: the watermark comes to stand below the height that the *)
(* worker owns, and not above where it was.                                *)
LEMMA ResetKeepsPInv ==
    ASSUME PInv, NEW w \in PWorkers, ResetScannerWatermark(w)
    PROVE  PInv'
<1> DEFINE e == EventOf(w)
<1>1. /\ work[w].state = "reset_watermark" /\ Goto(w, "mark_processed")
      /\ scanned' = SafeHeight(e.old) /\ SafeHeight(e.old) <= scanned
      /\ cleaned' = { h \in cleaned : h <= scanned' }
      /\ UNCHANGED <<chain, forks, store, extra, job>>
      /\ UNCHANGED <<events, outcome, queue, busy, ctlVars>>
  BY DEF ResetScannerWatermark, PStep, CanReset, ResetTo
<1>2. PICK r \in WorkRecords :
         /\ work' = [work EXCEPT ![w] = r]
         /\ r.state = "mark_processed"
         /\ r.id = work[w].id
         /\ r.attempt = work[w].attempt
         /\ r.passed = work[w].passed
  BY <1>1, GotoRecord DEF PInv, WorkStates, Steps
<1>3. /\ work \in [PWorkers -> WorkRecords] /\ work'[w] = r
      /\ \A v \in PWorkers : v # w => work'[v] = work[v]
  BY <1>2 DEF PInv, PCore, PTypeOK, WorkRecords
<1>4. WorkOK(w)
  BY DEF PInv, PCore
<1>5. work[w].passed /\ work[w].id # 0 /\ e.old # 0
  BY <1>1, <1>4 DEF WorkOK, Steps
<1>6. e.old \in Heights
  <2>1. events \in Seq([old : Heights, new : Blocks])
    BY DEF PInv, PCore, PTypeOK
  <2>2. work[w].id \in 1 .. Len(events)
    BY <1>3, <1>5 DEF WorkRecords
  <2>3. e \in [old : Heights, new : Blocks]
    BY <2>1, <2>2, ElementsOfSeq DEF EventOf
  <2> QED
    BY <2>3
<1> HIDE DEF e
<1>7. /\ scanned' = e.old - 1 /\ scanned' \in Heights /\ scanned' <= scanned
      /\ scanned \in Heights
  BY <1>1, <1>5, <1>6, StoreAssumption
  DEF SafeHeight, Heights, PInv, PCore, WorldInv, StoreTypeOK
<1>8. WorldInv'
  BY <1>1, <1>7, RollbackKeepsWorld DEF PInv, PCore, WorldInv, StoreTypeOK
<1>9. CtlOK'
  BY <1>1, WorkersKeepCtl DEF PInv, PCore, PTypeOK
<1>10. WorkOK(w)'
  BY <1>1, <1>2, <1>3, <1>4, <1>5 DEF WorkOK, EventOf
<1>11. PCore'
  BY <1>1, <1>2, <1>8, <1>9, <1>10, MoveKeepsCore DEF PInv
<1>12. \A h \in cleaned' : Owned(h)'
  <2> SUFFICES ASSUME NEW h \in cleaned' PROVE Owned(h)'
    OBVIOUS
  <2>1. h \in cleaned /\ h \in Heights /\ h # e.old
    BY <1>1, <1>6, <1>7 DEF PInv, PCore, PTypeOK, Heights
  <2>2. Owned(h)
    BY <2>1, CleanedByHeight DEF PInv
  <2>3. ASSUME NEW v \in PWorkers,
               work[v].passed,
               work[v].state \notin {"mark_processed", "completed"},
               EventOf(v).old = h
        PROVE  Owned(h)'
    <3>1. v # w
      BY <2>1, <2>3 DEF e
    <3> QED
      BY <1>1, <1>3, <2>3, <3>1 DEF Owned, EventOf
  <2>4. ASSUME NEW i \in 1 .. Len(events),
               outcome[i] = "failed", events[i].old = h
        PROVE  Owned(h)'
    BY <1>1, <2>4 DEF Owned
  <2> QED
    BY <2>2, <2>3, <2>4 DEF Owned
<1>13. CleanedIsReset'
  <2>1. (\A h \in cleaned : Owned(h))'
    BY <1>12
  <2> QED
    BY <2>1, CleanedByHeight, PTL
<1> QED
  BY <1>11, <1>13 DEF PInv

(* mark_processed: the event is settled while the worker still has it.     *)
LEMMA MarkProcessedKeepsPInv ==
    ASSUME PInv, NEW w \in PWorkers, MarkEventAsProcessed(w)
    PROVE  PInv'
<1> DEFINE i == work[w].id
<1>1. /\ work[w].state = "mark_processed" /\ Goto(w, "completed")
      /\ outcome' = [outcome EXCEPT ![i] = "processed"]
      /\ UNCHANGED <<storeVars, events, queue, busy, cleaned, ctlVars>>
  BY DEF MarkEventAsProcessed, PStep
<1>2. PICK r \in WorkRecords :
         /\ work' = [work EXCEPT ![w] = r]
         /\ r.state = "completed"
         /\ r.id = work[w].id
         /\ r.attempt = work[w].attempt
         /\ r.passed = work[w].passed
  BY <1>1, GotoRecord DEF PInv, WorkStates
<1>3. /\ work \in [PWorkers -> WorkRecords] /\ work'[w] = r
      /\ work' \in [PWorkers -> WorkRecords]
      /\ \A v \in PWorkers : v # w => work'[v] = work[v]
      /\ \A v \in PWorkers : work'[v].id = work[v].id
  BY <1>2 DEF PInv, PCore, PTypeOK, WorkRecords
<1>4. WorkOK(w)
  BY DEF PInv, PCore
<1>5. work[w].passed /\ i # 0 /\ outcome[i] = "accepted"
  BY <1>1, <1>4 DEF WorkOK, Steps
<1>6. Len(events) \in Nat /\ Len(events) <= MaxEvents
  BY DEF PInv, PCore, PTypeOK
<1>7. i \in 1 .. Len(events) /\ i \in Ids
  <2>1. i \in 0 .. Len(events)
    BY <1>3 DEF WorkRecords
  <2> QED
    BY <1>5, <1>6, <2>1, ProcessorAssumption DEF Ids
<1>8. /\ outcome' \in [Ids -> {"none", "refused", "accepted", "processed",
                               "failed"}]
      /\ outcome'[i] = "processed"
      /\ \A j \in Ids : j # i => outcome'[j] = outcome[j]
  BY <1>1, <1>7 DEF PInv, PCore, PTypeOK
<1>9. \A v \in PWorkers : v # w => work[v].id # i
  BY <1>5 DEF PInv, PCore, WorkApart
<1>10. WorldInv'
  BY <1>1, SameWorld DEF PInv, PCore
<1> HIDE DEF i
<1>11. PTypeOK'
  BY <1>1, <1>3, <1>8, <1>10
  DEF PInv, PCore, PTypeOK, WorldInv, WorkRecords, ctlVars
<1>12. EventsOK'
  BY <1>1, <1>5, <1>8 DEF PInv, PCore, EventsOK
<1>13. QueueOK'
  <2>1. queue \in Seq(1 .. Len(events))
    BY DEF PInv, PCore, PTypeOK
  <2>2. \A n \in 1 .. Len(queue) : queue[n] \in 1 .. Len(events)
    BY <2>1, ElementsOfSeq
  <2>3. \A n \in 1 .. Len(queue) : queue[n] # i /\ queue[n] \in Ids
    BY <1>6, <2>2, ProcessorAssumption DEF i, PInv, PCore, QueueOK, Ids
  <2> QED
    BY <1>1, <1>3, <1>8, <2>3 DEF PInv, PCore, QueueOK
<1>14. WorkApart'
  BY <1>3 DEF PInv, PCore, WorkApart
<1>15. \A v \in PWorkers : WorkOK(v)'
  <2>1. WorkOK(w)'
    BY <1>1, <1>2, <1>3, <1>4, <1>5, <1>8 DEF WorkOK, EventOf, Steps, i
  <2>2. ASSUME NEW v \in PWorkers, v # w PROVE WorkOK(v)'
    <3>1. work[v].id # 0 => work[v].id \in Ids /\ work[v].id # i
      <4>1. work[v].id \in 0 .. Len(events)
        BY <1>3 DEF WorkRecords
      <4> QED
        BY <1>6, <1>9, <2>2, <4>1, ProcessorAssumption DEF Ids
    <3> QED
      BY <1>1, <1>3, <1>8, <2>2, <3>1 DEF PInv, PCore, WorkOK, EventOf
  <2> QED
    BY <2>1, <2>2
<1>16. NoneLost'
  <2> SUFFICES ASSUME NEW j \in Ids, outcome'[j] = "accepted"
               PROVE  Queued(j)' \/ Held(j)'
    BY DEF NoneLost
  <2>1. outcome[j] = "accepted"
    BY <1>8
  <2> QED
    BY <1>1, <1>3, <2>1 DEF PInv, PCore, NoneLost, Queued, Held
<1>17. PCore'
  BY <1>10, <1>11, <1>12, <1>13, <1>14, <1>15, <1>16 DEF PCore
<1>18. CleanedIsReset'
  <2>1. \A j \in 1 .. Len(events) :
            outcome[j] = "failed" => outcome'[j] = "failed"
    BY <1>5, <1>6, <1>8, ProcessorAssumption DEF Ids
  <2>2. \A h \in Heights : Owned(h) => Owned(h)'
    BY <1>1, <1>2, <2>1, OwnersStay DEF PInv
  <2> QED
    BY <1>1, <2>2, CleanedKept
<1> QED
  BY <1>17, <1>18 DEF PInv

(* The event leaves the worker: processed, or as failed in the accounts.   *)
LEMMA ReleaseKeepsPInv ==
    ASSUME PInv, NEW w \in PWorkers,
           Completed(w) \/ LastAttemptFailed(w) \/ RetryCancelled(w)
    PROVE  PInv'
<1> DEFINE i == work[w].id
<1>1. /\ work' = [work EXCEPT ![w] = AtSelect]
      /\ \/ work[w].state = "completed" /\ outcome' = outcome
         \/ /\ work[w].state \in {"failed", "wait"}
            /\ outcome' = [outcome EXCEPT ![i] = "failed"]
      /\ busy' \in {busy, FALSE}
      /\ UNCHANGED <<storeVars, events, queue, cleaned, ctlVars>>
  BY DEF Completed, LastAttemptFailed, RetryCancelled, GiveUp
<1>2. WorkOK(w)
  BY DEF PInv, PCore
<1>3. i # 0
  BY <1>1, <1>2 DEF WorkOK
<1>4. WorldInv' /\ CtlOK'
  BY <1>1, SameWorld, WorkersKeepCtl DEF PInv, PCore, PTypeOK
<1>5. PCore'
  BY <1>1, <1>3, <1>4, ReleaseKeepsCore DEF PInv
<1>6. /\ Len(events) \in Nat /\ Len(events) <= MaxEvents
      /\ work \in [PWorkers -> WorkRecords]
      /\ outcome \in [Ids -> {"none", "refused", "accepted", "processed",
                              "failed"}]
  BY DEF PInv, PCore, PTypeOK, WorkRecords
<1>7. i \in 1 .. Len(events) /\ i \in Ids
  <2>1. i \in 0 .. Len(events)
    BY <1>6 DEF WorkRecords
  <2> QED
    BY <1>3, <1>6, <2>1, ProcessorAssumption DEF Ids
<1>8. \A v \in PWorkers : v # w => work'[v] = work[v]
  BY <1>1, <1>6
<1> HIDE DEF i
<1>9. \A h \in Heights : Owned(h) => Owned(h)'
  <2> SUFFICES ASSUME NEW h \in Heights, Owned(h) PROVE Owned(h)'
    OBVIOUS
  <2>1. ASSUME NEW v \in PWorkers,
               work[v].passed,
               work[v].state \notin {"mark_processed", "completed"},
               EventOf(v).old = h
        PROVE  Owned(h)'
    <3>1. CASE v # w
      BY <1>1, <1>8, <2>1, <3>1 DEF Owned, EventOf
    <3>2. CASE v = w
      <4>1. outcome' = [outcome EXCEPT ![i] = "failed"]
        BY <1>1, <2>1, <3>2
      <4>2. outcome'[i] = "failed" /\ events[i].old = h
        BY <1>6, <1>7, <2>1, <3>2, <4>1 DEF EventOf, i
      <4> QED
        BY <1>1, <1>7, <4>2 DEF Owned
    <3> QED
      BY <3>1, <3>2
  <2>2. ASSUME NEW j \in 1 .. Len(events),
               outcome[j] = "failed", events[j].old = h
        PROVE  Owned(h)'
    <3>1. j \in Ids
      BY <1>6, ProcessorAssumption DEF Ids
    <3>2. outcome'[j] = "failed"
      BY <1>1, <1>6, <2>2, <3>1
    <3> QED
      BY <1>1, <2>2, <3>2 DEF Owned
  <2> QED
    BY <2>1, <2>2 DEF Owned
<1>10. CleanedIsReset'
  BY <1>1, <1>9, CleanedKept
<1> QED
  BY <1>5, <1>10 DEF PInv

(* The chain, the scanner and the detector touch no event.                 *)
LEMMA WorldKeepsPInv ==
    ASSUME PInv, World \/ DetectorResets \/ DetectorDeletes,
           UNCHANGED <<procVars, ctlVars>>
    PROVE  PInv'
<1>1. /\ UNCHANGED <<events, outcome, queue, work, busy, cleaned>>
      /\ UNCHANGED ctlVars
  BY DEF procVars
<1>2. WorldInv'
  <2>1. CASE World
    BY <2>1, WorldKeepsWorld DEF PInv, PCore
  <2>2. CASE DetectorResets
    <3>1. PICK h \in Heights : scanned' = SafeHeight(h)
      BY <2>2 DEF DetectorResets, HeightsIn
    <3>2. scanned' \in Heights
      BY <3>1, StoreAssumption DEF SafeHeight, Heights
    <3>3. UNCHANGED <<chain, forks, store, extra, job>>
      BY <2>2 DEF DetectorResets
    <3> QED
      BY <3>2, <3>3, RollbackKeepsWorld DEF PInv, PCore, WorldInv, StoreTypeOK
  <2>3. CASE DetectorDeletes
    BY <2>3, DeleteBlocksRemoves, RollbackKeepsWorld
    DEF DetectorDeletes, PInv, PCore, WorldInv, StoreTypeOK
  <2> QED
    BY <2>1, <2>2, <2>3
<1>3. CtlOK'
  BY <1>1, WorkersKeepCtl DEF PInv, PCore, PTypeOK
<1>4. PCore'
  BY <1>1, <1>2, <1>3, RestKeepsCore DEF PInv
<1>5. \A h \in Heights : Owned(h) => Owned(h)'
  BY <1>1 DEF Owned, EventOf
<1>6. CleanedIsReset'
  BY <1>1, <1>5, CleanedKept
<1> QED
  BY <1>4, <1>6 DEF PInv

LEMMA ShutdownKeepsPInv ==
    ASSUME PInv, PShutdown \/ UNCHANGED pvars
    PROVE  PInv'
<1>1. UNCHANGED <<storeVars, procVars>>
  BY DEF PShutdown, PCancel, PStop, PStopReturns, pvars
<1>2. UNCHANGED <<events, outcome, queue, work, busy, cleaned>>
  BY <1>1 DEF procVars
<1>3. WorldInv'
  BY <1>1, SameWorld DEF PInv, PCore
<1>4. CtlOK'
  BY <1>2 DEF PShutdown, PCancel, PStop, PStopReturns, pvars,
              ctlVars, CtlOK, PInv, PCore, PTypeOK
<1>5. PCore'
  BY <1>2, <1>3, <1>4, RestKeepsCore DEF PInv
<1>6. CleanedIsReset'
  BY <1>2, CleanedKept DEF Owned, EventOf
<1> QED
  BY <1>5, <1>6 DEF PInv

LEMMA PInvInductive == PInv /\ [PNext]_pvars => PInv'
<1> SUFFICES ASSUME PInv, [PNext]_pvars PROVE PInv'
  OBVIOUS
<1>1. CASE Input
  BY <1>1, WorldKeepsPInv, ProcessReorgKeepsPInv DEF Input
<1>2. ASSUME NEW w \in PWorkers, Works(w) PROVE PInv'
  BY <1>2, TakeKeepsPInv, PlainStepsKeepPInv, ValidateKeepsPInv,
     CleanKeepsPInv, ResetKeepsPInv, MarkProcessedKeepsPInv,
     ReleaseKeepsPInv, RetryKeepsPInv
  DEF Works
<1>3. ASSUME NEW w \in PWorkers, Quits(w) PROVE PInv'
  BY <1>3, PlainStepsKeepPInv, ReleaseKeepsPInv DEF Quits
<1>4. CASE PShutdown \/ UNCHANGED pvars
  BY <1>4, ShutdownKeepsPInv
<1> QED
  BY <1>1, <1>2, <1>3, <1>4 DEF PNext

LEMMA ProcessorInvariant == PSpec => []PInv
  BY PInitially, PInvInductive, PTL DEF PSpec

(* Events, queue, workers and attempts stay in their types and bounds: no  *)
(* worker makes more than MaxRetries retries, none has an event that was   *)
(* not given to ProcessReorg.                                              *)
THEOREM ProcessorTypeCorrect == PSpec => []PTypeOK
<1>1. PInv => PTypeOK
  BY DEF PInv, PCore
<1> QED
  BY <1>1, ProcessorInvariant, PTL

(* An event that ProcessReorg (line 245) accepted is in the queue or with  *)
(* exactly one worker until it is settled, for any number of workers and   *)
(* events and any size of the queue.                                       *)
THEOREM NoEventIsLost == PSpec => []AcceptedIsAccounted
<1>1. ASSUME PInv, NEW i \in Ids, outcome[i] = "accepted"
      PROVE  LET queued == { n \in 1 .. Len(queue) : queue[n] = i }
                 held == { w \in PWorkers : work[w].id = i }
             IN \/ /\ \E n \in queued : queued = {n}
                   /\ held = {}
                \/ /\ queued = {}
                   /\ \E w \in held : held = {w}
  <2> DEFINE queued == { n \in 1 .. Len(queue) : queue[n] = i }
             held == { w \in PWorkers : work[w].id = i }
  <2>1. CASE Queued(i)
    <3>1. PICK n \in 1 .. Len(queue) : queue[n] = i
      BY <2>1 DEF Queued
    <3>2. queued = {n} /\ n \in queued
      BY <1>1, <3>1 DEF PInv, PCore, QueueOK
    <3>3. held = {}
      BY <1>1, <3>1 DEF PInv, PCore, QueueOK
    <3> QED
      BY <3>2, <3>3
  <2>2. CASE Held(i)
    <3>1. PICK w \in PWorkers : work[w].id = i
      BY <2>2 DEF Held
    <3>2. i # 0
      BY DEF Ids
    <3>3. held = {w} /\ w \in held
      BY <1>1, <3>1, <3>2 DEF PInv, PCore, WorkApart
    <3>4. queued = {}
      BY <1>1, <3>1 DEF PInv, PCore, QueueOK
    <3> QED
      BY <3>3, <3>4
  <2> QED
    BY <1>1, <2>1, <2>2 DEF PInv, PCore, NoneLost
<1>2. PInv => AcceptedIsAccounted
  BY <1>1 DEF AcceptedIsAccounted
<1> QED
  BY <1>2, ProcessorInvariant, PTL

(* A height that clean_data has deleted is put above the watermark again   *)
(* by a later reset_watermark, or belongs to an event that is under way or *)
(* has failed, whatever steps other workers, the detector, the chain and   *)
(* the scan tasks make between the two.                                    *)
THEOREM CleanedHeightsAreReset == PSpec => []CleanedIsReset
<1>1. PInv => CleanedIsReset
  BY DEF PInv
<1> QED
  BY <1>1, ProcessorInvariant, PTL

=============================================================================
