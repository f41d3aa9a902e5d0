--------------------------- MODULE ConsumerProofs ---------------------------
(***************************************************************************)
(* Proofs about Consumer and the Storage below it, for any transactions,   *)
(* blocks, goroutines and stores: readers of StorageManager are told only  *)
(* what a store took, no transaction is finalized before it was confirmed, *)
(* and one goroutine at a time handles a reorg event.                      *)
(***************************************************************************)
EXTENDS Consumer, FiniteSetTheorems, TLAPS

-----------------------------------------------------------------------------
(* The inductive invariants.                                               *)

Values == Statuses \cup Branches

(* What an operation of StorageManager writes.                             *)
Writes == (Txs \X SaveStatuses) \cup (Heights \X Branches)

Jobs == [all: Seq(Writes), todo: Seq(Writes), batch: BOOLEAN, row: Values \cup {None}]

(* The labels of an operation of StorageManager, and of the state machine. *)
AtMaster == {"master", "select", "row"}
Saving == AtMaster \cup {"commit", "cache", "index"}
Moving == {"check", "update", "set"}

StoreTypes ==
    /\ column \in [Txs -> Statuses \cup {None}]
    /\ data \in [Items -> Values \cup {None}]
    /\ slave \in [Items -> Values \cup {None}]
    /\ cache \in [Items -> Values \cup {None}]
    /\ index \in [Items -> Values \cup {None}]
    /\ stored \in [Items -> SUBSET Values]
    /\ \A t \in Txs : stored[t] \subseteq Statuses

CTypes ==
    /\ StoreTypes
    /\ pc \in [Goroutines -> Labels]
    /\ job \in [Goroutines -> Jobs]
    /\ todo = [g \in Goroutines |-> todo[g]]

(* A goroutine has a message as long as it works on it.                    *)
TodoFits ==
    \A g \in Goroutines : /\ pc[g] \in Moving => todo[g] \in Txs \X Statuses
                          /\ pc[g] \in Handling => todo[g] \in Events

(* No store holds a value that nobody stored.                              *)
Sound ==
    \A i \in Items : /\ data[i] \in stored[i] \cup {None}
                     /\ slave[i] \in stored[i] \cup {None}
                     /\ cache[i] \in stored[i] \cup {None}
                     /\ index[i] \in stored[i] \cup {None}

(* The write w is in the ghost st.                                         *)
Written(st, w) == w[2] \in st[w[1]]

AllWritten(st, ws) == \A k \in 1..Len(ws) : Written(st, ws[k])

(* An operation at label l with job j passes on to the cache only what the *)
(* master has acknowledged; a row that it loaded is one of its item.       *)
JobFits(st, l, j) ==
    /\ l \in Saving => j.all # << >> /\ j.todo # << >>
    /\ l \in {"commit", "cache", "index"} => AllWritten(st, j.all) /\ AllWritten(st, j.todo)
    /\ l \in AtMaster => \A k \in 1..Len(j.all) :
                           \/ Written(st, j.all[k])
                           \/ \E n \in 1..Len(j.todo) : j.todo[n] = j.all[k]
    /\ l = "row" /\ Head(j.todo)[1] \in Txs => j.row \in Statuses \cup {None}

JobsFit == \A g \in Goroutines : JobFits(stored, pc[g], job[g])

(* A status that a goroutine is about to write was judged against a status *)
(* that was stored, and one that it writes back was in the column.         *)
Judged ==
    /\ \A i \in Items : "finalized" \in stored[i] => "confirmed" \in stored[i]
    /\ \A t \in Txs : column[t] = "finalized" => "confirmed" \in stored[t]
    /\ \A g \in Goroutines :
          pc[g] \in {"update", "set"} /\ todo[g][2] = "finalized"
              => "confirmed" \in stored[todo[g][1]]
    /\ \A g \in Goroutines :
          pc[g] = "row" /\ job[g].row = "finalized" /\ Head(job[g].todo)[1] \in Txs
              => "confirmed" \in stored[Head(job[g].todo)[1]]

(* The map of the reorg handler holds the events being handled.            *)
MapFits == processing = {todo[g] : g \in {k \in Goroutines : pc[k] \in Handling}}

StoreInv == CTypes /\ TodoFits /\ Sound /\ JobsFit

HandlerInv == MapFits /\ OneHandlerPerEvent

-----------------------------------------------------------------------------
(* What a step does to the stores: the types are kept, the ghost grows,    *)
(* and a store changes to nothing, to a copy or to a value that is stored. *)

Grows == \A i \in Items : stored[i] \subseteq stored'[i]

StoresMove ==
    /\ StoreTypes'
    /\ Grows
    /\ \A i \in Items : /\ data'[i] \in {data[i], None} \cup stored'[i]
                        /\ slave'[i] \in {slave[i], data[i], None} \cup stored'[i]
                        /\ cache'[i] \in {cache[i], None} \cup stored'[i]
                        /\ index'[i] \in {index[i], None} \cup stored'[i]

LEMMA SoundKept ==
    ASSUME Sound, StoresMove
    PROVE  Sound'
<1> USE DEF Sound, StoresMove, Grows
<1>1. ASSUME NEW i \in Items PROVE data'[i] \in stored'[i] \cup {None}
  OBVIOUS
<1>2. ASSUME NEW i \in Items PROVE slave'[i] \in stored'[i] \cup {None}
  OBVIOUS
<1>3. ASSUME NEW i \in Items PROVE cache'[i] \in stored'[i] \cup {None}
  OBVIOUS
<1>4. ASSUME NEW i \in Items PROVE index'[i] \in stored'[i] \cup {None}
  OBVIOUS
<1> QED
  BY <1>1, <1>2, <1>3, <1>4

LEMMA StoresStay ==
    ASSUME StoreTypes, UNCHANGED <<stores, stored>>
    PROVE  StoresMove
BY DEF StoreTypes, StoresMove, Grows, stores

LEMMA MarksMove ==
    ASSUME StoreTypes, NEW lo, NEW hi
    PROVE  /\ DatabaseMarks(lo, hi) => StoresMove
           /\ ElasticsearchMarks(lo, hi) => StoresMove
           /\ RedisMarks(lo, hi) => StoresMove
<1> USE DEF StoreTypes, StoresMove, Grows
<1>0. "reverted" \in Values /\ "reverted" \in Statuses
  BY DEF Values, Statuses
<1>1. DatabaseMarks(lo, hi) => StoresMove
  BY <1>0 DEF DatabaseMarks
<1>2. ASSUME ElasticsearchMarks(lo, hi) PROVE StoresMove
  <2> DEFINE hit == {i \in Items : MatchesRange(i, lo, hi)}
  <2>1. /\ index' = [i \in Items |-> IF i \in hit THEN "reverted" ELSE index[i]]
        /\ stored' = [i \in Items |-> stored[i] \cup (IF i \in hit THEN {"reverted"} ELSE {})]
        /\ UNCHANGED <<column, data, slave, cache>>
    BY <1>2 DEF ElasticsearchMarks, RememberReverted
  <2> HIDE DEF hit
  <2>2. stored' \in [Items -> SUBSET Values] /\ index' \in [Items -> Values \cup {None}]
    BY <1>0, <2>1
  <2>3. \A t \in Txs : stored'[t] \subseteq Statuses
    BY <1>0, <2>1 DEF Items
  <2> QED
    BY <2>1, <2>2, <2>3
<1>3. RedisMarks(lo, hi) => StoresMove
  BY StoresStay DEF RedisMarks
<1> QED
  BY <1>1, <1>2, <1>3

LEMMA DeletesMove ==
    ASSUME StoreTypes, NEW lo, NEW hi
    PROVE  /\ DatabaseDeletes(lo, hi) => StoresMove
           /\ ElasticsearchDeletes(lo, hi) => StoresMove
           /\ RedisDeletes(lo, hi) => StoresMove
<1> USE DEF StoreTypes, StoresMove, Grows
<1>1. DatabaseDeletes(lo, hi) => StoresMove
  BY DEF DatabaseDeletes
<1>2. ElasticsearchDeletes(lo, hi) => StoresMove
  BY DEF ElasticsearchDeletes
<1>3. RedisDeletes(lo, hi) => StoresMove
  BY DEF RedisDeletes
<1> QED
  BY <1>1, <1>2, <1>3

LEMMA BatchMoves ==
    ASSUME StoreTypes, NEW g, NEW ts, NEW v \in SaveStatuses, BatchInStore(g, ts, v)
    PROVE  StoresMove
<1> USE DEF StoreTypes, StoresMove, Grows, BatchInStore
<1>0. v \in Values /\ v \in Statuses
  BY StorageAssumption DEF Values
<1>1. stored' \in [Items -> SUBSET Values]
  BY <1>0
<1>2. \A t \in Txs : stored'[t] \subseteq Statuses
  BY <1>0 DEF Items
<1>3. CASE RedisBatch(ts, v)
  BY <1>0, <1>1, <1>2, <1>3 DEF RedisBatch
<1>4. CASE ElasticsearchBatch(ts, v)
  BY <1>0, <1>1, <1>2, <1>4 DEF ElasticsearchBatch
<1> QED
  BY <1>3, <1>4

(* One item is written to one store, after or with its entry in the ghost. *)
LEMMA MasterMoves ==
    ASSUME StoreTypes, NEW w \in Writes, NEW r,
           w[1] \in Txs => r \in Statuses \cup {None},
           DatabaseSavesBlock(w[1], w[2], r) \/ DatabaseSavesTransaction(w[1], w[2], r),
           Remember(w[1], w[2]), UNCHANGED <<slave, cache, index>>
    PROVE  StoresMove /\ Written(stored', w)
<1> USE DEF StoreTypes, StoresMove, Grows, Remember
<1>1. w[1] \in Items /\ w[2] \in Values /\ (w[1] \in Txs => w[2] \in Statuses)
  BY StorageAssumption DEF Writes, Items, Values
<1>2. stored' \in [Items -> SUBSET Values] /\ Written(stored', w)
  BY <1>1 DEF Written
<1>3. column' \in [Txs -> Statuses \cup {None}]
  BY <1>1 DEF DatabaseSavesBlock, DatabaseSavesTransaction
<1>4. data' = data \/ data' = [data EXCEPT ![w[1]] = w[2]]
  BY DEF DatabaseSavesBlock, DatabaseSavesTransaction
<1> QED
  BY <1>1, <1>2, <1>3, <1>4 DEF Written

LEMMA CacheMoves ==
    ASSUME StoreTypes, NEW i \in Items, NEW v \in Values, i \in Txs => v \in Statuses,
           cache' = [cache EXCEPT ![i] = v], v \in stored'[i],
           stored' = stored \/ Remember(i, v),
           UNCHANGED <<column, data, slave, index>>
    PROVE  StoresMove
<1>1. stored' \in [Items -> SUBSET Values] /\ Grows
  BY DEF StoreTypes, Grows, Remember
<1>2. \A t \in Txs : stored'[t] \subseteq Statuses
  BY DEF StoreTypes, Remember, Items
<1> QED
  BY <1>1, <1>2 DEF StoreTypes, StoresMove

LEMMA IndexMoves ==
    ASSUME StoreTypes, NEW i \in Items, NEW v \in Values, i \in Txs => v \in Statuses,
           index' = [index EXCEPT ![i] = v], v \in stored'[i],
           stored' = stored \/ Remember(i, v),
           UNCHANGED <<column, data, slave, cache>>
    PROVE  StoresMove
<1>1. stored' \in [Items -> SUBSET Values] /\ Grows
  BY DEF StoreTypes, Grows, Remember
<1>2. \A t \in Txs : stored'[t] \subseteq Statuses
  BY DEF StoreTypes, Remember, Items
<1> QED
  BY <1>1, <1>2 DEF StoreTypes, StoresMove

(* The status column alone.                                                *)
LEMMA ColumnMoves ==
    ASSUME StoreTypes, column' \in [Txs -> Statuses \cup {None}],
           UNCHANGED <<data, slave, cache, index, stored>>
    PROVE  StoresMove
BY DEF StoreTypes, StoresMove, Grows

(* Expiry, replication and refresh.                                        *)
LEMMA SettlingMoves ==
    ASSUME StoreTypes, StoresStep
    PROVE  StoresMove /\ UNCHANGED <<pc, job>>
<1> USE DEF StoreTypes, StoresMove, Grows
<1>1. ASSUME NEW i \in Items, RedisExpires(i) PROVE StoresMove /\ UNCHANGED <<pc, job>>
  BY <1>1 DEF RedisExpires
<1>2. CASE Replicates
  BY <1>2 DEF Replicates
<1>3. CASE IndexRefreshes
  BY <1>3 DEF IndexRefreshes
<1> QED
  BY <1>1, <1>2, <1>3 DEF StoresStep

-----------------------------------------------------------------------------
(* What a step does to the goroutines.                                     *)

(* What was written stays written.                                         *)
LEMMA FitsMonotone ==
    ASSUME Grows, NEW l, NEW j \in Jobs, JobFits(stored, l, j)
    PROVE  JobFits(stored', l, j)
<1>1. ASSUME NEW w \in Writes, Written(stored, w) PROVE Written(stored', w)
  <2>1. w[1] \in Items
    BY DEF Writes, Items
  <2> QED
    BY <1>1, <2>1 DEF Grows, Written
<1>2. ASSUME NEW ws \in Seq(Writes), NEW k \in 1..Len(ws) PROVE ws[k] \in Writes
  OBVIOUS
<1>3. j.all \in Seq(Writes) /\ j.todo \in Seq(Writes)
  BY DEF Jobs
<1> QED
  BY <1>1, <1>2, <1>3 DEF JobFits, AllWritten

(* A goroutine that is not in an operation of StorageManager moves on.     *)
LEMMA ConsumerMoves ==
    ASSUME StoreInv, StoresMove, job' = job, NEW g \in Goroutines,
           pc[g] \notin Saving, NEW l \in Labels \ Saving, pc' = [pc EXCEPT ![g] = l],
           NEW m, todo' = [todo EXCEPT ![g] = m],
           l \in Moving => m \in Txs \X Statuses,
           l \in Handling => m \in Events
    PROVE  StoreInv'
<1> USE DEF StoreInv
<1>1. CTypes'
  BY DEF CTypes, StoresMove
<1>2. TodoFits'
  BY DEF TodoFits, CTypes
<1>3. Sound'
  BY SoundKept
<1>4. JobsFit'
  <2> SUFFICES ASSUME NEW k \in Goroutines PROVE JobFits(stored', pc'[k], job[k])
    BY DEF JobsFit
  <2>1. CASE k = g
    <3>1. /\ pc'[k] = l /\ l \notin Saving /\ l \notin AtMaster /\ l # "row"
          /\ l \notin {"commit", "cache", "index"}
      BY <2>1 DEF CTypes, Saving, AtMaster
    <3> QED
      BY <3>1 DEF JobFits
  <2>2. CASE k # g
    <3>1. pc'[k] = pc[k] /\ job[k] \in Jobs /\ JobFits(stored, pc[k], job[k])
      BY <2>2 DEF CTypes, JobsFit
    <3> QED
      BY <3>1, FitsMonotone DEF StoresMove
  <2> QED
    BY <2>1, <2>2
<1> QED
  BY <1>1, <1>2, <1>3, <1>4

(* No goroutine moves.                                                     *)
LEMMA NobodyMoves ==
    ASSUME StoreInv, StoresMove, UNCHANGED <<pc, job, todo>>
    PROVE  StoreInv'
<1> USE DEF StoreInv
<1>1. CTypes'
  BY DEF CTypes, StoresMove
<1>2. TodoFits'
  BY DEF TodoFits
<1>3. Sound'
  BY SoundKept
<1>4. JobsFit'
  BY FitsMonotone DEF JobsFit, CTypes, StoresMove
<1> QED
  BY <1>1, <1>2, <1>3, <1>4

(* A goroutine in an operation of StorageManager moves on.                 *)
LEMMA ManagerMoves ==
    ASSUME StoreInv, StoresMove, todo' = todo, NEW g \in Goroutines,
           NEW l \in Saving \cup {"idle"}, pc' = [pc EXCEPT ![g] = l],
           NEW j \in Jobs, job' = [job EXCEPT ![g] = j], JobFits(stored', l, j)
    PROVE  StoreInv'
<1> USE DEF StoreInv
<1>1. CTypes'
  BY DEF CTypes, StoresMove, Saving, AtMaster, Labels
<1>2. TodoFits'
  BY DEF TodoFits, CTypes, Saving, AtMaster, Moving, Handling
<1>3. Sound'
  BY SoundKept
<1>4. JobsFit'
  <2> SUFFICES ASSUME NEW k \in Goroutines PROVE JobFits(stored', pc'[k], job'[k])
    BY DEF JobsFit
  <2>1. CASE k = g
    BY <2>1 DEF CTypes
  <2>2. CASE k # g
    <3>1. pc'[k] = pc[k] /\ job'[k] = job[k] /\ job[k] \in Jobs /\ JobFits(stored, pc[k], job[k])
      BY <2>2 DEF CTypes, JobsFit
    <3> QED
      BY <3>1, FitsMonotone DEF StoresMove
  <2> QED
    BY <2>1, <2>2
<1> QED
  BY <1>1, <1>2, <1>3, <1>4

-----------------------------------------------------------------------------
(* The operations of StorageManager.                                       *)

(* The batch is a sequence of writes of all transactions.                  *)
LEMMA BatchType ==
    ASSUME NEW v \in SaveStatuses
    PROVE  Batch(v) \in Seq(Writes) /\ Batch(v) # << >>
<1> DEFINE n == Cardinality(Txs)
           S == [1..n -> Txs]
<1>1. n \in Nat \ {0}
  BY StorageAssumption, FS_CardinalityType, FS_EmptySet
<1>2. \E f \in S : IsInjective(f)
  BY StorageAssumption, FS_CountingElements, FS_CardinalityType, FS_NatBijection
  DEF ExistsBijection, Bijection, Injection
<1>3. SetToSeq(Txs) \in S
  BY <1>2 DEF SetToSeq
<1>4. SetToSeq(Txs) \in Seq(Txs) /\ Len(SetToSeq(Txs)) = n
  BY <1>1, <1>3
<1>5. /\ Batch(v) = [k \in 1..n |-> <<SetToSeq(Txs)[k], v>>]
      /\ \A k \in 1..n : <<SetToSeq(Txs)[k], v>> \in Writes
  BY <1>3, <1>4 DEF Batch, Writes
<1> HIDE DEF n
<1>6. Batch(v) \in Seq(Writes) /\ Len(Batch(v)) = n
  BY <1>1, <1>5
<1> QED
  BY <1>1, <1>6

LEMMA NoJobType == NoJob \in Jobs
BY DEF NoJob, Jobs

(* A new operation, with the writes ws.                                    *)
LEMMA StartKeepsInv ==
    ASSUME StoreInv, NEW g \in Goroutines, NEW ws \in Seq(Writes), ws # << >>,
           NEW b \in BOOLEAN, StartWrites(g, ws, b), Goto(g, "master"), UNCHANGED todo
    PROVE  StoreInv'
<1> DEFINE j == [all |-> ws, todo |-> ws, batch |-> b, row |-> None]
<1>1. StoresMove
  BY StoresStay DEF StartWrites, StoreInv, CTypes
<1>2. j \in Jobs /\ job' = [job EXCEPT ![g] = j] /\ pc' = [pc EXCEPT ![g] = "master"]
  BY DEF StartWrites, Goto, Jobs
<1>3. JobFits(stored', "master", j)
  BY DEF JobFits
<1> HIDE DEF j
<1> QED
  BY <1>1, <1>2, <1>3, ManagerMoves DEF Saving, AtMaster

LEMMA ManagerStartKeepsInv ==
    ASSUME StoreInv, NEW g \in Goroutines, ManagerStart(g), UNCHANGED todo
    PROVE  StoreInv'
<1>0. StoreTypes
  BY DEF StoreInv, CTypes
<1>1. ASSUME NEW h \in Heights, NEW v \in Branches, SaveBlock(g, h, v) PROVE StoreInv'
  <2>1. <<h, v>> \in Writes
    BY DEF Writes
  <2>2. << <<h, v>> >> \in Seq(Writes) /\ << <<h, v>> >> # << >>
    BY <2>1
  <2> QED
    BY <1>1, <2>2, StartKeepsInv DEF SaveBlock
<1>2. ASSUME NEW t \in Txs, NEW v \in SaveStatuses, SaveTransaction(g, t, v) PROVE StoreInv'
  <2>1. <<t, v>> \in Writes
    BY DEF Writes
  <2>2. << <<t, v>> >> \in Seq(Writes) /\ << <<t, v>> >> # << >>
    BY <2>1
  <2> QED
    BY <1>2, <2>2, StartKeepsInv DEF SaveTransaction
<1>3. ASSUME NEW v \in SaveStatuses, BatchSaveTransactions(g, Batch(v)) PROVE StoreInv'
  BY <1>3, BatchType, StartKeepsInv DEF BatchSaveTransactions
<1>4. ASSUME NEW v \in SaveStatuses, NEW ts \in SUBSET Txs, BatchInStore(g, ts, v)
      PROVE  StoreInv'
  BY <1>0, <1>4, BatchMoves, NobodyMoves DEF BatchInStore
<1>5. ASSUME NEW lo \in Heights, NEW hi \in Heights,
             \/ MarkTransactionsAsReverted(g, lo, hi)
             \/ MarkInStore(g, lo, hi)
             \/ DeleteInStore(g, lo, hi)
      PROVE  StoreInv'
  <2>1. StoresMove
    BY <1>0, <1>5, MarksMove, DeletesMove, StoresStay
    DEF MarkTransactionsAsReverted, MarkInStore, DeleteInStore
  <2>2. UNCHANGED <<pc, job>>
    BY <1>5 DEF MarkTransactionsAsReverted, MarkInStore, DeleteInStore
  <2> QED
    BY <2>1, <2>2, NobodyMoves
<1> QED
  BY <1>1, <1>2, <1>3, <1>4, <1>5 DEF ManagerStart

(* The head of a job that is not done is one of its writes.                *)
LEMMA HeadType ==
    ASSUME StoreInv, NEW g \in Goroutines, pc[g] \in Saving
    PROVE  /\ job[g] \in Jobs
           /\ job[g].todo \in Seq(Writes) /\ job[g].todo # << >>
           /\ Head1(g) = job[g].todo[1] /\ Head1(g) \in Writes
           /\ Head1(g)[1] \in Items /\ Head1(g)[2] \in Values
           /\ Head1(g)[1] \in Txs => Head1(g)[2] \in Statuses
<1>1. job[g] \in Jobs /\ JobFits(stored, pc[g], job[g])
  BY DEF StoreInv, CTypes, JobsFit
<1>2. job[g].todo \in Seq(Writes) /\ job[g].todo # << >>
  BY <1>1 DEF Jobs, JobFits
<1>3. Head1(g) = job[g].todo[1] /\ Head1(g) \in Writes
  BY <1>2 DEF Head1
<1> QED
  BY <1>1, <1>2, <1>3, StorageAssumption DEF Writes, Items, Values

(* The job without its first write, and the job begun again.               *)
LEMMA JobParts ==
    ASSUME NEW j \in Jobs
    PROVE  /\ [j EXCEPT !.todo = j.all] \in Jobs
           /\ [j EXCEPT !.todo = j.all].all = j.all
           /\ [j EXCEPT !.todo = j.all].todo = j.all
           /\ [j EXCEPT !.todo = j.all, !.row = None] \in Jobs
           /\ [j EXCEPT !.todo = j.all, !.row = None].all = j.all
           /\ [j EXCEPT !.todo = j.all, !.row = None].todo = j.all
           /\ j.todo # << >> =>
                 /\ [j EXCEPT !.todo = Tail(j.todo), !.row = None] \in Jobs
                 /\ [j EXCEPT !.todo = Tail(j.todo), !.row = None].all = j.all
                 /\ [j EXCEPT !.todo = Tail(j.todo), !.row = None].todo = Tail(j.todo)
                 /\ Len(j.todo) \in Nat \ {0}
                 /\ Len(Tail(j.todo)) = Len(j.todo) - 1
                 /\ \A n \in 1..Len(Tail(j.todo)) : Tail(j.todo)[n] = j.todo[n + 1]
<1>1. j.all \in Seq(Writes) /\ j.todo \in Seq(Writes) /\ None \in Values \cup {None}
  BY DEF Jobs
<1>2. ASSUME NEW ws \in Seq(Writes)
      PROVE  /\ [j EXCEPT !.todo = ws] \in Jobs
             /\ [j EXCEPT !.todo = ws].all = j.all
             /\ [j EXCEPT !.todo = ws].todo = ws
  BY DEF Jobs
<1>3. ASSUME NEW ws \in Seq(Writes)
      PROVE  /\ [j EXCEPT !.todo = ws, !.row = None] \in Jobs
             /\ [j EXCEPT !.todo = ws, !.row = None].all = j.all
             /\ [j EXCEPT !.todo = ws, !.row = None].todo = ws
  BY DEF Jobs
<1>4. ASSUME j.todo # << >>
      PROVE  /\ Tail(j.todo) \in Seq(Writes)
             /\ Len(j.todo) \in Nat \ {0}
             /\ Len(Tail(j.todo)) = Len(j.todo) - 1
             /\ \A n \in 1..Len(Tail(j.todo)) : Tail(j.todo)[n] = j.todo[n + 1]
  BY <1>1, <1>4
<1> QED
  BY <1>1, <1>2, <1>3, <1>4

(* A row is looked for: the job stays, but for what was loaded.            *)
LEMMA LookUpKeepsInv ==
    ASSUME StoreInv, NEW g \in Goroutines, Connect(g) \/ SelectRow(g), UNCHANGED todo
    PROVE  StoreInv'
<1> DEFINE j == job[g]
<1>0. StoresMove
  BY StoresStay DEF Connect, SelectRow, StoreInv, CTypes
<1>1. pc[g] \in {"master", "select"} /\ j \in Jobs /\ JobFits(stored', pc[g], j)
  <2>1. pc[g] \in {"master", "select"} /\ j \in Jobs /\ JobFits(stored, pc[g], j)
    BY DEF Connect, SelectRow, StoreInv, CTypes, JobsFit
  <2> QED
    BY <1>0, <2>1, FitsMonotone DEF StoresMove
<1>2. CASE Connect(g)
  <2>1. pc' = [pc EXCEPT ![g] = "select"] /\ job' = [job EXCEPT ![g] = j]
    BY <1>2 DEF Connect, Goto, StoreInv, CTypes
  <2>2. JobFits(stored', "select", j)
    BY <1>1, <1>2 DEF JobFits, Saving, AtMaster, Connect
  <2> HIDE DEF j
  <2> QED
    BY <1>0, <1>1, <2>1, <2>2, ManagerMoves DEF Saving, AtMaster
<1>3. CASE SelectRow(g)
  <2> DEFINE r == Loaded(Head1(g)[1])
             i == [j EXCEPT !.row = r]
  <2>1. pc[g] = "select" /\ pc' = [pc EXCEPT ![g] = "row"] /\ job' = [job EXCEPT ![g] = i]
    BY <1>3 DEF SelectRow, Goto
  <2>2. Head1(g)[1] \in Items /\ Head1(g) = Head(j.todo)
    BY <2>1, HeadType DEF Saving, AtMaster, Head1
  <2>3. r \in Values \cup {None} /\ (Head1(g)[1] \in Txs => r \in Statuses \cup {None})
    BY <2>2 DEF Loaded, StoreInv, CTypes, StoreTypes, Items, Values
  <2> HIDE DEF r
  <2>4. i \in Jobs /\ i.all = j.all /\ i.todo = j.todo /\ i.row = r
    BY <1>1, <2>3 DEF Jobs
  <2>5. JobFits(stored', "row", i)
    BY <1>1, <2>1, <2>2, <2>3, <2>4 DEF JobFits, Saving, AtMaster
  <2> HIDE DEF i
  <2> QED
    BY <1>0, <2>1, <2>4, <2>5, ManagerMoves DEF Saving, AtMaster
<1> QED
  BY <1>2, <1>3

(* The master takes the first write of the job.                            *)
LEMMA MasterWritesMove ==
    ASSUME StoreInv, NEW g \in Goroutines, MasterWrites(g)
    PROVE  /\ pc[g] = "row" /\ job[g] \in Jobs /\ job[g].todo # << >>
           /\ JobFits(stored, "row", job[g])
           /\ Head1(g) \in Writes /\ Head1(g) = job[g].todo[1]
           /\ Head1(g)[1] \in Txs => job[g].row \in Statuses \cup {None}
           /\ StoresMove /\ Written(stored', Head1(g))
<1> DEFINE w == Head1(g)
           j == job[g]
<1>1. pc[g] = "row" /\ j \in Jobs /\ JobFits(stored, "row", j) /\ j.todo # << >>
  BY HeadType DEF MasterWrites, StoreInv, JobsFit, Saving, AtMaster
<1>2. w \in Writes /\ w = j.todo[1]
  BY <1>1, HeadType DEF Saving, AtMaster
<1>3. w[1] \in Txs => j.row \in Statuses \cup {None}
  BY <1>1 DEF JobFits, Head1
<1>4. StoresMove /\ Written(stored', w)
  <2>1. StoreTypes
    BY DEF StoreInv, CTypes
  <2>2. /\ DatabaseSavesBlock(w[1], w[2], j.row) \/ DatabaseSavesTransaction(w[1], w[2], j.row)
        /\ Remember(w[1], w[2]) /\ UNCHANGED <<slave, cache, index>>
    BY DEF MasterWrites
  <2> HIDE DEF w, j
  <2> QED
    BY <1>2, <1>3, <2>1, <2>2, MasterMoves
<1> QED
  BY <1>1, <1>2, <1>3, <1>4

LEMMA MasterSavesKeepsInv ==
    ASSUME StoreInv, NEW g \in Goroutines, MasterSaves(g), UNCHANGED todo
    PROVE  StoreInv'
<1> DEFINE w == Head1(g)
           j == job[g]
<1>1. /\ pc[g] = "row" /\ j \in Jobs /\ JobFits(stored, "row", j) /\ j.todo # << >>
      /\ w \in Writes /\ w = j.todo[1]
      /\ StoresMove /\ Written(stored', w)
  BY MasterWritesMove DEF MasterSaves
<1>4. JobFits(stored', "row", j)
  BY <1>1, FitsMonotone DEF StoresMove
<1>5. CASE Len(j.todo) > 1
  <2> DEFINE i == [j EXCEPT !.todo = Tail(j.todo), !.row = None]
  <2>1. job' = [job EXCEPT ![g] = i] /\ pc' = [pc EXCEPT ![g] = "master"]
    BY <1>1, <1>5 DEF MasterSaves, AfterRow, Popped, Goto
  <2>2. i \in Jobs /\ i.all = j.all /\ i.todo = Tail(j.todo)
    BY <1>1, JobParts
  <2>3. JobFits(stored', "master", i)
    <3>1. i.all # << >> /\ i.todo # << >>
      <4>1. Len(i.todo) = Len(j.todo) - 1 /\ Len(j.todo) \in Nat
        BY <1>1, <2>2, JobParts
      <4>2. j.all # << >>
        BY <1>1 DEF JobFits, Saving, AtMaster
      <4>3. i.all = j.all
        BY <2>2
      <4> HIDE DEF i, j
      <4>4. Len(i.todo) # 0
        <5> DEFINE m == Len(i.todo)
                   n == Len(j.todo)
        <5>1. n > 1 /\ n \in Nat /\ m = n - 1
          BY <1>5, <4>1
        <5> HIDE DEF m, n
        <5>2. m # 0
          BY <5>1
        <5> QED
          BY <5>2 DEF m
      <4>5. i.todo # << >>
        BY <4>4
      <4> QED
        BY <4>2, <4>3, <4>5
    <3>2. ASSUME NEW k \in 1..Len(j.all)
          PROVE  \/ Written(stored', j.all[k])
                 \/ \E n \in 1..Len(i.todo) : i.todo[n] = j.all[k]
      <4>1. CASE Written(stored', j.all[k])
        BY <4>1
      <4>2. ASSUME NEW n \in 1..Len(j.todo), j.todo[n] = j.all[k]
            PROVE  \/ Written(stored', j.all[k])
                   \/ \E a \in 1..Len(i.todo) : i.todo[a] = j.all[k]
        <5>1. CASE n = 1
          BY <1>1, <4>2, <5>1
        <5>2. CASE n > 1
          <6>1. Len(i.todo) = Len(j.todo) - 1 /\ Len(j.todo) \in Nat
            BY <1>1, <2>2, JobParts
          <6>2. n - 1 \in 1..Len(i.todo)
            BY <5>2, <6>1
          <6>3. /\ \A a \in 1..Len(Tail(j.todo)) : Tail(j.todo)[a] = j.todo[a + 1]
                /\ i.todo = Tail(j.todo)
            BY <1>1, <2>2, JobParts
          <6>4. i.todo[n - 1] = j.todo[n - 1 + 1] /\ n - 1 + 1 = n
            BY <6>2, <6>3
          <6> QED
            BY <4>2, <6>2, <6>4
        <5> QED
          BY <5>1, <5>2
      <4> QED
        BY <1>4, <4>1, <4>2 DEF JobFits, AtMaster
    <3> QED
      BY <2>2, <3>1, <3>2 DEF JobFits
  <2> HIDE DEF i
  <2> QED
    BY <1>1, <2>1, <2>2, <2>3, ManagerMoves DEF Saving, AtMaster
<1>6. CASE ~ (Len(j.todo) > 1)
  <2> DEFINE i == [j EXCEPT !.todo = j.all, !.row = None]
             l == IF j.batch THEN "commit" ELSE "cache"
  <2>1. job' = [job EXCEPT ![g] = i] /\ pc' = [pc EXCEPT ![g] = l]
    BY <1>6 DEF MasterSaves, AfterRow, Goto
  <2>2. i \in Jobs /\ i.all = j.all /\ i.todo = j.all
    BY <1>1, JobParts
  <2>3. Len(j.todo) = 1
    <3>1. Len(j.todo) \in Nat \ {0}
      BY <1>1, JobParts
    <3> HIDE DEF j
    <3> QED
      BY <1>6, <3>1
  <2>4. AllWritten(stored', j.all)
    BY <1>1, <1>4, <2>3 DEF JobFits, AllWritten, AtMaster
  <2>5. j.all # << >>
    BY <1>1 DEF JobFits, Saving, AtMaster
  <2>6. JobFits(stored', l, i)
    BY <2>2, <2>4, <2>5 DEF JobFits, AtMaster
  <2>7. l \in Saving
    BY DEF Saving
  <2> HIDE DEF i, l
  <2> QED
    BY <1>1, <2>1, <2>2, <2>6, <2>7, ManagerMoves
<1> QED
  BY <1>5, <1>6

(* The operation is over.                                                  *)
LEMMA EndKeepsInv ==
    ASSUME StoreInv, StoresMove, NEW g \in Goroutines, UNCHANGED todo,
           pc' = [pc EXCEPT ![g] = "idle"], job' = [job EXCEPT ![g] = NoJob]
    PROVE  StoreInv'
<1>1. JobFits(stored', "idle", NoJob)
  BY DEF JobFits, Saving, AtMaster
<1> QED
  BY <1>1, NoJobType, ManagerMoves

LEMMA CommitKeepsInv ==
    ASSUME StoreInv, NEW g \in Goroutines, Commit(g), UNCHANGED todo
    PROVE  StoreInv'
<1>1. StoresMove
  BY StoresStay DEF Commit, StoreInv, CTypes
<1>2. CASE Goto(g, "cache") /\ UNCHANGED job
  <2>1. /\ job[g] \in Jobs /\ job' = [job EXCEPT ![g] = job[g]]
        /\ pc' = [pc EXCEPT ![g] = "cache"]
    BY <1>2 DEF StoreInv, CTypes, Goto
  <2>2. JobFits(stored, "commit", job[g])
    BY DEF StoreInv, JobsFit, Commit
  <2>3. JobFits(stored', "cache", job[g])
    <3>1. JobFits(stored', "commit", job[g])
      BY <1>1, <2>1, <2>2, FitsMonotone DEF StoresMove
    <3> QED
      BY <3>1 DEF JobFits, Saving, AtMaster
  <2> QED
    BY <1>1, <2>1, <2>3, ManagerMoves DEF Saving
<1>3. CASE Goto(g, "idle") /\ job' = [job EXCEPT ![g] = NoJob]
  BY <1>1, <1>3, EndKeepsInv DEF Goto
<1> QED
  BY <1>2, <1>3 DEF Commit

(* A write to the cache or the index, followed by the next one or label l. *)
LEMMA NextWriteKeepsInv ==
    ASSUME StoreInv, StoresMove, NEW g \in Goroutines, pc[g] \in {"cache", "index"},
           NEW l \in {"index", "idle"}, NextWrite(g, l), UNCHANGED todo
    PROVE  StoreInv'
<1> DEFINE j == job[g]
<1>1. j \in Jobs /\ JobFits(stored, pc[g], j)
  BY DEF StoreInv, CTypes, JobsFit
<1>2. /\ j.all # << >> /\ j.todo # << >>
      /\ AllWritten(stored', j.all) /\ AllWritten(stored', j.todo)
  <2>1. JobFits(stored', pc[g], j)
    BY <1>1, FitsMonotone DEF StoresMove
  <2> QED
    BY <2>1 DEF JobFits, Saving
<1>3. CASE Len(j.todo) > 1
  <2> DEFINE i == [j EXCEPT !.todo = Tail(j.todo), !.row = None]
  <2>6. pc' = [pc EXCEPT ![g] = pc[g]]
    <3>1. pc' = pc /\ pc \in [Goroutines -> Labels]
      BY <1>3 DEF NextWrite, StoreInv, CTypes
    <3> QED
      BY <3>1
  <2>1. job' = [job EXCEPT ![g] = i]
    BY <1>3 DEF NextWrite, Popped
  <2>2. /\ i \in Jobs /\ i.all = j.all /\ i.todo = Tail(j.todo)
        /\ Len(j.todo) \in Nat
        /\ Len(Tail(j.todo)) = Len(j.todo) - 1
        /\ \A n \in 1..Len(Tail(j.todo)) : Tail(j.todo)[n] = j.todo[n + 1]
    BY <1>1, <1>2, JobParts
  <2>3. i.todo # << >>
    BY <1>3, <2>2
  <2>4. AllWritten(stored', i.todo)
    BY <1>2, <2>2 DEF AllWritten
  <2>5. JobFits(stored', pc[g], i)
    BY <1>2, <2>2, <2>3, <2>4 DEF JobFits, AtMaster
  <2> HIDE DEF i
  <2> QED
    BY <2>1, <2>2, <2>5, <2>6, ManagerMoves DEF Saving
<1>4. CASE ~ (Len(j.todo) > 1) /\ l = "index"
  <2> DEFINE i == [j EXCEPT !.todo = j.all]
  <2>1. job' = [job EXCEPT ![g] = i] /\ pc' = [pc EXCEPT ![g] = l]
    BY <1>4 DEF NextWrite, Goto
  <2>2. i \in Jobs /\ i.all = j.all /\ i.todo = j.all
    BY <1>1, JobParts
  <2>3. JobFits(stored', l, i)
    BY <1>2, <1>4, <2>2 DEF JobFits, AtMaster
  <2> HIDE DEF i
  <2> QED
    BY <1>4, <2>1, <2>2, <2>3, ManagerMoves DEF Saving
<1>5. CASE ~ (Len(j.todo) > 1) /\ l = "idle"
  BY <1>5, EndKeepsInv DEF NextWrite, Goto
<1> QED
  BY <1>3, <1>4, <1>5

LEMMA ManagerStepKeepsInv ==
    ASSUME StoreInv, NEW g \in Goroutines, ManagerStep(g), UNCHANGED todo
    PROVE  StoreInv'
<1>0. StoreTypes
  BY DEF StoreInv, CTypes
<1>1. CASE MasterFails(g)
  <2>1. StoresMove
    BY <1>0, <1>1, StoresStay DEF MasterFails
  <2> QED
    BY <1>1, <2>1, EndKeepsInv DEF MasterFails, Goto
<1>5. CASE MasterReplyLost(g)
  BY <1>5, MasterWritesMove, EndKeepsInv DEF MasterReplyLost, Goto
<1>2. ASSUME pc[g] \in {"cache", "index"}
      PROVE  /\ Head1(g)[1] \in Items /\ Head1(g)[2] \in Values
             /\ Head1(g)[2] \in stored[Head1(g)[1]]
             /\ Head1(g)[1] \in Txs => Head1(g)[2] \in Statuses
  <2>1. /\ job[g].todo \in Seq(Writes) /\ job[g].todo # << >>
        /\ Head1(g) = job[g].todo[1]
        /\ Head1(g)[1] \in Items /\ Head1(g)[2] \in Values
        /\ Head1(g)[1] \in Txs => Head1(g)[2] \in Statuses
    BY <1>2, HeadType DEF Saving
  <2>2. AllWritten(stored, job[g].todo)
    BY <1>2 DEF StoreInv, JobsFit, JobFits
  <2>3. 1 \in 1..Len(job[g].todo)
    BY <2>1
  <2> QED
    BY <2>1, <2>2, <2>3 DEF AllWritten, Written
<1>3. CASE CacheSaves(g)
  <2>1. StoresMove
    <3>1. CASE cache' = [cache EXCEPT ![Head1(g)[1]] = Head1(g)[2]]
      BY <1>0, <1>2, <1>3, <3>1, CacheMoves DEF CacheSaves
    <3>2. CASE UNCHANGED cache
      BY <1>0, <1>3, <3>2, StoresStay DEF CacheSaves, stores
    <3> QED
      BY <1>3, <3>1, <3>2 DEF CacheSaves, RedisSavesBlock, RedisSavesTransaction
  <2> QED
    BY <1>3, <2>1, NextWriteKeepsInv DEF CacheSaves
<1>4. CASE IndexSaves(g)
  <2>1. StoresMove
    <3>1. CASE index' = [index EXCEPT ![Head1(g)[1]] = Head1(g)[2]]
      BY <1>0, <1>2, <1>4, <3>1, IndexMoves DEF IndexSaves
    <3>2. CASE UNCHANGED <<index, recent>>
      BY <1>0, <1>4, <3>2, StoresStay DEF IndexSaves, stores
    <3> QED
      BY <1>4, <3>1, <3>2
      DEF IndexSaves, ElasticsearchSavesBlock, ElasticsearchSavesTransaction
  <2> QED
    BY <1>4, <2>1, NextWriteKeepsInv DEF IndexSaves
<1> QED
  BY <1>1, <1>3, <1>4, <1>5, LookUpKeepsInv, MasterSavesKeepsInv, CommitKeepsInv
  DEF ManagerStep

-----------------------------------------------------------------------------
(* The consumer.                                                           *)

LEMMA ConsumerStartKeepsInv ==
    ASSUME StoreInv, NEW g \in Goroutines, ConsumerStart(g)
    PROVE  StoreInv'
<1>0. StoreTypes
  BY DEF StoreInv, CTypes
<1>1. ASSUME NEW t \in Txs, NEW s \in Statuses, ProcessTransaction(g, t, s) PROVE StoreInv'
  <2>1. /\ StoresMove /\ job' = job /\ pc[g] = "idle"
        /\ pc' = [pc EXCEPT ![g] = "check"] /\ todo' = [todo EXCEPT ![g] = <<t, s>>]
    BY <1>0, <1>1, StoresStay DEF ProcessTransaction, Begin, Start, Goto
  <2> QED
    BY <2>1, ConsumerMoves DEF Labels, Saving, AtMaster, Moving, Handling
<1>2. ASSUME NEW e \in Events, HandleReorg(g, e) PROVE StoreInv'
  <2>1. /\ StoresMove /\ job' = job /\ pc[g] = "idle"
        /\ pc' = [pc EXCEPT ![g] = "validate"] /\ todo' = [todo EXCEPT ![g] = e]
    BY <1>0, <1>2, StoresStay DEF HandleReorg, Begin, Start, Goto
  <2>2. /\ "idle" \notin Saving /\ "validate" \in Labels \ Saving
        /\ "validate" \notin Moving
    BY DEF Labels, Saving, AtMaster, Moving
  <2> HIDE DEF Events
  <2> QED
    BY <2>1, <2>2, ConsumerMoves
<1>3. ASSUME NEW h \in Heights, SaveLogs(g, h) PROVE StoreInv'
  BY <1>0, <1>3, StoresStay, NobodyMoves DEF SaveLogs
<1> QED
  BY <1>1, <1>2, <1>3 DEF ConsumerStart

(* A call of the state machine or of the reorg handler goes on at label l, *)
(* or returns.                                                             *)
LEMMA WorkMoves ==
    ASSUME StoreInv, StoresMove, job' = job, NEW g \in Goroutines,
           pc[g] \in Moving \cup Handling, NEW l,
           pc[g] \in Moving => l \in Moving, pc[g] \in Handling => l \in Handling,
           \/ pc' = [pc EXCEPT ![g] = l] /\ todo' = todo
           \/ Return(g)
    PROVE  StoreInv'
<1>1. l \in Labels \ Saving /\ pc[g] \notin Saving /\ "idle" \in Labels \ Saving
  BY DEF Labels, Saving, AtMaster, Moving, Handling
<1>2. CASE pc' = [pc EXCEPT ![g] = l] /\ todo' = todo
  <2>1. todo' = [todo EXCEPT ![g] = todo[g]]
    BY <1>2 DEF StoreInv, CTypes
  <2>2. /\ l \in Moving => todo[g] \in Txs \X Statuses
        /\ l \in Handling => todo[g] \in Events
    BY DEF StoreInv, TodoFits, Moving, Handling
  <2> QED
    BY <1>1, <1>2, <2>1, <2>2, ConsumerMoves
<1>3. CASE Return(g)
  <2>1. pc' = [pc EXCEPT ![g] = "idle"] /\ todo' = [todo EXCEPT ![g] = NoTodo]
    BY <1>3 DEF Return, Goto
  <2>2. "idle" \notin Moving /\ "idle" \notin Handling
    BY DEF Moving, Handling
  <2> QED
    BY <1>1, <2>1, <2>2, ConsumerMoves
<1> QED
  BY <1>2, <1>3

(* The state machine.                                                      *)
LEMMA MachineKeepsInv ==
    ASSUME StoreInv, NEW g \in Goroutines,
           Validate(g) \/ CustomValidate(g) \/ ExecuteStateTransition(g) \/ RedisUpdates(g)
    PROVE  StoreInv'
<1> USE DEF Moving, Handling
<1>0. StoreTypes
  BY DEF StoreInv, CTypes
<1>1. CASE Validate(g) \/ CustomValidate(g)
  <2>1. StoresMove /\ job' = job /\ pc[g] = "check"
    BY <1>0, <1>1, StoresStay DEF Validate, CustomValidate
  <2>2. (pc' = [pc EXCEPT ![g] = "update"] /\ todo' = todo) \/ Return(g)
    BY <1>1 DEF Validate, CustomValidate, Goto
  <2> QED
    BY <2>1, <2>2, WorkMoves
<1>2. ASSUME pc[g] \in {"update", "set"}
      PROVE  /\ todo[g][1] \in Txs /\ todo[g][1] \in Items
             /\ todo[g][2] \in Statuses /\ todo[g][2] \in Values
  BY <1>2 DEF StoreInv, TodoFits, Items, Values
<1>3. CASE ExecuteStateTransition(g)
  <2>1. job' = job /\ pc[g] = "update"
    BY <1>3 DEF ExecuteStateTransition
  <2>2. \/ DatabaseUpdates(todo[g][1], todo[g][2]) /\ Return(g)
        \/ ElasticsearchUpdates(todo[g][1], todo[g][2]) /\ Return(g)
        \/ /\ UNCHANGED <<stores, stored>>
           /\ (pc' = [pc EXCEPT ![g] = "set"] /\ todo' = todo) \/ Return(g)
    BY <1>3 DEF ExecuteStateTransition, Goto
  <2>3. (pc' = [pc EXCEPT ![g] = "set"] /\ todo' = todo) \/ Return(g)
    BY <2>2
  <2>4. StoresMove
    <3>1. CASE DatabaseUpdates(todo[g][1], todo[g][2])
      <4>1. column' \in [Txs -> Statuses \cup {None}]
        BY <1>0, <1>2, <2>1, <3>1 DEF DatabaseUpdates, StoreTypes
      <4> QED
        BY <1>0, <3>1, <4>1, ColumnMoves DEF DatabaseUpdates
    <3>2. CASE ElasticsearchUpdates(todo[g][1], todo[g][2])
      <4>1. todo[g][2] \in stored'[todo[g][1]]
        BY <1>0, <1>2, <2>1, <3>2 DEF ElasticsearchUpdates, Remember, StoreTypes
      <4> QED
        BY <1>0, <1>2, <2>1, <3>2, <4>1, IndexMoves
        DEF ElasticsearchUpdates, ElasticsearchSavesTransaction
    <3>3. CASE UNCHANGED <<stores, stored>>
      BY <1>0, <3>3, StoresStay
    <3> QED
      BY <2>2, <3>1, <3>2, <3>3
  <2> QED
    BY <2>1, <2>3, <2>4, WorkMoves
<1>4. CASE RedisUpdates(g)
  <2>1. job' = job /\ pc[g] = "set" /\ Return(g)
    BY <1>4 DEF RedisUpdates
  <2>2. todo[g][2] \in stored'[todo[g][1]]
    BY <1>0, <1>2, <1>4, <2>1 DEF RedisUpdates, Remember, StoreTypes
  <2>3. StoresMove
    BY <1>0, <1>2, <1>4, <2>1, <2>2, CacheMoves DEF RedisUpdates, RedisSavesTransaction
  <2> QED
    BY <2>1, <2>3, WorkMoves
<1> QED
  BY <1>1, <1>3, <1>4

(* The reorg handler.                                                      *)
LEMMA ReorgKeepsInv ==
    ASSUME StoreInv, NEW g \in Goroutines,
           \/ ValidateReorgEvent(g) \/ MarkAffected(g) \/ ForceBlock(g)
           \/ ForceSetState(g) \/ RevertBusinessData(g) \/ CleanupReorgData(g) \/ DeleteLogs(g)
           \/ MarkReorgEventAsProcessed(g)
    PROVE  StoreInv'
<1> USE DEF Moving, Handling
<1>0. StoreTypes
  BY DEF StoreInv, CTypes
<1>1. CASE ValidateReorgEvent(g)
  <2>1. StoresMove /\ job' = job /\ pc[g] = "validate"
    BY <1>0, <1>1, StoresStay DEF ValidateReorgEvent
  <2>2. (pc' = [pc EXCEPT ![g] = "mark"] /\ todo' = todo) \/ Return(g)
    BY <1>1 DEF ValidateReorgEvent, Goto, EndReorg
  <2> QED
    BY <2>1, <2>2, WorkMoves
<1>2. CASE MarkAffected(g)
  <2>1. job' = job /\ pc[g] = "mark"
    BY <1>2 DEF MarkAffected
  <2>2. StoresMove
    BY <1>0, <1>2, MarksMove, StoresStay DEF MarkAffected
  <2>3. (pc' = [pc EXCEPT ![g] = "force"] /\ todo' = todo) \/ Return(g)
    BY <1>2 DEF MarkAffected, Goto, EndReorg
  <2> QED
    BY <2>1, <2>2, <2>3, WorkMoves
<1>3. CASE ForceBlock(g)
  BY <1>0, <1>3, StoresStay, NobodyMoves DEF ForceBlock, stvars, stores
<1>8. CASE ForceSetState(g)
  <2>1. UNCHANGED <<data, slave, cache, index, pc, job, stored, todo>>
    BY <1>8 DEF ForceSetState
  <2>2. column' \in [Txs -> Statuses \cup {None}]
    BY <1>0, <1>8 DEF ForceSetState, StoreTypes, Statuses
  <2> QED
    BY <1>0, <2>1, <2>2, ColumnMoves, NobodyMoves
<1>4. CASE RevertBusinessData(g)
  <2>1. StoresMove /\ job' = job /\ pc[g] = "force" /\ todo' = todo
    BY <1>0, <1>4, StoresStay DEF RevertBusinessData, cvars
  <2>2. pc' = [pc EXCEPT ![g] = "clean"] \/ pc' = [pc EXCEPT ![g] = "event"]
    BY <1>4 DEF RevertBusinessData, Goto
  <2> QED
    BY <2>1, <2>2, WorkMoves
<1>5. CASE CleanupReorgData(g)
  <2>1. job' = job /\ pc[g] = "clean"
    BY <1>5 DEF CleanupReorgData
  <2>2. StoresMove
    BY <1>0, <1>5, DeletesMove, StoresStay DEF CleanupReorgData
  <2>3. (pc' = [pc EXCEPT ![g] = "logs"] /\ todo' = todo) \/ Return(g)
    BY <1>5 DEF CleanupReorgData, Goto, EndReorg
  <2> QED
    BY <2>1, <2>2, <2>3, WorkMoves
<1>6. CASE DeleteLogs(g)
  <2>1. StoresMove /\ job' = job /\ pc[g] = "logs"
    BY <1>0, <1>6, StoresStay DEF DeleteLogs
  <2>2. (pc' = [pc EXCEPT ![g] = "event"] /\ todo' = todo) \/ Return(g)
    BY <1>6 DEF DeleteLogs, Goto, EndReorg
  <2> QED
    BY <2>1, <2>2, WorkMoves
<1>7. CASE MarkReorgEventAsProcessed(g)
  <2>1. StoresMove /\ job' = job /\ pc[g] = "event" /\ Return(g)
    BY <1>0, <1>7, StoresStay DEF MarkReorgEventAsProcessed, EndReorg
  <2> QED
    BY <2>1, WorkMoves
<1> QED
  BY <1>1, <1>2, <1>3, <1>4, <1>5, <1>6, <1>7, <1>8

LEMMA InitInv == CInit => StoreInv
<1> SUFFICES ASSUME CInit PROVE StoreInv
  OBVIOUS
<1> USE DEF CInit, StInit
<1>1. /\ data = [i \in Items |-> data[i]]
      /\ \A t \in Txs : data[t] \in SaveStatuses \cup {None}
      /\ \A h \in Heights : data[h] \in Branches \cup {None}
  BY StorageAssumption DEF Items
<1>2. \A i \in Items : data[i] \in Values \cup {None}
  BY <1>1, StorageAssumption DEF Items, Values
<1>3. StoreTypes
  <2>2. data \in [Items -> Values \cup {None}]
    BY <1>1, <1>2
  <2>3. stored \in [Items -> SUBSET Values]
    BY <1>2
  <2>4. column \in [Txs -> Statuses \cup {None}]
    BY <1>1, StorageAssumption DEF Statuses
  <2>5. \A t \in Txs : stored[t] \subseteq Statuses
    BY <1>1, StorageAssumption DEF Items
  <2> QED
    BY <2>2, <2>3, <2>4, <2>5 DEF StoreTypes
<1>4. CTypes
  BY <1>3, NoJobType DEF CTypes, Labels
<1>5. TodoFits
  BY DEF TodoFits, Moving, Handling
<1>6. Sound
  BY DEF Sound
<1>7. JobsFit
  BY DEF JobsFit, JobFits, Saving, AtMaster
<1> QED
  BY <1>4, <1>5, <1>6, <1>7 DEF StoreInv

LEMMA StepInv ==
    ASSUME StoreInv, [Next]_vars
    PROVE  StoreInv'
<1>1. ASSUME NEW g \in Goroutines, Work(g) PROVE StoreInv'
  BY <1>1, ManagerStepKeepsInv, MachineKeepsInv, ReorgKeepsInv
  DEF Work, ConsumerStep, cvars
<1>2. ASSUME NEW g \in Goroutines, ManagerStart(g), UNCHANGED cvars PROVE StoreInv'
  BY <1>2, ManagerStartKeepsInv DEF cvars
<1>3. CASE StoresStep /\ UNCHANGED cvars
  BY <1>3, SettlingMoves, NobodyMoves DEF cvars, StoreInv, CTypes
<1>4. CASE UNCHANGED vars
  BY <1>4, StoresStay, NobodyMoves DEF vars, stvars, cvars, stores, StoreInv, CTypes
<1> QED
  BY <1>1, <1>2, <1>3, <1>4, ConsumerStartKeepsInv DEF Next

LEMMA Invariance == Spec => []StoreInv
<1>1. StoreInv /\ [Next]_vars => StoreInv'
  BY StepInv
<1> QED
  BY <1>1, InitInv, PTL DEF Spec

-----------------------------------------------------------------------------
(* Every step moves the stores in the way described above.                 *)
LEMMA GhostGrows ==
    ASSUME StoreInv, [Next]_vars
    PROVE  Grows
<1>0. StoreTypes
  BY DEF StoreInv, CTypes
<1>1. ASSUME NEW i, NEW v, Remember(i, v) PROVE Grows
  BY <1>0, <1>1 DEF Remember, Grows, StoreTypes
<1>2. ASSUME UNCHANGED stored PROVE Grows
  BY <1>2 DEF Grows
<1>3. ASSUME StoresMove PROVE Grows
  BY <1>3 DEF StoresMove
<1>4. ASSUME NEW g \in Goroutines, ManagerStep(g) PROVE Grows
  BY <1>1, <1>2, <1>4
  DEF ManagerStep, Connect, SelectRow, MasterWrites, MasterSaves, MasterReplyLost,
      MasterFails, Commit, CacheSaves, IndexSaves
<1>5. ASSUME NEW g \in Goroutines, ManagerStart(g) PROVE Grows
  <2>1. ASSUME NEW ws, NEW b, StartWrites(g, ws, b) PROVE Grows
    BY <1>2, <2>1 DEF StartWrites
  <2>2. ASSUME NEW v \in SaveStatuses, NEW ts \in SUBSET Txs, BatchInStore(g, ts, v) PROVE Grows
    BY <1>0, <1>3, <2>2, BatchMoves
  <2>3. ASSUME NEW lo \in Heights, NEW hi \in Heights,
               \/ MarkTransactionsAsReverted(g, lo, hi)
               \/ MarkInStore(g, lo, hi)
               \/ DeleteInStore(g, lo, hi)
        PROVE  Grows
    BY <1>0, <1>3, <2>3, MarksMove, DeletesMove, StoresStay
    DEF MarkTransactionsAsReverted, MarkInStore, DeleteInStore
  <2> QED
    BY <1>5, <2>1, <2>2, <2>3
    DEF ManagerStart, SaveBlock, SaveTransaction, BatchSaveTransactions
<1>6. ASSUME NEW g \in Goroutines, ConsumerStart(g) PROVE Grows
  BY <1>2, <1>6 DEF ConsumerStart, ProcessTransaction, HandleReorg, SaveLogs
<1>7. ASSUME NEW g \in Goroutines, ConsumerStep(g) PROVE Grows
  <2>1. CASE Validate(g) \/ CustomValidate(g) \/ ExecuteStateTransition(g) \/ RedisUpdates(g)
    BY <1>1, <1>2, <2>1
    DEF Validate, CustomValidate, ExecuteStateTransition, RedisUpdates,
        DatabaseUpdates, ElasticsearchUpdates
  <2>2. CASE \/ ValidateReorgEvent(g) \/ ForceBlock(g) \/ ForceSetState(g) \/ RevertBusinessData(g)
             \/ DeleteLogs(g) \/ MarkReorgEventAsProcessed(g)
    BY <1>2, <2>2
    DEF ValidateReorgEvent, ForceBlock, ForceSetState, RevertBusinessData, DeleteLogs,
        MarkReorgEventAsProcessed, stvars
  <2>3. CASE MarkAffected(g) \/ CleanupReorgData(g)
    BY <1>2, <2>3 DEF MarkAffected, CleanupReorgData, DatabaseMarks, DatabaseDeletes
  <2> QED
    BY <1>7, <2>1, <2>2, <2>3 DEF ConsumerStep
<1>8. CASE StoresStep
  BY <1>0, <1>3, <1>8, SettlingMoves
<1>9. CASE UNCHANGED vars
  BY <1>2, <1>9 DEF vars, stvars
<1> QED
  BY <1>4, <1>5, <1>6, <1>7, <1>8, <1>9 DEF Next, Work

LEMMA SoundIsTold ==
    ASSUME StoreInv
    PROVE  Weak!Told
BY DEF StoreInv, Sound, Weak!Told, Read, GetTransaction, GetBlock, RedisBlock,
       RedisTransaction, DatabaseBlock, DatabaseTransaction

(* StorageManager implements the weak store: through failures of every     *)
(* store, partial batches, stale replicas, lost answers and concurrent     *)
(* writers, a reader is told nothing or a value that a store took; a save  *)
(* that failed in the master reaches neither the cache nor the index.      *)
THEOREM StorageImplementsWeakStore == Spec => ImplementsWeakStore
<1>1. CInit => Weak!Init
  BY InitInv, SoundIsTold DEF Weak!Init
<1>2. StoreInv => Weak!Told
  BY SoundIsTold
<1>3. StoreInv /\ Weak!Told' /\ [Next]_vars
        => [Weak!Next]_<<stored, [i \in Items |-> Read(i)]>>
  BY GhostGrows DEF Weak!Next, Grows
<1> QED
  BY <1>1, <1>2, <1>3, Invariance, PTL DEF Spec, ImplementsWeakStore, Weak!Spec

-----------------------------------------------------------------------------
(* One handler for an event.                                               *)

(* What a step is for the reorg handler.                                   *)
Elsewhere(g) ==
    /\ pc[g] \notin Handling
    /\ \/ pc' = pc
       \/ \E l \in Labels \ Handling : pc' = [pc EXCEPT ![g] = l]
    /\ \/ todo' = todo
       \/ \E m : todo' = [todo EXCEPT ![g] = m]
    /\ processing' = processing

GoesOn(g) ==
    /\ pc[g] \in Handling
    /\ \/ pc' = pc
       \/ \E l \in Handling : pc' = [pc EXCEPT ![g] = l]
    /\ UNCHANGED <<todo, processing>>

Ends(g) == pc[g] \in Handling /\ EndReorg(g)

Begins(g, e) ==
    /\ pc[g] = "idle"
    /\ e \notin processing
    /\ pc' = [pc EXCEPT ![g] = "validate"]
    /\ todo' = [todo EXCEPT ![g] = e]
    /\ processing' = processing \cup {e}

LEMMA HandlerStep ==
    ASSUME [Next]_vars
    PROVE  \/ \E g \in Goroutines : Elsewhere(g) \/ GoesOn(g) \/ Ends(g)
           \/ \E g \in Goroutines, e \in Events : Begins(g, e)
           \/ UNCHANGED <<pc, todo, processing>>
<1> USE DEF Handling
<1>1. ASSUME NEW g \in Goroutines, ManagerStep(g), UNCHANGED cvars PROVE Elsewhere(g)
  <2>1. pc[g] \in Saving
    BY <1>1
    DEF ManagerStep, Connect, SelectRow, MasterWrites, MasterSaves, MasterReplyLost,
        MasterFails, Commit, CacheSaves, IndexSaves, Saving, AtMaster
  <2>2. pc' = pc \/ \E l \in Saving \cup {"idle"} : pc' = [pc EXCEPT ![g] = l]
    BY <1>1
    DEF ManagerStep, Connect, SelectRow, MasterSaves, MasterReplyLost, MasterFails, Commit,
        CacheSaves, IndexSaves, AfterRow, NextWrite, Goto, Saving, AtMaster
  <2> QED
    BY <1>1, <2>1, <2>2 DEF Elsewhere, cvars, Labels, Saving, AtMaster
<1>2. ASSUME NEW g \in Goroutines, ManagerStart(g), UNCHANGED cvars PROVE Elsewhere(g)
  <2>1. pc[g] = "idle"
    BY <1>2
    DEF ManagerStart, SaveBlock, SaveTransaction, BatchSaveTransactions, BatchInStore,
        MarkTransactionsAsReverted, MarkInStore, DeleteInStore, StartWrites, Start
  <2>2. pc' = pc \/ pc' = [pc EXCEPT ![g] = "master"]
    BY <1>2
    DEF ManagerStart, SaveBlock, SaveTransaction, BatchSaveTransactions, BatchInStore,
        MarkTransactionsAsReverted, MarkInStore, DeleteInStore, Goto
  <2> QED
    BY <1>2, <2>1, <2>2 DEF Elsewhere, cvars, Labels
<1>3. ASSUME NEW g \in Goroutines,
             \/ \E t \in Txs, s \in Statuses : ProcessTransaction(g, t, s)
             \/ \E h \in Heights : SaveLogs(g, h)
      PROVE  Elsewhere(g)
  BY <1>3 DEF ProcessTransaction, SaveLogs, Begin, Start, Goto, Elsewhere, Labels
<1>4. ASSUME NEW g \in Goroutines, NEW e \in Events, HandleReorg(g, e) PROVE Begins(g, e)
  BY <1>4 DEF HandleReorg, Begin, Start, Goto, Begins
<1>5. ASSUME NEW g \in Goroutines,
             Validate(g) \/ CustomValidate(g) \/ ExecuteStateTransition(g) \/ RedisUpdates(g)
      PROVE  Elsewhere(g)
  <2>1. pc[g] \in {"check", "update", "set"} /\ processing' = processing
    BY <1>5 DEF Validate, CustomValidate, ExecuteStateTransition, RedisUpdates
  <2>2. \/ Return(g)
        \/ todo' = todo /\ \E l \in {"update", "set"} : pc' = [pc EXCEPT ![g] = l]
    BY <1>5 DEF Validate, CustomValidate, ExecuteStateTransition, RedisUpdates, Goto
  <2> QED
    BY <2>1, <2>2 DEF Return, Goto, Elsewhere, Labels
<1>6. ASSUME NEW g \in Goroutines,
             \/ ValidateReorgEvent(g) \/ MarkAffected(g) \/ ForceBlock(g)
             \/ ForceSetState(g) \/ RevertBusinessData(g) \/ CleanupReorgData(g) \/ DeleteLogs(g)
             \/ MarkReorgEventAsProcessed(g)
      PROVE  GoesOn(g) \/ Ends(g)
  <2>1. pc[g] \in Handling
    BY <1>6
    DEF ValidateReorgEvent, MarkAffected, ForceBlock, ForceSetState, RevertBusinessData,
        CleanupReorgData, DeleteLogs, MarkReorgEventAsProcessed
  <2>2. \/ EndReorg(g)
        \/ /\ UNCHANGED <<todo, processing>>
           /\ pc' = pc \/ \E l \in Handling : pc' = [pc EXCEPT ![g] = l]
    BY <1>6
    DEF ValidateReorgEvent, MarkAffected, ForceBlock, ForceSetState, RevertBusinessData,
        CleanupReorgData, DeleteLogs, MarkReorgEventAsProcessed, Goto, cvars, stvars
  <2> QED
    BY <2>1, <2>2 DEF GoesOn, Ends
<1>7. StoresStep /\ UNCHANGED cvars => UNCHANGED <<pc, todo, processing>>
  BY DEF StoresStep, RedisExpires, Replicates, IndexRefreshes, cvars
<1>8. UNCHANGED vars => UNCHANGED <<pc, todo, processing>>
  BY DEF vars, stvars, cvars
<1> HIDE DEF Handling
<1> QED
  BY <1>1, <1>2, <1>3, <1>4, <1>5, <1>6, <1>7, <1>8
  DEF Next, Work, ConsumerStep, ConsumerStart

LEMMA HandlerInvStep ==
    ASSUME CTypes, HandlerInv, [Next]_vars
    PROVE  HandlerInv'
<1> USE DEF HandlerInv, MapFits, OneHandlerPerEvent, CTypes
<1>1. ASSUME NEW g \in Goroutines, Elsewhere(g) PROVE HandlerInv'
  <2>1. \A k \in Goroutines : /\ pc'[k] \in Handling <=> pc[k] \in Handling
                              /\ pc[k] \in Handling => todo'[k] = todo[k]
    BY <1>1 DEF Elsewhere
  <2> QED
    BY <1>1, <2>1 DEF Elsewhere
<1>2. ASSUME NEW g \in Goroutines, GoesOn(g) PROVE HandlerInv'
  <2>1. \A k \in Goroutines : pc'[k] \in Handling <=> pc[k] \in Handling
    BY <1>2 DEF GoesOn
  <2> QED
    BY <1>2, <2>1 DEF GoesOn
<1>3. ASSUME NEW g \in Goroutines, Ends(g) PROVE HandlerInv'
  <2>1. /\ pc[g] \in Handling /\ pc'[g] \notin Handling
        /\ \A k \in Goroutines : k # g => pc'[k] = pc[k] /\ todo'[k] = todo[k]
        /\ processing' = processing \ {todo[g]}
    BY <1>3 DEF Ends, EndReorg, Return, Goto, Handling
  <2> QED
    BY <2>1
<1>4. ASSUME NEW g \in Goroutines, NEW e \in Events, Begins(g, e) PROVE HandlerInv'
  <2>1. /\ pc[g] \notin Handling /\ pc'[g] \in Handling /\ todo'[g] = e
        /\ \A k \in Goroutines : k # g => pc'[k] = pc[k] /\ todo'[k] = todo[k]
        /\ processing' = processing \cup {e}
        /\ e \notin processing
    BY <1>4 DEF Begins, Handling
  <2> QED
    BY <2>1
<1>5. CASE UNCHANGED <<pc, todo, processing>>
  BY <1>5
<1> QED
  BY <1>1, <1>2, <1>3, <1>4, <1>5, HandlerStep

(* HandleReorg refuses an event until its first delivery is over: at most  *)
(* one goroutine is in the steps of a rollback.                            *)
THEOREM OneHandler == Spec => []OneHandlerPerEvent
<1>1. CInit => HandlerInv
  BY DEF CInit, StInit, HandlerInv, MapFits, OneHandlerPerEvent, Handling
<1>2. StoreInv /\ HandlerInv /\ [Next]_vars => HandlerInv'
  BY HandlerInvStep DEF StoreInv
<1>3. HandlerInv => OneHandlerPerEvent
  BY DEF HandlerInv
<1> QED
  BY <1>1, <1>2, <1>3, Invariance, PTL DEF Spec

-----------------------------------------------------------------------------
(* Finalized transactions.                                                 *)

(* The scanner does not save transactions as finalized, and no rule of a   *)
(* CustomStateMachine finalizes one that is not confirmed.                 *)
FinalIsEarned ==
    /\ "finalized" \notin SaveStatuses
    /\ \A s \in Statuses : <<s, "finalized">> \in Rules => s = "confirmed"

JudgedMove ==
    /\ \A i \in Items : "finalized" \in stored'[i] =>
          "finalized" \in stored[i] \/ "confirmed" \in stored'[i]
    /\ \A t \in Txs : column'[t] = "finalized" =>
          column[t] = "finalized" \/ "confirmed" \in stored'[t]
    /\ \A g \in Goroutines :
          pc'[g] \in {"update", "set"} /\ todo'[g][2] = "finalized" =>
              \/ pc[g] \in {"update", "set"} /\ todo'[g] = todo[g]
              \/ "confirmed" \in stored'[todo'[g][1]]
    /\ \A g \in Goroutines :
          pc'[g] = "row" /\ job'[g].row = "finalized" /\ Head(job'[g].todo)[1] \in Txs =>
              \/ pc[g] = "row" /\ job'[g] = job[g]
              \/ "confirmed" \in stored'[Head(job'[g].todo)[1]]

(* Nobody comes to hold a status to write.                                 *)
NobodyJudges ==
    \A k \in Goroutines :
        /\ pc'[k] \in {"update", "set"} => pc[k] \in {"update", "set"} /\ todo'[k] = todo[k]
        /\ pc'[k] = "row" => pc[k] = "row" /\ job'[k] = job[k]

LEMMA JudgedKept ==
    ASSUME StoreInv, Judged, Grows, JudgedMove
    PROVE  Judged'
<1>1. \A g \in Goroutines : pc[g] \in {"update", "set"} => todo[g][1] \in Items
  BY DEF StoreInv, TodoFits, Moving, Items
<1>2. \A i \in Items : "finalized" \in stored'[i] => "confirmed" \in stored'[i]
  BY DEF Judged, Grows, JudgedMove
<1>3. \A t \in Txs : column'[t] = "finalized" => "confirmed" \in stored'[t]
  BY DEF Judged, Grows, JudgedMove, Items
<1>4. ASSUME NEW g \in Goroutines, pc'[g] \in {"update", "set"}, todo'[g][2] = "finalized"
      PROVE  "confirmed" \in stored'[todo'[g][1]]
  BY <1>1, <1>4 DEF Judged, Grows, JudgedMove
<1>5. ASSUME NEW g \in Goroutines, pc'[g] = "row", job'[g].row = "finalized",
             Head(job'[g].todo)[1] \in Txs
      PROVE  "confirmed" \in stored'[Head(job'[g].todo)[1]]
  <2>1. CASE pc[g] = "row" /\ job'[g] = job[g]
    BY <1>5, <2>1 DEF Judged, Grows, Items
  <2> QED
    BY <1>5, <2>1 DEF JudgedMove
<1> QED
  BY <1>2, <1>3, <1>4, <1>5 DEF Judged

(* A step that neither writes the ghost nor the column nor judges.         *)
LEMMA NothingJudged ==
    ASSUME UNCHANGED <<stored, column>>, NobodyJudges
    PROVE  JudgedMove
BY DEF JudgedMove, NobodyJudges

(* The master takes a write.                                               *)
LEMMA WriteJudges ==
    ASSUME FinalIsEarned, StoreInv, Judged, NEW g \in Goroutines, MasterWrites(g),
           NobodyJudges
    PROVE  JudgedMove
<1>0. stored \in [Items -> SUBSET Values] /\ column \in [Txs -> Statuses \cup {None}]
  BY DEF StoreInv, CTypes, StoreTypes
<1>1. /\ Head1(g) \in Writes /\ pc[g] = "row"
      /\ DatabaseSavesBlock(Head1(g)[1], Head1(g)[2], job[g].row)
            \/ DatabaseSavesTransaction(Head1(g)[1], Head1(g)[2], job[g].row)
      /\ Remember(Head1(g)[1], Head1(g)[2])
  BY MasterWritesMove DEF MasterWrites
<1>2. Head1(g)[2] # "finalized"
  BY <1>1 DEF FinalIsEarned, Writes, Branches
<1>3. \A i \in Items : "finalized" \in stored'[i] => "finalized" \in stored[i]
  BY <1>0, <1>1, <1>2 DEF Remember
<1>4. Grows
  BY <1>0, <1>1 DEF Remember, Grows
<1>5. ASSUME NEW t \in Txs, column'[t] = "finalized"
      PROVE  column[t] = "finalized" \/ "confirmed" \in stored'[t]
  <2>1. \/ column'[t] = column[t] \/ column'[t] = Head1(g)[2]
        \/ t = Head1(g)[1] /\ column'[t] = job[g].row
    BY <1>0, <1>1 DEF DatabaseSavesBlock, DatabaseSavesTransaction
  <2>2. CASE t = Head1(g)[1] /\ column'[t] = job[g].row
    BY <1>1, <1>4, <1>5, <2>2 DEF Judged, Grows, Items, Head1
  <2> QED
    BY <1>2, <1>5, <2>1, <2>2
<1> QED
  BY <1>3, <1>5 DEF JudgedMove, NobodyJudges

LEMMA ManagerJudges ==
    ASSUME FinalIsEarned, StoreInv, Judged, NEW g \in Goroutines, UNCHANGED todo,
           ManagerStep(g) \/ ManagerStart(g)
    PROVE  JudgedMove
<1>0. /\ stored \in [Items -> SUBSET Values] /\ column \in [Txs -> Statuses \cup {None}]
      /\ pc \in [Goroutines -> Labels] /\ job \in [Goroutines -> Jobs]
  BY DEF StoreInv, CTypes, StoreTypes
<1>9. ASSUME NEW l \in Labels \ {"row", "update", "set"}, pc' = [pc EXCEPT ![g] = l],
             \A k \in Goroutines : k # g => job'[k] = job[k]
      PROVE  NobodyJudges
  BY <1>0, <1>9 DEF NobodyJudges
<1>10. UNCHANGED <<pc, job>> => NobodyJudges
  BY DEF NobodyJudges
<1>1. CASE MasterSaves(g) \/ MasterReplyLost(g)
  <2>1. NobodyJudges
    <3>1. /\ \E l \in {"master", "commit", "cache", "idle"} : pc' = [pc EXCEPT ![g] = l]
          /\ \A k \in Goroutines : k # g => job'[k] = job[k]
      BY <1>0, <1>1 DEF MasterSaves, MasterReplyLost, AfterRow, Popped, Goto
    <3> QED
      BY <1>9, <3>1 DEF Labels
  <2> QED
    BY <1>1, <2>1, WriteJudges DEF MasterSaves, MasterReplyLost
<1>2. CASE MasterFails(g) \/ Commit(g) \/ CacheSaves(g) \/ IndexSaves(g) \/ Connect(g)
  <2>1. UNCHANGED <<stored, column>>
    BY <1>2 DEF MasterFails, Commit, CacheSaves, IndexSaves, Connect, stores
  <2>2. /\ \/ pc' = pc /\ pc[g] \in {"cache", "index"}
           \/ \E l \in {"select", "cache", "index", "idle"} : pc' = [pc EXCEPT ![g] = l]
        /\ \A k \in Goroutines : k # g => job'[k] = job[k]
    BY <1>0, <1>2
    DEF MasterFails, Commit, CacheSaves, IndexSaves, Connect, NextWrite, Popped, Goto
  <2>3. NobodyJudges
    BY <1>0, <2>2 DEF NobodyJudges
  <2> QED
    BY <2>1, <2>3, NothingJudged
<1>8. CASE SelectRow(g)
  <2> DEFINE h == Head(job[g].todo)[1]
  <2>1. /\ UNCHANGED <<stored, column>> /\ pc' = [pc EXCEPT ![g] = "row"]
        /\ job' = [job EXCEPT ![g].row = Loaded(h)]
    BY <1>8 DEF SelectRow, stores, Goto, Head1
  <2>2. job'[g].todo = job[g].todo /\ job'[g].row = Loaded(h)
    BY <1>0, <2>1 DEF Jobs
  <2>3. h \in Txs /\ Loaded(h) = "finalized" => "confirmed" \in stored[h]
    BY DEF Loaded, Judged
  <2>4. \A k \in Goroutines : k # g => pc'[k] = pc[k] /\ job'[k] = job[k]
    BY <1>0, <2>1
  <2>5. pc'[g] = "row"
    BY <1>0, <2>1
  <2> QED
    BY <2>1, <2>2, <2>3, <2>4, <2>5 DEF JudgedMove
<1>3. ASSUME NEW ws, NEW b, StartWrites(g, ws, b), Goto(g, "master") PROVE JudgedMove
  <2>1. /\ UNCHANGED <<stored, column>> /\ pc' = [pc EXCEPT ![g] = "master"]
        /\ \A k \in Goroutines : k # g => job'[k] = job[k]
    BY <1>0, <1>3 DEF StartWrites, stores, Goto
  <2>2. NobodyJudges
    BY <1>9, <2>1 DEF Labels
  <2> QED
    BY <2>1, <2>2, NothingJudged
<1>4. ASSUME NEW v \in SaveStatuses, NEW ts \in SUBSET Txs, BatchInStore(g, ts, v)
      PROVE  JudgedMove
  <2>1. v # "finalized"
    BY DEF FinalIsEarned
  <2>2. \A i \in Items : "finalized" \in stored'[i] => "finalized" \in stored[i]
    BY <1>0, <1>4, <2>1 DEF BatchInStore
  <2> QED
    BY <1>4, <2>2 DEF BatchInStore, JudgedMove
<1>5. ASSUME NEW lo, NEW hi, DatabaseMarks(lo, hi), UNCHANGED <<pc, job>> PROVE JudgedMove
  <2>1. \A t \in Txs : column'[t] = "finalized" => column[t] = "finalized"
    BY <1>0, <1>5 DEF DatabaseMarks
  <2> QED
    BY <1>5, <2>1 DEF DatabaseMarks, JudgedMove
<1>6. ASSUME NEW lo, NEW hi, ElasticsearchMarks(lo, hi), UNCHANGED <<pc, job>> PROVE JudgedMove
  <2>1. \A i \in Items : "finalized" \in stored'[i] => "finalized" \in stored[i]
    <3>1. PICK hit : stored' = [i \in Items |-> stored[i] \cup (IF i \in hit THEN {"reverted"} ELSE {})]
      BY <1>6 DEF ElasticsearchMarks, RememberReverted
    <3> QED
      BY <3>1
  <2> QED
    BY <1>6, <2>1 DEF ElasticsearchMarks, JudgedMove
<1>7. ASSUME NEW lo \in Heights, NEW hi \in Heights,
             \/ MarkTransactionsAsReverted(g, lo, hi)
             \/ MarkInStore(g, lo, hi)
             \/ DeleteInStore(g, lo, hi)
      PROVE  JudgedMove
  <2>1. UNCHANGED <<pc, job>>
    BY <1>7 DEF MarkTransactionsAsReverted, MarkInStore, DeleteInStore
  <2>2. \/ DatabaseMarks(lo, hi) \/ ElasticsearchMarks(lo, hi)
        \/ UNCHANGED <<stored, column>>
    BY <1>7
    DEF MarkTransactionsAsReverted, MarkInStore, DeleteInStore, RedisMarks, stores,
        DatabaseDeletes, ElasticsearchDeletes, RedisDeletes
  <2> QED
    BY <1>5, <1>6, <1>10, <2>1, <2>2, NothingJudged
<1> QED
  BY <1>1, <1>2, <1>3, <1>4, <1>7, <1>8
  DEF ManagerStep, ManagerStart, SaveBlock, SaveTransaction, BatchSaveTransactions

(* What the state machine reads was stored.                                *)
LEMMA StateIsStored ==
    ASSUME StoreInv, NEW t \in Txs, StateOf(t) # None
    PROVE  StateOf(t) \in stored[t]
BY DEF StoreInv, Sound, StateOf, Items, DatabaseTransaction, ElasticsearchTransaction,
       RedisTransaction

LEMMA MachineJudges ==
    ASSUME FinalIsEarned, StoreInv, Judged, NEW g \in Goroutines,
           Validate(g) \/ CustomValidate(g) \/ ExecuteStateTransition(g) \/ RedisUpdates(g)
    PROVE  JudgedMove
<1> DEFINE t == todo[g][1]
           s == todo[g][2]
<1>0. /\ stored \in [Items -> SUBSET Values] /\ column \in [Txs -> Statuses \cup {None}]
      /\ pc \in [Goroutines -> Labels] /\ todo = [k \in Goroutines |-> todo[k]]
  BY DEF StoreInv, CTypes, StoreTypes
<1>1. pc[g] \in {"check", "update", "set"} /\ t \in Txs /\ t \in Items /\ s \in Statuses
  BY DEF Validate, CustomValidate, ExecuteStateTransition, RedisUpdates, StoreInv,
         TodoFits, Moving, Items
<1>7. UNCHANGED job
  BY DEF Validate, CustomValidate, ExecuteStateTransition, RedisUpdates
<1>2. ASSUME Return(g), UNCHANGED <<stored, column>> PROVE JudgedMove
  <2>1. NobodyJudges
    BY <1>0, <1>2, <1>7 DEF Return, Goto, NobodyJudges
  <2> QED
    BY <1>2, <2>1, NothingJudged
<1>3. CASE Validate(g) \/ CustomValidate(g)
  <2>1. UNCHANGED <<stored, column>>
    BY <1>3 DEF Validate, CustomValidate, stores
  <2>2. CASE Return(g)
    BY <1>2, <2>1, <2>2
  <2>3. CASE /\ pc' = [pc EXCEPT ![g] = "update"] /\ todo' = todo
             /\ StateOf(t) # None
             /\ s \in ValidTransitions[StateOf(t)] \/ <<StateOf(t), s>> \in Rules
    <3>1. StateOf(t) \in stored[t]
      BY <1>1, <2>3, StateIsStored
    <3>2. s = "finalized" => StateOf(t) = "confirmed"
      <4>1. CASE <<StateOf(t), s>> \in Rules
        BY <4>1, ConsumerAssumption DEF FinalIsEarned
      <4>2. CASE s \in ValidTransitions[StateOf(t)]
        <5>1. StateOf(t) \in Statuses
          BY <1>1, <3>1 DEF StoreInv, CTypes, StoreTypes
        <5> QED
          BY <4>2, <5>1 DEF ValidTransitions
      <4> QED
        BY <2>3, <4>1, <4>2
    <3>3. pc'[g] = "update" /\ \A k \in Goroutines : k # g => pc'[k] = pc[k]
      BY <1>0, <2>3
    <3> QED
      BY <1>7, <2>1, <2>3, <3>1, <3>2, <3>3 DEF JudgedMove
  <2> QED
    BY <1>3, <2>2, <2>3 DEF Validate, CustomValidate, FindTransitionRule, Goto
<1>4. ASSUME pc[g] \in {"update", "set"}, s = "finalized" PROVE "confirmed" \in stored[t]
  BY <1>4 DEF Judged
<1>5. CASE ExecuteStateTransition(g)
  <2>1. CASE UNCHANGED <<stores, stored>> /\ Return(g)
    BY <1>2, <2>1 DEF stores
  <2>2. CASE UNCHANGED <<stores, stored>> /\ Goto(g, "set") /\ todo' = todo
    <3>1. NobodyJudges
      BY <1>0, <1>5, <1>7, <2>2 DEF Goto, ExecuteStateTransition, NobodyJudges
    <3> QED
      BY <2>2, <3>1, NothingJudged DEF stores
  <2>3. CASE DatabaseUpdates(t, s) /\ Return(g)
    <3>1. \A x \in Txs : column'[x] = "finalized" =>
             column[x] = "finalized" \/ "confirmed" \in stored[x]
      BY <1>0, <1>1, <1>4, <1>5, <2>3 DEF DatabaseUpdates, ExecuteStateTransition
    <3>2. NobodyJudges
      BY <1>0, <1>7, <2>3 DEF Return, Goto, NobodyJudges
    <3> QED
      BY <2>3, <3>1, <3>2 DEF DatabaseUpdates, JudgedMove, NobodyJudges
  <2>4. CASE ElasticsearchUpdates(t, s) /\ Return(g)
    <3>1. \A i \in Items : "finalized" \in stored'[i] =>
             "finalized" \in stored[i] \/ "confirmed" \in stored'[i]
      BY <1>0, <1>1, <1>4, <1>5, <2>4 DEF ElasticsearchUpdates, Remember, ExecuteStateTransition
    <3>2. NobodyJudges
      BY <1>0, <1>7, <2>4 DEF Return, Goto, NobodyJudges
    <3> QED
      BY <2>4, <3>1, <3>2 DEF ElasticsearchUpdates, JudgedMove, NobodyJudges
  <2> QED
    BY <1>5, <2>1, <2>2, <2>3, <2>4 DEF ExecuteStateTransition
<1>6. CASE RedisUpdates(g)
  <2>1. \A i \in Items : "finalized" \in stored'[i] =>
           "finalized" \in stored[i] \/ "confirmed" \in stored'[i]
    BY <1>0, <1>1, <1>4, <1>6 DEF RedisUpdates, Remember
  <2>2. NobodyJudges
    BY <1>0, <1>6, <1>7 DEF RedisUpdates, Return, Goto, NobodyJudges
  <2> QED
    BY <1>6, <2>1, <2>2 DEF RedisUpdates, JudgedMove, NobodyJudges
<1> QED
  BY <1>3, <1>5, <1>6

LEMMA JudgedStep ==
    ASSUME FinalIsEarned, StoreInv, Judged, [Next]_vars
    PROVE  Judged'
<1>0. /\ column \in [Txs -> Statuses \cup {None}]
      /\ pc \in [Goroutines -> Labels] /\ todo = [k \in Goroutines |-> todo[k]]
  BY DEF StoreInv, CTypes, StoreTypes
<1>1. ASSUME NEW g \in Goroutines, ConsumerStart(g) PROVE JudgedMove
  <2>1. UNCHANGED <<stored, column>>
    BY <1>1 DEF ConsumerStart, ProcessTransaction, HandleReorg, SaveLogs, stores
  <2>2. \/ pc' = pc /\ todo' = todo
        \/ /\ pc' = [pc EXCEPT ![g] = "check"] \/ pc' = [pc EXCEPT ![g] = "validate"]
           /\ \E m : todo' = [todo EXCEPT ![g] = m]
    BY <1>1 DEF ConsumerStart, ProcessTransaction, HandleReorg, SaveLogs, Begin, Goto
  <2>4. UNCHANGED job
    BY <1>1 DEF ConsumerStart, ProcessTransaction, HandleReorg, SaveLogs
  <2>3. NobodyJudges
    BY <1>0, <2>2, <2>4 DEF NobodyJudges
  <2> QED
    BY <2>1, <2>3, NothingJudged
<1>2. ASSUME NEW g \in Goroutines,
             \/ ValidateReorgEvent(g) \/ MarkAffected(g) \/ ForceBlock(g)
             \/ ForceSetState(g) \/ RevertBusinessData(g) \/ CleanupReorgData(g) \/ DeleteLogs(g)
             \/ MarkReorgEventAsProcessed(g)
      PROVE  JudgedMove
  <2>5. CASE \/ ValidateReorgEvent(g) \/ MarkAffected(g) \/ ForceBlock(g)
             \/ RevertBusinessData(g)
    <3>1. /\ UNCHANGED <<stored, job>>
          /\ \A t \in Txs : column'[t] = "finalized" => column[t] = "finalized"
      BY <1>0, <2>5
      DEF ValidateReorgEvent, MarkAffected, ForceBlock, RevertBusinessData, DatabaseMarks,
          stores, stvars
    <3>2. \/ todo' = todo /\ (pc' = pc \/ \E l \in Handling : pc' = [pc EXCEPT ![g] = l])
          \/ Return(g)
      BY <2>5
      DEF ValidateReorgEvent, MarkAffected, ForceBlock, RevertBusinessData, EndReorg, Goto,
          cvars, stvars, Handling
    <3>3. NobodyJudges
      BY <1>0, <3>1, <3>2 DEF Return, Goto, Handling, NobodyJudges
    <3> QED
      BY <3>1, <3>3 DEF JudgedMove, NobodyJudges
  <2>6. CASE \/ ForceSetState(g) \/ CleanupReorgData(g) \/ DeleteLogs(g)
             \/ MarkReorgEventAsProcessed(g)
    <3>1. /\ UNCHANGED <<stored, job>>
          /\ \A t \in Txs : column'[t] = "finalized" => column[t] = "finalized"
      BY <1>0, <2>6
      DEF ForceSetState, CleanupReorgData, DeleteLogs, MarkReorgEventAsProcessed,
          DatabaseDeletes, stores
    <3>2. \/ todo' = todo /\ (pc' = pc \/ \E l \in Handling : pc' = [pc EXCEPT ![g] = l])
          \/ Return(g)
      BY <2>6
      DEF ForceSetState, CleanupReorgData, DeleteLogs, MarkReorgEventAsProcessed, EndReorg,
          Goto, Handling
    <3>3. NobodyJudges
      BY <1>0, <3>1, <3>2 DEF Return, Goto, Handling, NobodyJudges
    <3> QED
      BY <3>1, <3>3 DEF JudgedMove, NobodyJudges
  <2> QED
    BY <1>2, <2>5, <2>6
<1>3. ASSUME StoresStep, UNCHANGED cvars PROVE JudgedMove
  BY <1>3, NothingJudged
  DEF StoresStep, RedisExpires, Replicates, IndexRefreshes, cvars, NobodyJudges
<1>4. ASSUME UNCHANGED vars PROVE JudgedMove
  BY <1>4, NothingJudged DEF vars, stvars, cvars, NobodyJudges
<1>5. JudgedMove
  BY <1>1, <1>2, <1>3, <1>4, ManagerJudges, MachineJudges
  DEF Next, Work, ConsumerStep, cvars
<1> QED
  BY <1>5, GhostGrows, JudgedKept

(* The state machine never finalizes a transaction that was not confirmed, *)
(* although it reads, judges and writes the status in separate calls while *)
(* other goroutines save, mark and delete.                                 *)
THEOREM FinalizedOnlyAfterConfirmed ==
    ASSUME FinalIsEarned
    PROVE  Spec => []FinalizedWasConfirmed
<1>1. CInit => Judged
  <2> SUFFICES ASSUME CInit PROVE Judged
    OBVIOUS
  <2>1. \A i \in Items : data[i] # "finalized"
    <3>1. ASSUME NEW t \in Txs PROVE data[t] # "finalized"
      BY StorageAssumption DEF CInit, StInit, FinalIsEarned, None
    <3>2. ASSUME NEW h \in Heights PROVE data[h] # "finalized"
      BY StorageAssumption DEF CInit, StInit, Branches, None
    <3> QED
      BY <3>1, <3>2 DEF Items
  <2>2. \A t \in Txs : column[t] # "finalized"
    BY <2>1 DEF CInit, StInit, Items
  <2> QED
    BY <2>1, <2>2 DEF CInit, StInit, Judged, Items
<1>2. StoreInv /\ Judged /\ [Next]_vars => Judged'
  BY JudgedStep
<1>3. StoreInv /\ Judged => FinalizedWasConfirmed
  <2> SUFFICES ASSUME StoreInv, Judged, NEW t \in Txs
               PROVE  (IF backend = "database" THEN column[t] ELSE StateOf(t)) = "finalized"
                        => "confirmed" \in stored[t]
    BY DEF FinalizedWasConfirmed
  <2>1. StateOf(t) = "finalized" => "finalized" \in stored[t]
    BY StateIsStored DEF None
  <2> QED
    BY <2>1 DEF Judged, Items
<1> QED
  BY <1>1, <1>2, <1>3, Invariance, PTL DEF Spec

-----------------------------------------------------------------------------
(* The connections of the master's pool.                                   *)

(* Goroutines that hold one for the transaction of their batch, and those  *)
(* that hold one for a SELECT.                                             *)
HoldersOf == {g \in Goroutines : InBatch(g)}
Selecting == {g \in Goroutines : pc[g] = "select"}

PoolFits == conns = MaxOpenConns - Cardinality(HoldersOf) - Cardinality(Selecting)

(* What a step does to the pool.                                           *)
PoolStays == conns' = conns /\ HoldersOf' = HoldersOf /\ Selecting' = Selecting

BatchOpens(g) ==
    /\ g \in Goroutines \ HoldersOf
    /\ conns' = conns - 1
    /\ HoldersOf' = HoldersOf \cup {g}
    /\ Selecting' = Selecting

SelectOpens(g) ==
    /\ g \in Goroutines \ Selecting
    /\ conns' = conns - 1
    /\ HoldersOf' = HoldersOf
    /\ Selecting' = Selecting \cup {g}

SelectCloses(g) ==
    /\ g \in Selecting
    /\ conns' = conns + 1
    /\ HoldersOf' = HoldersOf
    /\ Selecting' = Selecting \ {g}

(* The operation at the master ends, in a SELECT or not.                   *)
MasterCloses(g) ==
    /\ conns' = conns + (IF g \in HoldersOf THEN 1 ELSE 0) + (IF g \in Selecting THEN 1 ELSE 0)
    /\ HoldersOf' = HoldersOf \ {g}
    /\ Selecting' = Selecting \ {g}

PoolMove(g) ==
    PoolStays \/ BatchOpens(g) \/ SelectOpens(g) \/ SelectCloses(g) \/ MasterCloses(g)

LEMMA PoolStep ==
    ASSUME StoreInv, [Next]_vars
    PROVE  PoolStays \/ \E g \in Goroutines : PoolMove(g)
<1> USE DEF HoldersOf, Selecting, InBatch
<1>0. /\ pc \in [Goroutines -> Labels]
      /\ job \in [Goroutines -> Jobs]
  BY DEF StoreInv, CTypes
<1>1. ASSUME conns' = conns, job' = job, NEW g \in Goroutines,
             \/ pc' = pc
             \/ /\ pc[g] \notin AtMaster \cup {"commit"}
                /\ \E l \in Labels \ (AtMaster \cup {"commit"}) : pc' = [pc EXCEPT ![g] = l]
      PROVE  PoolStays
  BY <1>0, <1>1 DEF PoolStays, AtMaster
<1>2. ASSUME NEW g \in Goroutines, ManagerStep(g)
      PROVE  PoolMove(g)
  <2>1. CASE MasterSaves(g)
    <3>1. /\ conns' = conns /\ pc[g] = "row" /\ pc'[g] # "select"
          /\ \A k \in Goroutines : k # g => pc'[k] = pc[k] /\ job'[k] = job[k]
      BY <1>0, <2>1 DEF MasterSaves, MasterWrites, AfterRow, Popped, Goto
    <3>2. /\ job'[g].batch = job[g].batch
          /\ job[g].batch => pc'[g] \in {"master", "commit"}
      BY <1>0, <2>1 DEF MasterSaves, AfterRow, Popped, Goto, Jobs
    <3> QED
      BY <3>1, <3>2 DEF PoolMove, PoolStays
  <2>2. CASE MasterFails(g) \/ MasterReplyLost(g) \/ Commit(g)
    <3>1. /\ pc[g] \in {"select", "row", "commit"} /\ pc'[g] \in {"idle", "cache"}
          /\ conns' = conns + (IF job[g].batch THEN 1 ELSE 0)
                            + (IF pc[g] = "select" THEN 1 ELSE 0)
          /\ \A k \in Goroutines : k # g => pc'[k] = pc[k] /\ job'[k] = job[k]
      BY <1>0, <2>2 DEF MasterFails, MasterReplyLost, MasterWrites, Commit, Goto, EndOfMaster
    <3>2. (g \in HoldersOf <=> job[g].batch) /\ (g \in Selecting <=> pc[g] = "select")
      BY <3>1
    <3>3. HoldersOf' = HoldersOf \ {g} /\ Selecting' = Selecting \ {g}
      BY <3>1
    <3> HIDE DEF HoldersOf, Selecting
    <3> QED
      BY <3>1, <3>2, <3>3 DEF PoolMove, MasterCloses
  <2>3. CASE CacheSaves(g) \/ IndexSaves(g)
    <3>1. /\ pc[g] \in {"cache", "index"} /\ pc'[g] \in {"idle", "cache", "index"}
          /\ conns' = conns
          /\ \A k \in Goroutines : k # g => pc'[k] = pc[k] /\ job'[k] = job[k]
      BY <1>0, <2>3 DEF CacheSaves, IndexSaves, NextWrite, Popped, Goto
    <3> QED
      BY <3>1 DEF PoolMove, PoolStays
  <2>4. CASE Connect(g)
    <3>1. /\ pc[g] = "master" /\ pc'[g] = "select" /\ conns' = conns - 1 /\ job' = job
          /\ \A k \in Goroutines : k # g => pc'[k] = pc[k]
      BY <1>0, <2>4 DEF Connect, Goto
    <3> QED
      BY <3>1 DEF PoolMove, SelectOpens
  <2>5. CASE SelectRow(g)
    <3>1. /\ pc[g] = "select" /\ pc'[g] = "row" /\ conns' = conns + 1
          /\ \A k \in Goroutines : k # g => pc'[k] = pc[k] /\ job'[k] = job[k]
          /\ job'[g].batch = job[g].batch
      BY <1>0, <2>5 DEF SelectRow, Goto, Jobs
    <3> QED
      BY <3>1 DEF PoolMove, SelectCloses
  <2> QED
    BY <1>2, <2>1, <2>2, <2>3, <2>4, <2>5 DEF ManagerStep
<1>3. ASSUME NEW g \in Goroutines, ManagerStart(g)
      PROVE  PoolMove(g)
  <2>1. ASSUME NEW ws, NEW b \in BOOLEAN, StartWrites(g, ws, b), Goto(g, "master")
        PROVE  /\ pc[g] = "idle" /\ pc'[g] = "master" /\ job'[g].batch = b
               /\ \A k \in Goroutines : k # g => pc'[k] = pc[k] /\ job'[k] = job[k]
    BY <1>0, <2>1 DEF StartWrites, Start, Goto
  <2>2. CASE \/ \E h \in Heights, v \in Branches : SaveBlock(g, h, v)
             \/ \E t \in Txs, v \in SaveStatuses : SaveTransaction(g, t, v)
    <3>1. \E ws : StartWrites(g, ws, FALSE) /\ Goto(g, "master") /\ conns' = conns
      BY <2>2 DEF SaveBlock, SaveTransaction
    <3> QED
      BY <2>1, <3>1 DEF PoolMove, PoolStays
  <2>3. ASSUME NEW v \in SaveStatuses, BatchSaveTransactions(g, Batch(v))
        PROVE  PoolMove(g)
    BY <2>1, <2>3 DEF BatchSaveTransactions, PoolMove, BatchOpens
  <2>4. CASE \/ \E v \in SaveStatuses, ts \in SUBSET Txs : BatchInStore(g, ts, v)
             \/ \E lo, hi \in Heights : \/ MarkTransactionsAsReverted(g, lo, hi)
                                        \/ MarkInStore(g, lo, hi)
                                        \/ DeleteInStore(g, lo, hi)
    <3>1. UNCHANGED <<conns, pc, job>>
      BY <2>4 DEF BatchInStore, MarkTransactionsAsReverted, MarkInStore, DeleteInStore
    <3> QED
      BY <3>1 DEF PoolMove, PoolStays
  <2> QED
    BY <1>3, <2>2, <2>3, <2>4 DEF ManagerStart
<1>4. ASSUME NEW g \in Goroutines, ConsumerStart(g) \/ ConsumerStep(g)
      PROVE  PoolStays
  <2>1. CASE ConsumerStart(g)
    <3>1. conns' = conns /\ job' = job
      BY <2>1 DEF ConsumerStart, ProcessTransaction, HandleReorg, SaveLogs
    <3>2. \/ pc' = pc
          \/ /\ pc[g] \notin AtMaster \cup {"commit"}
             /\ \E l \in Labels \ (AtMaster \cup {"commit"}) : pc' = [pc EXCEPT ![g] = l]
      BY <2>1
      DEF ConsumerStart, ProcessTransaction, HandleReorg, SaveLogs, Begin, Start, Goto,
          Labels, AtMaster
    <3> QED
      BY <1>1, <3>1, <3>2
  <2>2. CASE Validate(g) \/ CustomValidate(g) \/ ExecuteStateTransition(g) \/ RedisUpdates(g)
    <3>1. conns' = conns /\ job' = job
      BY <2>2 DEF Validate, CustomValidate, ExecuteStateTransition, RedisUpdates
    <3>2. /\ pc[g] \notin AtMaster \cup {"commit"}
          /\ \E l \in Labels \ (AtMaster \cup {"commit"}) : pc' = [pc EXCEPT ![g] = l]
      BY <2>2
      DEF Validate, CustomValidate, ExecuteStateTransition, RedisUpdates, Return, Goto,
          Labels, AtMaster
    <3> QED
      BY <1>1, <3>1, <3>2
  <2>3. CASE \/ ValidateReorgEvent(g) \/ MarkAffected(g) \/ RevertBusinessData(g)
             \/ CleanupReorgData(g) \/ DeleteLogs(g) \/ MarkReorgEventAsProcessed(g)
    <3>1. conns' = conns /\ job' = job
      BY <2>3
      DEF ValidateReorgEvent, MarkAffected, RevertBusinessData, CleanupReorgData, DeleteLogs,
          MarkReorgEventAsProcessed
    <3>2. /\ pc[g] \notin AtMaster \cup {"commit"}
          /\ \E l \in Labels \ (AtMaster \cup {"commit"}) : pc' = [pc EXCEPT ![g] = l]
      BY <2>3
      DEF ValidateReorgEvent, MarkAffected, RevertBusinessData, CleanupReorgData, DeleteLogs,
          MarkReorgEventAsProcessed, EndReorg, Return, Goto, Labels, AtMaster
    <3> QED
      BY <1>1, <3>1, <3>2
  <2>4. CASE ForceBlock(g) \/ ForceSetState(g)
    BY <1>1, <2>4 DEF ForceBlock, ForceSetState, stvars
  <2> QED
    BY <1>4, <2>1, <2>2, <2>3, <2>4 DEF ConsumerStep
<1>5. StoresStep \/ UNCHANGED vars => PoolStays
  BY DEF StoresStep, RedisExpires, Replicates, IndexRefreshes, vars, stvars, PoolStays
<1> HIDE DEF HoldersOf, Selecting, InBatch
<1> QED
  BY <1>2, <1>3, <1>4, <1>5 DEF Next, Work

LEMMA PoolFitsStep ==
    ASSUME StoreInv, PoolFits, [Next]_vars
    PROVE  PoolFits'
<1>1. IsFiniteSet(HoldersOf) /\ IsFiniteSet(Selecting)
  BY StorageAssumption, FS_Subset DEF HoldersOf, Selecting
<1>2. Cardinality(HoldersOf) \in Nat /\ Cardinality(Selecting) \in Nat
  BY <1>1, FS_CardinalityType
<1>3. ASSUME NEW S, IsFiniteSet(S), NEW g
      PROVE  /\ Cardinality(S \cup {g}) = IF g \in S THEN Cardinality(S) ELSE Cardinality(S) + 1
             /\ Cardinality(S \ {g}) = IF g \in S THEN Cardinality(S) - 1 ELSE Cardinality(S)
  BY <1>3, FS_AddElement, FS_RemoveElement
<1>4. ASSUME NEW g \in Goroutines, PoolMove(g)
      PROVE  PoolFits'
  <2> DEFINE h == Cardinality(HoldersOf)
             r == Cardinality(Selecting)
  <2>1. /\ Cardinality(HoldersOf \cup {g}) = IF g \in HoldersOf THEN h ELSE h + 1
        /\ Cardinality(HoldersOf \ {g}) = IF g \in HoldersOf THEN h - 1 ELSE h
        /\ Cardinality(Selecting \cup {g}) = IF g \in Selecting THEN r ELSE r + 1
        /\ Cardinality(Selecting \ {g}) = IF g \in Selecting THEN r - 1 ELSE r
    BY <1>1, <1>3
  <2>2. h \in Nat /\ r \in Nat /\ conns = MaxOpenConns - h - r /\ MaxOpenConns \in Nat
    BY <1>2, StorageAssumption DEF PoolFits
  <2>3. CASE PoolStays
    BY <2>3 DEF PoolStays, PoolFits
  <2>4. CASE BatchOpens(g)
    BY <2>1, <2>2, <2>4 DEF BatchOpens, PoolFits
  <2>5. CASE SelectOpens(g)
    BY <2>1, <2>2, <2>5 DEF SelectOpens, PoolFits
  <2>6. CASE SelectCloses(g)
    BY <2>1, <2>2, <2>6 DEF SelectCloses, PoolFits
  <2>7. CASE MasterCloses(g)
    BY <2>1, <2>2, <2>7 DEF MasterCloses, PoolFits
  <2> QED
    BY <1>4, <2>3, <2>4, <2>5, <2>6, <2>7 DEF PoolMove
<1>5. CASE PoolStays
  BY <1>5 DEF PoolFits, PoolStays
<1> QED
  BY <1>4, <1>5, PoolStep

(* What a search does not see yet, the blocks with two rows, and those     *)
(* with logs.                                                              *)
RestFits == recent \subseteq Items /\ twins \subseteq Heights /\ logs \subseteq Heights

LEMMA RestStep ==
    ASSUME StoreInv, RestFits, [Next]_vars
    PROVE  RestFits'
<1> USE DEF RestFits
<1>1. ASSUME NEW g \in Goroutines, ManagerStep(g), UNCHANGED cvars PROVE RestFits'
  <2>1. logs' = logs
    BY <1>1 DEF cvars
  <2>2. CASE IndexSaves(g)
    BY <2>1, <2>2
    DEF IndexSaves, ElasticsearchSavesBlock, ElasticsearchSavesTransaction, Items
  <2>3. CASE Connect(g) \/ SelectRow(g) \/ MasterFails(g) \/ Commit(g) \/ CacheSaves(g)
    BY <2>1, <2>3 DEF Connect, SelectRow, MasterFails, Commit, CacheSaves, stores
  <2>4. CASE MasterWrites(g)
    BY <2>1, <2>4 DEF MasterWrites, DatabaseSavesBlock, DatabaseSavesTransaction
  <2> QED
    BY <1>1, <2>2, <2>3, <2>4 DEF ManagerStep, MasterSaves, MasterReplyLost
<1>2. ASSUME NEW g \in Goroutines, ManagerStart(g), UNCHANGED cvars PROVE RestFits'
  <2>1. logs' = logs
    BY <1>2 DEF cvars
  <2>2. ASSUME NEW ws, NEW b, StartWrites(g, ws, b) PROVE RestFits'
    BY <2>1, <2>2 DEF StartWrites, stores
  <2>3. ASSUME NEW v, NEW ts \in SUBSET Txs, BatchInStore(g, ts, v) PROVE RestFits'
    BY <2>1, <2>3 DEF BatchInStore, RedisBatch, ElasticsearchBatch, Items
  <2>4. ASSUME NEW lo, NEW hi,
               \/ MarkTransactionsAsReverted(g, lo, hi)
               \/ MarkInStore(g, lo, hi)
               \/ DeleteInStore(g, lo, hi)
        PROVE  RestFits'
    BY <2>1, <2>4
    DEF MarkTransactionsAsReverted, MarkInStore, DeleteInStore, DatabaseMarks,
        ElasticsearchMarks, RedisMarks, DatabaseDeletes, ElasticsearchDeletes,
        RedisDeletes, stores
  <2> QED
    BY <1>2, <2>2, <2>3, <2>4
    DEF ManagerStart, SaveBlock, SaveTransaction, BatchSaveTransactions
<1>3. ASSUME NEW g \in Goroutines, ConsumerStart(g) PROVE RestFits'
  BY <1>3 DEF ConsumerStart, ProcessTransaction, HandleReorg, SaveLogs, stores
<1>4. ASSUME NEW g \in Goroutines,
             Validate(g) \/ CustomValidate(g) \/ ExecuteStateTransition(g) \/ RedisUpdates(g)
      PROVE  RestFits'
  <2>1. logs' = logs
    BY <1>4 DEF Validate, CustomValidate, ExecuteStateTransition, RedisUpdates
  <2>3. twins' = twins
    BY <1>4
    DEF Validate, CustomValidate, ExecuteStateTransition, RedisUpdates, DatabaseUpdates,
        ElasticsearchUpdates, stores
  <2>2. recent' = recent \/ \E t \in Txs : recent' = recent \cup {t}
    BY <1>4
    DEF Validate, CustomValidate, ExecuteStateTransition, RedisUpdates, DatabaseUpdates,
        ElasticsearchUpdates, ElasticsearchSavesTransaction, stores
  <2> QED
    BY <2>1, <2>2, <2>3 DEF Items
<1>5. ASSUME NEW g \in Goroutines,
             \/ ValidateReorgEvent(g) \/ MarkAffected(g) \/ ForceBlock(g)
             \/ ForceSetState(g) \/ RevertBusinessData(g) \/ CleanupReorgData(g) \/ DeleteLogs(g)
             \/ MarkReorgEventAsProcessed(g)
      PROVE  RestFits'
  BY <1>5
  DEF ValidateReorgEvent, MarkAffected, ForceBlock, ForceSetState, RevertBusinessData, CleanupReorgData,
      DeleteLogs, MarkReorgEventAsProcessed, DatabaseMarks, DatabaseDeletes, stores, stvars,
      cvars
<1>6. StoresStep /\ UNCHANGED cvars => RestFits'
  BY DEF StoresStep, RedisExpires, Replicates, IndexRefreshes, cvars
<1>7. UNCHANGED vars => RestFits'
  BY DEF vars, stvars, cvars
<1> QED
  BY <1>1, <1>2, <1>3, <1>4, <1>5, <1>6, <1>7 DEF Next, Work, ConsumerStep

(* Type correctness of the consumer and its stores: every connection that  *)
(* is missing from the master's pool belongs to an open batch or to a      *)
(* SELECT, and the map of the reorg handler forgets no event and keeps     *)
(* none.                                                                   *)
THEOREM ConsumerTypeCorrect == Spec => []CTypeOK
<1>1. CInit => HandlerInv /\ PoolFits /\ RestFits
  <2> SUFFICES ASSUME CInit PROVE HandlerInv /\ PoolFits /\ RestFits
    OBVIOUS
  <2>1. HandlerInv
    BY DEF CInit, StInit, HandlerInv, MapFits, OneHandlerPerEvent, Handling
  <2>2. HoldersOf = {} /\ Selecting = {}
    BY DEF CInit, StInit, HoldersOf, InBatch, Selecting
  <2>3. PoolFits
    BY <2>2, FS_EmptySet, StorageAssumption DEF CInit, StInit, PoolFits
  <2>4. RestFits
    BY DEF CInit, StInit, RestFits
  <2> QED
    BY <2>1, <2>3, <2>4
<1>2. StoreInv /\ HandlerInv /\ [Next]_vars => HandlerInv'
  BY HandlerInvStep DEF StoreInv
<1>3. StoreInv /\ PoolFits /\ [Next]_vars => PoolFits'
  BY PoolFitsStep
<1>4. StoreInv /\ RestFits /\ [Next]_vars => RestFits'
  BY RestStep
<1>5. StoreInv /\ HandlerInv /\ PoolFits /\ RestFits => CTypeOK
  BY DEF StoreInv, CTypes, StoreTypes, Values, HandlerInv, MapFits, PoolFits, HoldersOf,
         Selecting, RestFits, CTypeOK
<1> QED
  BY <1>1, <1>2, <1>3, <1>4, <1>5, Invariance, PTL DEF Spec
=============================================================================
