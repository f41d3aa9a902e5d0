------------------------------ MODULE Storage ------------------------------
(***************************************************************************)
(* internal/storage: StorageManager over a master database, a read         *)
(* replica, a Redis cache and an Elasticsearch index.  Transactions and    *)
(* blocks are the items stored; of a transaction only the status is kept,  *)
(* of a block the branch its hash belongs to.                              *)
(*                                                                         *)
(* A row of the database has the status twice: in the status column, and   *)
(* inside the JSON column that every reader unmarshals.  The first save    *)
(* writes both; UpdateTransactionStatus and MarkTransactionsAsReverted     *)
(* write the column only.                                                  *)
(*                                                                         *)
(* A save is FirstOrCreate: a SELECT, and then an INSERT of a row that was *)
(* not found, or an UPDATE of one that was.  The record given to Assign is *)
(* the one the SELECT loads the row into, so the UPDATE writes back what   *)
(* was read: a later save of the same row changes nothing (and may undo a  *)
(* mark made in between), and the manager takes it for a success all the   *)
(* same.  No unique index keeps two first saves from inserting two rows.   *)
(*                                                                         *)
(* Goroutines call the operations; each store is asked in a step of its    *)
(* own.  A call to a store may fail.  A batch holds one connection of the  *)
(* master's pool for its transaction and needs a second one for every row, *)
(* because it saves the rows through s.db and not through the transaction  *)
(* (database.go, lines 332 to 334): what it wrote survives its rollback.   *)
(***************************************************************************)
EXTENDS Naturals, SequencesExt, FiniteSets

CONSTANTS Goroutines,
          Txs,            \* transaction hashes
          Heights,        \* block numbers, a set of naturals
          BlockOf,        \* the block of each transaction
          Contents,       \* what an earlier run may have left in the stores
          SaveStatuses,   \* statuses the scanner saves transactions with
          MaxOpenConns,   \* connections of the master's pool
          MaxOps          \* bound on the operations started

Statuses == {"pending", "confirmed", "finalized", "reverted"}
Branches == {"old", "new"}
None == "none"

ASSUME StorageAssumption ==
    /\ IsFiniteSet(Goroutines)
    /\ IsFiniteSet(Txs) /\ Txs # {}
    /\ Heights \subseteq Nat
    /\ Txs \cap Heights = {}
    /\ BlockOf \in [Txs -> Heights]
    /\ SaveStatuses \subseteq Statuses
    /\ \A c \in Contents : /\ c \in [Txs \cup Heights -> Statuses \cup Branches \cup {None}]
                            /\ \A t \in Txs : c[t] \in SaveStatuses \cup {None}
                            /\ \A h \in Heights : c[h] \in Branches \cup {None}
    /\ MaxOpenConns \in Nat \ {0}
    /\ MaxOps \in Nat

Items == Txs \cup Heights

VARIABLES column,   \* master: status column of each transaction
          data,     \* master: JSON of each item
          twins,    \* master: blocks with a second row, of the new branch
          slave,    \* replica: JSON of each item
          cache,    \* Redis
          index,    \* Elasticsearch documents
          recent,   \* documents a search does not see before the next refresh
          conns,    \* free connections of the master's pool
          pc,       \* what each goroutine does next
          job,      \* the writes of its operation, and those still to be made
          ops,      \* operations started
          stored    \* ghost: the values that a store took under each item

stores == <<column, data, twins, slave, cache, index, recent>>
stvars == <<column, data, twins, slave, cache, index, recent, conns, pc, job, ops, stored>>

(* The transactions of the blocks lo..hi.                                  *)
TxsIn(lo, hi) == {t \in Txs : lo <= BlockOf[t] /\ BlockOf[t] <= hi}

HeightsIn(lo, hi) == {h \in Heights : lo <= h /\ h <= hi}

NoJob == [all |-> << >>, todo |-> << >>, batch |-> FALSE, row |-> None]

(* The program starts over what an earlier run left in the stores: the     *)
(* scanner saved blocks and transactions, the transactions of some blocks  *)
(* were marked as reverted, the cache has expired.                         *)
StInit ==
    /\ data \in Contents
    /\ \E marked \in SUBSET Heights :
          column = [t \in Txs |-> IF BlockOf[t] \in marked /\ data[t] # None
                                  THEN "reverted" ELSE data[t]]
    /\ twins = {}
    /\ slave = data
    /\ index = data
    /\ cache = [i \in Items |-> None]
    /\ recent = {}
    /\ conns = MaxOpenConns
    /\ pc = [g \in Goroutines |-> "idle"]
    /\ job = [g \in Goroutines |-> NoJob]
    /\ ops = 0
    /\ stored = [i \in Items |-> {data[i]} \ {None}]

Goto(g, l) == pc' = [pc EXCEPT ![g] = l]

(* Every operation counts against the bound on the operations.             *)
Start(g) ==
    /\ pc[g] = "idle"
    /\ ops < MaxOps
    /\ ops' = ops + 1

Remember(i, v) == stored' = [stored EXCEPT ![i] = @ \cup {v}]

-----------------------------------------------------------------------------
(* StorageManager: the callers' side.                                      *)

StartWrites(g, ws, b) ==
    /\ Start(g)
    /\ job' = [job EXCEPT ![g] = [all |-> ws, todo |-> ws, batch |-> b,
                                         row |-> None]]
    /\ UNCHANGED <<stores, stored>>

SaveBlock(g, h, v) ==
    /\ StartWrites(g, << <<h, v>> >>, FALSE)
    /\ Goto(g, "master")
    /\ UNCHANGED conns

SaveTransaction(g, t, v) ==
    /\ StartWrites(g, << <<t, v>> >>, FALSE)
    /\ Goto(g, "master")
    /\ UNCHANGED conns

(* A batch of every transaction with status v.                             *)
Batch(v) == LET ts == SetToSeq(Txs) IN [k \in 1..Len(ts) |-> <<ts[k], v>>]

(* The database opens a transaction for the batch, on a connection.        *)
BatchSaveTransactions(g, ws) ==
    /\ conns > 0
    /\ StartWrites(g, ws, TRUE)
    /\ Goto(g, "master")
    /\ conns' = conns - 1

(* Mutant of EndOfMaster: the transaction is neither committed nor rolled  *)
(* back.                                                                   *)
EndOfMasterLeaks(g) == UNCHANGED conns

(* Commit or rollback gives the connection of a batch back, and a SELECT   *)
(* that fails its own.                                                     *)
EndOfMaster(g) ==
    conns' = conns + (IF job[g].batch THEN 1 ELSE 0) + (IF pc[g] = "select" THEN 1 ELSE 0)

Head1(g) == Head(job[g].todo)

Popped(g) == [job EXCEPT ![g] = [@ EXCEPT !.todo = Tail(job[g].todo), !.row = None]]

(* A row is saved on a connection of its own.                              *)
Connect(g) ==
    /\ pc[g] = "master"
    /\ conns > 0
    /\ conns' = conns - 1
    /\ Goto(g, "select")
    /\ UNCHANGED <<stores, job, ops, stored>>

(* What the SELECT finds: nothing, or a row with its columns.              *)
Loaded(i) == IF i \in Txs THEN column[i] ELSE data[i]

(* Mutant of SelectRow: the rows are not closed, and keep the connection.  *)
SelectRowLeaks(g) ==
    /\ pc[g] = "select"
    /\ job' = [job EXCEPT ![g].row = Loaded(Head1(g)[1])]
    /\ Goto(g, "row")
    /\ UNCHANGED <<stores, conns, ops, stored>>

SelectRow(g) ==
    /\ pc[g] = "select"
    /\ conns' = conns + 1
    /\ job' = [job EXCEPT ![g].row = Loaded(Head1(g)[1])]
    /\ Goto(g, "row")
    /\ UNCHANGED <<stores, ops, stored>>

(* A row that was not found is created, beside one that somebody else has  *)
(* created since.  Readers get the older row; a search for a hash finds    *)
(* both.  A row that was found is written back as it was loaded.           *)
DatabaseSavesBlock(h, v, row) ==
    /\ h \in Heights
    /\ data' = IF row = None /\ data[h] = None THEN [data EXCEPT ![h] = v] ELSE data
    /\ twins' = IF row = None /\ data[h] # None /\ v = "new" THEN twins \cup {h} ELSE twins
    /\ UNCHANGED column

DatabaseSavesTransaction(t, v, row) ==
    /\ t \in Txs
    /\ \/ /\ row = None /\ data[t] = None
          /\ data' = [data EXCEPT ![t] = v]
          /\ column' = [column EXCEPT ![t] = v]
       \/ row = None /\ data[t] # None /\ UNCHANGED <<column, data>>
       \/ row # None /\ column' = [column EXCEPT ![t] = row] /\ UNCHANGED data
    /\ UNCHANGED twins

(* The last row of a batch is followed by the commit of its transaction.   *)
AfterRow(g) ==
    IF Len(job[g].todo) > 1
    THEN job' = Popped(g) /\ Goto(g, "master")
    ELSE /\ job' = [job EXCEPT ![g] = [@ EXCEPT !.todo = job[g].all, !.row = None]]
         /\ Goto(g, IF job[g].batch THEN "commit" ELSE "cache")

(* INSERT or UPDATE.                                                       *)
MasterWrites(g) ==
    /\ pc[g] = "row"
    /\ conns > 0
    /\ \/ DatabaseSavesBlock(Head1(g)[1], Head1(g)[2], job[g].row)
       \/ DatabaseSavesTransaction(Head1(g)[1], Head1(g)[2], job[g].row)
    /\ Remember(Head1(g)[1], Head1(g)[2])
    /\ UNCHANGED <<slave, cache, index, recent, ops>>

MasterSaves(g) == MasterWrites(g) /\ AfterRow(g) /\ UNCHANGED conns

(* The row is written and the answer of the master is lost, which ends the *)
(* operation like an error.                                                *)
MasterReplyLost(g) ==
    /\ MasterWrites(g)
    /\ EndOfMaster(g)
    /\ job' = [job EXCEPT ![g] = NoJob]
    /\ Goto(g, "idle")

(* Nothing was written in the transaction, so there is nothing to undo     *)
(* when the commit fails.                                                  *)
Commit(g) ==
    /\ pc[g] = "commit"
    /\ EndOfMaster(g)
    /\ \/ Goto(g, "cache") /\ UNCHANGED job
       \/ Goto(g, "idle") /\ job' = [job EXCEPT ![g] = NoJob]
    /\ UNCHANGED <<stores, ops, stored>>

(* Mutant of MasterFails: the error of the master is logged and ignored    *)
(* like those of the cache and the index.                                  *)
MasterFailsUnnoticed(g) ==
    /\ pc[g] = "select" \/ (pc[g] = "row" /\ conns > 0)
    /\ EndOfMaster(g)
    /\ job' = [job EXCEPT ![g] = [@ EXCEPT !.todo = job[g].all, !.row = None]]
    /\ Goto(g, "cache")
    /\ UNCHANGED <<stores, ops, stored>>

(* An error of the master ends the operation: the batch is rolled back,    *)
(* and neither the cache nor the index is asked.                           *)
MasterFails(g) ==
    /\ pc[g] = "select" \/ (pc[g] = "row" /\ conns > 0)
    /\ EndOfMaster(g)
    /\ job' = [job EXCEPT ![g] = NoJob]
    /\ Goto(g, "idle")
    /\ UNCHANGED <<stores, ops, stored>>

(* One write to the cache or to the index is over, the next one follows,   *)
(* then label l.                                                           *)
NextWrite(g, l) ==
    IF Len(job[g].todo) > 1
    THEN job' = Popped(g) /\ UNCHANGED pc
    ELSE /\ job' = [job EXCEPT ![g] = IF l = "idle" THEN NoJob
                                      ELSE [@ EXCEPT !.todo = job[g].all]]
         /\ Goto(g, l)

(* SET, with a life of 24 hours.                                           *)
RedisSavesBlock(h, v) == h \in Heights /\ cache' = [cache EXCEPT ![h] = v]

RedisSavesTransaction(t, v) == t \in Txs /\ cache' = [cache EXCEPT ![t] = v]

(* An error is logged; without a cache nothing is sent.                    *)

CacheSaves(g) ==
    /\ pc[g] = "cache"
    /\ \/ RedisSavesBlock(Head1(g)[1], Head1(g)[2])
       \/ RedisSavesTransaction(Head1(g)[1], Head1(g)[2])
       \/ UNCHANGED cache
    /\ NextWrite(g, "index")
    /\ UNCHANGED <<column, data, twins, slave, index, recent, conns, ops, stored>>

(* The document is replaced as a whole; a search sees it after a refresh.  *)
ElasticsearchSavesBlock(h, v) ==
    /\ h \in Heights
    /\ index' = [index EXCEPT ![h] = v]
    /\ recent' = recent \cup {h}

ElasticsearchSavesTransaction(t, v) ==
    /\ t \in Txs
    /\ index' = [index EXCEPT ![t] = v]
    /\ recent' = recent \cup {t}

IndexSaves(g) ==
    /\ pc[g] = "index"
    /\ \/ ElasticsearchSavesBlock(Head1(g)[1], Head1(g)[2])
       \/ ElasticsearchSavesTransaction(Head1(g)[1], Head1(g)[2])
       \/ UNCHANGED <<index, recent>>
    /\ NextWrite(g, "idle")
    /\ UNCHANGED <<column, data, twins, slave, cache, conns, ops, stored>>

-----------------------------------------------------------------------------
(* StorageManager: what a reader is told.                                  *)

(* GetBlock and GetTransaction of the stores.                              *)
RedisBlock(h) == cache[h]
RedisTransaction(t) == cache[t]
DatabaseBlock(rows, h) == rows[h]
DatabaseTransaction(rows, t) == rows[t]
ElasticsearchTransaction(t) == index[t]

(* The cache first, then the replica; what the replica answers does not    *)
(* fill the cache.                                                         *)
GetBlock(h) == IF RedisBlock(h) # None THEN RedisBlock(h) ELSE DatabaseBlock(slave, h)

GetTransaction(t) ==
    IF RedisTransaction(t) # None THEN RedisTransaction(t) ELSE DatabaseTransaction(slave, t)

Read(i) == IF i \in Txs THEN GetTransaction(i) ELSE GetBlock(i)

-----------------------------------------------------------------------------
(* The stores themselves: expiry, replication and refresh.                 *)

(* Mutant of RedisExpires: entries have no TTL.                            *)
RedisNeverExpires(i) == FALSE /\ UNCHANGED stvars

RedisExpires(i) ==
    /\ cache[i] # None
    /\ cache' = [cache EXCEPT ![i] = None]
    /\ UNCHANGED <<column, data, twins, slave, index, recent, conns, pc, job, ops, stored>>

(* The replica applies what the master wrote, in its order.                *)
Replicates ==
    /\ slave # data
    /\ slave' = data
    /\ UNCHANGED <<column, data, twins, cache, index, recent, conns, pc, job, ops, stored>>

IndexRefreshes ==
    /\ recent # {}
    /\ recent' = {}
    /\ UNCHANGED <<column, data, twins, slave, cache, index, conns, pc, job, ops, stored>>

-----------------------------------------------------------------------------
(* Operations on one store over a range of blocks, as StorageManager, the  *)
(* consumer and the reorg processor call them.                             *)

RememberReverted(ts) ==
    stored' = [i \in Items |-> stored[i] \cup (IF i \in ts THEN {"reverted"} ELSE {})]

(* Only documents of transactions have a field block_number: the JSON of a *)
(* block calls it number, and hash what GetBlockByHash looks for as        *)
(* block_hash.                                                             *)
MatchesRange(i, lo, hi) ==
    /\ i \in TxsIn(lo, hi)
    /\ index[i] # None
    /\ i \notin recent

(* The status column only.                                                 *)
DatabaseMarks(lo, hi) ==
    /\ column' = [t \in Txs |-> IF t \in TxsIn(lo, hi) /\ data[t] # None
                                THEN "reverted" ELSE column[t]]
    /\ UNCHANGED <<data, twins, slave, cache, index, recent, stored>>

(* update_by_query: the documents the search finds.                        *)
ElasticsearchMarks(lo, hi) ==
    LET hit == {i \in Items : MatchesRange(i, lo, hi)}
    IN  /\ index' = [i \in Items |-> IF i \in hit THEN "reverted" ELSE index[i]]
        /\ recent' = recent \cup hit
        /\ RememberReverted(hit)
        /\ UNCHANGED <<column, data, twins, slave, cache>>

(* Redis does not mark: it returns nil and has done nothing.               *)
RedisMarks(lo, hi) == UNCHANGED <<stores, stored>>

DatabaseDeletes(lo, hi) ==
    /\ data' = [i \in Items |-> IF i \in HeightsIn(lo, hi) THEN None ELSE data[i]]
    /\ twins' = twins \ HeightsIn(lo, hi)
    /\ UNCHANGED <<column, slave, cache, index, recent, stored>>

(* delete_by_query on the block index, by block_number.                    *)
ElasticsearchDeletes(lo, hi) ==
    /\ index' = [i \in Items |-> IF i \in Heights /\ MatchesRange(i, lo, hi)
                                 THEN None ELSE index[i]]
    /\ UNCHANGED <<column, data, twins, slave, cache, recent, stored>>

(* One DEL per height; an error is logged and the loop goes on.            *)
RedisDeletes(lo, hi) ==
    /\ \E gone \in SUBSET HeightsIn(lo, hi) :
          cache' = [i \in Items |-> IF i \in gone THEN None ELSE cache[i]]
    /\ UNCHANGED <<column, data, twins, slave, index, recent, stored>>

(* BatchSaveTransactions of one store: a pipeline of SET commands, a bulk  *)
(* request.  Some of the transactions may not get through.                 *)
RedisBatch(ts, v) ==
    /\ cache' = [i \in Items |-> IF i \in ts THEN v ELSE cache[i]]
    /\ UNCHANGED <<index, recent>>

ElasticsearchBatch(ts, v) ==
    /\ index' = [i \in Items |-> IF i \in ts THEN v ELSE index[i]]
    /\ recent' = recent \cup ts
    /\ UNCHANGED cache

(* MarkTransactionsAsReverted of the manager reaches the master alone.     *)
MarkTransactionsAsReverted(g, lo, hi) ==
    /\ Start(g)
    /\ conns > 0
    /\ DatabaseMarks(lo, hi) \/ UNCHANGED <<stores, stored>>
    /\ UNCHANGED <<conns, pc, job>>

(* The stores are also there to be called directly (GetMaster, GetRedis,   *)
(* GetElasticsearch).                                                      *)
MarkInStore(g, lo, hi) ==
    /\ Start(g)
    /\ ElasticsearchMarks(lo, hi) \/ RedisMarks(lo, hi)
    /\ UNCHANGED <<conns, pc, job>>

BatchInStore(g, ts, v) ==
    /\ Start(g)
    /\ RedisBatch(ts, v) \/ ElasticsearchBatch(ts, v)
    /\ stored' = [i \in Items |-> stored[i] \cup (IF i \in ts THEN {v} ELSE {})]
    /\ UNCHANGED <<column, data, twins, slave, conns, pc, job>>

DeleteInStore(g, lo, hi) ==
    /\ Start(g)
    /\ \/ conns > 0 /\ DatabaseDeletes(lo, hi)
       \/ ElasticsearchDeletes(lo, hi)
       \/ RedisDeletes(lo, hi)
    /\ UNCHANGED <<conns, pc, job>>

-----------------------------------------------------------------------------
ManagerStep(g) ==
    \/ Connect(g) \/ SelectRow(g)
    \/ MasterSaves(g) \/ MasterReplyLost(g) \/ MasterFails(g) \/ Commit(g)
    \/ CacheSaves(g) \/ IndexSaves(g)

ManagerStart(g) ==
    \/ \E h \in Heights, v \in Branches : SaveBlock(g, h, v)
    \/ \E t \in Txs, v \in SaveStatuses : SaveTransaction(g, t, v)
    \/ \E v \in SaveStatuses : \/ BatchSaveTransactions(g, Batch(v))
                               \/ \E ts \in SUBSET Txs : BatchInStore(g, ts, v)
    \/ \E lo, hi \in Heights :
          lo <= hi /\ \/ MarkTransactionsAsReverted(g, lo, hi)
                      \/ MarkInStore(g, lo, hi)
                      \/ DeleteInStore(g, lo, hi)

StoresStep ==
    \/ \E i \in Items : RedisExpires(i)
    \/ Replicates
    \/ IndexRefreshes
=============================================================================
