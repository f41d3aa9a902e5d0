------------------------------ MODULE BlockStore ------------------------------
(***************************************************************************)
(* One chain as the reorg components see it: the blocks a node serves, the *)
(* blocks in the database (internal/storage/database.go), the scanned      *)
(* height of the watermark, and the scan tasks under way, which fetch a    *)
(* block, save it and raise the watermark in separate steps.               *)
(*                                                                         *)
(* A block is a height and the number of the fork that made it; a fork     *)
(* number is never used again, so equal blocks have equal ancestors, as    *)
(* equal hashes do.  Transactions are left to Storage and Consumer.        *)
(* FinalizationType is "latest", so the scanner follows the head.          *)
(***************************************************************************)
EXTENDS Integers

CONSTANTS MaxHeight,  \* bound: heights of the chain
          MaxForks,   \* bound: reorganisations of the chain
          Tasks       \* scan tasks, of one block each, under way at a time

ASSUME StoreAssumption == MaxHeight \in Nat \ {0} /\ MaxForks \in Nat

VARIABLES chain,    \* fork of the node's block at each height, or NoBlock
          forks,    \* reorganisations so far; the fork of the newest blocks
          store,    \* fork of the stored block at each height, or NoBlock
          extra,    \* blocks in further rows of the same heights
          scanned,  \* ScannedHeight of the watermark
          job       \* how far each task has got, and with which block

storeVars == <<chain, forks, store, extra, scanned, job>>

NoBlock == -1

Heights == 0 .. MaxHeight

Forks == 0 .. MaxForks

Block(h, f) == [num |-> h, fork |-> f]

Blocks == [num : Heights, fork : Forks]

HeightsIn(blocks) == { h \in Heights : blocks[h] # NoBlock }

(* The highest block, as GetCurrentHeight and GetLatestBlock return it.    *)
Top(blocks) ==
    CHOOSE h \in HeightsIn(blocks) : \A g \in HeightsIn(blocks) : g <= h

JobStates == {"none", "fetched", "absent", "saved"}

Job(state, b) == [at |-> state, num |-> b.num, fork |-> b.fork]

NoJob == Job("none", Block(0, 0))

(* NewWatermarkManager starts at 0, the scanner at the block after that.   *)
StoreInit ==
    /\ chain = [h \in Heights |-> IF h = 0 THEN 0 ELSE NoBlock]
    /\ forks = 0
    /\ store = [h \in Heights |-> NoBlock]
    /\ extra = {}
    /\ scanned = 0
    /\ job = [t \in Tasks |-> NoJob]

Grow ==
    /\ Top(chain) < MaxHeight
    /\ chain' = [chain EXCEPT ![Top(chain) + 1] = forks]
    /\ UNCHANGED <<forks, store, extra, scanned, job>>

(* The blocks above height a are replaced by at least as many others.      *)
Reorganise(a, n) ==
    /\ forks < MaxForks
    /\ a < Top(chain)
    /\ n >= Top(chain)
    /\ forks' = forks + 1
    /\ chain' = [h \in Heights |->
                    IF h <= a THEN chain[h]
                              ELSE IF h <= n THEN forks + 1 ELSE NoBlock]
    /\ UNCHANGED <<store, extra, scanned, job>>

(* A worker fetches a block.  It may be any block up to the head: tasks    *)
(* are cut in order, but carried out in any order, tried again, and cut    *)
(* before the watermark was moved.                                         *)
Fetch(t) ==
    /\ job[t].at = "none"
    /\ \E h \in 1 .. Top(chain) :
          job' = [job EXCEPT ![t] = Job("fetched", Block(h, chain[h]))]
    /\ UNCHANGED <<chain, forks, store, extra, scanned>>

(* The application that embeds the scanner calls SaveBlock.  FirstOrCreate *)
(* looks for a row of this height; if there is one it loads the row into   *)
(* the model that Assign was given, too, and so writes the row's own       *)
(* values back: the row stays as it is, or stays deleted.                  *)
SelectRow(t) ==
    /\ job[t].at = "fetched"
    /\ job' = [job EXCEPT ![t] = IF store[@.num] = NoBlock
                                   THEN Job("absent", @)
                                   ELSE Job("saved", Block(@.num, 0))]
    /\ UNCHANGED <<chain, forks, store, extra, scanned>>

(* Otherwise it inserts one.  No index is unique: if another task has      *)
(* inserted a row meanwhile there are two, and reads by height get the     *)
(* first.                                                                  *)
InsertRow(t) ==
    LET b == Block(job[t].num, job[t].fork)
    IN /\ job[t].at = "absent"
       /\ \/ /\ store[b.num] = NoBlock
             /\ store' = [store EXCEPT ![b.num] = b.fork]
             /\ UNCHANGED extra
          \/ /\ store[b.num] # NoBlock
             /\ extra' = extra \cup {b}
             /\ UNCHANGED store
       /\ job' = [job EXCEPT ![t] = Job("saved", Block(b.num, 0))]
       /\ UNCHANGED <<chain, forks, scanned>>

(* The result of the task arrives: UpdateScannedHeight.                    *)
UpdateScannedHeight(t) ==
    /\ job[t].at = "saved"
    /\ scanned' = IF job[t].num > scanned THEN job[t].num ELSE scanned
    /\ job' = [job EXCEPT ![t] = NoJob]
    /\ UNCHANGED <<chain, forks, store, extra>>

(* Save or update fails, the result finds its queue full, or retries end.  *)
Forget(t) ==
    /\ job[t].at # "none"
    /\ job' = [job EXCEPT ![t] = NoJob]
    /\ UNCHANGED <<chain, forks, store, extra, scanned>>

Scan(t) == Fetch(t) \/ SelectRow(t) \/ InsertRow(t) \/ UpdateScannedHeight(t)

World == \/ Grow
         \/ \E a, n \in Heights : Reorganise(a, n)
         \/ \E t \in Tasks : Scan(t) \/ Forget(t)

-----------------------------------------------------------------------------
(* The storage operations of a rollback.                                   *)

DeleteBlocks(from, to) ==
    /\ store' = [h \in Heights |->
                    IF from <= h /\ h <= to THEN NoBlock ELSE store[h]]
    /\ extra' = { b \in extra : ~ (from <= b.num /\ b.num <= to) }

(* GetBlockByHash finds the block in whatever row it is.                   *)
Stored(b) == store[b.num] = b.fork \/ b \in extra

(* ResetWatermark: ResetToHeight refuses a height above the scanned one.   *)
CanReset(h) == h <= scanned

SafeHeight(old) == IF old > 0 THEN old - 1 ELSE old

(* Stored blocks that the chain has abandoned.                             *)
Orphans == { h \in HeightsIn(store) : store[h] # chain[h] }

StoreTypeOK ==
    /\ chain \in [Heights -> Forks \cup {NoBlock}]
    /\ forks \in Forks
    /\ store \in [Heights -> Forks \cup {NoBlock}]
    /\ extra \subseteq Blocks
    /\ scanned \in Heights
    /\ job \in [Tasks -> [at : JobStates, num : Heights, fork : Forks]]

=============================================================================
