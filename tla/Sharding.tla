------------------------------ MODULE Sharding ------------------------------
(***************************************************************************)
(* internal/scheduler/sharding.go: GetAllShardRanges cuts a range of       *)
(* blocks into one contiguous range per shard, GetShardRange by            *)
(* GetShardRange; CalculateShard assigns a single block to a shard.  The   *)
(* range given is not empty; within it none of the uint64 operations       *)
(* wraps around.                                                           *)
(***************************************************************************)
EXTENDS Integers, Sequences, FiniteSets

CONSTANTS MaxShards,  \* bound on shardCount
          MaxBlock    \* bound on the blocks

ASSUME ShardingAssumption == MaxShards \in Nat \ {0} /\ MaxBlock \in Nat

(* For n shards and the blocks lo..hi.                                     *)
BlocksPerShard(n, lo, hi) == (hi - lo + 1) \div n

Remainder(n, lo, hi) == (hi - lo + 1) % n

(* Mutant of ShardStart: every shard is shifted by the whole remainder.    *)
ShardStartShifted(i, n, lo, hi) ==
    lo + i * BlocksPerShard(n, lo, hi) + Remainder(n, lo, hi)

(* The first Remainder shards take one block more.                         *)
ShardStart(i, n, lo, hi) ==
    lo + i * BlocksPerShard(n, lo, hi)
       + (IF i < Remainder(n, lo, hi) THEN i ELSE Remainder(n, lo, hi))

Clip(x, hi) == IF x > hi THEN hi ELSE x

(* Mutant of ShardEnd: the whole remainder instead of one block of it.     *)
ShardEndLong(i, n, lo, hi) ==
    Clip(ShardStart(i, n, lo, hi) + BlocksPerShard(n, lo, hi) - 1
           + (IF i < Remainder(n, lo, hi) THEN Remainder(n, lo, hi) ELSE 0),
         hi)

(* An empty shard has an end below its start.                              *)
ShardEnd(i, n, lo, hi) ==
    Clip(ShardStart(i, n, lo, hi) + BlocksPerShard(n, lo, hi) - 1
           + (IF i < Remainder(n, lo, hi) THEN 1 ELSE 0),
         hi)

(* A block has no address: the address strategy puts every block in the    *)
(* shard 0.                                                                *)
CalculateShard(strategy, b, n) == IF strategy = "address" THEN 0 ELSE b % n

VARIABLES count,      \* shardCount
          startBlock,
          endBlock,
          ranges      \* the ranges of the shards so far, shard 0 first

shvars == <<count, startBlock, endBlock, ranges>>

ShInit ==
    /\ count \in 1..MaxShards
    /\ startBlock \in 0..MaxBlock
    /\ endBlock \in startBlock..MaxBlock
    /\ ranges = << >>

(* One round of the loop of GetAllShardRanges.                             *)
NextRange ==
    /\ Len(ranges) < count
    /\ LET i == Len(ranges)
       IN  ranges' = Append(ranges,
                        [start |-> ShardStart(i, count, startBlock, endBlock),
                         end |-> ShardEnd(i, count, startBlock, endBlock)])
    /\ UNCHANGED <<count, startBlock, endBlock>>

ShSpec == ShInit /\ [][NextRange]_shvars

-----------------------------------------------------------------------------

Size(r) == r.end - r.start + 1

(* Read in order, the ranges are adjacent from startBlock on: no block is  *)
(* skipped or given to two shards, even when there are more shards than    *)
(* blocks, and the last one ends at endBlock.                              *)
RangesPartition ==
    /\ \A i \in DOMAIN ranges :
          ranges[i].start = IF i = 1 THEN startBlock ELSE ranges[i - 1].end + 1
    /\ Len(ranges) = count => ranges[count].end = endBlock

(* The work is even: two shards differ by one block at most.               *)
RangesBalanced ==
    \A i, j \in DOMAIN ranges : Size(ranges[i]) <= Size(ranges[j]) + 1

(* DESIGN_SCANNER.md 160: the shard of a block is blockNumber % shardCount *)
(* and (169) GetShardRange is the range of blocks of a shard.              *)
RangesMatchShards ==
    \A i \in DOMAIN ranges :
        \A b \in ranges[i].start..ranges[i].end :
            CalculateShard("block_number", b, count) = i - 1

=============================================================================
