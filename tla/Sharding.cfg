SPECIFICATION ShSpec
CONSTANTS
    MaxShards = 6
    MaxBlock = 14
INVARIANTS
    RangesPartition
    RangesBalanced
CHECK_DEADLOCK FALSE
