SPECIFICATION ShSpec
CONSTANTS
    MaxShards = 3
    MaxBlock = 6
INVARIANT RangesMatchShards
CHECK_DEADLOCK FALSE
