SPECIFICATION DFairSpec
CONSTANTS
    MaxHeight = 3
    MaxForks = 1
    Tasks = {t1}
    Threshold = 1
    MaxDepth = 3
\* One at a time: TLC stops at the first violation.
INVARIANT ResetsToSafeHeight
\* INVARIANT ProcessedIsReverted
\* PROPERTY NoHoles
\* INVARIANT AverageIsFinite
\* PROPERTY OrphansAreFound
CHECK_DEADLOCK FALSE
