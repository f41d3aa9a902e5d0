SPECIFICATION GFairSpec
CONSTANTS
    Callers = {p1, p2}
    Chains = {x, y}
    Configured = {x, y}
    Scanners = {s1, s2}
    None = None
\* One at a time: TLC stops at the first violation.
PROPERTY StatusAnswered
\* PROPERTY StopsAll
\* INVARIANT RemovedIsStopped
CHECK_DEADLOCK FALSE
