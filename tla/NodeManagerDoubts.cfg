SPECIFICATION NFairSpec
CONSTANTS
    N = 2
    Weights <- MCWeights
    Callers = {c1}
    Checkers = {k1}
    MaxTries = 3
    MaxCalls = 1
    Unbounded = Unbounded
    NoOne = NoOne
\* One at a time: TLC stops at the first violation.
PROPERTY CallsReturn
\* PROPERTY FailingNodeIsolated
\* INVARIANT CountsAreAtomic
CHECK_DEADLOCK FALSE
