SPECIFICATION FairSpec
CONSTANTS
    N = 2
    Weights <- MCWeights
    Callers = {c1, c2}
    Checkers = {k1}
    Requests <- MCRequests
    MaxTries = 2
    MaxCalls = 2
    Unbounded = Unbounded
    NoOne = NoOne
INVARIANTS NTypeOK SelectionIsProportional BlocksWereAsked
PROPERTY CallsReturnUnchecked
CHECK_DEADLOCK FALSE
