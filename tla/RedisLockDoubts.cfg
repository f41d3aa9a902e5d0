\* One of the two is active; for GrantHonoured take ExtendTTLs = {2, 4}.
SPECIFICATION Spec
CONSTANTS
    Clients = {c1, c2}
    Values = {v1, v2, v3}
    NoValue = NoValue
    TTL = 4
    ExtendTTLs = {1, 3}
    MaxTries = 2
PROPERTY ExtendKeepsLock
\* INVARIANT GrantHonoured
