SPECIFICATION FairSpec
CONSTANTS
    Clients = {c1, c2, c3}
    Values = {v1, v2, v3, v4}
    NoValue = NoValue
    TTL = 4
    ExtendTTLs = {2, 4}
    MaxTries = 2
INVARIANTS
    TypeOK
    LeaseHonoured
    OneLease
PROPERTIES
    OrphanExpires
