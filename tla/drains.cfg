SPECIFICATION FairSpec
CONSTANTS
    k1 = k1  k2 = k2
    Key = {k1, k2}
    Size <- SizeOf
    Node = {n1}
    Workers = 2
    TargetSize = 3
    MaxCount = 2
    MaxAge = 3
    IdleFlush = 2
    LeaseTime = 2
    Horizon = 4
    MaxFaults = 1
    Ranks = 0
    Poison = {}
INVARIANT TypeOK
PROPERTY Drains
