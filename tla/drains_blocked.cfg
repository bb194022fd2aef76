SPECIFICATION FairTiesSpec
CONSTANTS
    k1 = k1  k2 = k2
    Key = {k1, k2}
    Size <- OnePerPack
    Node = {n1}
    Workers = 1
    TargetSize = 3
    MaxCount = 2
    MaxAge = 3
    IdleFlush = 2
    LeaseTime = 2
    Horizon = 4
    MaxFaults = 0
    Ranks = 2
    Poison = {k1}
PROPERTY Drains
