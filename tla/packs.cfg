SPECIFICATION Spec
CONSTANTS
    k1 = k1
    k2 = k2
    k3 = k3
    k4 = k4
    Key = {k1, k2, k3, k4}
    Bytes <- Blocks
    MaxPack = 3
    Chunk = 2
    Committee = {0, 1, 2, 4}
INVARIANTS
    ReadsBack
    BilledAlike
PROPERTIES
    NoneLost
CHECK_DEADLOCK FALSE
