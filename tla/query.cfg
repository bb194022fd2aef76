SPECIFICATION QSpec
CONSTANTS
    k1 = k1  k2 = k2  v1 = v1  v2 = v2
    Key = {k1, k2}
    Value = {v1, v2}
    NoValue = NoValue
    Oversize = {v2}
    Batches <- CommitBatches
    MaxPack = 2
    Client = {c1}
    Flusher = {f1}
    Reader = {r1}
INVARIANTS QueryComplete ListedOnce WalrusFirst
PROPERTY Implements
