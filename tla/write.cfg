SPECIFICATION HSpec
CONSTANTS
    k1 = k1  k2 = k2  v1 = v1  v2 = v2
    Key = {k1}
    Value = {v1, v2}
    NoValue = NoValue
    Oversize = {}
    Batches <- OneKeyBatches
    MaxPack = 2
    Client = {c1}
    Flusher = {f1, f2}
    Reader = {r1}
SYMMETRY SlotSymmetry
INVARIANTS TypeOK WalrusFirst PromotionExclusive ClaimsDisjoint GetNeverMisses
PROPERTY Implements
