SPECIFICATION Spec
CONSTANTS
    Blob = {b1, b2}
    Node = {n1, n2}
    Lost = {}
    Epochs = 4
    EpochDuration = 3
    RenewInterval = 2
    RenewLead = 10
    RenewBatchSize = 2
    CallTime = 1
    MaxFaults = 1
SYMMETRY Symmetric
INVARIANTS
    TypeOK
    ExpiryWithinEpoch
    NeverLapses
