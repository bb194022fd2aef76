SPECIFICATION Spec
CONSTANTS
    Blob = {b1, l1}
    Node = {n1}
    Lost = {l1}
    Epochs = 4
    EpochDuration = 3
    RenewInterval = 2
    RenewLead = 10
    RenewBatchSize = 1
    CallTime = 1
    MaxFaults = 0
INVARIANTS
    NeverLapses
