SPECIFICATION Spec
CONSTANTS
    k1 = k1
    k2 = k2
    k3 = k3
    k4 = k4
    k5 = k5
    k6 = k6
    Reader = {r1, r2}
    Key = {k1, k2, k3, k4, k5, k6}
    Size <- Sizes
    MaxBytes = 8
INVARIANTS
    Accounting
    ServesTheBody
PROPERTIES
    AddKeepsRecent
SYMMETRY Symmetric
