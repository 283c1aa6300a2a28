SPECIFICATION Spec
CONSTANTS
    k1 = k1
    k2 = k2
    k3 = k3
    Keys <- MCKeys
    SeqCkpt = 2
    SeqMax = 6
    QuietRotation = TRUE
    ReadFaults = FALSE
SYMMETRY KeySymmetry
INVARIANTS
    TypeOK
    BoundCoversUsed
    NeverWraps
    RamAgreesWithNvs
PROPERTIES
    IncreasingUnderKey
