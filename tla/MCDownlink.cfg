SPECIFICATION Spec
CONSTANTS
    t1 = t1
    t2 = t2
    Callers <- MCCallers
    Params = {"csi", "hb"}
    MaxSeq = 2
    FloorFaults = FALSE
SYMMETRY CallerSymmetry
INVARIANTS
    TypeOK
    ConfirmedIsDurable
PROPERTIES
    ImplementsChannel
    ConfigNeverGoesBack
