SPECIFICATION FairSpec
CONSTANTS
    Kinds = {"alert"}
    WordBits = 3
    Window = 1
    MaxSeq = 2
    RetxCount = 2
    MaxFailures = 0
    MaxRotations = 1
INVARIANTS
    AckedIsStored
PROPERTIES
    SendTerminates
    VerifiedIsStored
