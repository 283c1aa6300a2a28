SPECIFICATION Spec
CONSTANTS
    Kinds = {"alert","hb"}
    WordBits = 3
    Window = 1
    MaxSeq = 3
    RetxCount = 2
    MaxFailures = 1
    MaxRotations = 0
INVARIANTS
    TypeOK
    AwaitedAckPasses
    DuplicateMeansSeen
PROPERTIES
    ImplementsLog
