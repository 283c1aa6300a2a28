SPECIFICATION Spec
CONSTANTS
    Senders = {}
    MaxFd = 3
    MaxUnplugs = 2
CHECK_DEADLOCK FALSE
INVARIANTS
    ReaderSurvives
