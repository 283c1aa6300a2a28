SPECIFICATION Spec
CONSTANTS
    Files <- MCFiles
    Tsx <- MCTsx
    Hidden <- MCHidden
    Exports <- MCExports
    MaxEdits = 3
    MaxCrashes = 1
    MaxRuns = 3
INVARIANT ListPromise
PROPERTY PagePromise
CHECK_DEADLOCK FALSE
