SPECIFICATION Spec
CONSTANTS
    Calls = {c1, c2}
    Runtimes = {"native"}
    Accounts = {}
    StoredClasses = {4, 9}
    LimitMax = 3
    DefaultLimit = 2
    MaxReceived = 2
    MaxOutages = 1
    Queries <- MCQueries
    MaxSwaps = 1
INVARIANT ShownMatchesParams
PROPERTY CallsAnswered
CHECK_DEADLOCK FALSE
