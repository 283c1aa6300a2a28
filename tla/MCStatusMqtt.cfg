SPECIFICATION StatusSpec
CONSTANTS
    MaxChanges = 2
    MaxDrops = 1
PROPERTY RetainedIsCurrent
CHECK_DEADLOCK FALSE
