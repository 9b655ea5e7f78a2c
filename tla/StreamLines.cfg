SPECIFICATION StreamSpec
CONSTANTS
    MaxLines = 2
    MaxDrops = 1
INVARIANTS
    MissedLinesReconciled
CHECK_DEADLOCK FALSE
