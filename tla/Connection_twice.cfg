SPECIFICATION Spec
CONSTANTS
    MaxSends = 0
    MaxReads = 0
CHECK_DEADLOCK FALSE
INVARIANT
    ClosedOnce
