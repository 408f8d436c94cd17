SPECIFICATION FairSpec
CONSTANTS
    Threads = {t1, t2}
    NoThread = NoThread
    Severities = {1, 2}
    FileSeverities = {0, 2}
    Warning = 2
    Times = {1, 2}
    MaxLogs = 2
    MaxFiles = 2
    MaxRemovals = 1
CHECK_DEADLOCK FALSE
INVARIANTS
    TypeOK
    OutputsAgree
PROPERTY
    LogReturns
