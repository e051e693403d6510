\* A bulk transfer of two qTDs, the first of which may fail.
CONSTANTS
    Unit = {1, 2, 3, 4, 5}
    CtrlEp = {}
    BulkEp = {bulk}
    HubEp = {}
    HidEp = {}
    Stages = {2}
    MaxQtd = 2
    Spare = 3
    MaxDone = 9
    NULL = NULL
SPECIFICATION FairSpec
ACTION_CONSTRAINT OwnEnd
PROPERTIES
    FailedIsSignalled
\* A bulk submission without data ends in a trap.
CHECK_DEADLOCK FALSE
