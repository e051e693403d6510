\* A bulk endpoint with transfers of two qTDs, under fairness.
CONSTANTS
    Unit = {1, 2, 3, 4}
    CtrlEp = {}
    BulkEp = {bulk}
    HubEp = {}
    HidEp = {}
    Stages = {2}
    MaxQtd = 2
    Spare = 2
    MaxDone = 9
    NULL = NULL
SPECIFICATION FairSpec
ACTION_CONSTRAINT OwnEnd
PROPERTIES
    CompletedIsSignalled
    RemovedIsFreed
\* A bulk submission without data ends in a trap.
CHECK_DEADLOCK FALSE
