\* A control and a bulk endpoint.  Five units are enough for both, but not for
\* descriptors waiting for the doorbell as well: every allocation of a
\* submission fails in some state.
CONSTANTS
    Unit = {1, 2, 3, 4, 5}
    CtrlEp = {ep0}
    BulkEp = {bulk}
    HubEp = {}
    HidEp = {}
    Stages = {3}
    MaxQtd = 1
    Spare = 2
    MaxDone = 2
    NULL = NULL
SPECIFICATION Spec
CONSTRAINTS BeforeFault OneOrphan
ACTION_CONSTRAINT OwnEnd
INVARIANTS
    TypeOK
    QtdsOnOneList
    PipesAlive
    NoLeak
    NotBusy
    HeldIsAllocated
PROPERTIES
    Implements
    MarkRespected
CHECK_DEADLOCK FALSE
