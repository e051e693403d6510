\* The status endpoint of a hub, resubmitted by the main loop, and an endpoint
\* that its callback resubmits inside the handler.
CONSTANTS
    Unit = {1, 2, 3, 4, 5, 6}
    CtrlEp = {}
    BulkEp = {}
    HubEp = {hub}
    HidEp = {hid}
    Stages = {2}
    MaxQtd = 1
    Spare = 0
    MaxDone = 2
    NULL = NULL
SPECIFICATION Spec
CONSTRAINT BeforeFault
ACTION_CONSTRAINT OwnEnd
INVARIANTS
    QhsAllocated
    NoLeak
PROPERTIES
    Implements
