\* A control, a bulk and an interrupt endpoint that its callback resubmits.
CONSTANTS
    Unit = {u1, u2, u3, u4, u5, u6}
    CtrlEp = {ep0}
    BulkEp = {bulk1}
    IntEp = {hid}
    QuitEp = {bulk1, hid}
    Stages = {2}
    MaxTd = 2
    Spare = 4
    NULL = NULL
SPECIFICATION Spec
CONSTRAINTS NotAgain FewLost
SYMMETRY Symmetry
INVARIANTS
    TypeOK
    UnitsInPlace
    HeldIsAllocated
    PipesAlive
    NoLeak
PROPERTIES
    Implements
