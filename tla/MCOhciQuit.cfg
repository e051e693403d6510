\* An interrupt endpoint that its client stops while its callback resubmits.
CONSTANTS
    Unit = {u1, u2, u3, u4, u5, u6}
    CtrlEp = {}
    BulkEp = {}
    IntEp = {hid}
    QuitEp = {hid}
    Stages = {2}
    MaxTd = 1
    Spare = 0
    NULL = NULL
SPECIFICATION Spec
SYMMETRY Symmetry
INVARIANTS
    QuitIsQuiet
