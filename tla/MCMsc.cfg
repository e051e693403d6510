\* Two ports and two device structures; three interfaces and three disk
\* structures for disks of up to two units and composite devices of up to
\* two interfaces; two drive numbers, so that they run out.
SPECIFICATION Spec
CONSTANTS
    Port = {p1, p2}
    NDev = 2
    NIface = 3
    NMsc = 3
    NDrive = 2
    MaxIf = 2
    MaxLun = 1
    NULL = NULL
SYMMETRY Symmetry
INVARIANTS MscLive DrivesExact NoLeak
