\* Seven DMA units: two whole devices (1 + 2 units) and a request, or three
\* devices of which one has no buffer yet; three addresses: the counter wraps.
CONSTANTS
    DMA_MEM_UNIT_NUM = 7
    CFD_UNITS = 2
    MAX_DEV_ADDR = 3
    MaxBuf = 2
    MaxLost = 2
SPECIFICATION Spec
INVARIANTS
    TypeOK
    BlocksDisjoint
    FlagsExact
    CountsNeverLow
    DevicesOwnMemory
    AddressesExact
    AddressAvailable
