\* Two hubs, which make a chain of depth two or stand side by side, and one
\* other device, below two root ports; all hubs below the same one.
SPECIFICATION Spec
CONSTANTS
    NCtrl = 2
    Hubs = {h1, h2}
    Funcs = {f1}
    NPorts = 2
    MaxHub = 2
    MaxDev = 3
    Plugs = 3
    Unplugs = 1
    Fails = 1
    Events = 1
    NULL = NULL
    h1 = h1
    h2 = h2
    f1 = f1
CONSTRAINT HubsTogether
SYMMETRY Symmetry
INVARIANTS
    TypeOK
    ParentsLive
    OnePerPort
    HubsOwned
    HandledIsLive
    HubsListen
