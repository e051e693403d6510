\* Two hubs of one port each, on two root ports or one below the other, and room
\* for two devices: one request fails and one hub changes its own status.
SPECIFICATION FairSpec
CONSTANTS
    NCtrl = 2
    Hubs = {h1, h2}
    Funcs = {}
    NPorts = 1
    MaxHub = 2
    MaxDev = 2
    Plugs = 3
    Unplugs = 1
    Fails = 1
    Events = 1
    NULL = NULL
    h1 = h1
    h2 = h2
PROPERTIES
    ManagedUnlessDeaf
    
