\* A hub and a device that is pulled out and plugged in again; no request fails.
SPECIFICATION FairSpec
CONSTANTS
    NCtrl = 1
    Hubs = {h1}
    Funcs = {f1}
    NPorts = 2
    MaxHub = 1
    MaxDev = 2
    Plugs = 3
    Unplugs = 2
    Fails = 0
    Events = 0
    NULL = NULL
    h1 = h1
    f1 = f1
PROPERTIES
    Recognised
