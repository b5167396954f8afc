SPECIFICATION Spec
CONSTANTS
    h1 = h1  h2 = h2  h3 = h3  rt = rt
    Requests = {r1, r2}
    Hosts <- MCHosts
    Routers <- MCRouters
    Pings <- TwoTargets
    Removable = {}
    ProtoTimer = "TIMER_HSRP"
    Interval = 1
    Timeout = 2
    Delays = {1}
    TicksPerMs = 2
    IDSpace = 65536
    None = None
    MaxClock = 1
    MaxCopies = 1
SYMMETRY RequestSymmetry
INVARIANTS
    PingsSound
PROPERTIES
    EngineSpec
