SPECIFICATION FairSpec
CONSTANTS
    r1 = r1  r2 = r2
    Routers = {r1, r2}
    Cables <- Pair
    Subnets = {n1}
    Gateways = {r1}
    DeadCycles = 1
    ShutPorts <- One
    None = None
INVARIANTS
    NeighborsSound
PROPERTIES
    DeadNeighborsGo
