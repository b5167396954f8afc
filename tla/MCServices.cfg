SPECIFICATION ServicesSpec
CONSTANTS
    Routers = {r1, r2}
    VIPs = {v1}
    Priorities = {100, 110}
    None = None
    MaxConfigs = 3
    SerialEnds = {e1, e2}
    Connections = {c1, c2}
    MaxSerialConfigs = 3
    ra = ra  rb = rb  rc = rc
    CDPRouters = {ra, rb, rc}
    CDPNetworks <- MCNetworks
    Holdtime = 3
    sa = sa  sb = sb  qa = qa  qb = qb
    VTPSwitches = {sa, sb}
    VLANIDs = {10}
    VTPMenu <- MCVTPMenu
    NoDomain = ""
    MaxNames = 2
    BGPRouters = {qa, qb}
    BGPMenu <- MCBGPMenu
    Phones = {p1, p2}
    icmp = icmp  udp = udp
    QoSPorts = {f0}
    QoSClasses = {ca, cb}
    QoSPolicies = {pm}
    Traffic = {icmp, udp}
    Matches <- MCMatches
    Rates = {1, 2}
    Unit = 2
    NoPolicy = NoPolicy
    NoPacket = NoPacket
    MaxNow = 2
    MaxPassed = 2
    MaxPolicyLines = 2
INVARIANTS
    BGPUseless
    CallsSound
PROPERTIES
    ElectionSettles
    OutrankedStaysActive
    PPPStaysInLCP
    NeighborsAge
    GoneIsForgotten
    DatabasesGrow
    ClientsCatchUp
    PolicerFair
