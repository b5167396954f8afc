SPECIFICATION Spec
CONSTANTS
    Ports <- MCPorts
    Addrs <- MCAddrs
    Uplinks = {"wan"}
    IfAddr <- MCIfAddr
    Inside <- MCInside
    Neighbours <- MCNeighbours
    Servers <- MCServers
    Nets <- MCNets
    PrefixLen <- MCPrefixLen
    Routes0 <- MCRoutes0
    Traffic <- MCTraffic
    Arriving <- MCArriving
    ACLs = {"l"}
    Rules <- MCRules
    Statics <- MCStatics
    Entries <- MCEntries
    PSKs = {"none", "k"}
    LocalKey = "k"
    RemoteKey = "k"
    RemoteKeyOfItself = "none"
    Filters <- MCFilters
    MaxSetup = 2
    MaxEdits = 1
    None = "none"
INVARIANTS
    PacketsSound
    ReplyToAsker
PROPERTIES
    PATForSenders
    TreatedAsConfigured
    TunnelRouteSwallows
CHECK_DEADLOCK FALSE
