SPECIFICATION LabSpec
CONSTANTS
    PoolHosts = {2, 3}
    Excluded <- MCExcluded
    NoPool = NoPool
    RouterIds = {"r1", "r2"}
    HostIds = {"h1", "h2", "h3"}
    SwitchIds = {"s1"}
    Cables <- MCCables
    Iface0 <- MCIface0
    Public <- MCPublic
    Lans = {0}
    Files <- MCFiles
    MaxCommands = 5
    MaxCrashes = 1
    Absent = Absent
    Broken = Broken
INVARIANTS
    AddressesSound
    ReferencesSound
PROPERTIES
    SavesSound
CHECK_DEADLOCK FALSE
