SPECIFICATION FairSpec
CONSTANTS
    a = a
    b = b
    c = c
    Routers = {a, b, c}
    Subnets = {1, 2, 3}
    Loaded <- MCLoaded
    Origins = {a}
    Cables <- Triangle
    Cabled <- Row
    Configured = {a, b}
    ShutPorts <- MCShutPorts
    Readdressed <- MCReaddressed
    Duplicates <- MCDuplicates
    Infinity = 4
    None = None
    MaxChanges = 2
INVARIANTS
    RoutesSound
    TablesFollow
PROPERTIES
    Converges
