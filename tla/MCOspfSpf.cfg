SPECIFICATION SpfSpec
CONSTANTS
    Routers = {r1, r2, r3, r4}
    Subnets = {s}
    Root = r1
    Infinity = 999999
INVARIANTS
    SPFCorrect
    NoSubnetReached
