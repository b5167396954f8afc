SPECIFICATION FairSpec
CONSTANTS
    h1 = h1  h2 = h2  r1 = r1
    p1 = p1  p2 = p2  p3 = p3  p4 = p4  a1 = a1
    Stations = {h1, h2}
    Routers = {r1}
    Packets = {p1, a1, p2}
    Src <- MCSrc
    Dst <- MCDst
    Answer <- MCAnswer
    Detachable = {h1, r1}
    None = None
INVARIANTS
    QueuesSound
PROPERTIES
    EveryPacketLeaves
CHECK_DEADLOCK FALSE
