SPECIFICATION FairSwitchSpec
CONSTANTS
    a = a  b = b  c = c
    Networks <- MCNetworks
    Hosts = {a, b, c}
    Broadcast = Broadcast
INVARIANTS
    OnceAndInVLAN
PROPERTIES
    EveryFrameArrives
    StormNeverEnds
