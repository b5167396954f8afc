SPECIFICATION FairSpec
CONSTANTS
    Timers <- MCTimers
    Interval <- MCInterval
    StartOrder <- MCStartOrder
    Dispatched <- MCDispatched
    Undispatched <- MCUndispatched
    Offsets = {0, 1, 2}
    None = None
    MaxClock = 6
    MaxEvents = 6
INVARIANTS
    QueueSound
PROPERTIES
    TimersFire
