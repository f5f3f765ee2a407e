SPECIFICATION FairSpec
CONSTANTS
    UsPerMs = 2
    Period = 3
    Holdoff = 4
    Capacity = 2
    TimerMod = 3
    ClockMod = 6
    MaxTime = 5
    PortMayRefuse = TRUE
PROPERTIES
    PendingNeutralLeaves
