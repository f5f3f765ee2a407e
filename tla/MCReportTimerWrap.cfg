SPECIFICATION FairSpec
CONSTANTS
    UsPerMs = 2
    Period = 3
    Holdoff = 4
    Capacity = 2
    TimerMod = 3
    ClockMod = 8
    MaxTime = 7
    PortMayRefuse = FALSE
INVARIANTS
    PeriodicIsScheduled
