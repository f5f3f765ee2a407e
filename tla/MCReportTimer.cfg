SPECIFICATION FairSpec
CONSTANTS
    UsPerMs = 2
    Period = 3
    Holdoff = 4
    Capacity = 2
    TimerMod = 3
    ClockMod = 32
    MaxTime = 8
    PortMayRefuse = FALSE
INVARIANTS
    TypeOK
    TimerListConsistent
    PeriodicIsScheduled
    RepliesOfThisConnection
    NextReportIsNear
PROPERTIES
    HoldoffIsKept
    NoCatchUpBurst
    RepliesKeepMoving
