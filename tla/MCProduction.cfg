CONSTANTS
    Neutral = Neutral
    A = A
    States <- MCStates
    Client = 1
    Capacity = 2
    MaxUpdates = 3
SPECIFICATION FairSpec
CHECK_DEADLOCK FALSE
INVARIANTS
    TypeOK
    RunLoopOutlivesItsUsers
    SilentAfterPowerOff
    PendingNeutralIsAwaited
    NothingLeftBehind
PROPERTIES
    NoFailureAfterOpen
    ShutdownCompletes
