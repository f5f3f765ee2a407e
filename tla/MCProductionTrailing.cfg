CONSTANTS
    Neutral = Neutral
    A = A
    States <- MCStates
    Client = 1
    Capacity = 2
    MaxUpdates = 3
SPECIFICATION Spec
CHECK_DEADLOCK FALSE
INVARIANT TrailingNeutralIsLast
