SPECIFICATION Spec
CONSTANTS
    Reports <- MCReports
    States <- MCStates
    NeutralState <- MCNeutralState
    NeutralRumble = "neutral"
    Capacity = 2
    MaxReports = 5
INVARIANTS
    TypeOK
    ReportsCarryTheState
    RepliesFollowReports
PROPERTIES
    ImplementsReplyFifo
