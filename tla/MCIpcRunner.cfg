SPECIFICATION FairSpec
CONSTANTS
    Neutral = Neutral
    A = A
    States <- MCStates
    Sequences_ <- MCSequences
    MaxClients = 2
    HeartbeatTimeout = 2
    ClockMod = 4
    LineMax = 2
    MaxInbox = 2
    MaxUpdates = 2
INVARIANTS
    TypeOK
    OwnerIsConnected
    EveryUpdateIsCounted
PROPERTIES
    WaitingCommandIsServed
    OverdueClientIsDropped
    ImplementsControllerLease
