SPECIFICATION Spec
CONSTANTS
    Neutral <- MCNeutral
    States <- MCStates
    Buttons = {"a", "b"}
    StickMax = 3
    I16Max = 3
    I64Max = 5
    U16Max = 3
    U32Max = 3
    U64Max = 7
    DebugClients = {d1}
    OtherClients = {o1}
    Argvs <- MCArgvs
    Lines <- MCLines
    HeartbeatEnabled = TRUE
    MaxWaiting = 1
    MaxUpdates = 2
    MaxStarts = 2
CHECK_DEADLOCK FALSE
INVARIANTS
    TypeOK
    SuccessWasInForce
PROPERTIES
    LineDoesWhatItSays
    ClientsFinish
