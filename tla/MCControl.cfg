SPECIFICATION Spec
CONSTANTS
    Neutral = Neutral
    A = A
    B = B
    T1 = T1
    T2 = T2
    States <- MCStates
    Clients <- MCClients
    DirectClient <- MCDirectClient
    Callers <- MCCallers
    Sequences <- MCSequences
    MaxUpdates = 5
INVARIANTS
    TypeOK
    NeutralWhenUnowned
    InputIsOwners
PROPERTIES
    SequenceNeverGoesBack
    DirectOkMeansApplied
    ImplementsControllerLease
