\* One slot per endpoint; the negotiation decides the mode.
SPECIFICATION FairSpec
CONSTANTS
    s1 = s1
    s2 = s2
    Slots = {s1, s2}
    EndpointOf <- MCEndpointOf
    MaxGeneration = 2
    MaxBusyRetries = 1
    ReopenAttempts = 3
INVARIANTS
    
    BufferHasOneUser
    NoSlotIsLost
    ClosedMeansUnused
    WaitBufferIsReserved
    BlockedMeansArmed
PROPERTY StopCompletes
