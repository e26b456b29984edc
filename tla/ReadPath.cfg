SPECIFICATION FairSpec
CONSTANTS
    Reads = {r1, r2, r3}
    NoRead = none
    ReadLimit = 2
    CaptureLimit = 2
    MaxPackets = 2
INVARIANTS
    PendingReadsCoverReads
    CleanupCompletesReads
PROPERTIES
    CaptureServesReads
CHECK_DEADLOCK FALSE
