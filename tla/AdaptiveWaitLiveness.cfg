\* Progress of a READABLE wait against captures, D0 exit and EvtIoStop.
SPECIFICATION FairSpec
CONSTANTS
    Requests = {r1}
    NoRequest = none
    Stoppers = {s1}
    Kinds = {"power", "iostop"}
    Interests <- ReadableOnly
    Directions = {"readable"}
    Callers = {"tx"}
    CaptureLimit = 1
    InjectionLimit = 1
    MaxSequence = 1
INVARIANTS
    OwnershipInv
PROPERTIES
    RecordResolves
    CancelledWaitCompletes
    ReadyWaitIsTaken
CHECK_DEADLOCK FALSE
