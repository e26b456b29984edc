\* Two GUIDs, two device objects and one record a page.
SPECIFICATION FairSpec
CONSTANTS
    g1 = g1
    g2 = g2
    p1 = p1
    p2 = p2
    NoPdo = NoPdo
    NoGuid = NoGuid
    Pdos = {p1, p2}
    Guids = {g1, g2}
    RequestedMtus <- MCRequestedMtus
    Capacity = 1
INVARIANTS OneDevicePerGuid  AbsentMeansGone
PROPERTY RemoveTerminates
CHECK_DEADLOCK FALSE
