\* Two registrations with either interest, against receive, writes and owner cleanup.
SPECIFICATION Spec
CONSTANTS
    Requests = {r1}
    NoRequest = none
    Stoppers = {s1}
    Kinds = {"owner"}
    Interests <- EitherBit
    Directions = {"readable", "writable"}
    Callers = {"rx", "write"}
    CaptureLimit = 1
    InjectionLimit = 1
    MaxSequence = 3
INVARIANTS
    NoLostWakeup
    SuccessReportsReadiness
    ClosedInstanceHasNoWait
    ScheduledMaskIsCurrent
    AtMostOneCompletion
    UnmarkTouchesLiveRequest
CHECK_DEADLOCK FALSE
