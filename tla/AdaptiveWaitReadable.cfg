\* Captures and adaptive reads against a READABLE wait and a queue stop.
SPECIFICATION Spec
CONSTANTS
    Requests = {r1}
    NoRequest = none
    Stoppers = {s1}
    Kinds = {"queue"}
    Interests <- ReadableOnly
    Directions = {"readable"}
    Callers = {"tx", "read"}
    CaptureLimit = 1
    InjectionLimit = 1
    MaxSequence = 1
INVARIANTS
    NoLostWakeup
    StoppedDirectionHasNoWait
CHECK_DEADLOCK FALSE
