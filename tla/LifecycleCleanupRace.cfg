\* Owner cleanup that overlaps D0 entry.
SPECIFICATION Spec
CONSTANTS
    Handles = {h1}
    Workers = {"tx"}
    MaxGeneration = 1
    MaxPower = 4
INVARIANTS
    AdmittedQueueIsOpen
