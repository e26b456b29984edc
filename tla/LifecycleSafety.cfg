\* Packet callbacks, reads and mode changes against one handle and power cycles.
SPECIFICATION Spec
CONSTANTS
    Handles = {h1}
    Workers = {"tx", "rx", "read", "control"}
    MaxGeneration = 1
    MaxPower = 6
INVARIANTS
    
    CaptureBelongsToOwner
CHECK_DEADLOCK FALSE
