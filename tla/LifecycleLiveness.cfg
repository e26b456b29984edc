\* Teardown against a packet callback and writes that keep coming.
SPECIFICATION FairSpec
CONSTANTS
    Handles = {h1}
    Workers = {"tx", "write"}
    MaxGeneration = 1
    MaxPower = 5
INVARIANTS
    PoweredDownIsQuiet
PROPERTIES
    CleanupCompletes
    PowerCallbackCompletes
