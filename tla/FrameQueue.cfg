SPECIFICATION QueueSpec
CONSTANTS
    f1 = f1
    f2 = f2
    f3 = f3
    f4 = f4
    f5 = f5
    Uninit = Uninit
    Frames <- Pool
    Size <- Sizes
    FrameMinimum = 2
    FrameMaximum = 5
    Limit = 3
INVARIANTS
    WindowIsInitialised
    EveryFrameHasOneOwner
    WritableMeansRoom
PROPERTIES
    ImplementsFifo
