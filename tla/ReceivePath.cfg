SPECIFICATION ReceiveFairSpec
CONSTANTS
    Frames = {f1, f2}
    Stale = Stale
    NoFrame = NoFrame
    QueueLimit = 1
    WriteLimit = 1
    PacketCount = 4
    FragmentCount = 4
    MaxFaults = 1
    MaxCancels = 1
INVARIANTS NoFrameSleeps FrameHasOnePlace
PROPERTY FrameIsIndicated
