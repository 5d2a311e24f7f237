CONSTANTS
    None = None
    Corrupt = Corrupt
    Stray = Stray
    Ifaces = {eth0}
    Modes = {"controlled"}
    Selections <- OneList
    Cap = 1
    RingCap = 1
    MaxConns = 1
    MaxFrames = 2
    MaxOps = 2
    MaxFaults = 0
SPECIFICATION FairSpec
CHECK_DEADLOCK FALSE
PROPERTY
    CaptureStops
