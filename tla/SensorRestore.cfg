CONSTANTS
    None = None
    Corrupt = Corrupt
    Stray = Stray
    Ifaces = {eth0}
    Modes = {"controlled"}
    Selections <- OneList
    Cap = 1
    RingCap = 1
    MaxConns = 2
    MaxFrames = 0
    MaxOps = 2
    MaxFaults = 1
SPECIFICATION Spec
CHECK_DEADLOCK FALSE
INVARIANT
    StopHolds
