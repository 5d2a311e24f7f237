CONSTANTS
    None = None
    Corrupt = Corrupt
    Stray = Stray
    Ifaces = {eth0}
    Modes = {"controlled", "direct"}
    Selections <- Repeats
    Cap = 1
    RingCap = 2
    MaxConns = 2
    MaxFrames = 3
    MaxOps = 2
    MaxFaults = 2
SPECIFICATION Spec
CONSTRAINT FewFrames
CHECK_DEADLOCK FALSE
INVARIANTS
    TypeOK
    
    ShownMatchesSensor
    OneSession
    LeakHasCause
    FramesInOrder
PROPERTY
    HangIsFinal
