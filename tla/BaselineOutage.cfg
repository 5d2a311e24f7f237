CONSTANTS
    None = None
    Macs = {m1}
    Configs <- Ordinary
    Floor = 1
    BurstWindow = 1
    BurstThreshold = 2
    Ratio = 5
    MaxTime = 4
    MaxOps = 1
SPECIFICATION Spec
INVARIANTS
    OutageRelearned
