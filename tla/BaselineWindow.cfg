CONSTANTS
    None = None
    Macs = {m1}
    Configs <- MCConfigs
    Floor = 1
    BurstWindow = 1
    BurstThreshold = 1
    Ratio = 5
    MaxTime = 2
    MaxOps = 1
SPECIFICATION FairSpec
INVARIANTS
    TypeOK
    WarningMonitored
    DiscoveryCounted
PROPERTIES
    ContextFinal
    LearningEnds
