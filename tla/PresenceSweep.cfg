CONSTANTS
    None = None
    Macs = {m1, m2}
    Infra = {m1}
    Usual <- SameUsual
    Default = 1
    Settings = {2}
    InfraLimit = 1
    MaxTime = 2
    MaxUpsets = 1
SPECIFICATION FairSpec
INVARIANTS
    TypeOK
    FindingsTrackRows
    OneOpenPerOutage
PROPERTIES
    ImplementsView
    ViewConverges
