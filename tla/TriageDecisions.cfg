SPECIFICATION FairSpec
CONSTANTS
    Reqs = {r1, r2}
    Reasons <- OperatorReasons
    Findings = {1}
    MaxTime = 1
    MaxOps = 2
    MaxFaults = 2
    None = None
CHECK_DEADLOCK FALSE
INVARIANTS
    TypeOK
    AuditAgrees
    AuditIsPath
PROPERTIES
    HandApprovalKept
    ResolvedStays
    SnoozeEnds
