CONSTANTS
    router = router
    bridge = bridge
    None = None
    Macs = {router}
    Vendors = {"acme", "bolt"}
    Ips = {"lan1", "lan2", "pub"}
    PrivateIps = {"lan1", "lan2"}
    OuiInfra = {}
    LocalMacs = {router}
    Oui <- NoOui
    Packets <- PlainPackets
    ImportIps = {"lan1"}
    MainOps = {"mark", "override", "clear", "reevaluate"}
    MaxTracked = 2
    DbFaults = TRUE
    Restarts = TRUE
SPECIFICATION Spec
INVARIANTS
    TypeOK
    KnownAnnounced
    NewHostOnce
PROPERTIES
    LocalNeverAnnounced
