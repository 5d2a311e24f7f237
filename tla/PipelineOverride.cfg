CONSTANTS
    router = router
    bridge = bridge
    None = None
    Macs = {router}
    Vendors = {"acme", "bolt"}
    Ips = {"lan1", "lan2", "pub"}
    PrivateIps = {"lan1", "lan2"}
    OuiInfra = {}
    LocalMacs = {}
    Oui <- NoOui
    Packets <- PlainPackets
    ImportIps = {}
    MainOps = {"override"}
    MaxTracked = 2
    DbFaults = FALSE
    Restarts = FALSE
SPECIFICATION Spec
INVARIANTS
    OverrideSynced
