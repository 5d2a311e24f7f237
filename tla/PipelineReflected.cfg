CONSTANTS
    router = router
    bridge = bridge
    None = None
    Macs = {router, bridge}
    Vendors = {"acme", "bolt"}
    Ips = {"lan1", "lan2", "pub"}
    PrivateIps = {"lan1", "lan2"}
    OuiInfra = {bridge}
    LocalMacs = {}
    Oui <- MCOui
    Packets <- MCPackets
    ImportIps = {}
    MainOps = {}
    MaxTracked = 1
    DbFaults = FALSE
    Restarts = FALSE
SPECIFICATION Spec
INVARIANTS
    GatewayIdentityNotReflected
