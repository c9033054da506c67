SPECIFICATION Spec
CONSTANTS
    c1 = c1
    Clients <- One
    PacketKinds = {"pong", "request", "query", "login", "reject", "garbage"}
    MaxPackets <- TwoEach
    PeerEnds <- AnyEnd
    SlowPeers = {c1}
INVARIANTS TypeOK NoLostWakeup RegistryExact
PROPERTIES ClosingFlushes ImplementsSessions
