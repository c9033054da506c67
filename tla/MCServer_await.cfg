SPECIFICATION Spec
CONSTANTS
    c1 = c1
    Clients <- One
    PacketKinds = {}
    MaxPackets <- OneEach
    PeerEnds <- AnyEnd
    SlowPeers = {}
INVARIANT ShutdownAwaitsClients
