SPECIFICATION Spec
CONSTANTS
    c1 = c1
    Clients <- One
    PacketKinds = {"garbage"}
    MaxPackets <- OneEach
    PeerEnds <- AnyEnd
    SlowPeers = {}
PROPERTY ClosedOnceWritten
