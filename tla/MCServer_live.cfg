SPECIFICATION FairSpec
CONSTANTS
    c1 = c1
    Clients <- One
    PacketKinds = {"login", "reject"}
    MaxPackets <- OneEach
    PeerEnds <- AnyEnd
    SlowPeers = {c1}
PROPERTIES EndedClientsLeave ClosingClientsLeave LobbyOpens
