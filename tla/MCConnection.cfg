SPECIFICATION FairSpec
CONSTANTS
    Header = 2
    Chunk = 2
    KeyLength = 3
    Offers <- Mixed
    MaxSent <- TwoEach
    Capacity = 3
INVARIANTS TypeOK PacketsInOrder
PROPERTIES PacketsArrive ImplementsChannel
