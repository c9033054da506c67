SPECIFICATION ProtocolSpec
CONSTANTS
    Seeds <- SomeSeeds
    Values <- SomeValues
    MaxBytes = 3
    Packets <- SomePackets
    Registered = {"scalars", "nested", "deep", "vector"}
    Integer <- SomeIntegers
    Lengths = {0, 127}
    Strings <- SomeStrings
    Stages = {"Connect", "Auth", "Lobby"}
    Waiters = {"connect", "kickoff", "login1", "login2", "login3"}
    StageOf <- SomeStages
    After <- ConnectFirst
INVARIANTS CipherTypeOK InStep FieldsArrive CutNoticed WorkConserving
PROPERTIES WaitersServed ImplementsLoading
CHECK_DEADLOCK FALSE
