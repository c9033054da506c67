SPECIFICATION FairSpec
CONSTANTS
    Gap = 1
    MaxSessions = 3
    MaxKills = 3
    Workers = {w1, w2}
    NameCount = 2
    MaxSent = 2
INVARIANTS SpawnsInTurn NothingMissed OneLineEach RelayedInOrder
PROPERTIES ComesBack EveryNameAnswered
CHECK_DEADLOCK FALSE
