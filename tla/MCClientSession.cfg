SPECIFICATION FairSpec
CONSTANTS
    MaxHandlers = 3
    MaxPackets = 3
    AppOutcomes = {"ok", "register", "leave", "fail"}
INVARIANT FinishedNotPolled
PROPERTIES ImplementsCalls CallersAnswered
CHECK_DEADLOCK FALSE
