SPECIFICATION Spec
CONSTANTS
    Gap = 1
    MaxSessions = 1
    MaxKills = 1
    Workers = {w1}
    NameCount = 1
    MaxSent = 1
INVARIANT SuccessHasAccount
CHECK_DEADLOCK FALSE
