SPECIFICATION FairSpec
CONSTANTS
    c1 = c1
    c2 = c2
    Clients <- Two
    HistoryLength = 2
    MaxMessages = 3
    MaxLobbies <- FirstTwice
INVARIANTS TypeOK NoMessageSleeps
PROPERTIES ImplementsChatRoom MessagesShown
