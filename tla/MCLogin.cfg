SPECIFICATION FairSpec
CONSTANTS
    c1 = c1
    c2 = c2
    Clients <- Two
    Users = {u1}
    NoUser = NoUser
    MaxRequests <- TwiceOrOnceEach
INVARIANTS NoHalfAccount LoginPendingExact LobbyUserExists CaptchaPaysOnce TokensStayValid
PROPERTIES ImplementsAccounts DatabaseComesFree LoginAnswered
