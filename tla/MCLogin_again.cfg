SPECIFICATION Spec
CONSTANTS
    c1 = c1
    c2 = c2
    Clients <- One
    Users = {u1, u2}
    NoUser = NoUser
    MaxRequests <- OnlyTwice
PROPERTY UserStays
