SPECIFICATION IdentitySpec
CONSTANTS
    e1 = e1
    e2 = e2
    IdentityCall = {x1}
    Account = {z1, z2}
    Address = {e1, e2}
    Likes <- Wildcards
    GoogleSubject = {g1}
    AppleSubject = {}
    MaxBegun = 3
    NoOne = NoOne
CHECK_DEADLOCK FALSE
INVARIANT
    LinkedByItsAddress
