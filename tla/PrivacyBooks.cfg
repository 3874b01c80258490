SPECIFICATION ScopedSpec
CONSTANTS
    q1 = q1
    q2 = q2
    u1 = u1
    p1 = p1
    p2 = p2
    e1 = e1
    e2 = e2
    NoRequest = NoRequest
    Request = {q1, q2}
    User = {u1}
    Exec = {e1, e2}
    Photo = {p1, p2}
    OwnerOf <- OneUser
    TypeOf <- DeletionAndExport
    PhotoOwner <- OwnedByU1
    Url <- MixedUrls
    Cancels = TRUE
    ManualTypes <- AllButDeletion
    UserActive = TRUE
    SelfService = TRUE
SYMMETRY Symmetry
INVARIANTS
    FulfilmentIsReal
    CleanupComplete
