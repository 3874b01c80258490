SPECIFICATION Spec
CONSTANTS
    q1 = q1
    q2 = q2
    u1 = u1
    p1 = p1
    p2 = p2
    e1 = e1
    e2 = e2
    NoRequest = NoRequest
    Request = {q1}
    User = {u1}
    Exec = {e1, e2}
    Photo = {}
    OwnerOf <- OneUser
    TypeOf <- Deletions
    PhotoOwner <- OwnedByU1
    Url <- BucketUrls
    Cancels = FALSE
    ManualTypes <- AllButDeletion
    UserActive = FALSE
    SelfService = FALSE
SYMMETRY Symmetry
INVARIANTS
    ProcessingHasWork
