SPECIFICATION Spec
SYMMETRY Symmetry
CONSTANTS
    User = {u1}
    Process = {p1, p2}
    Session = {s1, s2}
    Nonce = {n1}
    Request = {q1, q2}
    None = None
    OwnerOps = {"touch", "leave"}
    MaxRequests = 4
    MaxOutages = 1
INVARIANTS
    RevocationsHold
CHECK_DEADLOCK FALSE
