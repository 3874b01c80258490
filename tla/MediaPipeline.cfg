SPECIFICATION Spec
SYMMETRY Symmetry
CONSTANTS
    Asset = {a1, a2}
    Content = {c1, c2}
    Object = {o1, o2}
    Run = {r1, r2}
    Request = {q1}
    None = None
    MaxRetry = 1
    MaxRegen = 1
    Budget = 6
INVARIANTS
    ResultsAreTrue
    RunsAreAccountedFor
PROPERTY
    LegalMoves
CHECK_DEADLOCK FALSE
