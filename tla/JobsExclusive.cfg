SPECIFICATION Spec
CONSTANTS
    j1 = j1
    j2 = j2
    w1 = w1
    w2 = w2
    s1 = s1
    s2 = s2
    c1 = c1
    c2 = c2
    NoJob = NoJob
    Job = {j1, j2}
    Worker = {w1, w2}
    Slot = {s1, s2}
    Caller = {}
    Ops = {}
    MaxAttempts <- TwoAttempts
    Rank <- RankByJob
    Polls <- AllQueues
    Handled = {j1}
    Cancellable = {j1}
    ReportsProgress = {j1}
    ReportsLate = {}
    Delays = {0}
    Timeout = 1
    Backoff = 1
    ReclaimEvery = 2
    MaxFaults = 1
    DbMayFail = FALSE
    PromptDb = TRUE
SYMMETRY Symmetry
INVARIANT Exclusive
PROPERTY ImplementsLease
