SPECIFICATION FairSpec
CONSTANTS
    j1 = j1
    j2 = j2
    w1 = w1
    w2 = w2
    s1 = s1
    s2 = s2
    c1 = c1
    c2 = c2
    NoJob = NoJob
    Job = {j1}
    Worker = {w1}
    Slot = {s1}
    Caller = {c1}
    Ops = {"rearm", "retry", "cancel", "correlate"}
    MaxAttempts <- TwoAttempts
    Rank <- SameRank
    Polls <- AllQueues
    Handled = {j1}
    Cancellable = {j1}
    ReportsProgress = {j1}
    ReportsLate = {j1}
    Delays = {0, 1}
    Timeout = 1
    Backoff = 1
    ReclaimEvery = 2
    MaxFaults = 2
    DbMayFail = TRUE
    PromptDb = FALSE
PROPERTY JobsSettle
