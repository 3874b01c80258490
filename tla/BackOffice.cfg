SPECIFICATION DeskSpec
SYMMETRY Symmetry
CONSTANTS
    m1 = m1
    n1 = n1
    k1 = k1
    t1 = t1
    c1 = c1
    c2 = c2
    c3 = c3
    x1 = x1
    x2 = x2
    y1 = y1
    y2 = y2
    z1 = z1
    z2 = z2
    None = None
    Null = Null
    Ticket = {t1}
    Response = {x1, x2}
    Escalation = {y1}
    Sender = {z1, z2}
    MaxLost = 1
    Content = {c1, c2, c3}
    Complete = {c1, c2}
    Input <- Forms
    Creator = {x1, x2}
    MaxVersion = 3
    Repit = {m1, n1}
    Touched = {m1}
    Report = {x1, x2}
    Reviewer = {t1}
    Opener = {y1, y2}
    Request = {z1, z2}
    Key = {k1}
CHECK_DEADLOCK FALSE
INVARIANTS
    DeskTypeOK
    RepliesFollowTheCase
    OutcomeIsTrue
    VersionsFit
    CertificationIsTrue
    QueueIsTrue
    DecisionsStand
PROPERTIES
    DoneIsLeftByReopen
    HiddenUntilReportedAgain
