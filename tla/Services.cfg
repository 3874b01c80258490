SPECIFICATION ServicesSpec
SYMMETRY Symmetry
CONSTANTS
    b1 = b1
    b2 = b2
    b3 = b3
    e1 = e1
    e2 = e2
    g1 = g1
    k1 = k1
    s1 = s1
    s2 = s2
    s3 = s3
    t1 = t1
    t2 = t2
    x1 = x1
    x2 = x2
    y1 = y1
    y2 = y2
    z1 = z1
    z2 = z2
    Admin = {t1, t2}
    BootAdmin = t1
    AdminCall = {x1, x2}
    Challenge = {b1, b2, b3}
    MaxAttempts = 2
    MaxLink = 2
    MaxAsked = 3
    Blank = Blank
    Spot = {y1, y2}
    SpotClock = 3
    NoSpot = NoSpot
    Campaign = {z1, z2}
    CampaignCall = {x1, x2}
    Subscriber = {y1, y2}
    Device = {s1}
    MaxCampaignCalls = 2
    NoCampaign = NoCampaign
    IdentityCall = {x1, x2}
    Account = {z1, z2}
    Address = {e1, e2}
    Likes <- Wildcards
    GoogleSubject = {g1}
    AppleSubject = {k1}
    MaxBegun = 3
    NoOne = NoOne
    MusicCall = {x1, x2}
    MusicProcess = {y1, y2}
    OAuthState = {s1}
    MaxRow = 2
    Offers <- ProvidersOffered
    Absent = Absent
    LookupCall = {z1, z2}
    Visitor = {x1, x2}
    LookupKey = {s1, s2, s3}
    AppleKey = {s2}
    PlaylistKey = {s1}
    Unset = Unset
CHECK_DEADLOCK FALSE
INVARIANTS
    ServiceTypeOK
    SuperAdminStays
    ChallengesAreSingle
    CampaignsAreTrue
    SubjectsAreTheirOwn
    ConnectionsHold
    LookupsHold
PROPERTIES
    OnlyTheLateUndo
