SPECIFICATION ExchangeSpec
CONSTANTS
    x1 = x1
    x2 = x2
    r1 = r1
    r2 = r2
    s1 = s1
    s2 = s2
    t1 = t1
    t2 = t2
    Nothing = Nothing
    Export = {x1, x2}
    Reader = {r1, r2}
    Prompt = {x2}
    FetchRetries = 2
    Nobody = Nobody
    Tune = {s1, s2}
    LocalTune = {s2}
    MaxLength = 3
    MaxEdits = 1
    BatchSize = 2
    ReadCap = 2
    PageLimit = 1
    MaxShared = 2
    NoTune = NoTune
    Template = {t1, t2}
    MaxVersion = 2
    Missing = Missing
    ByteSize = 4
    Threshold = 2
    SizeByte = 8
    Side = {0, 1, 5, 8}
    MaxDimension = 6
    MaxPixels = 20
CHECK_DEADLOCK FALSE
INVARIANTS
    ExchangeTypeOK
    SettledSingleUse
    ImportsAreTold
    PlaylistsAreWhole
    SettingsAreTold
    RepitsSaveBack
    PicturesAreJudged
PROPERTIES
    PackageErased
