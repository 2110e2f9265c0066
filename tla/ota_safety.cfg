SPECIFICATION Spec
CONSTANTS
    u1 = u1
    u2 = u2
    u3 = u3
    Orders <- TwoReleases
    UpdateIds = {u1, u2, u3}
    NoId = NoId
    NoOrder = NoOrder
    Corrupt = Corrupt
    MaxVersion = 3
    SlotSize = 2
    RollbackDeadline = 1
    StallTimeout = 1
    ButtonWindow = 1
    PauseMqtt = TRUE
    RequireButton = TRUE
    HasButton = TRUE
    MandatoryWaives = TRUE
    AllowDowngrade = FALSE
    InboxCap = 1
    MaxFaults = 2
INVARIANTS
    TypeOK
    AlwaysBootable
    RecordsAgree
    QuietWhileFlashing
    UpdateReleasesAll
    WindowIsGiven
PROPERTIES
    ImplementsTrial
    RecordNeverGoesBack
    OnlyAfterTheServer
