SPECIFICATION Spec
CONSTANTS
    u1 = u1
    u2 = u2
    u3 = u3
    Orders <- AwkwardReleases
    UpdateIds = {u1, u2, u3}
    NoId = NoId
    NoOrder = NoOrder
    Corrupt = Corrupt
    MaxVersion = 3
    SlotSize = 2
    RollbackDeadline = 1
    StallTimeout = 1
    ButtonWindow = 1
    PauseMqtt = FALSE
    RequireButton = TRUE
    HasButton = TRUE
    MandatoryWaives = TRUE
    AllowDowngrade = FALSE
    InboxCap = 1
    MaxFaults = 0
INVARIANTS
    SinkServesOrder
