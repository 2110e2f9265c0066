CONSTANTS
    update = update
    config = config
    power = power
    long = long
    stub = stub
    overrun = overrun
    OwnTopics <- MCOwnTopics
    AppTopics <- MCAppTopics
    Cut <- MCCut
    ReadAs <- MCReadAs
    Messages <- MCMessages
    NoMessage = NoMessage
    MaxSubs = 2
    InboxCap = 1
    FragBytes = 1
    PollBytes = 1
    RingBytes = 2
    AssemblyBytes = 2
    Async = FALSE
    PauseMqtt = TRUE
SPECIFICATION FairSpec
INVARIANTS
    SubscriptionsSurvive
    OnlyWholeMessages
    NothingOutlivesClient
PROPERTIES
    FullRingGetsRoom
    Resubscribes
