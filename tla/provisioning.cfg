CONSTANTS
    MaxTrouble = 2
    TopicSets <- MCTopicSets
    Configs <- MCConfigs
    HasFallback = FALSE
    OwnTopics = {"topic_ping"}
    HasScheme = TRUE
SPECIFICATION FairSpec
INVARIANTS
    AllOrNothing
    RestartKeepsIdentity
    SessionIsCurrent
    BootstrapForgotten
    NeverAnOlderConfig
    AddressFollowsConfig
CHECK_DEADLOCK FALSE
PROPERTIES
    ComesOnline
