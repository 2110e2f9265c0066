CONSTANTS
    RedoPdpAfter = 3
    ResetModemAfter = 5
    Ips = {ip1, ip2}
    NoIp = NoIp
    Both = FALSE
    WifiOnly = FALSE
    PauseMqtt = TRUE
SPECIFICATION FairSpec
INVARIANTS
    SomeoneResumes
    LeaseIsMatched
    TopicsAskedAgain
PROPERTIES
    ResetIsLastResort
    LeaseReturned
    Reconnects
