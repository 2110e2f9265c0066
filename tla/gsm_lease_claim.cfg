CONSTANTS
    RedoPdpAfter = 3
    ResetModemAfter = 5
    Ips = {ip1, ip2}
    NoIp = NoIp
    Both = TRUE
    WifiOnly = FALSE
    PauseMqtt = TRUE
SPECIFICATION Spec
INVARIANTS
    LeaseIsMatched
