SPECIFICATION Spec
CONSTANTS
    Nonces = {0, 1, 2, 3, 4, 5, 6, 7, 8}
    Resync = 0
    NoNonce = NoNonce
    CliProfiles = {3}
    SrvProfiles = {3}
    FirstCli = 3
    NotifyProfile = 3
    SecurityLevel = 3
    Honest = TRUE
    SrvAuth = 3
    Demand = 3
    MaxTries = 2
    MaxSessions = 3
INVARIANTS TypeOK StoredNonceDelivered HonestSidesRecover
PROPERTIES NoncesAgree
CHECK_DEADLOCK FALSE
