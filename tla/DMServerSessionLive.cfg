SPECIFICATION FairSpec
CONSTANTS
    Nonces = {0, 1, 2, 3, 4, 5, 6, 7, 8}
    Resync = 0
    NoNonce = NoNonce
    CliProfiles = {1}
    SrvProfiles = {1}
    FirstCli = 1
    NotifyProfile = 1
    SecurityLevel = 1
    Honest = FALSE
    SrvAuth = 1
    Demand = 3
    MaxTries = 1
    MaxSessions = 1
PROPERTIES ImplementsManagementSession CancelEnds StrangersLeave
CHECK_DEADLOCK FALSE
