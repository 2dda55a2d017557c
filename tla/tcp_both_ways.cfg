SPECIFICATION SettingsSpec
CONSTANTS
    Settings = {"configured", "reopening"}
    Client = Client
    Server = Server
    Host <- Hosts
    Packets <- TwoAndOne
    Ending = {Client}
    DataLen = 2
    HdrLength = 20
    RcvWnd = 6
    MaxSynRetries <- NoSynRetry
    AckType = "Undelayed"
    IssStep = 100
    Duplicating = FALSE
    Lossy = TRUE
    MaxTcbs = 2
    MaxTimeWait = 3
INVARIANTS
    TypeOK
    InFlightIsQueued
    SequenceAgreement
    TimeWaitWillExpire
    OnlyKnownFaults
PROPERTIES
    NeverRetreats
CHECK_DEADLOCK FALSE
