SPECIFICATION SettingsSpec
CONSTANTS
    Settings = {"configured"}
    Client = Client
    Server = Server
    Host <- Hosts
    Packets <- OneWay2
    Ending = {Client}
    DataLen = 2
    HdrLength = 20
    RcvWnd = 6
    MaxSynRetries <- NoSynRetry
    AckType = "Undelayed"
    IssStep = 100
    Duplicating = FALSE
    Lossy = FALSE
    MaxTcbs = 2
    MaxTimeWait = 2
INVARIANTS
    EndedStreamIsComplete
CHECK_DEADLOCK FALSE
