SPECIFICATION TransportSpec
CONSTANTS
    Client = Client
    Server = Server
    Variant = "NewReno"
    MSS = 10922
    PktLen = 10922
    InitSSThresh = 65535
    Scale = 1
    ISS = 1
    MaxPackets = 9
    MaxDupAcks = 4
INVARIANTS
    TypeOK
    WindowAdmitsSegment
    NoStall
    FlightSizeIsExact
    RecoveryCanEnd
PROPERTIES
    ImplementsStream
    TahoeThirdInARow
    DataIsAcknowledged
    BothEndsClose
CHECK_DEADLOCK FALSE
