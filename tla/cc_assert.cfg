SPECIFICATION Spec
CONSTANTS
    Variant = "NewReno"
    MSS = 1460
    PktLen = 1460
    InitSSThresh = 65535
    Scale = 1
    ISS = 1
    MaxPackets = 5
    MaxDupAcks = 4
INVARIANTS
    SendAssertion
CHECK_DEADLOCK FALSE
