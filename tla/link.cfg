SPECIFICATION SuiteFairSpec
CONSTANTS
    h1 = h1
    h2 = h2
    r = r
    d1 = d1
    p1 = p1
    p2 = p2
    p3 = p3
    Host = {h1, h2, r}
    Remote = {d1}
    Packet = {p1, p2, p3}
    Src <- PacketSrc
    Dst <- PacketDst
    NextHop <- PacketNext
    RetryLimit = 1
    s1 = s1
    s2 = s2
    s3 = s3
    s4 = s4
    everyone = everyone
    StpSwitch <- Switches
    StpRank <- Rank4
    StpCost <- Cost4
    StpStation <- TwoHosts
    StpAt <- AtSwitch
    StpLan <- Lans
    w1 = w1
    w2 = w2
    w3 = w3
    q1 = q1
    q2 = q2
    q3 = q3
    Protocols = {"ARP", "STP", "DCF"}
INVARIANTS
    TypesOK
    WaitsForAnswer
    NoForwardingLoop
    TablesLeadToStation
    AckedIsDelivered
    AnswersMeetExchange
PROPERTIES
    BufferDrains
CHECK_DEADLOCK FALSE
