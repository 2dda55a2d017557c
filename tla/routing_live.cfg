SPECIFICATION SuiteFairSpec
CONSTANTS
    n1 = n1
    n2 = n2
    n3 = n3
    n4 = n4
    n5 = n5
    p1 = p1
    p2 = p2
    r1 = r1
    r2 = r2
    r3 = r3
    net1 = net1
    net2 = net2
    lsa1 = lsa1
    Low = Low
    High = High
    NULL = NULL
    Packet = {p1, p2}
    RerrDrops = 0
    Protocols = {"AODV", "RIP", "OSPF adjacency", "OSPF flooding", "RPL"}
    Node <- Nodes5
    Src <- FromN1AndN5
    Dst <- ToN4AndN1
    Link <- Line4
    Dropping = FALSE
    Beacons = {n4}
    Expiring = {}
    Timely = TRUE
    MaxRREQId = 12
    RipLink <- RouterRing
    RipAttached <- OneNetwork
    LSAs = {}
    PacketsLost = 0
    DsrFragile <- StarEnd
    DsrSrc <- FromN1AndN3
    DsrDst <- ToN4
    FloodLink <- RouterLine
    FloodOrigin = {r1, r2}
PROPERTIES
    NothingWaitsForever
    EachPacketArrives
    SettlesOnShortest
    DatabasesAgree
    DodagSettles
CHECK_DEADLOCK FALSE
