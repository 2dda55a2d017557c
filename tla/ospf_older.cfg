SPECIFICATION SuiteSpec
CONSTANTS
    n1 = n1
    n2 = n2
    n3 = n3
    n4 = n4
    n5 = n5
    p1 = p1
    p2 = p2
    r1 = r1
    r2 = r2
    r3 = r3
    net1 = net1
    net2 = net2
    lsa1 = lsa1
    Low = Low
    High = High
    NULL = NULL
    Packet = {p1, p2}
    RerrDrops = 0
    Protocols = {"OSPF flooding"}
    Node <- Nodes3
    Src <- FromN1
    Dst <- ToN3
    Link <- Triangle
    Dropping = TRUE
    Beacons = {}
    Expiring = {n3}
    Timely = FALSE
    MaxRREQId = 2
    RipLink <- RouterLine
    RipAttached <- TwoNetworks
    LSAs = {lsa1}
    PacketsLost = 1
    DsrFragile <- StarEnd
    DsrSrc <- FromN1AndN3
    DsrDst <- ToN4
    FloodLink <- RouterRing
    FloodOrigin = {r1}
PROPERTIES
    NeverOlder
CHECK_DEADLOCK FALSE
