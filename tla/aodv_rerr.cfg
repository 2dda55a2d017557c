SPECIFICATION Spec
CONSTANTS
    n1 = n1
    n2 = n2
    n3 = n3
    n4 = n4
    n5 = n5
    p1 = p1
    p2 = p2
    NULL = NULL
    Node <- Nodes3
    Packet = {p1, p2}
    Src <- FromN1
    Dst <- ToN3
    Link <- Triangle
    RerrDrops = 0
    Dropping = TRUE
    Beacons = {}
    Expiring = {}
    Timely = FALSE
    MaxRREQId = 1
PROPERTIES
    RouteErrorDeletes
CHECK_DEADLOCK FALSE
