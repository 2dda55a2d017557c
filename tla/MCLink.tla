-------------------------------- MODULE MCLink --------------------------------
(***************************************************************************)
(* The protocols of links and media for TLC.  A scenario configures one of *)
(* them; it is picked at the start and stays, and the others keep the state *)
(* they start in.                                                          *)
(***************************************************************************)
EXTENDS ARP

CONSTANTS
    Protocols,               \* the protocols of the run
    h1, h2, r, d1, p1, p2, p3,
    s1, s2, s3, s4, everyone, \* switches; the broadcast address
    StpSwitch, StpRank, StpCost, StpStation, StpAt, StpLan,
    w1, w2, w3, q1, q2, q3    \* wireless stations; packets

\* p1 and p3 are for a host of the LAN, p2 goes to d1 through the interface
\* h2: from h1 the two share the next hop and not the destination.
PacketSrc == [p \in {p1, p2, p3} |-> IF p = p3 THEN h2 ELSE h1]
PacketDst == [p \in {p1, p2, p3} |-> IF p = p1 THEN h2 ELSE IF p = p2 THEN d1 ELSE h1]
PacketNext == [p \in {p1, p2, p3} |-> IF p = p3 THEN h1 ELSE h2]

Switches == {s1, s2, s3, s4}
Rank4 == [s \in Switches |-> IF s = s1 THEN 1 ELSE IF s = s2 THEN 2 ELSE IF s = s3 THEN 3 ELSE 4]
Cost4 == [s \in Switches |-> 1]
TwoHosts == {h1, h2}
AtSwitch == [h \in TwoHosts |-> IF h = h1 THEN s3 ELSE s2]

\* A square with a diagonal, whose links are alike, and a triangle, whose links
\* are not, where a broadcast and its answer cross the making of the tree.
Lans == {[wire |-> {{s1, s2}, {s1, s3}, {s2, s4}, {s3, s4}, {s2, s3}},
          alike |-> TRUE, flow |-> {}],
         [wire |-> {{s1, s2}, {s1, s3}, {s2, s3}},
          alike |-> FALSE, flow |-> {<<h1, everyone>>, <<h2, h1>>}]}

\* w1 and w3 do not hear each other; both send to w2, w1 also to everyone.
SentBy == [q \in {q1, q2, q3} |-> IF q = q2 THEN w3 ELSE w1]
SentTo == [q \in {q1, q2, q3} |-> IF q = q3 THEN everyone ELSE w2]

\* A station is not a switch and is connected to one; a frame is sent by a station,
\* to a station or to everyone.
ASSUME StpAssumption ==
    /\ StpSwitch \cap StpStation = {}
    /\ StpAt \in [StpStation -> StpSwitch]
    /\ \A l \in StpLan : l.flow \subseteq StpStation \X (StpStation \cup {everyone})

VARIABLES
    protocol,
    mac, radio, sent, events, packets, lost, dcfCrashed,
    lan, stpRoot, stpCost, stpRootPort, stpBlocked, stpBpdus, stpTables, stpUnsent, stpFrames

stp == <<lan, stpRoot, stpCost, stpRootPort, stpBlocked, stpBpdus, stpTables, stpUnsent, stpFrames>>

Stp == INSTANCE SpanningTree WITH
    Switch <- StpSwitch, Rank <- StpRank, Cost <- StpCost, Station <- StpStation, At <- StpAt,
    Lan <- StpLan,
    root <- stpRoot, cost <- stpCost, rootPort <- stpRootPort, blocked <- stpBlocked,
    bpdus <- stpBpdus, tables <- stpTables, unsent <- stpUnsent, frames <- stpFrames

Dcf == INSTANCE DCF WITH
    Station <- {w1, w2, w3}, InRange <- {{w1, w2}, {w2, w3}}, Packet <- {q1, q2, q3},
    Src <- SentBy, Dst <- SentTo, Long <- {q1},
    SIFS <- 1, DIFS <- 3, CtrlTime <- 4, DataTime <- 5, Slack <- 1,
    RetryLimit <- 2, MaxBackoff <- 1, MaxLost <- 1,
    crashed <- dcfCrashed

dcf == <<mac, radio, sent, events, packets, lost, dcfCrashed>>

suite == <<vars, protocol, stp, dcf>>

SuiteInit ==
    /\ protocol \in Protocols
    /\ Init /\ Stp!Init /\ Dcf!Init
    /\ lossy => protocol = "ARP"
    /\ lan.alike \/ protocol = "STP"

InArp == protocol = "ARP" /\ UNCHANGED <<protocol, stp, dcf>>
InStp == protocol = "STP" /\ UNCHANGED <<vars, protocol, dcf>>
InDcf == protocol = "DCF" /\ UNCHANGED <<vars, protocol, stp>>

SuiteNext ==
    \/ InArp /\ Next
    \/ InStp /\ Stp!Next
    \/ InDcf /\ Dcf!Next

SuiteSpec == SuiteInit /\ [][SuiteNext]_suite

SuiteFairSpec ==
    /\ SuiteSpec
    /\ WF_vars(protocol = "ARP" /\ ~crashed /\ (Deliver \/ \E p \in Packet : GenerateRequest(p)))
-----------------------------------------------------------------------------
\* The types of the state of each protocol.
TypesOK == protocol \in Protocols /\ TypeOK /\ Stp!TypeOK /\ Dcf!TypeOK

\* Ethernet: the ports that the spanning tree leaves open feed no frame back to
\* where it came from, on links that are alike (SpanningTree.c).
NoForwardingLoop == Stp!NoForwardingLoop

\* Ethernet: the first port that a station was seen on leads to it
\* (SwitchTable.c).
TablesLeadToStation == Stp!TablesLeadToStation

\* IEEE 802.11: a packet that a station takes for acknowledged, and frees, has
\* been delivered (CSMACA_ProcessAck), as long as distances do not matter.
AckedIsDelivered == Dcf!AckedIsDelivered

\* IEEE 802.11: a station that waits for an answer has a timeout left, and a CTS
\* finds the packet that was to follow it (TransmitFrame, ProcessCTS), as above.
AnswersMeetExchange == Dcf!AnswersMeetExchange
=============================================================================
