------------------------------ MODULE MCRouting ------------------------------
(***************************************************************************)
(* The routing protocols for TLC.  A scenario configures one of them; it   *)
(* is picked at the start and stays, and the others keep the state they start *)
(* in.                                                                     *)
(***************************************************************************)
EXTENDS AODV, Sequences, FiniteSets, TLC

CONSTANTS
    Protocols,               \* the protocols of the run
    n1, n2, n3, n4, n5, p1, p2,
    r1, r2, r3, net1, net2,  \* routers and networks
    RipLink, RipAttached,
    Low, High, lsa1, LSAs, PacketsLost,
    FloodLink, FloodOrigin,
    DsrFragile, DsrSrc, DsrDst

Nodes3 == {n1, n2, n3}
Line3 == {{n1, n2}, {n2, n3}}
Triangle == {{n1, n2}, {n2, n3}, {n3, n1}}

\* n5 is out of the range of every other node.
Nodes5 == {n1, n2, n3, n4, n5}
Line4 == {{n1, n2}, {n2, n3}, {n3, n4}}

\* Two packets from n1 to n3.
FromN1 == [p \in {p1, p2} |-> n1]
ToN3 == [p \in {p1, p2} |-> n3]

\* One from end to end of the line, one from the isolated node.
FromN1AndN5 == [p \in {p1, p2} |-> IF p = p1 THEN n1 ELSE n5]
ToN4AndN1 == [p \in {p1, p2} |-> IF p = p1 THEN n4 ELSE n1]

\* n2 between n1, n3 and n4; its link to n4 may break.
Star == {{n1, n2}, {n2, n3}, {n2, n4}}
StarEnd == {{n2, n4}}

\* Two nodes discover n4 at once.
FromN1AndN3 == [p \in {p1, p2} |-> IF p = p1 THEN n3 ELSE n1]
ToN4 == [p \in {p1, p2} |-> n4]

\* One node discovers two, the isolated one and its neighbour.
ToN5AndN2 == [p \in {p1, p2} |-> IF p = p1 THEN n5 ELSE n2]

Routers == {r1, r2, r3}
RouterRing == {{r1, r2}, {r2, r3}, {r3, r1}}
RouterLine == {{r1, r2}, {r2, r3}}

OneNetwork == [n \in Routers |-> IF n = r1 THEN {net1} ELSE {}]
TwoNetworks == [n \in Routers |-> IF n = r1 THEN {net1, net2} ELSE {}]

\* An LSA of another router, when there is one, comes to High.
HeardByHigh == [e \in LSAs |-> High]

\* The root n1 with n2 and n3.
RplOrder == [n \in Nodes3 |-> IF n = n1 THEN <<n2, n3>> ELSE IF n = n2 THEN <<n1, n3>> ELSE <<n2, n1>>]
RplCost == [l \in Triangle |-> IF n1 \in l THEN {1, 3} ELSE {1}]

\* NULL, which RPL has for no node and for no message, is neither.
ASSUME RplAssumption == NULL \notin Nodes3 /\ NULL \notin [id : Nodes3 \cup {NULL}, rank : 1 .. 6]

\* A packet of DSR goes from a node to another.
ASSUME DsrAssumption ==
    /\ DsrSrc \in [{p1, p2} -> Nodes5] /\ DsrDst \in [{p1, p2} -> Nodes5]
    /\ \A p \in {p1, p2} : DsrSrc[p] # DsrDst[p]

\* The routers of OSPF are two, and no LSA of another one bears their names.
ASSUME OspfAssumption ==
    Low # High /\ {Low, High} \cap LSAs = {} /\ IsFiniteSet(LSAs) /\ PacketsLost \in Nat

VARIABLES
    protocol,
    ripLossy, ripDatabase, ripNet,
    adjLost, adjDelayed, adjNbr, adjDb, adjOut, adjDue, adjLink, adjFailed,
    floodRt, floodWire,
    dsrId, dsrBuffer, dsrTable, dsrCache, dsrMaint, dsrTimers, dsrUnsent, dsrOut, dsrNet, dsrDown,
    dsrAstray, dsrAgain,
    rplDag, rplHeard, rplTold, rplDios, rplInc, rplCount

rip == <<ripLossy, ripDatabase, ripNet>>
adj == <<adjLost, adjDelayed, adjNbr, adjDb, adjOut, adjDue, adjLink, adjFailed>>
flood == <<floodRt, floodWire>>
dsr ==
    <<dsrId, dsrBuffer, dsrTable, dsrCache, dsrMaint, dsrTimers, dsrUnsent, dsrOut, dsrNet, dsrDown,
      dsrAstray, dsrAgain>>
rpl == <<rplDag, rplHeard, rplTold, rplDios, rplInc, rplCount>>

Rip == INSTANCE RIPProofs WITH
    Router <- Routers, Network <- {net1, net2}, Link <- RipLink, Attached <- RipAttached,
    MaxMetric <- 4, MaxInFlight <- 0,
    lossy <- ripLossy, database <- ripDatabase, net <- ripNet

Adj == INSTANCE OSPFAdjacencyProofs WITH
    External <- LSAs, Hears <- HeardByHigh,
    MaxInstance <- 2, MaxHeard <- 1, MaxLost <- PacketsLost, DDMax <- 1,
    lost <- adjLost, delayed <- adjDelayed, nbr <- adjNbr, db <- adjDb, out <- adjOut,
    rlsaDue <- adjDue, link <- adjLink, failed <- adjFailed

Flooding == INSTANCE OSPFFlooding WITH
    Router <- Routers, Link <- FloodLink, Origin <- FloodOrigin,
    MinLS <- 2, Jitter <- 1, MaxChanges <- 2, rt <- floodRt, wire <- floodWire

Dsr == INSTANCE DSRProofs WITH
    Node <- Nodes5, Link <- Star, Fragile <- DsrFragile, Ageing <- {n3}, Hasty <- {n1},
    Packet <- {p1, p2}, Src <- DsrSrc, Dst <- DsrDst,
    RequestLimit <- 2, HopLimit <- 2, MaxId <- 2,
    id <- dsrId, buffer <- dsrBuffer, table <- dsrTable, cache <- dsrCache, maint <- dsrMaint,
    timers <- dsrTimers, unsent <- dsrUnsent, out <- dsrOut, net <- dsrNet, down <- dsrDown,
    astray <- dsrAstray, again <- dsrAgain

Rpl == INSTANCE RPLProofs WITH
    Node <- Nodes3, none <- NULL, Order <- RplOrder, Root <- {n1}, Cost <- RplCost,
    Infinite <- 6, MaxRankInc <- 0, PoisonCount <- 1, MaxDisturbed <- 2,
    dag <- rplDag, heard <- rplHeard, told <- rplTold, dios <- rplDios, inc <- rplInc,
    disturbed <- rplCount

suite == <<vars, protocol, rip, adj, flood, dsr, rpl>>

SuiteInit ==
    /\ protocol \in Protocols
    /\ Init /\ Rip!Init /\ Adj!Init /\ Flooding!Init /\ Dsr!Init /\ Rpl!Init
    /\ ripLossy => protocol = "RIP"
    /\ adjDelayed => protocol = "OSPF adjacency"
    /\ protocol = "RPL" \/ rplInc = [l \in Triangle |-> 1]

\* Bound: the scenario of RPL ends when a node becomes the root of a DODAG of its own.
Floats == \E n \in Nodes3 \ {n1} : rplDag[n].state = "root"

\* Bound: a packet of OSPF is lost or an external LSA is heard of, not both.
OneTrouble == adjLost' = 0 \/ \A n \in {Low, High}, k \in LSAs : adjDb'[n][k] = 0

InAodv == protocol = "AODV" /\ UNCHANGED <<protocol, rip, adj, flood, dsr, rpl>>
InRip == protocol = "RIP" /\ UNCHANGED <<vars, protocol, adj, flood, dsr, rpl>>
InAdj == protocol = "OSPF adjacency" /\ UNCHANGED <<vars, protocol, rip, flood, dsr, rpl>>
InFlooding == protocol = "OSPF flooding" /\ UNCHANGED <<vars, protocol, rip, adj, dsr, rpl>>
InDsr == protocol = "DSR" /\ UNCHANGED <<vars, protocol, rip, adj, flood, rpl>>
InRpl == protocol = "RPL" /\ ~Floats /\ UNCHANGED <<vars, protocol, rip, adj, flood, dsr>>

SuiteNext ==
    \/ InAodv /\ Next
    \/ InRip /\ Rip!Next
    \/ InAdj /\ Adj!Next /\ OneTrouble
    \/ InFlooding /\ Flooding!Next
    \/ InDsr /\ Dsr!Next
    \/ InRpl /\ Rpl!Next

SuiteSpec == SuiteInit /\ [][SuiteNext]_suite

\* The fairness of each module, for its own protocol.  Of the lossy links of
\* RIP only those from r1, which every shortest path takes, need be fair.
SuiteFairSpec ==
    /\ SuiteSpec
    /\ WF_vars(protocol = "AODV" /\ Progress)
    /\ \A n \in Routers :
          /\ WF_rip(protocol = "RIP" /\ Rip!UpdateTimer(n))
          /\ WF_rip(protocol = "RIP" /\ \E m \in ripNet : m.from = n /\ (Rip!Receive(m) \/ Rip!Lose(m)))
    /\ \A m \in Rip!Neighbours(r1) : SF_rip(protocol = "RIP" /\ Rip!ReceiveFrom(r1, m))
    /\ \A n \in {Low, High} :
          /\ WF_adj(protocol = "OSPF adjacency" /\ ~adjFailed /\ Adj!Receive(n))
          /\ WF_adj(protocol = "OSPF adjacency" /\ ~adjFailed /\ Adj!HelloTimer(n))
          /\ WF_adj(protocol = "OSPF adjacency" /\ ~adjFailed /\ Adj!ExStartTimer(n))
          /\ WF_adj(protocol = "OSPF adjacency" /\ ~adjFailed /\ Adj!FloodTimer(n))
          /\ WF_adj(protocol = "OSPF adjacency" /\ ~adjFailed /\ Adj!OriginateRouterLSA(n))
    /\ WF_flood(protocol = "OSPF flooding" /\ Flooding!Progress)
    /\ \A n \in Nodes3 :
          /\ WF_rplTold(protocol = "RPL" /\ Rpl!TimersGoOff(n))
          /\ WF_rplDios(protocol = "RPL" /\ Rpl!MessageArrives(n))
-----------------------------------------------------------------------------
\* The types of the state of each protocol.
TypesOK ==
    protocol \in Protocols /\ TypeOK /\ Rip!TypeOK /\ Adj!TypeOK /\ Flooding!TypeOK /\ Dsr!TypeOK
    /\ Rpl!TypeOK

\* RIP: the next routers of the routes to a network never form a loop, however
\* old the updates are that routers act on (DistanceVectorAlgorithm.c).
RoutesDescend == Rip!RoutesDescend

\* RIP: on links that lose nothing, a network that a router has learnt of is
\* known to each neighbour or on its way there (RIP_TRIGGERED_UPDATE).
LearntIsPassedOn == Rip!LearntIsPassedOn

\* OSPF: the negotiation of master and slave has one outcome, though both
\* start as masters and their packets cross (OSPF_DD.c), and on a link that
\* loses nothing SeqNumberMismatch and BadLSReq, for which no handler is
\* written, are never raised (OSPF_DD.c, OSPF_LSREQ.c).
NegotiationAgrees == Adj!OneMaster /\ Adj!NoMismatch

\* OSPF: a router whose neighbour is Full lacks nothing that is not queued for
\* it or on its way, what came in during the exchange of the summaries included.
FullIsSynchronised == Adj!FullIsSynchronised

\* OSPF: "Received LSA is more recent or no current Database copy exist"
\* (OSPF_LSUPDATE.c:274): a router never goes back to an LSA that its origin
\* had replaced.  Violated on a ring.
NeverOlder == Flooding!NeverOlder

\* OSPF, where LSAs have one way: what a router lacks of the links that a neighbour
\* knows is queued for it or on the wire, so that no update is dropped as coming
\* within minLSInterval of the last (ospf_lsa_flood, ospf_lsdb_update).
MissingIsOnItsWay == Flooding!MissingIsOnItsWay

\* DSR: a cached route follows links and visits no node twice, though it may be
\* spliced from a request and an older route (ValidateRouteCache), unless an
\* initiator has been on the way of its own request.
RoutesFollowLinks == Dsr!RoutesFollowLinks

\* DSR: a RREQ timeout that is pending finds an entry to count in, which
\* RREQTimeout reads without looking (RouteRequest.c:97), unless the node asked
\* for the target anew before the last timeout for it was over.
TimeoutFindsEntry == Dsr!TimeoutFindsEntry

\* DSR: CheckSendBuffer "transmits the packet if it has" a route (SendBuffer.c:80).
NoRouteIsIgnored == Dsr!NoRouteIsIgnored

\* AODV: the expanding ring reaches every connected destination.
EachPacketArrives == protocol = "AODV" => PacketsArrive

\* RIP: the databases settle on the shortest paths, though updates are lost
\* and an improved metric triggers no update.
SettlesOnShortest == <>[](protocol = "RIP" => Rip!Shortest)

\* OSPF: both routers reach Full, in whatever order hellos, descriptions,
\* requests and new LSAs cross, and their databases become equal; and by the
\* flooding over Full adjacencies each router ends up with the links of every
\* other one (OSPF_Neighbor.c, ospf_lsa_flood).
DatabasesAgree ==
    /\ [](adjLost = 0) =>
          <>[](protocol = "OSPF adjacency" =>
                  /\ \A n \in {Low, High} : adjNbr[n].state = "Full"
                  /\ adjDelayed => adjDb[Low] = adjDb[High])
    /\ Flooding!Converges

\* RPL: a member remembers a message of each parent and sibling, whatever it
\* has forgotten since (choose_parents_and_siblings, forget_neighbor_messages).
ParentsAreKnown == Rpl!ParentsAreKnown

\* RPL: after links have changed and DIOs were lost, unless a node has given up and
\* floats, every node is below the root again, though parents may have formed a
\* loop meanwhile (choose_parents_and_siblings, rpl_process_dio_msg).
DodagSettles == <>Floats \/ <>[](protocol = "RPL" => Rpl!Settled)
=============================================================================
