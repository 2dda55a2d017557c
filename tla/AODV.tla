-------------------------------- MODULE AODV --------------------------------
(***************************************************************************)
(* AODV on a wireless subnet: the route table, the RREQ / RREP / RERR      *)
(* exchange with its expanding ring search, the packets that wait for a    *)
(* route, hello messages and the route error.                              *)
(*                                                                         *)
(* The handlers run one at a time; what interleaves is the delivery and    *)
(* the expiry of timers: a message that is lost is one that is never       *)
(* delivered.  A lifetime is the presence of the entry: ActiveRouteTimeout *)
(* reschedules itself at the entry's Lifetime, so CheckRouteFound finds    *)
(* exactly the entries that it has not removed.  Left out, because nothing *)
(* here reads it: the precursor lists, the destination sequence number a   *)
(* RREQ carries, the time to live of a RERR (35, its start), IPv6 and the  *)
(* metrics.                                                                *)
(***************************************************************************)
EXTENDS Naturals

CONSTANTS
    Node,
    Packet,       \* the packets of the applications
    Src, Dst,     \* [Packet -> Node]
    Link,         \* the pairs {n, m} of nodes in range of each other
    NULL,         \* no node
    RerrDrops,    \* drops before a RERR, 10 in the code
    Dropping,     \* the MAC may drop application packets
    Expiring,     \* bound: the destinations whose routes may expire
    Beacons,      \* bound: the nodes that send hello messages
    Timely,       \* a discovery times out only when its messages are gone
    MaxRREQId     \* bound: nRREQId

ASSUME PacketAssumption == Src \in [Packet -> Node] /\ Dst \in [Packet -> Node]
ASSUME LinkAssumption == Link \subseteq SUBSET Node /\ NULL \notin Node
ASSUME AODVBoundAssumption == RerrDrops \in Nat /\ MaxRREQId \in Nat /\ Beacons \subseteq Node
ASSUME SwitchAssumption == {Dropping, Timely} \subseteq BOOLEAN /\ Expiring \subseteq Node

VARIABLES
    seqNumber,   \* nSequenceNumber
    routeTable,  \* [Node -> [Node -> Route]], by destination
    sent,        \* rreqSentTable, by destination
    seen,        \* rreqSeenTable: the RREQ ids, which one counter numbers
    nRREQId,
    nRerrCount,
    net,         \* control packets in flight, one copy per receiver
    pkt,         \* where each application packet is
    lost         \* history: the destinations some node has lost a route to

vars == <<seqNumber, routeTable, sent, seen, nRREQId, nRerrCount, net, pkt, lost>>

TTL_START == 1
TTL_INCREMENT == 2
TTL_THRESHOLD == 7
NET_DIAMETER == 35
RREQ_RETRIES == 2

NoRoute == [flag |-> "None", seq |-> 0, hop |-> 0, next |-> NULL]

Route == {NoRoute} \cup [flag : {"Valid", "InValid"}, seq : Nat, hop : Nat, next : Node]

\* An entry of the sent table; times = 0 when there is none.
NotSent == [ttl |-> 0, times |-> 0]

\* Application packets: at a node for NETWORK_OUT, waiting in a FIFO, on the
\* air to the node "to", handed up or dropped.
Place == [where : {"out", "fifo", "air", "up", "dropped"}, at : Node, to : Node]

RREQ == [type : {"RREQ"}, to : Node, last : Node, orig : Node, oseq : Nat,
         dest : Node, id : Nat, hop : Nat, ttl : Nat]
RREP == [type : {"RREP"}, to : Node, last : Node, orig : Node, dest : Node,
         dseq : Nat, hop : Nat, ttl : Nat]
RERR == [type : {"RERR"}, to : Node, src : Node, dests : SUBSET Node]

Init ==
    /\ seqNumber = [n \in Node |-> 0]
    /\ routeTable = [n \in Node |-> [d \in Node |-> NoRoute]]
    /\ sent = [n \in Node |-> [d \in Node |-> NotSent]]
    /\ seen = [n \in Node |-> {}]
    /\ nRREQId = 0
    /\ nRerrCount = [n \in Node |-> 0]
    /\ net = {}
    /\ pkt = [p \in Packet |-> [where |-> "out", at |-> Src[p], to |-> Src[p]]]
    /\ lost = {}

-----------------------------------------------------------------------------
(* The route table. *)

\* CheckRouteFound(ip): the flag of the entry is not looked at.
RouteFound(t, d) == t[d].flag # "None"

\* Mutant of Newer: an entry is replaced whatever it says.
AlwaysNewer(e, seq, hop) == TRUE

\* InsertInRouteTable overwrites the entry.
Newer(e, seq, hop) ==
    \/ e.seq = 0
    \/ e.seq < seq
    \/ e.seq = seq /\ (hop + 1 < e.hop \/ e.flag = "InValid")

\* Mutant of NextHop: it is not set in a new entry.
NeverSet(e, next) == e.next

\* The next hop is set once, when the entry is new.
NextHop(e, next) == IF e.next = NULL THEN next ELSE e.next

InsertInRouteTable(t, ip, seq, hop, next) ==
    IF Newer(t[ip], seq, hop)
    THEN [t EXCEPT ![ip] = [flag |-> "Valid", seq |-> seq, hop |-> hop,
                            next |-> NextHop(t[ip], next)]]
    ELSE t

\* Mutant of Invalidate: the sequence number is incremented, as in RFC 3561.
InvalidateAndIncrement(t, u, ds) ==
    [d \in Node |->
        IF d \in ds /\ t[d].next = u
        THEN [t[d] EXCEPT !.flag = "InValid", !.seq = @ + 1] ELSE t[d]]

\* GenerateRERR and ProcessRERR: the entries towards ds through u.
Invalidate(t, u, ds) ==
    [d \in Node |-> IF d \in ds /\ t[d].next = u THEN [t[d] EXCEPT !.flag = "InValid"] ELSE t[d]]

Through(t, u, ds) == {d \in ds : t[d].next = u}

-----------------------------------------------------------------------------
(* Packets that wait for a route. *)

Waiting(n, d) ==
    {p \in Packet : pkt[p].where = "fifo" /\ pkt[p].at = n /\ Dst[p] = d}

AtOut(n) == [where |-> "out", at |-> n, to |-> n]

\* Mutant of TransmitFIFO: the buffer is not transmitted.
KeepsFIFO(n, t) == pkt

\* TransmitFIFOBuffer: every packet whose destination is found in table t.
TransmitFIFO(n, t) ==
    [p \in Packet |->
        IF pkt[p].where = "fifo" /\ pkt[p].at = n /\ RouteFound(t, Dst[p])
        THEN AtOut(n) ELSE pkt[p]]

\* Mutant of EmptyFIFO: the buffer keeps its packets.
NotEmptied(n, d) == pkt

EmptyFIFO(n, d) ==
    [p \in Packet |->
        IF p \in Waiting(n, d) THEN [where |-> "dropped", at |-> n, to |-> n] ELSE pkt[p]]

-----------------------------------------------------------------------------
(* Messages. *)

Neighbours(n) == {m \in Node : m # n /\ {n, m} \in Link}

RreqCopies(n, orig, oseq, dest, id, hop, ttl) ==
    {[type |-> "RREQ", to |-> m, last |-> n, orig |-> orig, oseq |-> oseq,
      dest |-> dest, id |-> id, hop |-> hop, ttl |-> ttl] : m \in Neighbours(n)}

\* Mutant of Rrep: LastAddress names the originator, not the sender.
RrepFromOriginator(to, last, orig, dest, dseq, hop, ttl) ==
    [type |-> "RREP", to |-> to, last |-> orig, orig |-> orig, dest |-> dest,
     dseq |-> dseq, hop |-> hop, ttl |-> ttl]

Rrep(to, last, orig, dest, dseq, hop, ttl) ==
    [type |-> "RREP", to |-> to, last |-> last, orig |-> orig, dest |-> dest,
     dseq |-> dseq, hop |-> hop, ttl |-> ttl]

RerrCopies(n, ds) ==
    IF ds = {} THEN {}
    ELSE {[type |-> "RERR", to |-> m, src |-> n, dests |-> ds] : m \in Neighbours(n)}

\* A hello message is the RREP of its sender for itself, and a broadcast.
isHello(m) == m.orig = m.dest

-----------------------------------------------------------------------------
(* Route requests. *)

\* Mutant of IncreaseTTL: the ring does not grow.
StaysNear(e) == TTL_START

\* fnIncreaseTTL on an entry e of the sent table.
IncreaseTTL(e) ==
    IF e.times = 0 THEN TTL_START
    ELSE IF e.ttl >= TTL_THRESHOLD THEN NET_DIAMETER
    ELSE IF e.ttl + TTL_INCREMENT > TTL_THRESHOLD THEN TTL_THRESHOLD
    ELSE e.ttl + TTL_INCREMENT

\* InterstInRREQSentTable.
InsertInRREQSentTable(e, ttl) ==
    [ttl |-> ttl,
     times |-> (IF e.times = 0 THEN 1 ELSE e.times) + (IF ttl = NET_DIAMETER THEN 1 ELSE 0)]

\* What GenerateRREQ and RetryRREQ have in common: a RREQ of nTTL ttl, the entry
\* of the sent table (its timer runs as long as the entry exists) and the seen table.
SendRREQ(n, d, ttl) ==
    /\ nRREQId < MaxRREQId
    /\ nRREQId' = nRREQId + 1
    /\ seqNumber' = [seqNumber EXCEPT ![n] = @ + 1]
    /\ seen' = [seen EXCEPT ![n] = @ \cup {nRREQId + 1}]
    /\ sent' = [sent EXCEPT ![n][d] = InsertInRREQSentTable(@, ttl - 1)]
    /\ net' = net \cup RreqCopies(n, n, seqNumber[n] + 1, d, nRREQId + 1, 0, ttl)

-----------------------------------------------------------------------------
(* NETWORK_OUT of an application packet: GeneralPacketProcessing. *)

AtNetworkOut(p, n) == pkt[p].where = "out" /\ pkt[p].at = n

SendsOn(p, n) ==
    LET e == routeTable[n][Dst[p]] IN
    /\ AtNetworkOut(p, n)
    /\ RouteFound(routeTable[n], Dst[p])
    /\ pkt' = [pkt EXCEPT ![p] = [where |-> "air", at |-> n, to |-> e.next]]
    /\ UNCHANGED <<seqNumber, routeTable, sent, seen, nRREQId, nRerrCount, net, lost>>

Buffered(p, n) == pkt' = [pkt EXCEPT ![p].where = "fifo"]

\* AddToFIFOBuffer finds other packets for the destination.
JoinsFIFO(p, n) ==
    /\ AtNetworkOut(p, n)
    /\ ~RouteFound(routeTable[n], Dst[p])
    /\ Waiting(n, Dst[p]) # {}
    /\ Buffered(p, n)
    /\ UNCHANGED <<seqNumber, routeTable, sent, seen, nRREQId, nRerrCount, net, lost>>

\* GenerateRREQ: the TTL of an entry that is already there grows by one more.
StartsDiscovery(p, n) ==
    /\ AtNetworkOut(p, n)
    /\ ~RouteFound(routeTable[n], Dst[p])
    /\ Waiting(n, Dst[p]) = {}
    /\ Buffered(p, n)
    /\ SendRREQ(n, Dst[p], IncreaseTTL(sent[n][Dst[p]]) + 2)
    /\ UNCHANGED <<routeTable, nRerrCount, lost>>

-----------------------------------------------------------------------------
(* The timer of a route request: RetryRREQ. *)

TimesOut(n, d) ==
    /\ sent[n][d].times > 0
    /\ Timely => \A m \in net : m.type # "RERR" => m.orig # n \/ m.dest # d

RetryRREQ(n, d) ==
    /\ TimesOut(n, d)
    /\ sent[n][d].times <= RREQ_RETRIES
    /\ SendRREQ(n, d, IncreaseTTL(sent[n][d]) + 1)
    /\ UNCHANGED <<routeTable, nRerrCount, pkt, lost>>

GivesUp(n, d) ==
    /\ TimesOut(n, d)
    /\ sent[n][d].times > RREQ_RETRIES
    /\ sent' = [sent EXCEPT ![n][d] = NotSent]
    /\ pkt' = EmptyFIFO(n, d)
    /\ UNCHANGED <<seqNumber, routeTable, seen, nRREQId, nRerrCount, net, lost>>

-----------------------------------------------------------------------------
(* ProcessRREQ. *)

RreqAt(n, m) == m \in net /\ m.type = "RREQ" /\ m.to = n

DropsSeenRREQ(n, m) ==
    /\ RreqAt(n, m)
    /\ m.id \in seen[n]
    /\ net' = net \ {m}
    /\ UNCHANGED <<seqNumber, routeTable, sent, seen, nRREQId, nRerrCount, pkt, lost>>

\* The seen table, the reverse route and the packets that waited for it.
LearnsReverse(n, m) ==
    /\ RreqAt(n, m)
    /\ m.id \notin seen[n]
    /\ seen' = [seen EXCEPT ![n] = @ \cup {m.id}]
    /\ routeTable' = [routeTable EXCEPT
                        ![n] = InsertInRouteTable(@, m.orig, m.oseq, m.hop, m.last)]
    /\ pkt' = TransmitFIFO(n, routeTable'[n])
    /\ UNCHANGED <<sent, nRREQId, nRerrCount, lost>>

\* GenerateRREP.
AnswersRREQ(n, m) ==
    /\ LearnsReverse(n, m)
    /\ m.dest = n
    /\ seqNumber' = [seqNumber EXCEPT ![n] = @ + 1]
    /\ net' = (net \ {m}) \cup {Rrep(m.last, n, m.orig, n, seqNumber[n] + 1, 1, m.hop + 2)}

\* The node knows a route that does not lead back to the sender of the RREQ.
KnowsRoute(t, m) == RouteFound(t, m.dest) /\ t[m.dest].next # m.last

\* GenerateRREPByIntermediate.
AnswersForDestination(n, m) ==
    /\ LearnsReverse(n, m)
    /\ m.dest # n /\ KnowsRoute(routeTable'[n], m)
    /\ LET e == routeTable'[n][m.dest]
       IN net' = (net \ {m}) \cup {Rrep(m.last, n, m.orig, m.dest, e.seq, e.hop, NET_DIAMETER)}
    /\ UNCHANGED seqNumber

\* ForwardRREQ, where IP has decremented the TTL before.
ForwardsRREQ(n, m) ==
    /\ LearnsReverse(n, m)
    /\ m.dest # n /\ ~KnowsRoute(routeTable'[n], m)
    /\ net' = (net \ {m}) \cup
                  (IF m.ttl = 2 THEN {}
                   ELSE RreqCopies(n, m.orig, m.oseq, m.dest, m.id, m.hop + 1, m.ttl - 1))
    /\ UNCHANGED seqNumber

-----------------------------------------------------------------------------
(* ProcessRREP. *)

RrepAt(n, m) == m \in net /\ m.type = "RREP" /\ m.to = n

\* A RREP for the node itself is not processed.
LearnsRoute(n, m) ==
    /\ RrepAt(n, m)
    /\ IF m.dest = n THEN UNCHANGED <<routeTable, pkt>>
       ELSE /\ routeTable' = [routeTable EXCEPT
                                ![n] = InsertInRouteTable(@, m.dest, m.dseq, m.hop, m.last)]
            /\ pkt' = TransmitFIFO(n, routeTable'[n])
    /\ UNCHANGED <<seqNumber, seen, nRREQId, nRerrCount, lost>>

\* The originator: its discovery is over.
EndsDiscovery(n, m) ==
    /\ LearnsRoute(n, m)
    /\ m.orig = n /\ m.dest # n
    /\ sent' = [sent EXCEPT ![n][m.dest] = NotSent]
    /\ net' = net \ {m}

\* Another node: ForwardRREP, unless it is a hello message, the reverse route
\* is gone, or the TTL does not pass NETWORK_OUT.
PassesRREP(n, m) ==
    /\ LearnsRoute(n, m)
    /\ m.orig # n
    /\ net' = (net \ {m}) \cup
                  (IF m.dest # n /\ ~isHello(m) /\ RouteFound(routeTable'[n], m.orig) /\ m.ttl - 1 > 1
                   THEN {Rrep(routeTable'[n][m.orig].next, n, m.orig, m.dest, m.dseq,
                              m.hop + 1, m.ttl - 1)}
                   ELSE {})
    /\ UNCHANGED sent

\* TransmitHelloMessage.
Hello(n) ==
    /\ \E d \in Node : routeTable[n][d].flag # "None"
    /\ net' = net \cup {Rrep(m, n, n, n, seqNumber[n], 0, 2) : m \in Neighbours(n)}
    /\ UNCHANGED <<seqNumber, routeTable, sent, seen, nRREQId, nRerrCount, pkt, lost>>

-----------------------------------------------------------------------------
(* Application packets on the air. *)

OnAir(p, n, m) == pkt[p].where = "air" /\ pkt[p].at = n /\ pkt[p].to = m

\* NETWORK_IN: at its destination or at a router.
Arrives(p, n, m) ==
    /\ OnAir(p, n, m)
    /\ pkt' = [pkt EXCEPT ![p] = IF m = Dst[p] THEN [where |-> "up", at |-> m, to |-> m]
                                 ELSE AtOut(m)]
    /\ UNCHANGED <<seqNumber, routeTable, sent, seen, nRREQId, nRerrCount, net, lost>>

DroppedOnAir(p, n) == pkt' = [pkt EXCEPT ![p] = [where |-> "dropped", at |-> n, to |-> n]]

\* PacketDropNotification, called by the MAC of n.
DropNotified(p, n, m) ==
    /\ Dropping
    /\ OnAir(p, n, m)
    /\ nRerrCount[n] <= RerrDrops
    /\ DroppedOnAir(p, n)
    /\ nRerrCount' = [nRerrCount EXCEPT ![n] = @ + 1]
    /\ UNCHANGED <<seqNumber, routeTable, sent, seen, nRREQId, net, lost>>

\* The same with GenerateRERR for the next hop.
DropReported(p, n, m) ==
    /\ Dropping
    /\ OnAir(p, n, m)
    /\ nRerrCount[n] > RerrDrops
    /\ DroppedOnAir(p, n)
    /\ nRerrCount' = [nRerrCount EXCEPT ![n] = 2]
    /\ routeTable' = [routeTable EXCEPT ![n] = Invalidate(@, m, Node)]
    /\ net' = net \cup RerrCopies(n, Through(routeTable[n], m, Node))
    /\ UNCHANGED <<seqNumber, sent, seen, nRREQId, lost>>

ProcessRERR(n, m) ==
    /\ m \in net /\ m.type = "RERR" /\ m.to = n
    /\ routeTable' = [routeTable EXCEPT ![n] = Invalidate(@, m.src, m.dests)]
    /\ net' = (net \ {m}) \cup
                  (IF Through(routeTable[n], m.src, m.dests) # {}
                   THEN RerrCopies(n, m.dests) ELSE {})
    /\ UNCHANGED <<seqNumber, sent, seen, nRREQId, nRerrCount, pkt, lost>>

\* ActiveRouteTimeout removes the entry.
ActiveRouteTimeout(n, d) ==
    /\ RouteFound(routeTable[n], d)
    /\ routeTable' = [routeTable EXCEPT ![n][d] = NoRoute]
    /\ lost' = lost \cup {d}
    /\ UNCHANGED <<seqNumber, sent, seen, nRREQId, nRerrCount, net, pkt>>

-----------------------------------------------------------------------------
NetworkOut(p, n) == SendsOn(p, n) \/ JoinsFIFO(p, n) \/ StartsDiscovery(p, n)

ProcessRREQ(n, m) ==
    DropsSeenRREQ(n, m) \/ AnswersRREQ(n, m) \/ AnswersForDestination(n, m) \/ ForwardsRREQ(n, m)

ProcessRREP(n, m) == EndsDiscovery(n, m) \/ PassesRREP(n, m)

RreqTimeout(n, d) == RetryRREQ(n, d) \/ GivesUp(n, d)

Next ==
    \/ \E p \in Packet, n \in Node : NetworkOut(p, n)
    \/ \E p \in Packet, n, m \in Node :
           Arrives(p, n, m) \/ DropNotified(p, n, m) \/ DropReported(p, n, m)
    \/ \E n \in Node, m \in net : ProcessRREQ(n, m) \/ ProcessRREP(n, m) \/ ProcessRERR(n, m)
    \/ \E n, d \in Node : RreqTimeout(n, d)
    \/ \E n \in Node, d \in Expiring : ActiveRouteTimeout(n, d)
    \/ \E n \in Beacons : Hello(n)

Spec == Init /\ [][Next]_vars

-----------------------------------------------------------------------------
(* Properties. *)

\* Types of the state.
TypeOK ==
    /\ seqNumber \in [Node -> Nat]
    /\ routeTable \in [Node -> [Node -> Route]]
    /\ sent \in [Node -> [Node -> [ttl : Nat, times : 0..RREQ_RETRIES + 1]]]
    /\ seen \in [Node -> SUBSET (1..nRREQId)]
    /\ nRREQId \in 0..MaxRREQId
    /\ nRerrCount \in [Node -> 0..RerrDrops + 2]
    /\ \A m \in net : m \in RREQ \/ m \in RREP \/ m \in RERR
    /\ pkt \in [Packet -> Place]
    /\ lost \subseteq Node

\* A packet waits in the FIFO of a node only while a RREQ timer of that node
\* for its destination is pending, and not once a route is known: the handlers
\* that insert a route, end a discovery or give it up leave nothing behind
\* (AddToFIFOBuffer starts no second discovery for a buffer that is not empty).
WaitsForDiscovery ==
    \A n, d \in Node : Waiting(n, d) # {} =>
        sent[n][d].times > 0 /\ ~RouteFound(routeTable[n], d)

\* No table and no message holds a sequence number of a node that the node has
\* not reached, hello messages and replies by intermediate nodes included.
FreshestFromOwner ==
    /\ \A n, d \in Node : routeTable[n][d].seq <= seqNumber[d]
    /\ \A m \in net : m.type = "RREQ" => m.oseq <= seqNumber[m.orig]
    /\ \A m \in net : m.type = "RREP" => m.dseq <= seqNumber[m.dest]

\* The next hops towards d form a loop on the nodes ns.
Loops(d, ns) == ns # {} /\ d \notin ns /\ \A n \in ns : routeTable[n][d].next \in ns

\* As long as no node has lost its route to d, the routes to d lead from node to
\* node to d, whatever the order in which requests, replies, errors and hello
\* messages were processed: every next hop is in range and has a route itself,
\* and there is no loop.
RoutesLeadToDestination ==
    \A d \in Node : d \notin lost =>
        /\ \A n \in Node : RouteFound(routeTable[n], d) =>
               LET next == routeTable[n][d].next
               IN next \in Neighbours(n) /\ (next = d \/ RouteFound(routeTable[next], d))
        /\ \A ns \in SUBSET Node : ~Loops(d, ns)

\* While an entry exists it never goes back to an older sequence number, nor,
\* unless it was invalid, to a longer path with the same one: a late or slow
\* reply does not undo a newer one.
NeverStaler ==
    [][\A n, d \in Node :
          LET e == routeTable[n][d]
              f == routeTable'[n][d]
          IN RouteFound(routeTable[n], d) /\ f.flag # "None" =>
                 /\ f.seq >= e.seq
                 /\ f.seq = e.seq /\ e.seq > 0 /\ e.flag = "Valid" => f.hop <= e.hop]_vars

\* A node that processes a route error no longer finds the routes that the
\* error breaks: "It deletes the entry to the target in the Route Table"
\* (AODV_RouteError.c:106).
RouteErrorDeletes ==
    [][\A n \in Node : \A m \in net :
          ProcessRERR(n, m) =>
              \A d \in Through(routeTable[n], m.src, m.dests) : ~RouteFound(routeTable'[n], d)]_vars

-----------------------------------------------------------------------------
(* Liveness.  The event list keeps every event until it is processed, so   *)
(* time passes: as long as there is something to do apart from hello       *)
(* messages, some of it is done.  That no message is lost is part of it.   *)

LocalProgress ==
    \/ \E p \in Packet, n \in Node : NetworkOut(p, n)
    \/ \E n, d \in Node : RreqTimeout(n, d)

DeliveryProgress ==
    \/ \E p \in Packet, n, m \in Node : Arrives(p, n, m)
    \/ \E n \in Node, m \in net : ~isHello(m) /\ (ProcessRREQ(n, m) \/ ProcessRREP(n, m))

Progress == LocalProgress \/ DeliveryProgress

FairSpec == Spec /\ WF_vars(Progress)

\* No packet waits for a route forever: the discovery finds one, or gives up
\* and empties the FIFO.
NothingWaitsForever ==
    \A p \in Packet : pkt[p].where = "fifo" ~> pkt[p].where # "fifo"

\* n and m are connected by links.
Connected(n, m) ==
    \A ns \in SUBSET Node : n \in ns /\ (\A k \in ns : Neighbours(k) \subseteq ns) => m \in ns

\* Without losses and with timers that leave a discovery the time it needs, the
\* expanding ring reaches every destination that is connected, and each packet
\* for it is handed up.
PacketsArrive ==
    \A p \in Packet : Connected(Src[p], Dst[p]) => <>(pkt[p].where = "up")

=============================================================================
