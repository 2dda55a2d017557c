# A verification project for the NetSim protocol sources

NetSim is a discrete-event network simulator. The repository holds the C sources of its
protocol libraries, one directory per protocol below
`src/Defense_Workspace_v11.1/src/Simulation/`, with the scenarios
of two workspaces; the copy below `src/Industry...` has the same protocol sources. The
simulation kernel, the network stack and the metrics are binary libraries. What is written in
this repository, and what this project verifies, are the protocols.

The project started from the two protocols that every shipped MANET scenario runs end to end, TCP
(connection management, data transfer, congestion control) and the AODV routing below it, and now also
models the other routing protocols with state machines of their own (RIP, OSPF, DSR, RPL) and the layer under
them (ARP, the spanning tree of Ethernet switches, the IEEE 802.11 DCF over its shared medium). Each
module is checked with TLC on small instances; properties that do not depend on the
instance are proved with TLAPS.

Contents: [the system](#the-system) · [modules](#modules) · [how a module follows the
code](#how-a-module-follows-the-code) · [runs](#runs) · [fairness](#fairness) ·
[what is proved](#what-is-proved) · [what the code does that its documents do
not say](#what-the-code-does-that-its-documents-do-not-say) · [not modelled](#what-is-not-modelled) ·
[plan](#plan) · [running the checks](#running-the-checks)

## The system

Every protocol is a DLL with a `..._Init`, a `..._Run` and a `..._Finish`. The kernel keeps one
list of events ordered by time and calls `Run` of the protocol and device of the first event with
the event in `pstruEventDetails`. A handler runs to completion, changes its device's variables,
adds events (`fnpAddEvent`) and returns. So:

* nothing preempts a handler: an **action is a whole handler**;
* what interleaves is the order of the events: packets that travel for different times, timers
  against packets, applications against both;
* an event stays in the list until it is served, and a timer is never removed when its reason
  is gone: handlers must recognise **events that have become stale**;
* the layers call each other through events `APPLICATION_OUT`, `TRANSPORT_OUT`, `NETWORK_OUT`,
  `MAC_OUT`, `PHYSICAL_OUT`, and `..._IN` on the way up, on the packet they hand over.

There is no persistence and no thread. The hard behaviours are reordering, loss and duplication
of packets, timers that race with answers, queues that a handler may leave in a state no other
handler expects, casts to 16 bits, and things that must happen in the end.

### Components

Those in bold are modelled, each but for what "not modelled" lists.

| Component (directory) | State | Operations | Talks to | Hard behaviour | What makes it correct |
|---|---|---|---|---|---|
| **TCP connection** (`TCP/`) | sockets, a TCB per connection, retransmission and out-of-order queues, RTO and TIME_WAIT timers | open, accept, send, every arrival by state, RTO, TIME_WAIT, close | application above, IP below, congestion control | reordering, stale segments and timers, FIN against data, crossed closes | nothing in flight forgotten; both ends agree; data gets through; connections end |
| **TCP congestion control** (`TCP/Congestion.c`) | `cwnd`, `ssthresh` (16 bits), duplicate count, recovery | acknowledgement, duplicate, RTO, application packet | the TCB and `send_segment` | casts, rounding with window scaling, recovery against RTO | the window admits a segment; nothing stalls; recovery can end |
| **AODV** (`AODV/`) | route table, tables of requests sent and seen, FIFO of waiting packets, drop counter | packet out, RREQ, RREP, RERR, hello, drop notification, timeouts | IP (routes, TTL), MAC (drops) | messages of several discoveries at once, lost replies, expiry, ring search | routes lead to their destination; none is staler than before; nothing waits forever |
| **DSR** (`DSR/`) | send buffer, request table, route cache, maintenance buffer | RREQ, RREP, data hop by hop, acknowledgement, RREQ and maintenance timeouts | IP | concurrent discoveries with equal ids, spliced routes, late acknowledgements, links that break | a cached route follows links and has no loop; a timeout finds its entry |
| **RIP** (`Routing/`) | routing database | periodic and triggered update, distance vector | UDP/IP | lost and overtaken updates | next routers never loop; a network learnt is passed on; shortest paths in the end |
| **OSPF** (`OSPF/`) | neighbours, LSDB, request, retransmission and flood lists | hello, DD exchange, LS request and update, flooding, origination | IP table | two state machines driven by crossing packets and timers; LSAs that change during the exchange; sequence numbers | one master; Full means synchronised; databases agree; none gets older |
| **RPL** (`RPL/`) | root or joined DODAG, last DIO of each neighbour, parents and siblings, trickle timers | DIO, choice of parents, poisoning, floating root, trickle | MAC broadcast, IP table | ranks that the neighbours have left behind, poisoned and lost DIOs | parents are remembered and above the node; all nodes join, or float |
| **ARP** (`ARP/`) | address table, buffer of waiting packets, flag and retry count per destination | request, reply, table update and forwarding, timeout | IP above, MAC below | reply against timeout, several packets per request, flag and count under different keys | the buffer is emptied by the answer or the last timeout |
| **Ethernet, STP** (`Ethernet/`) | root, cost and root port, port states, switch tables | configuration BPDUs, learning, forwarding | stations | order of the BPDUs; frames while the tree is made | no forwarding loop; tables lead to the station |
| **IEEE 802.11 DCF** (`IEEE802_11/`) | MAC state, packet in hand, retry counts, back-off, radio state | carrier sense, DIFS, back-off, RTS, CTS, data, ACK, timeouts | the medium, IP | hidden stations, late answers, events never cancelled | what is taken for acknowledged was delivered; who waits has a timeout |
| **Shared medium** (`Medium/`) | transmissions in the air | start, end, busy and idle callbacks, collisions | the MACs | overlapping frames | with the DCF |
| Cellular, IGMP, PIM, DTDMA, TDMA, OLSR, ZRP, IP, ICMP, queues, LTE, ZigBee, Cognitive Radio, IEEE 1609, Aloha, CSMA/CD, SDN, firewall, UDP, application, mobility, battery | | | | see [not modelled](#what-is-not-modelled) | |

`PROJECT.json` lists all of them with their files and status, and under `hazards` every place in
the modelled code where an unusual order of events could break it.

## Modules

    TCPSegments ── TCPConnection ── TCPStreamRefinement ── MCTCPConnection    (runs tcp_*)
                        │                └─ INSTANCE TCPStream
                        └── TCPConnectionProofs
    TCPCongestion ──┬── TCPCongestionProofs                                   (run cc_assert)
                    └── MCTransport: INSTANCE TCPConnection, TCPStreamRefinement   (run transport)
    AODV ──┬── MCAODV                                                         (run aodv_rerr)
           └── MCRouting: INSTANCE RIPProofs, DSRProofs, RPLProofs, OSPFAdjacencyProofs, OSPFFlooding
                   │                           (runs routing_*, ospf_older, dsr_ignored)
                   └── MCRoutingProofs
    RIP ── RIPProofs     DSR ── DSRProofs     RPL ── RPLProofs     OSPFAdjacency ── OSPFAdjacencyProofs
    ARP ── MCLink: INSTANCE SpanningTree, DCF                                 (runs link, arp_retry)
             └── MCLinkProofs

| Module | Models |
|---|---|
| `TCPSegments` | segments (`TCP_Packet.c`) and the two queues of a TCB (`TCB.c`) |
| `TCPConnection` | one connection between two hosts: every handler of `TCP_Connection.c`, `TCP_Incoming.c`, `TCP_Outgoing.c`, `RTO.c`, `DelayedAck.c`, `TCP_Socket.c`, the interfaces and the TIME_WAIT timer of `TCP.c`, and the IP network between them |
| `TCPStream` | the abstract promise: what the sender releases the receiver has; what the receiver passes up was sent |
| `TCPStreamRefinement` | the refinement mapping; `ImplementsStream` is a property of `transport` |
| `TCPCongestion` | Old Tahoe, Tahoe, Reno and NewReno of `Congestion.c` with 16-bit windows and window scaling, and the callers that drive them |
| `AODV` | the subnet: tables, FIFO, all messages, all timers, the drop notification of the MAC |
| `RIP` | databases of the routers, periodic and triggered updates, the distance vector algorithm |
| `OSPFAdjacency` | two routers from Down to Full: hellos, negotiation, exchange of summaries, requests, flooding of what is new |
| `OSPFFlooding` | the origination, delaying and flooding of router LSAs over Full adjacencies, in time |
| `DSR` | discovery with send buffer and request table, route caches, hop-by-hop forwarding with acknowledgements and maintenance |
| `RPL` | the DODAG of a root: DIO messages, preferred parents, parents and siblings, poisoning, floating roots, trickle timers, links whose quality changes |
| `ARP` | one LAN: table, waiting packets, request, reply, timers |
| `SpanningTree` | BPDUs, blocked ports, switch tables and the frames switched while the tree is made |
| `DCF` | stations on a channel: carrier sense, back-off, RTS/CTS, ACK, retries, collisions, in time |
| `MCTransport`, `MCRouting`, `MCLink` | suites for TLC: a protocol (or a setting of one) is picked at the start, the others keep the state they start in |
| `MCTCPConnection`, `MCAODV` | values for TLC: hosts, packet counts, topologies, flows |
| `TCPConnectionProofs`, `TCPCongestionProofs`, `RIPProofs`, `OSPFAdjacencyProofs`, `DSRProofs`, `RPLProofs` | the theorems about each module |
| `MCLinkProofs` | the theorems about ARP and the switch tables, in the suite that TLC checks |
| `MCRoutingProofs` | the theorems about AODV, which the suite extends; that the suite implements the modules it runs, and so what is proved of them holds in it |

A suite is a disjoint union of small systems and not a composition: it lets one run ask the same
question of several protocols. The components that meet are composed where they share state: the two
ends of a connection and the network, the stations and the medium, the switches and their frames.

`TCPConnection` and `TCPCongestion` meet at one place, `send_segment`. The connection abstracts the
window: it may send any number of waiting packets, at least one when nothing is in flight
(`SendCounts`). The congestion module justifies that abstraction: `WindowAdmitsSegment` and
`NoStall` say that the window always admits one segment and that with nothing in flight nothing
is waiting. Likewise the connection may retransmit SEG.ACK on any acknowledgement, which covers
every decision of fast retransmit. `OSPFAdjacency` and `OSPFFlooding` divide OSPF at the state Full.

TCP runs over AODV in the scenarios, through IP. They are not composed: what TCP assumes of the
layer below (it may reorder, lose and, with retransmissions of the MAC whose acknowledgement was
lost, duplicate) is weaker than anything AODV could add.

## How a module follows the code

**Segments and packets.** A segment keeps the flags, the two numbers and which application packet
it carries. Every application packet is one segment of `DataLen` bytes, as in the scenarios whose
packet size equals the MSS. Addresses and ports disappear with the other connections.

**Sockets and TCBs.** `sock[h]` and `tcb[h]` are separate because the code frees them separately:
an acknowledgement in LAST_ACK and a TIME_WAIT timer delete the TCB and leave the socket. The
listening socket that `tcp_init` creates on every device never changes and is left out: a SYN
that meets no socket makes one (`tcp_accept`).

**Undefined behaviour** ends a run with `fault` naming it: a failed `assert`, a NULL TCB, a call
through a NULL callback, a freed queue, a freed FIN. It is an outcome, not an exclusion:
`OnlyKnownFaults` says which of them are reached, and how: the segments of an earlier connection take a half-open child
back to LISTEN, where it has a freed queue and no callbacks, and a TIME_WAIT timer, or the application, finds
the TCB deleted. The assertion of `resend_syn`, that its timer meets only a handshake, never fails.

**Timers.** Each queued segment has one RTO event pending, since `add_timeout_event` is called where
a segment is queued, and the event of a segment that is no longer queued returns at once; so
`TimesOut` is a condition on the queue. TIME_WAIT timers are counted (`timers`), because the code
starts a new one at every restart and keeps a single flag (`istimewaittimerrestarted`).
`orphan[h]` remembers a timer whose TCB is gone. In AODV a RREQ timer lives as long as its entry of
the sent table, and a route's timer reschedules itself to the entry's Lifetime, so "the lifetime has
passed" is the removal of the entry by `ActiveRouteTimeout`.

**The out-of-order queue** is kept in arrival order because two functions disagree about it:
`check_segment_in_queue` makes a single pass in that order, and the drain takes segments from the
head only (`PassAdvance`, `HeadsBelow`).

**AODV messages.** One copy per receiver; a broadcast to neighbours is a set of copies, an unreceived
copy is a lost one. RREQ ids come from one counter for all nodes as in the code (a static variable),
so the seen table is a set of ids. The TTL is counted as the code does: nTTL is one or two above the
ring radius, IP decrements it on `NETWORK_IN` before AODV sees the packet, and AODV drops what has
nTTL ≤ 1 on `NETWORK_OUT`. `IP_COPY` and `IP_COMPARE` belong to the stack and are taken to compare
addresses.

**Time.** Most modules leave time out: an event may be served at any point, and a guard states the one
order that matters (`Timely` in AODV, `Hasty` in DSR). In `OSPFFlooding` and `DCF` time is what decides,
so every pending event carries the time left to it; `Tick` lets a unit pass when none is due, and the
events of one instant come in any order.

**Routing updates.** A RIP message is the list of the sender's routes at the time it was sent; a second
copy changes nothing, so those in flight are a set. An LSA is a key and the number of its instance;
in `OSPFFlooding` also its sequence number and its age, as `ospf_lsa_isMoreRecent` compares them.

**ARP.** The packets that wait for one next hop leave the buffer together, by the answer or the last timeout, so the
buffer is a set.

**Source routes.** The code routes a DSR data packet at every hop by the cache of that hop and never
decrements nSegsLeft, so a route error has no segment to travel: it is processed where it is made, and is
part of the maintenance timeout. Two variables are history and no part of the code: `astray` is set when an
initiator gets on the way of its own request, `again` holds who asked for which target anew with an earlier timeout
still to come. Nothing reads them but the properties.

**Counters and bounds.** Sequence numbers are naturals: with the ISS of the code they would wrap after
more traffic than a simulation carries. The windows are 16 bits wide (`Word`, `UINT16`). Bounds, all
of them constants: `MaxTcbs`, `MaxTimeWait`, `Packets` (connection); `MaxPackets`, `MaxDupAcks`
(congestion); `MaxRREQId`, `Expiring`, `Beacons` (AODV); `MaxInFlight` (RIP); `MaxInstance`, `MaxHeard`,
`MaxLost`, `MaxChanges` (OSPF); `MaxId`, `Fragile`, `Ageing`, `Hasty` (DSR); `MaxDisturbed` and `Floats` (RPL); `MaxBackoff`, `MaxLost` and the times
(DCF). `RerrDrops` is 10 in the code and 0 in the
runs: it is how many drops precede a report, and a report after the first shows the same handlers.

## Runs

| Run | Checks | Instance and why it is enough |
|---|---|---|
| `tcp_both_ways` | types; `InFlightIsQueued`, `SequenceAgreement`, `TimeWaitWillExpire`, `NeverRetreats`, `OnlyKnownFaults` | two settings. "Configured": two packets from the client, one from the server, over a network that loses and reorders; the client ends, so that its FIN races the server's data and FINs cross; two TCBs, no second SYN, three restarts of TIME_WAIT. "Reopening": two packets over a network that repeats every segment again and again and loses none; the SYN is sent twice before the client gives up and opens anew, and five TCBs in all: two of the client's, and those that the server makes of a SYN, of its repetition and of the second SYN, so that two TCBs stand while handshake segments, data and acknowledgements of the earlier pair come in. |
| `transport` | types; `WindowAdmitsSegment`, `NoStall`, `FlightSizeIsExact`, `RecoveryCanEnd`, `ImplementsStream`, `TahoeThirdInARow`, `DataIsAcknowledged`, `BothEndsClose` | five settings. NewReno with the largest MSS the theorems allow, 10922: with nine packets the flight comes within a segment of 65536, and four duplicates start a fast retransmit and inflate once more. Tahoe with MSS 8960 (jumbo frames), eight packets: slow start, congestion avoidance and a second loss. "transfer": losses and delayed acknowledgement, RCV.WND of two segments for a flight of three, so that part of it is discarded on arrival. "closing": two packets and a close, no loss. "streaming": three packets and the close over a network that reorders and duplicates; three is the least for which a queue can hold a segment after its successor. |
| `routing_safety` | types; `WaitsForDiscovery`, `FreshestFromOwner`, `RoutesLeadToDestination`, `NeverStaler` (AODV), `RoutesDescend`, `LearntIsPassedOn` (RIP), `NegotiationAgrees`, `FullIsSynchronised`, `MissingIsOnItsWay` (OSPF), `RoutesFollowLinks`, `TimeoutFindsEntry` (DSR), `ParentsAreKnown` (RPL) | AODV: a line of three nodes, so that the one in the middle passes requests on, answers them itself once it has a route and reports when it loses it; two packets for one destination, one joins the FIFO or starts a second discovery; on three nodes in range of each other TLC finds nothing more, and the theorems hold for any links. RIP: a line of three routers with two networks at one end, with and without losses. OSPF adjacency: two routers that lose a packet, or that lose none while an LSA is heard from a third (`OneTrouble`), updates at once or delayed. Flooding: a line where two routers change their links, twice each; `MissingIsOnItsWay` holds where LSAs have one way, and the ring is the business of `ospf_older`. DSR: a star whose last link may break, two nodes discovering one target at once; the routes of one expire, the timers of the other are as short as messages take. RPL: a triangle whose root has links that may be good or bad; two links change or DIOs are lost, at any time: enough for parents to loop, for ranks to grow to infinity, for poisoning and for a floating root, where the scenario ends. |
| `routing_live` | `NothingWaitsForever`, `EachPacketArrives` (AODV), `SettlesOnShortest` (RIP), `DatabasesAgree` (OSPF), `DodagSettles` (RPL) | AODV on a line of four: the far end is out of the first ring (one hop) and inside the second; a fifth node out of everyone's range runs through all its retries and gives up. RIP on a ring, with losses. OSPF as above, on links that lose nothing, as `DatabasesAgree` supposes of the adjacency. RPL as above. |
| `link` | types; `WaitsForAnswer`, `BufferDrains` (ARP), `NoForwardingLoop`, `TablesLeadToStation` (STP), `AckedIsDelivered`, `AnswersMeetExchange` (DCF) | ARP: three interfaces, two packets that share the next hop and not the destination, one the other way. STP: a square with a diagonal, links alike, and a triangle of unlike links where a broadcast and its answer cross the making of the tree. DCF: two hidden stations sending to the one between them, a long packet (RTS), a short one and a broadcast; retry limit 2, one frame lost to bit errors. |
| `tcp_twice`, `tcp_early_fin`, `cc_assert`, `aodv_rerr`, `ospf_older`, `arp_retry`, `dsr_ignored` | each refutes one property | see [below](#what-the-code-does-that-its-documents-do-not-say) |

Every action and every disjunct of the next-state relations is taken in some passing run. Deadlock
is not checked: when all packets have been sent, acknowledged or given up, the system stops.

What the properties say is stated above each of them in the modules. The reader who has little time
should look at `ImplementsStream`, `SequenceAgreement`, `RoutesLeadToDestination`, `FullIsSynchronised`,
`NoForwardingLoop` and `AckedIsDelivered`.

Some properties are conditional, and need to be. `RoutesLeadToDestination`: once some node has lost its
route to d (`lost`), loops are possible, because `InsertInRouteTable` sets the next hop only when an entry
is new (`RouteTable.c:79`) while its sequence number and hop count follow messages from other neighbours.
`NoForwardingLoop`: on links of different speed or delay a loop can remain, since every switch makes one
BPDU and no port that is blocked opens again. `FullIsSynchronised` and `DatabasesAgree` speak of databases
only when router LSAs are put off (`delayed`): with updates at once an LSA can change while the summaries are
exchanged and reach the neighbour by neither. `MissingIsOnItsWay` and the flooding part of `DatabasesAgree` speak of
networks where one way leads to each router: on a ring an older LSA may
replace a newer one (`ospf_older`).

## Fairness

Safety needs no fairness. The liveness properties assume what a discrete-event kernel gives: an event in
the list is served, because time advances and the list is served in order of time.

* TCP (`TransportSpec`): the application keeps handing over packets and RTO timers of queued
  segments are served (weak fairness: both remain enabled until taken). Delivery of a data segment
  that is sent again and again is strongly fair, and so is the delivery of acceptable
  acknowledgements: a lossy network may lose any number of copies but not all of them, which is what
  makes a retransmitting protocol useful at all. Setting "closing" adds delivery of FIN and FIN+ACK and the
  TIME_WAIT timer; without losses that is only the event list. With losses `BothEndsClose` would be false:
  the FIN is sent once.
* AODV (`Progress`): `NETWORK_OUT` of a waiting packet, the RREQ timer and the delivery of messages:
  `routing_live` asks what the ring search does on a network that works. It also
  assumes `Timely`: a RREQ timer fires after the messages of its discovery are gone, which is what the
  timeout, computed from the ring radius, is meant to ensure. Hellos are not fair: they are not
  needed.
* RIP: the update timers, and that a message is received or lost. Links may lose any number of updates;
  only those from r1, on which every shortest path depends, are strongly fair.
* OSPF: the timers and the receipt of packets, each weakly fair: one is pending until it is served. The
  properties are conditional on no packet being lost, because a lost description is not sent again.
* RPL: the trickle timers go off and the messages of every node arrive, or are among the few that are lost. The
  formulas `TimersGoOff` and `MessageArrives` say this by the variables that only these steps change.
* ARP: delivery of messages, and the request of a waiting packet. Its timers need not be fair.

## What is proved

The theorems hold for every value of the constants that satisfies the `ASSUME`s of the modules, and
each proof follows the same pattern: an inductive invariant `IInv`, a lemma for every action that
preserves it, and a last step in temporal logic.

**`TCPCongestionProofs`** (assumption `Unscaled`: window scaling off and MSS ≤ 10922; every variant,
number of packets and number of duplicates):

| Theorem | Property |
|---|---|
| `TypeCorrect` | windows stay in 16 bits, numbers natural |
| `WindowNeverCloses` | `WindowAdmitsSegment` |
| `NeverStalls` | `NoStall` |
| `FlightFitsWord` | `FlightSizeIsExact` |
| `RecoveryEnds` | `RecoveryCanEnd` |

`IInv` is `TypeInv /\ FlightInv /\ CongInv /\ WaitInv`. The properties are not inductive alone: that the
window admits a segment after recovery needs `ssthresh >= 2 * MSS` during recovery; that
`ssthresh + 3 * MSS` does not wrap needs the flight to fit in a word (ssthresh is at most half of it)
and gives the bound on MSS, 32767 + 3 · 10922 < 65536; that the flight fits in a word needs
`send_segment` to stop at a window that is itself a word. With window scaling the first property is false
(`set_cwnd` rounds down to a multiple of the scale), so `Unscaled` cannot be dropped.

**AODV**, in the first part of `MCRoutingProofs` (every set of nodes, links, packets and bounds):

| Theorem | Property |
|---|---|
| `TypeCorrect` | the types of tables, messages and packets |
| `NoneFresherThanOwner` | `FreshestFromOwner`: no table and no message is ahead of the owner's sequence number |
| `WaitsOnlyForDiscovery` | `WaitsForDiscovery`: a waiting packet has a pending request and no route |
| `RoutesAreNeverStaler` | `NeverStaler`: no handler replaces a route by an older one |
| `RoutesAlwaysLead` | `RoutesLeadToDestination`: next hops lead to the destination, without a loop, as long as no route to it was lost |

`IInv` is `CounterInv /\ TableInv /\ NetInv /\ WaitInv`. The parts need each other: a table is no fresher
than the owner only if the message it was made from is, and a message of an intermediate node only if
its table is; that a RREQ is forwarded with a natural TTL needs that one in flight has TTL ≥ 2; that the
seen table holds issued ids needs it of the requests. `WaitInv` is the packet-by-packet form of
`WaitsForDiscovery`: it survives `EndsDiscovery`, which removes the sent entry, because the same handler
has just inserted the route and `TransmitFIFO` has emptied the buffer for that destination
(`TransmitLeavesNothing`). `NeverStaler` follows from the types and one lemma per kind of table change.

`RoutesAlwaysLead` rests on a second invariant over the first, `LeadInv`: a message that teaches a route to d
comes from a neighbour that is d or has a route to d (`Taught`), next hops are neighbours, and the next hops
to d form no loop. What makes it inductive is what looks like a weakness of `InsertInRouteTable`: the next hop
is set when the entry is made and never after (`Extends`: a step leaves every next hop alone, or gives one node
one new entry through a node that already has the route). So routes hang below each other in the order they
were learnt, and no comparison of sequence numbers is needed. Once some node has lost its route to d the order is
gone, and the property speaks of the other destinations only.

**`RIPProofs`** (every graph of routers, networks and metric limit; no assumption beyond those of `RIP`):

| Theorem | Property |
|---|---|
| `RoutesAlwaysDescend` | `RoutesDescend`: the metric falls along the next routers, so they form no loop |
| `MetricsNeverGrow` | no step removes a route or makes its metric larger |
| `LearntIsAlwaysPassedOn` | `LearntIsPassedOn`: on links without loss, a neighbour knows it or is being told |

`IInv` is `DatabaseInv /\ DescendInv /\ NetInv`: an update in flight is `Honest`, it names networks that its sender
still knows and metrics that the sender is still at or below, however old it is. That holds because tables only improve,
which is `MetricsNeverGrow`; and an entry that is taken from it lies above the sender's. For `LearntIsPassedOn` the lemma
to prove is about one message that teaches several networks: the triggered update is sent in the middle of
reading, and the last of those sent carries the entry that triggered it (`ReadUpTo`, `AfterReading`).

**`RPLProofs`** (assumption `Configured`: neighbours are mutual and their links have positive costs, the limits are
naturals, `none` is neither a node nor a message; every number of roots, order of neighbours and disturbances):

| Theorem | Property |
|---|---|
| `TypesHold` | the types of nodes, memories and messages |
| `ParentsStayKnown` | `ParentsAreKnown`: each parent and sibling of a member has a remembered message, which puts it above the member or level with it |

The invariant says of each node that it is `Good`, a predicate of its own state and its memory, as the handlers are functions
of these two: joining, following the preferred parent, choosing anew, poisoning and floating are each shown to make a
good node of a good one (`Sound`). Between the receipt of a message and the choice of parents a node is good
`But` for the neighbour that sent it (`RemembersBut`): its rank may have passed the member's, and the code restores
the order only because every path from there goes through `choose_parents_and_siblings` or forgets the parents.

**`DSRProofs`** (assumption `Configured`: each packet is for another node, the limits are naturals and the one on
requests is positive; every network, breaking, ageing and hasty nodes):

| Theorem | Property |
|---|---|
| `TypesHold` | the types of the tables, caches, buffers and messages |
| `RoutesAlwaysFollowLinks` | `RoutesFollowLinks`: a cached route begins at its node, follows links and visits no node twice, while `astray` is false |
| `TimeoutsFindTheirEntry` | `TimeoutFindsEntry`: a pending RREQ timeout has an entry to count in, but for those in `again` |

`IInv` is `TypeOK /\ EndsInv /\ TimersInv /\ (~astray => RoadsInv)`. A `Road` is a sequence of nodes that follows links and
repeats none. `RoadsInv` says that caches and replies hold roads, and that the way of a request in flight is a road which
ends beside its receiver and has not met the target. Roads stay roads when they are cut (`PartOfRoad`), go on by a new node
(`RoadGoesOn`) and are joined where they share no node and their ends are linked (`RoadsJoined`): the first of these two
conditions is what `ValidateRouteCache` tests, the second holds as long as the cached route is cut nowhere or
the list of the request is empty. `EndsInv` is what needs no such condition: where routes, replies and packets begin
and end, so that a next hop exists (`path[2]`) and a reply finds its way back. `TimersInv` is more than the property: the only
timer for a target has the unanswered entry that bears its event. An entry without a timer may lie before
it in the table (another node's request), and `getRREQTable` may return that one: a reply then marks the wrong entry
and deletes no timer, a retry gives its event to the wrong entry. Both keep `TimersInv`: after the first the right entry
is still unanswered, after the second the new timer has the entry it was given to.

**`OSPFAdjacencyProofs`** (assumption `Configured`: two routers, whose names no other LSA bears, finitely many LSAs, each
heard of by one of them, the bounds are naturals; every number of LSAs and of their instances, every size of a description):

| Theorem | Property |
|---|---|
| `TypesHold` | the types of neighbours, databases and packets |
| `OneMasterHolds` | `OneMaster`: routers that exchange descriptions agree on the master |
| `NoMismatchHolds` | `NoMismatch`: on a link that loses nothing no event is raised that has no handler |
| `FullIsSynchronisedHolds` | `FullIsSynchronised`: what a router with a Full neighbour lacks is queued for it or on its way |

There are two invariants. `AlwaysInv` holds on every link: types, that nothing is newer than the database of the router an
LSA comes from (its `Owner`), that the owner is neither sent updates of it nor asked for what it lacks, and that
only the router with the greater id is ever a master. `LosslessInv` adds, as long as nothing is lost, where the two routers
are with each other and where each LSA is.

The first is `ExchangeInv`: six phases, each of which fixes the states of both routers, what they remember and the one description
under way. High has not begun (`Waiting`) or waits for Low to take its first description (`Opening`); Low is the slave and
has answered (`Accepted`); then the slave has a description to answer (`Asked`) or the master an answer to
read (`Answered`), in turn, until both have told everything (`Told`). The first descriptions of Low may still be
on the way in `Accepted`, before the answer. A description changes the phase or, in `High`'s ExStart, nothing
(`LowBegins`, `LowGoesOn`, `HighOpens`, `HighBegins`, `HighGoesOn`); that it is in sequence and no duplicate follows from
the phase (`InPlace`), not from the check of the handler.

The second is `KeyInv`, of one LSA: it is described once, and asked for only after that (`OnceOk`); updates of it arrive in the
order of its instances (`OrderOk`); until the one that was asked for has come, those on the way are strictly newer than what the
other router has and than each other (`FreshOk`), which is why a requested LSA never comes as an old one; and what the other router
lacks is left in the summary, described, requested, queued or on its way (`OnItsWay`). The last holds
only with delayed updates: an answer to a request that is not delayed takes the queue with it, and
`minLSInterval` then drops it at the other end. That the invariants hold in the small was first checked with TLC.

**`MCRoutingProofs`** ties the theorems to what TLC checks: `ImplementsAodv`, `ImplementsRip`, `ImplementsAdjacency`,
`ImplementsDsr` and `ImplementsRpl` say that the suite's specification implies that of the module with the suite's
values, `RipRoutesDescend`, `RipLearntIsPassedOn`, `AdjNegotiationAgrees`, `AdjFullIsSynchronised`, `DsrRoutesFollowLinks`,
`DsrTimeoutFindsEntry` and `RplParentsAreKnown` that the invariants of `routing_safety` hold of it. The constants of the
instances satisfy `Configured` (`AdjConfigured` from `OspfAssumption`, that the routers are two and no LSA bears their names;
`DsrConfigured` from `DsrAssumption`, that a packet is for another node; `RplConfigured` from `RplAssumption`, that
`NULL` is no node and no message).

**`MCLinkProofs`** (assumptions `ArpAssumption`: a next hop is another interface of the LAN, the destination itself if that is on
it; `StpAssumption`: a station is not a switch and is connected to one, frames are sent by stations; every set of hosts,
packets and routers, every retry limit; every set of switches, wiring, order of ids and costs):

| Theorem | Property |
|---|---|
| `ArpTypes` | the types of tables, buffers, flags and messages |
| `ArpWaits` | `WaitsForAnswer`: a set flag has a request behind it; where nothing is lost a packet that waits has a request or its answer under way |
| `SwitchTablesLead` | `TablesLeadToStation`: the entries for a station lead there, and not in a circle |

They are theorems of the suite's specification: `SuiteRunsArp` says that it implies that of `ARP`. `WaitsForAnswer` is not
inductive. When a packet comes and the flag is set no request is made for it, so `ArpInv` must say of the flag what the
property says of the packets (`WaitInv`): on a medium that loses nothing a request or an answer is under way for each next hop with a
flag. A timer may clear a flag that another request has set, and `GenerateRequest` sets it under another key:
neither takes back a request. `StpInv` adds to the property what a frame says of the port it came by: if a
switch sent it, the switch has an entry for its source (`FrameInv`, `EntryInv`). A switch that learns a station points to one that knew it before, whose own
way avoids a switch that did not; blocked ports and BPDUs do not come into it, so that the tables lead to
their stations while the tree is wrong.

**`TCPConnectionProofs`** (every number of packets, segment length, window, retry limit, both modes of
acknowledgement, any network; the only arithmetic assumption used is that lengths and steps are
naturals and `DataLen` is positive):

| Theorem | Property |
|---|---|
| `TypeCorrect` | the types of sockets, TCBs, interface and segments |
| `NothingForgotten` | `InFlightIsQueued`: every byte in flight is in the retransmission queue |
| `TimeWaitEnds` | `TimeWaitWillExpire`: TIME_WAIT always has the timers it needs to end |
| `NeverGoesBack` | `NeverRetreats`: SND.UNA, SND.NXT and RCV.NXT of a living TCB never go back |

`IInv` is `TypeInv /\ TcbInv /\ SockInv`, and the heart of `TcbInv` is `GoodTcb`, one predicate on a
single TCB, which each transformer of a TCB (`SentTcb`, `AfterAck`, `AfterFin`, `InOrderTcb`, ...) is
shown to keep before any action is looked at. Beyond the properties themselves it needs two facts. The
flag `istimewaittimerrestarted` implies two pending timers in *every* state, not only in TIME_WAIT.
And until the handshake is over SND.UNA is the ISS, SND.NXT the ISS + 1 and the application is not
waited for (`HandshakeOf`): that is why `resend_syn`, which assigns SND.UNA and SND.NXT afresh, takes
nothing back, and it holds because only `send_segment` sets `waitFromApp`, after the handshake, and
`tcp_close_socket` resets it (`SockInv` carries it over the time without a socket).

TLC checks the same formulas in the runs above; there the invariants are first found, or refuted.

**Only model-checked**:

* all liveness properties: fairness and ENABLED are out of the prover's reach;
* `SequenceAgreement`, `OnlyKnownFaults` and the refinement `ImplementsStream` of TCP: they relate both ends and the
  segments in flight, those of earlier connections of the same ports included, and whether they hold for every number
  of TCBs is not known; TLC has five. `TahoeThirdInARow` counts duplicates over steps;
* `MissingIsOnItsWay` and the types of `OSPFFlooding`: an update is handled by a fold over its LSAs, and what a fold keeps is shown by
  induction over its list. In `RIP` nothing but the number of routers bounds a metric (`MaxMetric`). So `TypesOK` of
  `routing_safety` is proved of AODV, of the adjacency, of DSR and of RPL only;
* `NoForwardingLoop` relates the BPDUs of all the roots to be, in the order of their arrival. `AckedIsDelivered` and
  `AnswersMeetExchange` of the DCF depend on how the times compare (`SIFS`, `CtrlTime`, `Slack`): an answer to a frame
  that was given up is only told from another by when it comes, and TLC checks the values of one standard, for stations with no
  distance between them.

The data operators hold no induction; where the modules describe a loop of the code they do it by a closed form
(`PassAdvance`, `SendCounts`, `IncreaseTTL`, `ReadUpTo`) or a fold.

## What the code does that its documents do not say

Seven runs exhibit a disagreement between the code and a comment, an assertion or the RFC that a header
lists as implemented. Each has a `findings` entry with both places.

* `tcp_twice`: a segment can be delivered to the application twice. When packets 3, 2, 1 arrive in that
  order the queue is 3, 2, and the single pass has gone by 3 before it moves RCV.NXT over 2; 3 stays at
  RCV.NXT and keeps 2 behind it. The retransmission of 3 then counts as new, and the drain delivers the
  queued 3 and 2 first: the application sees 1, 3, 2, 3 (`TCB.c:354`).
* `tcp_early_fin`: a FIN that overtakes data closes the receiver before the data is delivered
  (`TCP_Incoming.c:284`).
* `cc_assert`: after a retransmission timeout the window is exactly one segment and
  `assert(t->SND.WND > t->get_MSS(s))` fails on the next packet of the application
  (`TCP_Outgoing.c:35`).
* `aodv_rerr`: a route error does not delete the route: it sets a flag that no lookup reads, and
  extends the entry's lifetime (`AODV_RouteError.c:124`).
* `arp_retry`: the timeout adds the next request under the type of a timer, for which there is no such case:
  a request that is lost is never repeated, and its packets wait under no timer (`RequestTimeOut.c:110`).
* `ospf_older`: `ospf_lsa_isMoreRecent` returns 1, 0 or -1 and its callers test it as a truth value: an older
  LSA replaces the database copy. On a ring, where an LSA arrives on two paths, it does (`OSPF_LSUPDATE.c:272`).
* `dsr_ignored`: `CheckSendBuffer` walks the cache once for all its buffers: the packets of a second target stay
  although their route is there (`SendBuffer.c:91`).

Observed while modelling, visible in the modules, and not given runs of their own:

* TCP: a lost FIN is never retransmitted (`TCP_Connection.c:331`), and a FIN outside RCV.WND is
  discarded; a second restart of TIME_WAIT leaves a timer that reads a deleted TCB (`TCP.c:257`); a
  FIN in FIN_WAIT_2 is acknowledged as SEG.SEQ+1 whatever is missing below (`TCP_Incoming.c:297`); the
  RST that refuses a SYN acknowledges SeqNum + HdrLength and is never acceptable in SYN_SENT
  (`TCP_Packet.c:244`); acknowledgements in TIME_WAIT are echoed (`RcvAckTimeWait`), so two ends in
  TIME_WAIT answer each other for as long as both live.
* Congestion control: a NewReno partial acknowledgement may enlarge the window (`Congestion.c:421`);
  Reno does not reset `dupAckCount` in the middle of recovery (693), and a timeout leaves
  `isFastRecovery` set (838); with window scaling the loss window may round below one segment and the
  sender then waits for an event that does not come (160-175).
* AODV: an invalid route is kept alive by the traffic that still uses it; the hop count is 0 in a RREQ
  of its originator and 1 in a RREP, so `Newer` compares with an offset; the RREP's lifetime is a duration
  used as a time (`RREP.c:80`); data packets get nTTL 35 again at every hop
  (`GeneralPacketProcessing.c:42`), so a loop ends only when the route expires; the back-off branch of the
  request timeout compares nTTL with 35 where it is 36, and is never taken.
* OSPF: a description lost in Exchange leaves the adjacency where it is, as neither side repeats one; the
  slave answers a duplicate with a copy of the duplicate (`OSPF_DD.c:173`). An LSA whose body has not changed
  circulates on a ring under its old sequence number.
* RIP: RIP_TIMEOUT acts only while the number of messages received is zero, and it is scheduled by a message:
  no route expires.
* DSR: RREQ ids of different origins are compared as equal (`RouteRequest.c:344`), so that one of two discoveries may
  be taken for a duplicate; the retransmission count of the maintenance buffer is not reset by an acknowledgement.
  Where a cached route passes the initiator, `determine_position` (`RouteReply.c:94-108`) cuts it behind the initiator,
  and the reply joins what is left to the end of the request's list: the two ends are neighbours only if the list is
  empty. TLC finds such a route on a triangle with a tail; it takes a request that comes over other nodes. An
  initiator that no longer has its own request in the table forwards it, and is then twice on the way. After either
  (`astray`) routes need not follow links. A node that got its route without its timer being deleted (the reply marked
  another node's entry, or was for another node) may lose the route and ask for the same target again while that timeout
  is pending; the two timeouts then count in each other's entry, and the
  one that is left reads the NULL that `getRREQTable` returns (`RouteRequest.c:96-97`): `TimeoutFindsEntry` excepts
  these (`again`).
* RPL: two changes of links can make nodes take each other as parents, until the trickle intervals have raised
  their ranks: the loop is left again (`DodagSettles`), by a shorter way or by poisoning. A node that
  follows its parent reads the rank from the message and not from its base (`Neighbor.c:285`), where it is 0.
  `max_rank_inc` is never set, and so 0: a node whose rank grows poisons itself and becomes a floating root, and
  since only the sequence numbers of DODAGs are compared, 0 with 1, the configured root itself joins such a DODAG
  (`DIO.c:134`), after which the network may reorganise for ever. `DodagSettles` speaks of the runs without a
  floating root, and the scenario of RPL ends where a node becomes one (`Floats`).
* STP: frames that come in on a blocked port are switched; where links differ the tree may leave a loop or
  cut switches off.
* IEEE 802.11: a hidden station that starts exactly when a data frame ends makes the radio refuse the
  ACK (`IEEE802_11_Phy.c:493`), and the receiver stays in TXing_ACK until the next frame for it; the ids of
  transmissions of different stations are compared as one sequence (`IEEE802_11_Radio.c:37`); an AckTimeout is
  added even when `TransmitFrame` was refused; the NAV is tested and never set; copies of a broadcast after the
  first are not marked as collided.

Noticed while reading parts that are not modelled, and not checked: the IGMP timer of the other querier's presence re-adds itself at a time in the past
(`IGMP_Router.c`); a host that is in no group follows a NULL table on a query (`IGMP_Host.c`); a cellular channel granted
to a call that has ended meanwhile is not returned.

## What is not modelled

Of the modelled components:

* TCP: SACK, timestamps and window scaling in the connection (disabled in every
  shipped scenario), the RTT estimator, urgent data, sockets of other connections, the RST branch of
  SYN_SENT (no acceptable RST is ever sent to it); BIC and CUBIC (real arithmetic). SND.WND, SND.WL1 and
  SND.WL2 are left out: `send_segment` overwrites SND.WND with the congestion window before it reads it.
* AODV: the precursor lists, which nothing reads, IPv6, packets for other networks, and ties between two
  events of the same instant.
* RIP: the timers of routes, which never act. OSPF: areas, network LSAs and the election of a designated router,
  the SPF tree, ageing, acknowledgements (the timer that would retransmit is not started by
  `ospf_lsa_flood`). DSR: link-layer acknowledgements. RPL: DAO and DIS messages, the
  routes down, what the options say (that they changed restarts the trickle timer, `ConfigUpdated`), the doubling of trickle intervals, more than one configured root. ARP: static tables, broadcast and multicast next hops.
* Ethernet: VLANs, trunk ports, firewalls. IEEE 802.11: aggregation and block acknowledgement, rate adaptation,
  access points, HT and VHT rates, and the time a frame takes on its way: the timeouts leave two microseconds for it
  (`CSMACA.c:424-429`, `RTS_CTS.c:137-142`), enough for 300 metres there and back; beyond, an answer would come late, and
  `AckedIsDelivered` and `AnswersMeetExchange` say nothing. Medium: received power and interference (a relation, who hears whom).
* Metrics and packet traces everywhere.

Some hazards are listed with no property, or with one that covers them in part; their notes say why. What is asked for
does not hold where a FIN is lost (`TCP_Connection.c:331`), where the answer to a description of the master is
(`OSPF_DD.c:173`) and where the ARP timeout reads the head of an empty buffer (`RequestTimeOut.c:118`); that DSR
drops a discovery for another's (`RouteRequest.c:344`) harms its liveness, which is not checked.

Of the system: everything the table above does not put in bold. Some of it is planned (below); random
access MACs, propagation, mobility and energy are continuous or statistical; the CLI, firewall and SDN
code only reads and writes configuration; LTE, cellular, cognitive radio, ZigBee and IEEE 1609 are in
none of the shipped scenarios. The kernel, stack and metrics have no source here and appear as what the
protocols use of them.

## Plan

In the order of work, the most important behaviour first. Done: 1 to 9.

1. TCP connection with its abstract stream, and the theorems about its queues and timers.
2. TCP congestion control, and the theorems about its window.
3. AODV, and the theorems about its tables and its FIFO.
4. `ARP`: table, buffer, retries, reply against timeout.
5. `RIP`; `OSPFAdjacency` and `OSPFFlooding`.
6. `DSR`: send buffer, caches and maintenance.
7. `SpanningTree` with the frames switched meanwhile.
8. `DCF`: the IEEE 802.11 MAC over the shared medium.
9. `RPL`: the DODAG of a root, with trickle timers and poisoning: parents are remembered, all nodes join.
10. `Cellular`: channels, calls and handover: no channel has two owners, all return. `IGMP`: memberships against
    queries and timers. `DTDMA`: slot formation and fragmentation. `OLSR`: MPR selection.
11. Proofs. Done: TCP connection, congestion control, AODV, RIP, OSPF adjacency, DSR, RPL, ARP, switch tables. Open: the
    refinement of `TCPStream`, from an invariant over segments in flight.

## Running the checks

    tlc -workers 2 -config tcp_both_ways.cfg MCTCPConnection.tla
    tlc -workers 2 -config routing_safety.cfg MCRouting.tla
    tlapm TCPConnectionProofs.tla
    tlapm TCPCongestionProofs.tla
    tlapm RIPProofs.tla
    tlapm DSRProofs.tla
    tlapm RPLProofs.tla
    tlapm OSPFAdjacencyProofs.tla
    tlapm MCRoutingProofs.tla
    tlapm MCLinkProofs.tla

The module of each run is in `PROJECT.json`, which also maps every definition to the lines it models
(`map`) and gives, for each property of a passing run, a change of one definition that breaks it
(`mutants`).
