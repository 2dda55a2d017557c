--------------------------- MODULE MCRoutingProofs ---------------------------
(***************************************************************************)
(* AODV, for every set of nodes, links, packets and bounds: the types,     *)
(* that no table and no message is fresher than the owner of the           *)
(* destination, that packets wait for a route only during a discovery,     *)
(* that no entry goes back to an older route and that routes lead to their *)
(* destinations.                                                           *)
(*                                                                         *)
(* The scenarios of MCRouting implement the specifications of the          *)
(* protocols they run, and have their theorems: what TLC checks of AODV,   *)
(* of RIP, of OSPF, of DSR and of RPL in the small holds in every network  *)
(* of the scenarios, of whatever links and routers.                        *)
(***************************************************************************)
EXTENDS MCRouting, TLAPS

-----------------------------------------------------------------------------
(* AODV.                                                                   *)


\* The parts of the inductive invariant, each for one variable at a time.

\* A table whose sequence numbers are not above those of the owners, sq.
GoodTable(t, sq) ==
    /\ t \in [Node -> Route]
    /\ \A x \in Node : t[x].seq <= sq[x]

\* A message whose sequence numbers are not above those of the owners; a RREQ has
\* an id that has been issued and a TTL that is not used up.
GoodMessage(m, sq, k) ==
    /\ m \in RREQ \/ m \in RREP \/ m \in RERR
    /\ m.type = "RREQ" => m.oseq <= sq[m.orig] /\ m.id \in 1..k /\ m.ttl >= 2
    /\ m.type = "RREP" => m.dseq <= sq[m.dest]

SentEntry == [ttl : Nat, times : 0..RREQ_RETRIES + 1]

CounterInv ==
    /\ seqNumber \in [Node -> Nat]
    /\ sent \in [Node -> [Node -> SentEntry]]
    /\ seen \in [Node -> SUBSET (1..nRREQId)]
    /\ nRREQId \in 0..MaxRREQId
    /\ nRerrCount \in [Node -> 0..RerrDrops + 2]
    /\ pkt \in [Packet -> Place]
    /\ lost \subseteq Node

TableInv == routeTable \in [Node -> [Node -> Route]] /\ \A n \in Node : GoodTable(routeTable[n], seqNumber)

NetInv == \A m \in net : GoodMessage(m, seqNumber, nRREQId)

\* WaitsForDiscovery, packet by packet.
WaitInv ==
    \A p \in Packet : pkt[p].where = "fifo" =>
        sent[pkt[p].at][Dst[p]].times > 0 /\ ~RouteFound(routeTable[pkt[p].at], Dst[p])

IInv == CounterInv /\ TableInv /\ NetInv /\ WaitInv

-----------------------------------------------------------------------------
(* The route table. *)

LEMMA RouteFields ==
    ASSUME NEW r \in Route
    PROVE  /\ r.seq \in Nat /\ r.hop \in Nat
           /\ r.flag \in {"None", "Valid", "InValid"}
           /\ r.flag # "None" => r.next \in Node
           /\ r.flag = "None" => r.next = NULL /\ r.seq = 0
  BY DEF Route, NoRoute

LEMMA RouteMade ==
    ASSUME NEW f \in {"Valid", "InValid"}, NEW s \in Nat, NEW h \in Nat, NEW x \in Node
    PROVE  [flag |-> f, seq |-> s, hop |-> h, next |-> x] \in Route
  BY DEF Route

\* An insertion keeps what is found and finds ip.
LEMMA InsertKeepsTable ==
    ASSUME NEW t \in [Node -> Route], NEW ip \in Node, NEW s \in Nat, NEW h \in Nat,
           NEW x \in Node
    PROVE  /\ InsertInRouteTable(t, ip, s, h, x) \in [Node -> Route]
           /\ \A y \in Node :
                 RouteFound(t, y) => RouteFound(InsertInRouteTable(t, ip, s, h, x), y)
           /\ RouteFound(InsertInRouteTable(t, ip, s, h, x), ip)
  <1> DEFINE r == [flag |-> "Valid", seq |-> s, hop |-> h, next |-> NextHop(t[ip], x)]
  <1>1. t[ip] \in Route
    OBVIOUS
  <1>2. NextHop(t[ip], x) \in Node
    BY <1>1, RouteFields DEF NextHop
  <1>3. r \in Route /\ r.flag = "Valid" /\ r.seq = s
    BY <1>2, RouteMade
  <1>4. CASE Newer(t[ip], s, h)
    <2>1. InsertInRouteTable(t, ip, s, h, x) = [t EXCEPT ![ip] = r]
      BY <1>4 DEF InsertInRouteTable
    <2> HIDE DEF r
    <2> QED BY <1>3, <2>1 DEF RouteFound
  <1>5. CASE ~Newer(t[ip], s, h)
    <2>1. InsertInRouteTable(t, ip, s, h, x) = t
      BY <1>5 DEF InsertInRouteTable
    <2>2. RouteFound(t, ip)
      BY <1>1, <1>5, RouteFields DEF Newer, RouteFound
    <2> QED BY <2>1, <2>2
  <1> QED BY <1>4, <1>5

LEMMA InvalidateKeepsTable ==
    ASSUME NEW t \in [Node -> Route], NEW u \in Node, NEW ds \in SUBSET Node
    PROVE  LET v == Invalidate(t, u, ds)
           IN  /\ v \in [Node -> Route]
               /\ \A y \in Node : /\ v[y].seq = t[y].seq /\ v[y].hop = t[y].hop
                                  /\ RouteFound(v, y) <=> RouteFound(t, y)
  <1> DEFINE v == Invalidate(t, u, ds)
  <1>1. SUFFICES ASSUME NEW y \in Node
                 PROVE  /\ v[y] \in Route
                        /\ v[y].seq = t[y].seq /\ v[y].hop = t[y].hop
                        /\ v[y].flag # "None" <=> t[y].flag # "None"
    BY <1>1 DEF Invalidate, RouteFound
  <1>2. t[y] \in Route
    OBVIOUS
  <1>3. CASE y \in ds /\ t[y].next = u
    <2>1. v[y] = [t[y] EXCEPT !.flag = "InValid"]
      BY <1>3 DEF Invalidate
    <2>2. t[y].flag # "None"
      BY <1>2, <1>3, RouteFields, LinkAssumption
    <2>3. t[y] \in [flag : {"Valid", "InValid"}, seq : Nat, hop : Nat, next : Node]
      BY <1>2, <2>2 DEF Route, NoRoute
    <2> QED BY <2>1, <2>2, <2>3 DEF Route
  <1>4. CASE ~(y \in ds /\ t[y].next = u)
    <2>1. v[y] = t[y]
      BY <1>4 DEF Invalidate
    <2> QED BY <1>2, <2>1
  <1> QED BY <1>3, <1>4

\* The sequence numbers of the owners only grow.
LEMMA TableStaysGood ==
    ASSUME NEW sq \in [Node -> Nat], NEW sr \in [Node -> Nat], \A x \in Node : sq[x] <= sr[x],
           NEW t, GoodTable(t, sq)
    PROVE  GoodTable(t, sr)
  <1>1. SUFFICES ASSUME NEW x \in Node PROVE t[x].seq <= sr[x]
    BY <1>1 DEF GoodTable
  <1>2. t[x] \in Route /\ t[x].seq <= sq[x] /\ sq[x] <= sr[x]
    BY DEF GoodTable
  <1>3. t[x].seq \in Nat /\ sq[x] \in Nat /\ sr[x] \in Nat
    BY <1>2, RouteFields
  <1> QED BY <1>2, <1>3

LEMMA InsertStaysGood ==
    ASSUME NEW sq \in [Node -> Nat], NEW t, GoodTable(t, sq),
           NEW ip \in Node, NEW s \in Nat, NEW h \in Nat, NEW x \in Node, s <= sq[ip]
    PROVE  GoodTable(InsertInRouteTable(t, ip, s, h, x), sq)
  <1>1. t \in [Node -> Route] /\ \A y \in Node : t[y].seq <= sq[y]
    BY DEF GoodTable
  <1>2. InsertInRouteTable(t, ip, s, h, x) \in [Node -> Route]
    BY <1>1, InsertKeepsTable
  <1>3. ASSUME NEW y \in Node PROVE InsertInRouteTable(t, ip, s, h, x)[y].seq <= sq[y]
    <2>1. CASE Newer(t[ip], s, h) /\ y = ip
      <3>1. InsertInRouteTable(t, ip, s, h, x)[y].seq = s
        BY <1>1, <2>1 DEF InsertInRouteTable
      <3> QED BY <2>1, <3>1
    <2>2. CASE ~(Newer(t[ip], s, h) /\ y = ip)
      <3>1. InsertInRouteTable(t, ip, s, h, x)[y] = t[y]
        BY <1>1, <2>2 DEF InsertInRouteTable
      <3> QED BY <1>1, <3>1
    <2> QED BY <2>1, <2>2
  <1> QED BY <1>2, <1>3 DEF GoodTable

LEMMA InvalidateStaysGood ==
    ASSUME NEW sq \in [Node -> Nat], NEW t, GoodTable(t, sq),
           NEW u \in Node, NEW ds \in SUBSET Node
    PROVE  GoodTable(Invalidate(t, u, ds), sq)
  <1>1. t \in [Node -> Route]
    BY DEF GoodTable
  <1> QED BY <1>1, InvalidateKeepsTable DEF GoodTable

-----------------------------------------------------------------------------
(* Messages. *)

LEMMA RreqFields ==
    ASSUME NEW m \in RREQ
    PROVE  /\ m.type = "RREQ"
           /\ m.to \in Node /\ m.last \in Node /\ m.orig \in Node /\ m.dest \in Node
           /\ m.oseq \in Nat /\ m.id \in Nat /\ m.hop \in Nat /\ m.ttl \in Nat
  BY DEF RREQ

LEMMA RrepFields ==
    ASSUME NEW m \in RREP
    PROVE  /\ m.type = "RREP"
           /\ m.to \in Node /\ m.last \in Node /\ m.orig \in Node /\ m.dest \in Node
           /\ m.dseq \in Nat /\ m.hop \in Nat /\ m.ttl \in Nat
  BY DEF RREP

LEMMA RerrFields ==
    ASSUME NEW m \in RERR
    PROVE  m.type = "RERR" /\ m.to \in Node /\ m.src \in Node /\ m.dests \in SUBSET Node
  BY DEF RERR

LEMMA MessageKind ==
    ASSUME NEW m, NEW sq, NEW k, GoodMessage(m, sq, k)
    PROVE  /\ m.type = "RREQ" => m \in RREQ
           /\ m.type = "RREP" => m \in RREP
           /\ m.type = "RERR" => m \in RERR
  BY RreqFields, RrepFields, RerrFields DEF GoodMessage

LEMMA MessageStaysGood ==
    ASSUME NEW sq \in [Node -> Nat], NEW sr \in [Node -> Nat], \A x \in Node : sq[x] <= sr[x],
           NEW k \in Nat, NEW l \in Nat, k <= l, NEW m, GoodMessage(m, sq, k)
    PROVE  GoodMessage(m, sr, l)
  <1>1. CASE m \in RREQ
    <2>1. m.type = "RREQ" /\ m.orig \in Node /\ m.oseq \in Nat
      BY <1>1, RreqFields
    <2>2. m.oseq <= sq[m.orig] /\ m.id \in 1..k /\ m.ttl >= 2
      BY <2>1 DEF GoodMessage
    <2>3. m.oseq <= sr[m.orig] /\ m.id \in 1..l
      BY <2>1, <2>2
    <2> QED BY <1>1, <2>1, <2>2, <2>3 DEF GoodMessage
  <1>2. CASE m \in RREP
    <2>1. m.type = "RREP" /\ m.dest \in Node /\ m.dseq \in Nat
      BY <1>2, RrepFields
    <2>2. m.dseq <= sq[m.dest]
      BY <2>1 DEF GoodMessage
    <2>3. m.dseq <= sr[m.dest]
      BY <2>1, <2>2
    <2> QED BY <1>2, <2>1, <2>3 DEF GoodMessage
  <1>3. CASE m \in RERR
    BY <1>3, RerrFields DEF GoodMessage
  <1> QED BY <1>1, <1>2, <1>3 DEF GoodMessage

LEMMA RreqCopiesAreGood ==
    ASSUME NEW sq \in [Node -> Nat], NEW k \in Nat,
           NEW n \in Node, NEW orig \in Node, NEW dest \in Node, NEW oseq \in Nat,
           NEW id \in 1..k, NEW hop \in Nat, NEW ttl \in Nat, oseq <= sq[orig], ttl >= 2,
           NEW m \in RreqCopies(n, orig, oseq, dest, id, hop, ttl)
    PROVE  GoodMessage(m, sq, k)
  <1>1. PICK x \in Node : m = [type |-> "RREQ", to |-> x, last |-> n, orig |-> orig,
                              oseq |-> oseq, dest |-> dest, id |-> id, hop |-> hop, ttl |-> ttl]
    BY DEF RreqCopies, Neighbours
  <1>2. m \in RREQ
    BY <1>1 DEF RREQ
  <1> QED BY <1>1, <1>2 DEF GoodMessage

LEMMA RrepIsGood ==
    ASSUME NEW sq \in [Node -> Nat], NEW k \in Nat,
           NEW to \in Node, NEW last \in Node, NEW orig \in Node, NEW dest \in Node,
           NEW dseq \in Nat, NEW hop \in Nat, NEW ttl \in Nat, dseq <= sq[dest]
    PROVE  GoodMessage(Rrep(to, last, orig, dest, dseq, hop, ttl), sq, k)
  <1>1. Rrep(to, last, orig, dest, dseq, hop, ttl) \in RREP
    BY DEF Rrep, RREP
  <1> QED BY <1>1 DEF GoodMessage, Rrep

LEMMA RerrCopiesAreGood ==
    ASSUME NEW sq, NEW k, NEW n \in Node, NEW ds \in SUBSET Node, NEW m \in RerrCopies(n, ds)
    PROVE  GoodMessage(m, sq, k)
  <1>1. PICK x \in Node : m = [type |-> "RERR", to |-> x, src |-> n, dests |-> ds]
    BY DEF RerrCopies, Neighbours
  <1>2. m \in RERR
    BY <1>1 DEF RERR
  <1> QED BY <1>1, <1>2 DEF GoodMessage

-----------------------------------------------------------------------------
(* Packets. *)

LEMMA PlaceFields ==
    ASSUME NEW x \in Place
    PROVE  x.at \in Node /\ x.to \in Node /\ x.where \in {"out", "fifo", "air", "up", "dropped"}
  BY DEF Place

LEMMA PlaceMade ==
    ASSUME NEW w \in {"out", "fifo", "air", "up", "dropped"}, NEW n \in Node, NEW m \in Node
    PROVE  [where |-> w, at |-> n, to |-> m] \in Place
  BY DEF Place

\* What WaitInv says of the packet p, for a place x, a sent table and a route table.
WaitsWell(p, x, s, t) ==
    x.where = "fifo" => s[x.at][Dst[p]].times > 0 /\ ~RouteFound(t[x.at], Dst[p])

LEMMA TransmitKeepsPlaces ==
    ASSUME pkt \in [Packet -> Place], NEW n \in Node, NEW t
    PROVE  TransmitFIFO(n, t) \in [Packet -> Place]
  BY PlaceMade DEF TransmitFIFO, AtOut

LEMMA EmptyKeepsPlaces ==
    ASSUME pkt \in [Packet -> Place], NEW n \in Node, NEW d
    PROVE  EmptyFIFO(n, d) \in [Packet -> Place]
  BY PlaceMade DEF EmptyFIFO

\* After an insertion and TransmitFIFOBuffer, whoever still waits has no route.
LEMMA TransmitLeavesNothing ==
    ASSUME CounterInv, TableInv, WaitInv, NEW n \in Node, NEW t,
           \A y \in Node : RouteFound(routeTable[n], y) => RouteFound(t, y),
           NEW p \in Packet
    PROVE  WaitsWell(p, TransmitFIFO(n, t)[p], sent, [routeTable EXCEPT ![n] = t])
  <1>1. pkt[p] \in Place /\ Dst[p] \in Node
    BY PacketAssumption DEF CounterInv
  <1>2. CASE pkt[p].where = "fifo" /\ pkt[p].at = n /\ RouteFound(t, Dst[p])
    BY <1>2 DEF TransmitFIFO, AtOut, WaitsWell
  <1>3. CASE ~(pkt[p].where = "fifo" /\ pkt[p].at = n /\ RouteFound(t, Dst[p]))
    <2>1. TransmitFIFO(n, t)[p] = pkt[p]
      BY <1>3 DEF TransmitFIFO
    <2>2. CASE pkt[p].at = n
      BY <1>1, <1>3, <2>1, <2>2 DEF WaitInv, WaitsWell, TableInv
    <2>3. CASE pkt[p].at # n
      BY <1>1, <2>1, <2>3, PlaceFields DEF WaitInv, WaitsWell, TableInv
    <2> QED BY <2>2, <2>3
  <1> QED BY <1>2, <1>3

-----------------------------------------------------------------------------
(* The parts of the invariant that a step leaves alone, or almost. *)

\* Tables whose sequence numbers stay below owners that only grow.
LEMMA OwnersGrow ==
    ASSUME IInv, seqNumber' \in [Node -> Nat], \A x \in Node : seqNumber[x] <= seqNumber'[x],
           UNCHANGED routeTable
    PROVE  TableInv'
  <1>1. SUFFICES ASSUME NEW n \in Node PROVE GoodTable(routeTable[n], seqNumber')
    BY <1>1 DEF IInv, TableInv
  <1>2. GoodTable(routeTable[n], seqNumber) /\ seqNumber \in [Node -> Nat]
    BY DEF IInv, TableInv, CounterInv
  <1> QED BY <1>2, TableStaysGood

\* One table replaced by a good one.
LEMMA OneTableChanges ==
    ASSUME IInv, seqNumber' \in [Node -> Nat], \A x \in Node : seqNumber[x] <= seqNumber'[x],
           NEW n \in Node, NEW t, GoodTable(t, seqNumber),
           routeTable' = [routeTable EXCEPT ![n] = t]
    PROVE  TableInv'
  <1>1. t \in [Node -> Route]
    BY DEF GoodTable
  <1>2. routeTable' \in [Node -> [Node -> Route]]
    BY <1>1 DEF IInv, TableInv
  <1>3. SUFFICES ASSUME NEW x \in Node PROVE GoodTable(routeTable'[x], seqNumber')
    BY <1>2, <1>3 DEF TableInv
  <1>4. GoodTable(routeTable[x], seqNumber) /\ routeTable \in [Node -> [Node -> Route]]
    BY DEF IInv, TableInv
  <1>5. GoodTable(routeTable'[x], seqNumber) /\ seqNumber \in [Node -> Nat]
    BY <1>4 DEF IInv, CounterInv
  <1> QED BY <1>5, TableStaysGood

\* New messages, with owners and ids that only grow.
LEMMA MessagesAdded ==
    ASSUME IInv, seqNumber' \in [Node -> Nat], \A x \in Node : seqNumber[x] <= seqNumber'[x],
           nRREQId' \in Nat, nRREQId <= nRREQId', NEW new,
           \A m \in new : GoodMessage(m, seqNumber', nRREQId'),
           net' \subseteq net \cup new
    PROVE  NetInv'
  <1>1. SUFFICES ASSUME NEW m \in net PROVE GoodMessage(m, seqNumber', nRREQId')
    BY <1>1 DEF NetInv
  <1>2. GoodMessage(m, seqNumber, nRREQId) /\ seqNumber \in [Node -> Nat] /\ nRREQId \in Nat
    BY AODVBoundAssumption DEF IInv, NetInv, CounterInv
  <1> QED BY <1>2, MessageStaysGood

LEMMA OneMessageAdded ==
    ASSUME IInv, seqNumber' \in [Node -> Nat], \A x \in Node : seqNumber[x] <= seqNumber'[x],
           UNCHANGED nRREQId, NEW r, GoodMessage(r, seqNumber', nRREQId), net' \subseteq net \cup {r}
    PROVE  NetInv'
  <1>1. SUFFICES ASSUME NEW m \in net PROVE GoodMessage(m, seqNumber', nRREQId)
    BY <1>1 DEF NetInv
  <1>2. GoodMessage(m, seqNumber, nRREQId) /\ seqNumber \in [Node -> Nat] /\ nRREQId \in Nat
    BY AODVBoundAssumption DEF IInv, NetInv, CounterInv
  <1> QED BY <1>2, MessageStaysGood

LEMMA MessagesAddedOnly ==
    ASSUME IInv, UNCHANGED <<seqNumber, nRREQId>>, NEW new,
           \A m \in new : GoodMessage(m, seqNumber, nRREQId), net' \subseteq net \cup new
    PROVE  NetInv'
  BY DEF IInv, NetInv

\* One packet moves to the place x.
LEMMA OnePacketMoves ==
    ASSUME IInv, UNCHANGED <<sent, routeTable>>, NEW p \in Packet, NEW x \in Place,
           WaitsWell(p, x, sent, routeTable), pkt' = [pkt EXCEPT ![p] = x]
    PROVE  pkt' \in [Packet -> Place] /\ WaitInv'
  <1>1. pkt' \in [Packet -> Place]
    BY DEF IInv, CounterInv
  <1>2. SUFFICES ASSUME NEW q \in Packet PROVE WaitsWell(q, pkt'[q], sent, routeTable)
    BY <1>1, <1>2 DEF WaitInv, WaitsWell
  <1>3. CASE q = p
    BY <1>3 DEF IInv, CounterInv
  <1>4. CASE q # p
    BY <1>4 DEF IInv, CounterInv, WaitInv, WaitsWell
  <1> QED BY <1>3, <1>4

-----------------------------------------------------------------------------
(* NETWORK_OUT. *)

LEMMA SendsOnStep ==
    ASSUME IInv, NEW p \in Packet, NEW n \in Node, SendsOn(p, n)
    PROVE  IInv'
  <1> DEFINE e == routeTable[n][Dst[p]]
  <1>1. e \in Route /\ e.flag # "None"
    BY PacketAssumption DEF SendsOn, RouteFound, IInv, TableInv
  <1>2. [where |-> "air", at |-> n, to |-> e.next] \in Place
    BY <1>1, RouteFields, PlaceMade
  <1>3. WaitsWell(p, [where |-> "air", at |-> n, to |-> e.next], sent, routeTable)
    BY DEF WaitsWell
  <1>4. pkt' \in [Packet -> Place] /\ WaitInv'
    BY <1>2, <1>3, OnePacketMoves DEF SendsOn
  <1>5. CounterInv'
    BY <1>4 DEF SendsOn, IInv, CounterInv
  <1>6. TableInv' /\ NetInv'
    BY DEF SendsOn, IInv, TableInv, NetInv
  <1> QED BY <1>4, <1>5, <1>6 DEF IInv

LEMMA InFIFO ==
    ASSUME IInv, NEW p \in Packet, NEW n \in Node, AtNetworkOut(p, n), Buffered(p, n)
    PROVE  LET x == [pkt[p] EXCEPT !.where = "fifo"]
           IN  x \in Place /\ x.where = "fifo" /\ x.at = n /\ pkt' = [pkt EXCEPT ![p] = x]
  <1>1. pkt \in [Packet -> Place] /\ pkt[p] \in Place /\ pkt[p].at = n
    BY DEF IInv, CounterInv, AtNetworkOut
  <1>2. [pkt[p] EXCEPT !.where = "fifo"] \in Place
    BY <1>1 DEF Place
  <1>3. [pkt[p] EXCEPT !.where = "fifo"].at = n /\ [pkt[p] EXCEPT !.where = "fifo"].where = "fifo"
    BY <1>1 DEF Place
  <1> QED BY <1>2, <1>3 DEF Buffered

LEMMA JoinsFIFOStep ==
    ASSUME IInv, NEW p \in Packet, NEW n \in Node, JoinsFIFO(p, n)
    PROVE  IInv'
  <1> DEFINE x == [pkt[p] EXCEPT !.where = "fifo"]
  <1>1. x \in Place /\ x.where = "fifo" /\ x.at = n /\ pkt' = [pkt EXCEPT ![p] = x]
    BY InFIFO DEF JoinsFIFO
  <1>2. PICK q \in Packet : pkt[q].where = "fifo" /\ pkt[q].at = n /\ Dst[q] = Dst[p]
    BY DEF JoinsFIFO, Waiting
  <1>3. sent[n][Dst[p]].times > 0 /\ ~RouteFound(routeTable[n], Dst[p])
    BY <1>2 DEF IInv, WaitInv
  <1> HIDE DEF x
  <1>4. WaitsWell(p, x, sent, routeTable)
    BY <1>1, <1>3 DEF WaitsWell
  <1>5. pkt' \in [Packet -> Place] /\ WaitInv'
    BY <1>1, <1>4, OnePacketMoves DEF JoinsFIFO
  <1>6. CounterInv'
    BY <1>5 DEF JoinsFIFO, IInv, CounterInv
  <1>7. TableInv' /\ NetInv'
    BY DEF JoinsFIFO, IInv, TableInv, NetInv
  <1> QED BY <1>5, <1>6, <1>7 DEF IInv

\* fnIncreaseTTL keeps to the ring, or leaves it for the network diameter.
LEMMA IncreaseTTLBound ==
    ASSUME NEW e \in SentEntry
    PROVE  /\ IncreaseTTL(e) \in Nat /\ IncreaseTTL(e) >= 1
           /\ IncreaseTTL(e) <= TTL_THRESHOLD \/ IncreaseTTL(e) = NET_DIAMETER
  <1>1. e.ttl \in Nat
    BY DEF SentEntry
  <1> QED BY <1>1 DEF IncreaseTTL, TTL_START, TTL_INCREMENT, TTL_THRESHOLD, NET_DIAMETER

LEMMA EntryInserted ==
    ASSUME NEW e \in SentEntry, NEW ttl \in Nat,
           e.times <= RREQ_RETRIES \/ ttl # NET_DIAMETER
    PROVE  InsertInRREQSentTable(e, ttl) \in SentEntry /\ InsertInRREQSentTable(e, ttl).times > 0
  <1>1. e.times \in Nat /\ e.times <= RREQ_RETRIES + 1
    BY DEF SentEntry, RREQ_RETRIES
  <1> QED BY <1>1 DEF InsertInRREQSentTable, SentEntry, RREQ_RETRIES

LEMMA SendRREQKeeps ==
    ASSUME IInv, NEW n \in Node, NEW d \in Node, NEW ttl \in Nat, ttl >= 2,
           sent[n][d].times <= RREQ_RETRIES \/ ttl - 1 # NET_DIAMETER,
           SendRREQ(n, d, ttl), pkt' \in [Packet -> Place],
           UNCHANGED <<routeTable, nRerrCount, lost>>
    PROVE  /\ CounterInv' /\ TableInv' /\ NetInv'
           /\ sent'[n][d].times > 0
           /\ \A x, y \in Node : sent[x][y].times > 0 => sent'[x][y].times > 0
  <1>1. /\ seqNumber \in [Node -> Nat] /\ nRREQId \in Nat /\ MaxRREQId \in Nat
        /\ sent \in [Node -> [Node -> SentEntry]]
    BY AODVBoundAssumption DEF IInv, CounterInv
  <1>2. seqNumber' \in [Node -> Nat] /\ \A x \in Node : seqNumber[x] <= seqNumber'[x]
    BY <1>1 DEF SendRREQ
  <1>3. seqNumber'[n] = seqNumber[n] + 1 /\ seqNumber[n] + 1 \in Nat
    BY <1>1 DEF SendRREQ
  <1>4. nRREQId' = nRREQId + 1 /\ nRREQId' \in 0..MaxRREQId /\ nRREQId' \in Nat
    BY <1>1 DEF SendRREQ
  <1>5. nRREQId + 1 \in 1..nRREQId' /\ nRREQId <= nRREQId'
    BY <1>1, <1>4
  <1>6. seen' \in [Node -> SUBSET (1..nRREQId')]
    <2>1. seen \in [Node -> SUBSET (1..nRREQId)] /\ 1..nRREQId \subseteq 1..nRREQId'
      BY <1>1, <1>4 DEF IInv, CounterInv
    <2> QED BY <1>5, <2>1 DEF SendRREQ
  <1>7. InsertInRREQSentTable(sent[n][d], ttl - 1) \in SentEntry
        /\ InsertInRREQSentTable(sent[n][d], ttl - 1).times > 0
    BY <1>1, EntryInserted
  <1>8. sent' = [sent EXCEPT ![n][d] = InsertInRREQSentTable(sent[n][d], ttl - 1)]
    BY DEF SendRREQ
  <1>9. /\ sent' \in [Node -> [Node -> SentEntry]]
        /\ sent'[n][d].times > 0
        /\ \A x, y \in Node : sent[x][y].times > 0 => sent'[x][y].times > 0
    BY <1>1, <1>7, <1>8
  <1>10. CounterInv'
    BY <1>2, <1>4, <1>6, <1>9 DEF IInv, CounterInv
  <1>11. TableInv'
    BY <1>2, OwnersGrow
  <1>12. NetInv'
    <2>1. \A m \in RreqCopies(n, n, seqNumber[n] + 1, d, nRREQId + 1, 0, ttl) :
              GoodMessage(m, seqNumber', nRREQId')
      <3>1. seqNumber[n] + 1 <= seqNumber'[n] /\ 0 \in Nat
        BY <1>3
      <3> QED BY <1>2, <1>3, <1>4, <1>5, <3>1, RreqCopiesAreGood
    <2> QED BY <1>2, <1>4, <1>5, <2>1, MessagesAdded DEF SendRREQ
  <1> QED BY <1>9, <1>10, <1>11, <1>12

LEMMA StartsDiscoveryStep ==
    ASSUME IInv, NEW p \in Packet, NEW n \in Node, StartsDiscovery(p, n)
    PROVE  IInv'
  <1> DEFINE x == [pkt[p] EXCEPT !.where = "fifo"]
             ttl == IncreaseTTL(sent[n][Dst[p]]) + 2
  <1>1. x \in Place /\ x.where = "fifo" /\ x.at = n /\ pkt' = [pkt EXCEPT ![p] = x]
    BY InFIFO DEF StartsDiscovery
  <1>2. Dst[p] \in Node /\ sent[n][Dst[p]] \in SentEntry
    BY PacketAssumption DEF IInv, CounterInv
  <1>3. ttl \in Nat /\ ttl >= 2 /\ ttl - 1 # NET_DIAMETER
    BY <1>2, IncreaseTTLBound DEF TTL_THRESHOLD, NET_DIAMETER
  <1>4. SendRREQ(n, Dst[p], ttl) /\ UNCHANGED <<routeTable, nRerrCount, lost>>
    BY DEF StartsDiscovery
  <1> HIDE DEF x, ttl
  <1>5. pkt \in [Packet -> Place] /\ pkt' \in [Packet -> Place]
    BY <1>1 DEF IInv, CounterInv
  <1>6. /\ CounterInv' /\ TableInv' /\ NetInv'
        /\ sent'[n][Dst[p]].times > 0
        /\ \A y, z \in Node : sent[y][z].times > 0 => sent'[y][z].times > 0
    BY <1>2, <1>3, <1>4, <1>5, SendRREQKeeps
  <1>7. ~RouteFound(routeTable[n], Dst[p])
    BY DEF StartsDiscovery
  <1>8. ASSUME NEW q \in Packet PROVE WaitsWell(q, pkt'[q], sent', routeTable)
    <2>1. CASE q = p
      BY <1>1, <1>5, <1>6, <1>7, <2>1 DEF WaitsWell
    <2>2. CASE q # p
      <3>1. pkt'[q] = pkt[q] /\ pkt[q].at \in Node /\ Dst[q] \in Node
        BY <1>1, <1>5, <2>2, PlaceFields, PacketAssumption
      <3> QED BY <1>6, <3>1 DEF IInv, WaitInv, WaitsWell
    <2> QED BY <2>1, <2>2
  <1>9. WaitInv'
    BY <1>4, <1>8 DEF WaitInv, WaitsWell
  <1> QED BY <1>6, <1>9 DEF IInv

-----------------------------------------------------------------------------
(* The timer of a route request. *)

LEMMA RetryRREQStep ==
    ASSUME IInv, NEW n \in Node, NEW d \in Node, RetryRREQ(n, d)
    PROVE  IInv'
  <1> DEFINE ttl == IncreaseTTL(sent[n][d]) + 1
  <1>1. sent[n][d] \in SentEntry
    BY DEF IInv, CounterInv
  <1>2. ttl \in Nat /\ ttl >= 2
    BY <1>1, IncreaseTTLBound
  <1>3. /\ SendRREQ(n, d, ttl) /\ UNCHANGED <<routeTable, nRerrCount, pkt, lost>>
        /\ sent[n][d].times <= RREQ_RETRIES
    BY DEF RetryRREQ
  <1> HIDE DEF ttl
  <1>4. pkt \in [Packet -> Place] /\ pkt' \in [Packet -> Place]
    BY <1>3 DEF IInv, CounterInv
  <1>5. /\ CounterInv' /\ TableInv' /\ NetInv'
        /\ \A y, z \in Node : sent[y][z].times > 0 => sent'[y][z].times > 0
    BY <1>2, <1>3, <1>4, SendRREQKeeps
  <1>6. WaitInv'
    <2>1. \A q \in Packet : pkt[q].at \in Node /\ Dst[q] \in Node
      BY <1>4, PlaceFields, PacketAssumption
    <2> QED BY <1>3, <1>5, <2>1 DEF IInv, WaitInv
  <1> QED BY <1>5, <1>6 DEF IInv

LEMMA GivesUpStep ==
    ASSUME IInv, NEW n \in Node, NEW d \in Node, GivesUp(n, d)
    PROVE  IInv'
  <1>1. /\ sent \in [Node -> [Node -> SentEntry]] /\ pkt \in [Packet -> Place]
        /\ NotSent \in SentEntry
    BY DEF IInv, CounterInv, NotSent, SentEntry, RREQ_RETRIES
  <1>2. sent' = [sent EXCEPT ![n][d] = NotSent] /\ pkt' = EmptyFIFO(n, d)
    BY DEF GivesUp
  <1>3. sent' \in [Node -> [Node -> SentEntry]]
    BY <1>1, <1>2
  <1>4. pkt' \in [Packet -> Place]
    BY <1>1, <1>2, EmptyKeepsPlaces
  <1>5. CounterInv'
    BY <1>3, <1>4 DEF GivesUp, IInv, CounterInv
  <1>6. TableInv' /\ NetInv'
    BY DEF GivesUp, IInv, TableInv, NetInv
  <1>7. ASSUME NEW q \in Packet PROVE WaitsWell(q, pkt'[q], sent', routeTable)
    <2>1. CASE q \in Waiting(n, d)
      BY <1>2, <2>1 DEF EmptyFIFO, WaitsWell
    <2>2. CASE q \notin Waiting(n, d)
      <3>1. pkt'[q] = pkt[q] /\ pkt[q].at \in Node /\ Dst[q] \in Node
        BY <1>1, <1>2, <2>2, PlaceFields, PacketAssumption DEF EmptyFIFO
      <3>2. pkt[q].where = "fifo" => pkt[q].at # n \/ Dst[q] # d
        BY <2>2 DEF Waiting
      <3>3. pkt[q].where = "fifo" => sent'[pkt[q].at][Dst[q]] = sent[pkt[q].at][Dst[q]]
        BY <1>1, <1>2, <3>1, <3>2
      <3> QED BY <3>1, <3>3 DEF IInv, WaitInv, WaitsWell
    <2> QED BY <2>1, <2>2
  <1>8. WaitInv'
    BY <1>7 DEF GivesUp, WaitInv, WaitsWell
  <1> QED BY <1>5, <1>6, <1>8 DEF IInv

-----------------------------------------------------------------------------
(* Requests and replies. *)

LEMMA DropsSeenRREQStep ==
    ASSUME IInv, NEW n \in Node, NEW m \in net, DropsSeenRREQ(n, m)
    PROVE  IInv'
  BY DEF DropsSeenRREQ, IInv, CounterInv, TableInv, NetInv, WaitInv

\* InsertInRouteTable and TransmitFIFOBuffer, as requests and replies call them.
LEMMA InsertAndTransmit ==
    ASSUME IInv, NEW n \in Node, NEW ip \in Node, NEW s \in Nat, NEW h \in Nat,
           NEW x \in Node, s <= seqNumber[ip],
           routeTable' = [routeTable EXCEPT ![n] = InsertInRouteTable(@, ip, s, h, x)],
           pkt' = TransmitFIFO(n, routeTable'[n])
    PROVE  /\ routeTable' = [routeTable EXCEPT ![n] = routeTable'[n]]
           /\ GoodTable(routeTable'[n], seqNumber)
           /\ RouteFound(routeTable'[n], ip)
           /\ pkt' \in [Packet -> Place]
           /\ \A p \in Packet : WaitsWell(p, pkt'[p], sent, routeTable')
  <1> DEFINE t == InsertInRouteTable(routeTable[n], ip, s, h, x)
  <1>1. GoodTable(routeTable[n], seqNumber) /\ seqNumber \in [Node -> Nat]
    BY DEF IInv, TableInv, CounterInv
  <1>2. routeTable[n] \in [Node -> Route] /\ routeTable \in [Node -> [Node -> Route]]
    BY <1>1 DEF GoodTable, IInv, TableInv
  <1>3. GoodTable(t, seqNumber)
    BY <1>1, InsertStaysGood
  <1>4. /\ \A y \in Node : RouteFound(routeTable[n], y) => RouteFound(t, y)
        /\ RouteFound(t, ip)
    BY <1>2, InsertKeepsTable
  <1>5. routeTable' = [routeTable EXCEPT ![n] = t]
    OBVIOUS
  <1> HIDE DEF t
  <1>6. routeTable'[n] = t
    BY <1>2, <1>5
  <1>7. pkt' \in [Packet -> Place]
    BY TransmitKeepsPlaces DEF IInv, CounterInv
  <1>8. ASSUME NEW p \in Packet PROVE WaitsWell(p, pkt'[p], sent, routeTable')
    <2>1. WaitsWell(p, TransmitFIFO(n, t)[p], sent, [routeTable EXCEPT ![n] = t])
      BY <1>4, TransmitLeavesNothing DEF IInv
    <2> QED BY <1>5, <1>6, <2>1
  <1> QED BY <1>3, <1>4, <1>5, <1>6, <1>7, <1>8

\* What ProcessRREQ does to the tables of n, whatever the node answers.
LEMMA LearnsReverseKeeps ==
    ASSUME IInv, NEW n \in Node, NEW m \in net, LearnsReverse(n, m),
           seqNumber' \in [Node -> Nat], \A x \in Node : seqNumber[x] <= seqNumber'[x]
    PROVE  /\ m \in RREQ /\ m.oseq <= seqNumber[m.orig] /\ m.id \in 1..nRREQId /\ m.ttl >= 2
           /\ GoodTable(routeTable'[n], seqNumber)
           /\ CounterInv' /\ TableInv' /\ WaitInv'
  <1>1. GoodMessage(m, seqNumber, nRREQId) /\ m.type = "RREQ"
    BY DEF LearnsReverse, RreqAt, IInv, NetInv
  <1>2. m \in RREQ /\ m.oseq <= seqNumber[m.orig] /\ m.id \in 1..nRREQId /\ m.ttl >= 2
    BY <1>1, MessageKind DEF GoodMessage
  <1>3. /\ m.orig \in Node /\ m.last \in Node /\ m.oseq \in Nat /\ m.hop \in Nat
    BY <1>2, RreqFields
  <1>4. /\ routeTable' = [routeTable EXCEPT
                             ![n] = InsertInRouteTable(@, m.orig, m.oseq, m.hop, m.last)]
        /\ pkt' = TransmitFIFO(n, routeTable'[n])
        /\ UNCHANGED <<sent, nRREQId, nRerrCount, lost>>
        /\ seen' = [seen EXCEPT ![n] = @ \cup {m.id}]
    BY DEF LearnsReverse
  <1>5. /\ routeTable' = [routeTable EXCEPT ![n] = routeTable'[n]]
        /\ GoodTable(routeTable'[n], seqNumber)
        /\ pkt' \in [Packet -> Place]
        /\ \A p \in Packet : WaitsWell(p, pkt'[p], sent, routeTable')
    BY <1>2, <1>3, <1>4, InsertAndTransmit
  <1>6. seen' \in [Node -> SUBSET (1..nRREQId')]
    BY <1>2, <1>4 DEF IInv, CounterInv
  <1>7. CounterInv'
    BY <1>4, <1>5, <1>6 DEF IInv, CounterInv
  <1>8. TableInv'
    BY <1>5, OneTableChanges
  <1>9. WaitInv'
    BY <1>4, <1>5 DEF WaitInv, WaitsWell
  <1> QED BY <1>2, <1>5, <1>7, <1>8, <1>9

LEMMA AnswersRREQStep ==
    ASSUME IInv, NEW n \in Node, NEW m \in net, AnswersRREQ(n, m)
    PROVE  IInv'
  <1> DEFINE r == Rrep(m.last, n, m.orig, n, seqNumber[n] + 1, 1, m.hop + 2)
  <1>1. seqNumber \in [Node -> Nat] /\ nRREQId \in Nat
    BY AODVBoundAssumption DEF IInv, CounterInv
  <1>2. /\ seqNumber' \in [Node -> Nat]
        /\ \A x \in Node : seqNumber[x] <= seqNumber'[x]
        /\ seqNumber[n] + 1 <= seqNumber'[n] /\ seqNumber[n] + 1 \in Nat
    BY <1>1 DEF AnswersRREQ
  <1>3. m \in RREQ /\ CounterInv' /\ TableInv' /\ WaitInv'
    BY <1>2, LearnsReverseKeeps DEF AnswersRREQ
  <1>4. m.last \in Node /\ m.orig \in Node /\ 1 \in Nat /\ m.hop + 2 \in Nat
    BY <1>3, RreqFields
  <1>5. UNCHANGED nRREQId /\ net' \subseteq net \cup {r}
    BY DEF AnswersRREQ, LearnsReverse
  <1>6. GoodMessage(r, seqNumber', nRREQId)
    BY <1>1, <1>2, <1>4, RrepIsGood
  <1> HIDE DEF r
  <1>7. NetInv'
    BY <1>2, <1>5, <1>6, OneMessageAdded
  <1> QED BY <1>3, <1>7 DEF IInv

LEMMA AnswersForDestinationStep ==
    ASSUME IInv, NEW n \in Node, NEW m \in net, AnswersForDestination(n, m)
    PROVE  IInv'
  <1> DEFINE e == routeTable'[n][m.dest]
             r == Rrep(m.last, n, m.orig, m.dest, e.seq, e.hop, NET_DIAMETER)
  <1>1. seqNumber \in [Node -> Nat] /\ nRREQId \in Nat /\ UNCHANGED seqNumber
    BY AODVBoundAssumption DEF IInv, CounterInv, AnswersForDestination
  <1>2. /\ m \in RREQ /\ GoodTable(routeTable'[n], seqNumber)
        /\ CounterInv' /\ TableInv' /\ WaitInv'
    <2>1. seqNumber' \in [Node -> Nat] /\ \A x \in Node : seqNumber[x] <= seqNumber'[x]
      BY <1>1
    <2> QED BY <2>1, LearnsReverseKeeps DEF AnswersForDestination
  <1>3. m.last \in Node /\ m.orig \in Node /\ m.dest \in Node /\ NET_DIAMETER \in Nat
    BY <1>2, RreqFields DEF NET_DIAMETER
  <1>4. e \in Route /\ e.seq <= seqNumber[m.dest]
    BY <1>2, <1>3 DEF GoodTable
  <1>5. e.seq \in Nat /\ e.hop \in Nat
    BY <1>4, RouteFields
  <1>6. UNCHANGED nRREQId /\ net' \subseteq net \cup {r}
    BY DEF AnswersForDestination, LearnsReverse
  <1>7. GoodMessage(r, seqNumber, nRREQId)
    BY <1>1, <1>3, <1>4, <1>5, RrepIsGood
  <1> HIDE DEF r
  <1>8. NetInv'
    BY <1>1, <1>6, <1>7 DEF IInv, NetInv
  <1> QED BY <1>2, <1>8 DEF IInv

LEMMA ForwardsRREQStep ==
    ASSUME IInv, NEW n \in Node, NEW m \in net, ForwardsRREQ(n, m)
    PROVE  IInv'
  <1> DEFINE new == IF m.ttl = 2 THEN {}
                    ELSE RreqCopies(n, m.orig, m.oseq, m.dest, m.id, m.hop + 1, m.ttl - 1)
  <1>1. seqNumber \in [Node -> Nat] /\ nRREQId \in Nat /\ UNCHANGED seqNumber
    BY AODVBoundAssumption DEF IInv, CounterInv, ForwardsRREQ
  <1>2. /\ m \in RREQ /\ m.oseq <= seqNumber[m.orig] /\ m.id \in 1..nRREQId /\ m.ttl >= 2
        /\ CounterInv' /\ TableInv' /\ WaitInv'
    <2>1. seqNumber' \in [Node -> Nat] /\ \A x \in Node : seqNumber[x] <= seqNumber'[x]
      BY <1>1
    <2> QED BY <2>1, LearnsReverseKeeps DEF ForwardsRREQ
  <1>3. /\ m.orig \in Node /\ m.dest \in Node /\ m.oseq \in Nat
        /\ m.hop + 1 \in Nat /\ m.ttl \in Nat
    BY <1>2, RreqFields
  <1>4. UNCHANGED nRREQId /\ net' \subseteq net \cup new
    BY DEF ForwardsRREQ, LearnsReverse
  <1>5. ASSUME NEW g \in new PROVE GoodMessage(g, seqNumber, nRREQId)
    <2>1. m.ttl # 2 /\ g \in RreqCopies(n, m.orig, m.oseq, m.dest, m.id, m.hop + 1, m.ttl - 1)
      OBVIOUS
    <2>2. m.ttl - 1 \in Nat /\ m.ttl - 1 >= 2
      BY <1>2, <1>3, <2>1
    <2> QED BY <1>1, <1>2, <1>3, <2>1, <2>2, RreqCopiesAreGood
  <1> HIDE DEF new
  <1>6. NetInv'
    BY <1>1, <1>4, <1>5, MessagesAddedOnly
  <1> QED BY <1>2, <1>6 DEF IInv

\* What ProcessRREP does to the tables of n before it looks at the originator.
LEMMA LearnsRouteKeeps ==
    ASSUME IInv, NEW n \in Node, NEW m \in net, LearnsRoute(n, m)
    PROVE  /\ m \in RREP /\ m.dseq <= seqNumber[m.dest]
           /\ TableInv' /\ GoodTable(routeTable'[n], seqNumber)
           /\ pkt' \in [Packet -> Place]
           /\ \A p \in Packet : WaitsWell(p, pkt'[p], sent, routeTable')
           /\ m.dest # n => RouteFound(routeTable'[n], m.dest)
  <1>1. GoodMessage(m, seqNumber, nRREQId) /\ m.type = "RREP"
    BY DEF LearnsRoute, RrepAt, IInv, NetInv
  <1>2. m \in RREP /\ m.dseq <= seqNumber[m.dest]
    BY <1>1, MessageKind DEF GoodMessage
  <1>3. m.dest \in Node /\ m.last \in Node /\ m.dseq \in Nat /\ m.hop \in Nat
    BY <1>2, RrepFields
  <1>4. seqNumber \in [Node -> Nat] /\ UNCHANGED seqNumber
    BY DEF LearnsRoute, IInv, CounterInv
  <1>5. CASE m.dest = n
    <2>1. UNCHANGED <<routeTable, pkt>>
      BY <1>5 DEF LearnsRoute
    <2>2. TableInv' /\ GoodTable(routeTable'[n], seqNumber) /\ pkt' \in [Packet -> Place]
      BY <1>4, <2>1 DEF IInv, TableInv, CounterInv
    <2>3. \A p \in Packet : WaitsWell(p, pkt'[p], sent, routeTable')
      BY <2>1 DEF IInv, WaitInv, WaitsWell
    <2> QED BY <1>2, <1>5, <2>2, <2>3
  <1>6. CASE m.dest # n
    <2>1. /\ routeTable' = [routeTable EXCEPT
                               ![n] = InsertInRouteTable(@, m.dest, m.dseq, m.hop, m.last)]
          /\ pkt' = TransmitFIFO(n, routeTable'[n])
      BY <1>6 DEF LearnsRoute
    <2>2. /\ routeTable' = [routeTable EXCEPT ![n] = routeTable'[n]]
          /\ GoodTable(routeTable'[n], seqNumber)
          /\ RouteFound(routeTable'[n], m.dest)
          /\ pkt' \in [Packet -> Place]
          /\ \A p \in Packet : WaitsWell(p, pkt'[p], sent, routeTable')
      BY <1>2, <1>3, <2>1, InsertAndTransmit
    <2>3. TableInv'
      <3>1. seqNumber' \in [Node -> Nat] /\ \A x \in Node : seqNumber[x] <= seqNumber'[x]
        BY <1>4
      <3> QED BY <2>2, <3>1, OneTableChanges
    <2> QED BY <1>2, <2>2, <2>3
  <1> QED BY <1>5, <1>6

LEMMA EndsDiscoveryStep ==
    ASSUME IInv, NEW n \in Node, NEW m \in net, EndsDiscovery(n, m)
    PROVE  IInv'
  <1>1. /\ m \in RREP /\ TableInv' /\ pkt' \in [Packet -> Place]
        /\ \A p \in Packet : WaitsWell(p, pkt'[p], sent, routeTable')
        /\ RouteFound(routeTable'[n], m.dest)
    BY LearnsRouteKeeps DEF EndsDiscovery
  <1>2. /\ sent' = [sent EXCEPT ![n][m.dest] = NotSent]
        /\ net' \subseteq net
        /\ UNCHANGED <<seqNumber, seen, nRREQId, nRerrCount, lost>>
    BY DEF EndsDiscovery, LearnsRoute
  <1>3. m.dest \in Node /\ sent \in [Node -> [Node -> SentEntry]] /\ NotSent \in SentEntry
    BY <1>1, RrepFields DEF IInv, CounterInv, NotSent, SentEntry, RREQ_RETRIES
  <1>4. sent' \in [Node -> [Node -> SentEntry]]
    BY <1>2, <1>3
  <1>5. CounterInv'
    BY <1>1, <1>2, <1>4 DEF IInv, CounterInv
  <1>6. NetInv'
    BY <1>2 DEF IInv, NetInv
  <1>7. ASSUME NEW q \in Packet PROVE WaitsWell(q, pkt'[q], sent', routeTable')
    <2>1. pkt'[q].at \in Node /\ Dst[q] \in Node
      BY <1>1, PlaceFields, PacketAssumption
    <2>2. WaitsWell(q, pkt'[q], sent, routeTable')
      BY <1>1
    <2>3. CASE pkt'[q].at = n /\ Dst[q] = m.dest
      BY <1>1, <2>2, <2>3 DEF WaitsWell
    <2>4. CASE ~(pkt'[q].at = n /\ Dst[q] = m.dest)
      <3>1. sent'[pkt'[q].at][Dst[q]] = sent[pkt'[q].at][Dst[q]]
        BY <1>2, <1>3, <2>1, <2>4
      <3> QED BY <2>2, <3>1 DEF WaitsWell
    <2> QED BY <2>3, <2>4
  <1>8. WaitInv'
    BY <1>7 DEF WaitInv, WaitsWell
  <1> QED BY <1>1, <1>5, <1>6, <1>8 DEF IInv

LEMMA PassesRREPStep ==
    ASSUME IInv, NEW n \in Node, NEW m \in net, PassesRREP(n, m)
    PROVE  IInv'
  <1> DEFINE next == routeTable'[n][m.orig].next
             r == Rrep(next, n, m.orig, m.dest, m.dseq, m.hop + 1, m.ttl - 1)
             passed == m.dest # n /\ ~isHello(m) /\ RouteFound(routeTable'[n], m.orig) /\ m.ttl - 1 > 1
  <1>1. /\ m \in RREP /\ m.dseq <= seqNumber[m.dest]
        /\ TableInv' /\ GoodTable(routeTable'[n], seqNumber) /\ pkt' \in [Packet -> Place]
        /\ \A p \in Packet : WaitsWell(p, pkt'[p], sent, routeTable')
    BY LearnsRouteKeeps DEF PassesRREP
  <1>2. UNCHANGED <<seqNumber, sent, seen, nRREQId, nRerrCount, lost>>
    BY DEF PassesRREP, LearnsRoute
  <1>3. /\ seqNumber \in [Node -> Nat] /\ nRREQId \in Nat
        /\ m.orig \in Node /\ m.dest \in Node /\ m.dseq \in Nat
        /\ m.hop + 1 \in Nat /\ m.ttl \in Nat
    BY <1>1, RrepFields, AODVBoundAssumption DEF IInv, CounterInv
  <1>4. CounterInv'
    BY <1>1, <1>2 DEF IInv, CounterInv
  <1>5. WaitInv'
    BY <1>1, <1>2 DEF WaitInv, WaitsWell
  <1>6. NetInv'
    <2>1. CASE passed
      <3>1. routeTable'[n][m.orig] \in Route /\ routeTable'[n][m.orig].flag # "None"
        BY <1>1, <1>3, <2>1 DEF GoodTable, RouteFound
      <3>2. next \in Node
        BY <3>1, RouteFields
      <3>3. m.ttl - 1 \in Nat
        BY <1>3, <2>1
      <3>4. GoodMessage(r, seqNumber, nRREQId)
        BY <1>1, <1>3, <3>2, <3>3, RrepIsGood
      <3>5. net' \subseteq net \cup {r}
        BY DEF PassesRREP
      <3> HIDE DEF r
      <3> QED BY <1>2, <3>4, <3>5 DEF IInv, NetInv
    <2>2. CASE ~passed
      <3>1. net' \subseteq net
        BY <2>2 DEF PassesRREP
      <3> QED BY <1>2, <3>1 DEF IInv, NetInv
    <2> QED BY <2>1, <2>2
  <1> QED BY <1>1, <1>4, <1>5, <1>6 DEF IInv

LEMMA HelloStep ==
    ASSUME IInv, NEW n \in Node, Hello(n)
    PROVE  IInv'
  <1> DEFINE new == {Rrep(x, n, n, n, seqNumber[n], 0, 2) : x \in Neighbours(n)}
  <1>1. seqNumber \in [Node -> Nat] /\ nRREQId \in Nat /\ seqNumber[n] \in Nat
        /\ seqNumber[n] <= seqNumber[n] /\ 0 \in Nat /\ 2 \in Nat
    BY AODVBoundAssumption DEF IInv, CounterInv
  <1>2. ASSUME NEW x \in Node
        PROVE  GoodMessage(Rrep(x, n, n, n, seqNumber[n], 0, 2), seqNumber, nRREQId)
    BY <1>1, RrepIsGood
  <1>3. \A g \in new : GoodMessage(g, seqNumber, nRREQId)
    BY <1>2 DEF Neighbours
  <1>4. net' \subseteq net \cup new /\ UNCHANGED <<seqNumber, nRREQId>>
    BY DEF Hello
  <1> HIDE DEF new
  <1>5. NetInv'
    BY <1>3, <1>4, MessagesAddedOnly
  <1>6. CounterInv' /\ TableInv' /\ WaitInv'
    BY DEF Hello, IInv, CounterInv, TableInv, WaitInv
  <1> QED BY <1>5, <1>6 DEF IInv

-----------------------------------------------------------------------------
(* Packets on the air, route errors and the expiry of routes. *)

LEMMA ArrivesStep ==
    ASSUME IInv, NEW p \in Packet, NEW n \in Node, NEW m \in Node, Arrives(p, n, m)
    PROVE  IInv'
  <1> DEFINE x == IF m = Dst[p] THEN [where |-> "up", at |-> m, to |-> m] ELSE AtOut(m)
  <1>1. x \in Place /\ x.where # "fifo" /\ pkt' = [pkt EXCEPT ![p] = x]
    BY PlaceMade DEF Arrives, AtOut
  <1> HIDE DEF x
  <1>2. WaitsWell(p, x, sent, routeTable)
    BY <1>1 DEF WaitsWell
  <1>3. pkt' \in [Packet -> Place] /\ WaitInv'
    BY <1>1, <1>2, OnePacketMoves DEF Arrives
  <1>4. CounterInv' /\ TableInv' /\ NetInv'
    BY <1>3 DEF Arrives, IInv, CounterInv, TableInv, NetInv
  <1> QED BY <1>3, <1>4 DEF IInv

LEMMA DropNotifiedStep ==
    ASSUME IInv, NEW p \in Packet, NEW n \in Node, NEW m \in Node, DropNotified(p, n, m)
    PROVE  IInv'
  <1> DEFINE x == [where |-> "dropped", at |-> n, to |-> n]
  <1>1. x \in Place /\ x.where # "fifo" /\ pkt' = [pkt EXCEPT ![p] = x]
    BY PlaceMade DEF DropNotified, DroppedOnAir
  <1> HIDE DEF x
  <1>2. WaitsWell(p, x, sent, routeTable)
    BY <1>1 DEF WaitsWell
  <1>3. pkt' \in [Packet -> Place] /\ WaitInv'
    BY <1>1, <1>2, OnePacketMoves DEF DropNotified
  <1>4. nRerrCount' \in [Node -> 0..RerrDrops + 2]
    <2>1. nRerrCount \in [Node -> 0..RerrDrops + 2] /\ RerrDrops \in Nat
      BY AODVBoundAssumption DEF IInv, CounterInv
    <2>2. nRerrCount[n] + 1 \in 0..RerrDrops + 2
      BY <2>1 DEF DropNotified
    <2> QED BY <2>1, <2>2 DEF DropNotified
  <1>5. CounterInv' /\ TableInv' /\ NetInv'
    BY <1>3, <1>4 DEF DropNotified, IInv, CounterInv, TableInv, NetInv
  <1> QED BY <1>3, <1>5 DEF IInv

\* A route error leaves the entries, and what is found, in place.
LEMMA InvalidateStep ==
    ASSUME IInv, UNCHANGED <<seqNumber, sent>>, NEW n \in Node, NEW u \in Node,
           NEW ds \in SUBSET Node, routeTable' = [routeTable EXCEPT ![n] = Invalidate(@, u, ds)]
    PROVE  /\ TableInv'
           /\ \A q \in Packet, x \in Place :
                 WaitsWell(q, x, sent, routeTable) => WaitsWell(q, x, sent, routeTable')
  <1> DEFINE t == Invalidate(routeTable[n], u, ds)
  <1>1. GoodTable(routeTable[n], seqNumber) /\ seqNumber \in [Node -> Nat]
    BY DEF IInv, TableInv, CounterInv
  <1>2. routeTable[n] \in [Node -> Route] /\ routeTable \in [Node -> [Node -> Route]]
    BY <1>1 DEF GoodTable, IInv, TableInv
  <1>3. GoodTable(t, seqNumber)
    BY <1>1, InvalidateStaysGood
  <1>4. \A y \in Node : RouteFound(t, y) => RouteFound(routeTable[n], y)
    BY <1>2, InvalidateKeepsTable
  <1>5. routeTable' = [routeTable EXCEPT ![n] = t]
    OBVIOUS
  <1> HIDE DEF t
  <1>6. TableInv'
    <2>1. seqNumber' \in [Node -> Nat] /\ \A x \in Node : seqNumber[x] <= seqNumber'[x]
      BY <1>1
    <2> QED BY <1>3, <1>5, <2>1, OneTableChanges
  <1>7. ASSUME NEW q \in Packet, NEW x \in Place, WaitsWell(q, x, sent, routeTable)
        PROVE  WaitsWell(q, x, sent, routeTable')
    <2>1. x.at \in Node /\ Dst[q] \in Node
      BY PlaceFields, PacketAssumption
    <2>2. CASE x.at = n
      BY <1>2, <1>4, <1>5, <1>7, <2>1, <2>2 DEF WaitsWell
    <2>3. CASE x.at # n
      BY <1>2, <1>5, <1>7, <2>1, <2>3 DEF WaitsWell
    <2> QED BY <2>2, <2>3
  <1> QED BY <1>6, <1>7

LEMMA DropReportedStep ==
    ASSUME IInv, NEW p \in Packet, NEW n \in Node, NEW m \in Node, DropReported(p, n, m)
    PROVE  IInv'
  <1> DEFINE x == [where |-> "dropped", at |-> n, to |-> n]
             ds == Through(routeTable[n], m, Node)
  <1>1. /\ pkt' = [pkt EXCEPT ![p] = x]
        /\ routeTable' = [routeTable EXCEPT ![n] = Invalidate(@, m, Node)]
        /\ net' \subseteq net \cup RerrCopies(n, ds)
        /\ nRerrCount' = [nRerrCount EXCEPT ![n] = 2]
        /\ UNCHANGED <<seqNumber, sent, seen, nRREQId, lost>>
    BY DEF DropReported, DroppedOnAir
  <1>2. /\ TableInv'
        /\ \A q \in Packet, y \in Place :
              WaitsWell(q, y, sent, routeTable) => WaitsWell(q, y, sent, routeTable')
    BY <1>1, InvalidateStep
  <1>3. \A g \in RerrCopies(n, ds) : GoodMessage(g, seqNumber, nRREQId)
    <2>1. ds \in SUBSET Node
      BY DEF Through
    <2> QED BY <2>1, RerrCopiesAreGood
  <1>4. NetInv'
    BY <1>1, <1>3, MessagesAddedOnly
  <1>5. x \in Place /\ x.where # "fifo" /\ pkt \in [Packet -> Place]
    BY PlaceMade DEF IInv, CounterInv
  <1> HIDE DEF x, ds
  <1>6. pkt' \in [Packet -> Place]
    BY <1>1, <1>5
  <1>7. nRerrCount' \in [Node -> 0..RerrDrops + 2]
    <2>1. nRerrCount \in [Node -> 0..RerrDrops + 2] /\ 2 \in 0..RerrDrops + 2
      BY AODVBoundAssumption DEF IInv, CounterInv
    <2> QED BY <1>1, <2>1
  <1>8. CounterInv'
    BY <1>1, <1>6, <1>7 DEF IInv, CounterInv
  <1>9. ASSUME NEW q \in Packet PROVE WaitsWell(q, pkt'[q], sent, routeTable')
    <2>1. CASE q = p
      BY <1>1, <1>5, <2>1 DEF WaitsWell
    <2>2. CASE q # p
      <3>1. pkt'[q] = pkt[q] /\ pkt[q] \in Place
        BY <1>1, <1>5, <2>2
      <3>2. WaitsWell(q, pkt[q], sent, routeTable)
        BY DEF IInv, WaitInv, WaitsWell
      <3> QED BY <1>2, <3>1, <3>2
    <2> QED BY <2>1, <2>2
  <1>10. WaitInv'
    BY <1>1, <1>9 DEF WaitInv, WaitsWell
  <1> QED BY <1>2, <1>4, <1>8, <1>10 DEF IInv

LEMMA ProcessRERRStep ==
    ASSUME IInv, NEW n \in Node, NEW m \in net, ProcessRERR(n, m)
    PROVE  IInv'
  <1>1. m \in RERR
    BY MessageKind DEF ProcessRERR, IInv, NetInv
  <1>2. m.src \in Node /\ m.dests \in SUBSET Node
    BY <1>1, RerrFields
  <1>3. /\ routeTable' = [routeTable EXCEPT ![n] = Invalidate(@, m.src, m.dests)]
        /\ net' \subseteq net \cup RerrCopies(n, m.dests)
        /\ UNCHANGED <<seqNumber, sent, seen, nRREQId, nRerrCount, pkt, lost>>
    BY DEF ProcessRERR
  <1>4. /\ TableInv'
        /\ \A q \in Packet, y \in Place :
              WaitsWell(q, y, sent, routeTable) => WaitsWell(q, y, sent, routeTable')
    BY <1>2, <1>3, InvalidateStep
  <1>5. \A g \in RerrCopies(n, m.dests) : GoodMessage(g, seqNumber, nRREQId)
    BY <1>2, RerrCopiesAreGood
  <1>6. NetInv'
    BY <1>3, <1>5, MessagesAddedOnly
  <1>7. CounterInv'
    BY <1>3 DEF IInv, CounterInv
  <1>8. WaitInv'
    <2>1. ASSUME NEW q \in Packet PROVE WaitsWell(q, pkt[q], sent, routeTable')
      <3>1. pkt[q] \in Place /\ WaitsWell(q, pkt[q], sent, routeTable)
        BY DEF IInv, CounterInv, WaitInv, WaitsWell
      <3> QED BY <1>4, <3>1
    <2> QED BY <1>3, <2>1 DEF WaitInv, WaitsWell
  <1> QED BY <1>4, <1>6, <1>7, <1>8 DEF IInv

LEMMA ActiveRouteTimeoutStep ==
    ASSUME IInv, NEW n \in Node, NEW d \in Node, ActiveRouteTimeout(n, d)
    PROVE  IInv'
  <1> DEFINE t == [routeTable[n] EXCEPT ![d] = NoRoute]
  <1>1. GoodTable(routeTable[n], seqNumber) /\ routeTable \in [Node -> [Node -> Route]]
        /\ seqNumber \in [Node -> Nat]
    BY DEF IInv, TableInv, CounterInv
  <1>2. routeTable[n] \in [Node -> Route] /\ NoRoute \in Route /\ NoRoute.seq = 0
        /\ NoRoute.flag = "None"
    BY <1>1 DEF Route, NoRoute
  <1>3. GoodTable(t, seqNumber)
    <2>1. t \in [Node -> Route]
      BY <1>2
    <2>2. ASSUME NEW y \in Node PROVE t[y].seq <= seqNumber[y]
      <3>1. CASE y = d
        <4>1. t[y].seq = 0
          BY <1>2, <3>1
        <4> QED BY <1>1, <4>1
      <3>2. CASE y # d
        BY <1>1, <1>2, <3>2 DEF GoodTable
      <3> QED BY <3>1, <3>2
    <2> QED BY <2>1, <2>2 DEF GoodTable
  <1>4. routeTable' = [routeTable EXCEPT ![n] = t]
    BY DEF ActiveRouteTimeout
  <1>5. \A y \in Node : RouteFound(t, y) => RouteFound(routeTable[n], y)
    BY <1>2 DEF RouteFound
  <1> HIDE DEF t
  <1>6. TableInv'
    <2>1. seqNumber' \in [Node -> Nat] /\ \A x \in Node : seqNumber[x] <= seqNumber'[x]
      BY <1>1 DEF ActiveRouteTimeout
    <2> QED BY <1>3, <1>4, <2>1, OneTableChanges
  <1>7. CounterInv' /\ NetInv'
    BY DEF ActiveRouteTimeout, IInv, CounterInv, NetInv
  <1>8. WaitInv'
    <2>1. ASSUME NEW q \in Packet, pkt[q].where = "fifo"
          PROVE  ~RouteFound(routeTable'[pkt[q].at], Dst[q])
      <3>1. pkt[q].at \in Node /\ Dst[q] \in Node /\ ~RouteFound(routeTable[pkt[q].at], Dst[q])
        BY <2>1, PlaceFields, PacketAssumption DEF IInv, CounterInv, WaitInv
      <3>2. CASE pkt[q].at = n
        BY <1>1, <1>4, <1>5, <3>1, <3>2
      <3>3. CASE pkt[q].at # n
        BY <1>1, <1>4, <3>1, <3>3
      <3> QED BY <3>2, <3>3
    <2> QED BY <2>1 DEF ActiveRouteTimeout, IInv, WaitInv
  <1> QED BY <1>6, <1>7, <1>8 DEF IInv

-----------------------------------------------------------------------------
(* The invariant. *)

LEMMA Initially == Init => IInv
  <1> SUFFICES ASSUME Init PROVE IInv
    OBVIOUS
  <1>1. NotSent \in SentEntry /\ NoRoute \in Route /\ NoRoute.seq = 0
    BY DEF NotSent, SentEntry, RREQ_RETRIES, NoRoute, Route
  <1>2. pkt \in [Packet -> Place]
    BY PacketAssumption DEF Init, Place
  <1>3. /\ seqNumber \in [Node -> Nat]
        /\ sent \in [Node -> [Node -> SentEntry]]
        /\ nRerrCount \in [Node -> 0..RerrDrops + 2]
    BY <1>1, AODVBoundAssumption DEF Init
  <1>4. seen \in [Node -> SUBSET (1..nRREQId)] /\ nRREQId \in 0..MaxRREQId /\ lost \subseteq Node
    BY AODVBoundAssumption DEF Init
  <1>5. CounterInv
    BY <1>2, <1>3, <1>4 DEF CounterInv
  <1>6. TableInv
    BY <1>1 DEF Init, TableInv, GoodTable
  <1>7. NetInv /\ WaitInv
    BY DEF Init, NetInv, WaitInv
  <1> QED BY <1>5, <1>6, <1>7 DEF IInv

LEMMA NextStep ==
    ASSUME IInv, Next
    PROVE  IInv'
  <1>1. ASSUME NEW p \in Packet, NEW n \in Node, NetworkOut(p, n)
        PROVE  IInv'
    BY <1>1, SendsOnStep, JoinsFIFOStep, StartsDiscoveryStep DEF NetworkOut
  <1>2. ASSUME NEW p \in Packet, NEW n \in Node, NEW m \in Node,
               Arrives(p, n, m) \/ DropNotified(p, n, m) \/ DropReported(p, n, m)
        PROVE  IInv'
    BY <1>2, ArrivesStep, DropNotifiedStep, DropReportedStep
  <1>3. ASSUME NEW n \in Node, NEW m \in net, ProcessRREQ(n, m)
        PROVE  IInv'
    BY <1>3, DropsSeenRREQStep, AnswersRREQStep, AnswersForDestinationStep, ForwardsRREQStep
       DEF ProcessRREQ
  <1>4. ASSUME NEW n \in Node, NEW m \in net, ProcessRREP(n, m)
        PROVE  IInv'
    BY <1>4, EndsDiscoveryStep, PassesRREPStep DEF ProcessRREP
  <1>5. ASSUME NEW n \in Node, NEW d \in Node, RreqTimeout(n, d)
        PROVE  IInv'
    BY <1>5, RetryRREQStep, GivesUpStep DEF RreqTimeout
  <1>6. ASSUME NEW n \in Node, NEW d \in Expiring, ActiveRouteTimeout(n, d)
        PROVE  IInv'
    BY <1>6, SwitchAssumption, ActiveRouteTimeoutStep
  <1>7. ASSUME NEW n \in Beacons, Hello(n)
        PROVE  IInv'
    BY <1>7, AODVBoundAssumption, HelloStep
  <1> QED BY <1>1, <1>2, <1>3, <1>4, <1>5, <1>6, <1>7, ProcessRERRStep DEF Next

LEMMA Invariance == Spec => []IInv
  <1>1. IInv /\ [Next]_vars => IInv'
    <2>1. IInv /\ UNCHANGED vars => IInv'
      BY DEF vars, IInv, CounterInv, TableInv, NetInv, WaitInv
    <2> QED BY <2>1, NextStep
  <1> QED
    BY <1>1, Initially, PTL DEF Spec

\* The types of the state.
THEOREM TypeCorrect == Spec => []TypeOK
  <1>1. IInv => TypeOK
    BY DEF IInv, CounterInv, TableInv, NetInv, GoodMessage, SentEntry, TypeOK
  <1> QED
    BY <1>1, Invariance, PTL

\* No table and no message in flight holds a sequence number that its owner has
\* not reached: every handler of AODV_RREQ.c, AODV_RREP.c and AODV_RouteError.c
\* copies the numbers it was given, and only the owner increments its own.
THEOREM NoneFresherThanOwner == Spec => []FreshestFromOwner
  <1>1. IInv => FreshestFromOwner
    BY DEF IInv, TableInv, GoodTable, NetInv, GoodMessage, FreshestFromOwner
  <1> QED
    BY <1>1, Invariance, PTL

\* A packet in the FIFO of a node is for a destination that the node is
\* looking for, and has no route to.
THEOREM WaitsOnlyForDiscovery == Spec => []WaitsForDiscovery
  <1>1. IInv => WaitsForDiscovery
    BY DEF IInv, WaitInv, Waiting, WaitsForDiscovery
  <1> QED
    BY <1>1, Invariance, PTL

-----------------------------------------------------------------------------
(* No entry goes back to an older route. *)

\* Table u has no older entry than table t.
NotStaler(t, u) ==
    \A d \in Node : RouteFound(t, d) /\ u[d].flag # "None" =>
        /\ u[d].seq >= t[d].seq
        /\ u[d].seq = t[d].seq /\ t[d].seq > 0 /\ t[d].flag = "Valid" => u[d].hop <= t[d].hop

LEMMA SameIsNotStaler ==
    ASSUME NEW t \in [Node -> Route], NEW u,
           \A d \in Node : u[d].flag # "None" => u[d].seq = t[d].seq /\ u[d].hop = t[d].hop
    PROVE  NotStaler(t, u)
  <1>1. \A d \in Node : t[d].seq \in Nat /\ t[d].hop \in Nat
    BY RouteFields
  <1> QED BY <1>1 DEF NotStaler

LEMMA InsertIsNotStaler ==
    ASSUME NEW t \in [Node -> Route], NEW ip \in Node, NEW s \in Nat, NEW h \in Nat,
           NEW x \in Node
    PROVE  NotStaler(t, InsertInRouteTable(t, ip, s, h, x))
  <1> DEFINE u == InsertInRouteTable(t, ip, s, h, x)
  <1>1. CASE Newer(t[ip], s, h)
    <2>1. /\ u[ip].seq = s /\ u[ip].hop = h
          /\ \A y \in Node : y # ip => u[y] = t[y]
      BY <1>1 DEF InsertInRouteTable
    <2>2. \A y \in Node : t[y].seq \in Nat /\ t[y].hop \in Nat
      BY RouteFields
    <2> HIDE DEF u
    <2>3. s >= t[ip].seq
      BY <1>1, <2>2 DEF Newer
    <2>4. t[ip].seq > 0 /\ s = t[ip].seq /\ t[ip].flag = "Valid" => h + 1 < t[ip].hop
      <3>1. t[ip].flag = "Valid" => t[ip].flag # "InValid"
        OBVIOUS
      <3> QED BY <1>1, <2>2, <3>1 DEF Newer
    <2>5. SUFFICES ASSUME NEW y \in Node
                   PROVE  /\ u[y].seq >= t[y].seq
                          /\ u[y].seq = t[y].seq /\ t[y].seq > 0 /\ t[y].flag = "Valid"
                                 => u[y].hop <= t[y].hop
      BY <2>5 DEF NotStaler, u
    <2>6. CASE y = ip
      BY <2>1, <2>2, <2>3, <2>4, <2>6
    <2>7. CASE y # ip
      BY <2>1, <2>2, <2>7
    <2> QED BY <2>6, <2>7
  <1>2. CASE ~Newer(t[ip], s, h)
    <2>1. u = t
      BY <1>2 DEF InsertInRouteTable
    <2> HIDE DEF u
    <2> QED BY <2>1, SameIsNotStaler DEF u
  <1> QED BY <1>1, <1>2

\* The table of one node changes, into one that is not staler.
LEMMA OtherTablesStay ==
    ASSUME IInv, NEW n \in Node, NEW u, NotStaler(routeTable[n], u),
           routeTable' = [routeTable EXCEPT ![n] = u], NEW k \in Node
    PROVE  NotStaler(routeTable[k], routeTable'[k])
  <1>1. routeTable \in [Node -> [Node -> Route]]
    BY DEF IInv, TableInv
  <1>2. CASE k = n
    BY <1>1, <1>2
  <1>3. CASE k # n
    <2>1. routeTable'[k] = routeTable[k] /\ routeTable[k] \in [Node -> Route]
      BY <1>1, <1>3
    <2> QED BY <2>1, SameIsNotStaler
  <1> QED BY <1>2, <1>3

LEMMA NothingInserted ==
    ASSUME IInv, UNCHANGED routeTable, NEW k \in Node
    PROVE  NotStaler(routeTable[k], routeTable'[k])
  <1>1. routeTable[k] \in [Node -> Route] /\ routeTable'[k] = routeTable[k]
    BY DEF IInv, TableInv
  <1> QED BY <1>1, SameIsNotStaler

LEMMA RequestIsNotStaler ==
    ASSUME IInv, NEW n \in Node, NEW m \in net, LearnsReverse(n, m), NEW k \in Node
    PROVE  NotStaler(routeTable[k], routeTable'[k])
  <1>1. m \in RREQ
    BY MessageKind DEF LearnsReverse, RreqAt, IInv, NetInv, GoodMessage
  <1>2. m.orig \in Node /\ m.last \in Node /\ m.oseq \in Nat /\ m.hop \in Nat
    BY <1>1, RreqFields
  <1>3. routeTable[n] \in [Node -> Route]
    BY DEF IInv, TableInv
  <1>4. NotStaler(routeTable[n], InsertInRouteTable(routeTable[n], m.orig, m.oseq, m.hop, m.last))
    BY <1>2, <1>3, InsertIsNotStaler
  <1> QED BY <1>4, OtherTablesStay DEF LearnsReverse

LEMMA ReplyIsNotStaler ==
    ASSUME IInv, NEW n \in Node, NEW m \in net, LearnsRoute(n, m), NEW k \in Node
    PROVE  NotStaler(routeTable[k], routeTable'[k])
  <1>1. m \in RREP
    BY MessageKind DEF LearnsRoute, RrepAt, IInv, NetInv, GoodMessage
  <1>2. m.dest \in Node /\ m.last \in Node /\ m.dseq \in Nat /\ m.hop \in Nat
    BY <1>1, RrepFields
  <1>3. routeTable[n] \in [Node -> Route]
    BY DEF IInv, TableInv
  <1>4. NotStaler(routeTable[n], InsertInRouteTable(routeTable[n], m.dest, m.dseq, m.hop, m.last))
    BY <1>2, <1>3, InsertIsNotStaler
  <1>5. CASE m.dest = n
    BY <1>5, NothingInserted DEF LearnsRoute
  <1>6. CASE m.dest # n
    BY <1>4, <1>6, OtherTablesStay DEF LearnsRoute
  <1> QED BY <1>5, <1>6

LEMMA ErrorIsNotStaler ==
    ASSUME IInv, NEW n \in Node, NEW x \in Node, NEW ds \in SUBSET Node,
           routeTable' = [routeTable EXCEPT ![n] = Invalidate(@, x, ds)], NEW k \in Node
    PROVE  NotStaler(routeTable[k], routeTable'[k])
  <1>1. routeTable[n] \in [Node -> Route]
    BY DEF IInv, TableInv
  <1>2. \A d \in Node : /\ Invalidate(routeTable[n], x, ds)[d].seq = routeTable[n][d].seq
                        /\ Invalidate(routeTable[n], x, ds)[d].hop = routeTable[n][d].hop
    BY <1>1, InvalidateKeepsTable
  <1>3. NotStaler(routeTable[n], Invalidate(routeTable[n], x, ds))
    BY <1>1, <1>2, SameIsNotStaler
  <1> QED BY <1>3, OtherTablesStay

LEMMA ExpiryIsNotStaler ==
    ASSUME IInv, NEW n \in Node, NEW d \in Node, ActiveRouteTimeout(n, d), NEW k \in Node
    PROVE  NotStaler(routeTable[k], routeTable'[k])
  <1> DEFINE u == [routeTable[n] EXCEPT ![d] = NoRoute]
  <1>1. routeTable[n] \in [Node -> Route]
    BY DEF IInv, TableInv
  <1>2. \A y \in Node : u[y].flag # "None" => u[y] = routeTable[n][y]
    BY <1>1 DEF NoRoute
  <1>3. routeTable' = [routeTable EXCEPT ![n] = u]
    BY DEF ActiveRouteTimeout
  <1> HIDE DEF u
  <1>4. NotStaler(routeTable[n], u)
    BY <1>1, <1>2, SameIsNotStaler
  <1> QED BY <1>3, <1>4, OtherTablesStay

LEMMA NextIsNotStaler ==
    ASSUME IInv, Next, NEW k \in Node
    PROVE  NotStaler(routeTable[k], routeTable'[k])
  <1>1. ASSUME NEW p \in Packet, NEW n \in Node, NetworkOut(p, n)
        PROVE  UNCHANGED routeTable
    BY <1>1 DEF NetworkOut, SendsOn, JoinsFIFO, StartsDiscovery
  <1>2. ASSUME NEW p \in Packet, NEW n \in Node, NEW m \in Node,
               Arrives(p, n, m) \/ DropNotified(p, n, m)
        PROVE  UNCHANGED routeTable
    BY <1>2 DEF Arrives, DropNotified
  <1>3. ASSUME NEW p \in Packet, NEW n \in Node, NEW m \in Node, DropReported(p, n, m)
        PROVE  NotStaler(routeTable[k], routeTable'[k])
    BY <1>3, ErrorIsNotStaler DEF DropReported
  <1>4. ASSUME NEW n \in Node, NEW m \in net, ProcessRREQ(n, m)
        PROVE  NotStaler(routeTable[k], routeTable'[k])
    <2>1. DropsSeenRREQ(n, m) => UNCHANGED routeTable
      BY DEF DropsSeenRREQ
    <2>2. ~DropsSeenRREQ(n, m) => LearnsReverse(n, m)
      BY <1>4 DEF ProcessRREQ, AnswersRREQ, AnswersForDestination, ForwardsRREQ
    <2> QED BY <2>1, <2>2, NothingInserted, RequestIsNotStaler
  <1>5. ASSUME NEW n \in Node, NEW m \in net, ProcessRREP(n, m)
        PROVE  NotStaler(routeTable[k], routeTable'[k])
    BY <1>5, ReplyIsNotStaler DEF ProcessRREP, EndsDiscovery, PassesRREP
  <1>6. ASSUME NEW n \in Node, NEW m \in net, ProcessRERR(n, m)
        PROVE  NotStaler(routeTable[k], routeTable'[k])
    <2>1. m \in RERR
      BY <1>6, MessageKind DEF ProcessRERR, IInv, NetInv, GoodMessage
    <2>2. m.src \in Node /\ m.dests \in SUBSET Node
      BY <2>1, RerrFields
    <2> QED BY <1>6, <2>2, ErrorIsNotStaler DEF ProcessRERR
  <1>7. ASSUME NEW n \in Node, NEW d \in Node, RreqTimeout(n, d)
        PROVE  UNCHANGED routeTable
    BY <1>7 DEF RreqTimeout, RetryRREQ, GivesUp
  <1>8. ASSUME NEW n \in Node, NEW d \in Expiring, ActiveRouteTimeout(n, d)
        PROVE  NotStaler(routeTable[k], routeTable'[k])
    BY <1>8, SwitchAssumption, ExpiryIsNotStaler
  <1>9. ASSUME NEW n \in Beacons, Hello(n)
        PROVE  UNCHANGED routeTable
    BY <1>9 DEF Hello
  <1> QED
    BY <1>1, <1>2, <1>3, <1>4, <1>5, <1>6, <1>7, <1>8, <1>9, NothingInserted DEF Next

\* A handler never puts an older route in the place of a newer one, in whatever
\* order requests and replies arrive (InsertInRouteTable, AODV_RouteTable.c).
THEOREM RoutesAreNeverStaler == Spec => NeverStaler
  <1>1. IInv /\ [Next]_vars =>
            \A k \in Node : NotStaler(routeTable[k], routeTable'[k])
    <2>1. UNCHANGED vars => UNCHANGED routeTable
      BY DEF vars
    <2> QED BY <2>1, NothingInserted, NextIsNotStaler
  <1>2. IInv /\ [Next]_vars =>
          [\A n, d \in Node :
             LET e == routeTable[n][d]
                 f == routeTable'[n][d]
             IN RouteFound(routeTable[n], d) /\ f.flag # "None" =>
                    /\ f.seq >= e.seq
                    /\ f.seq = e.seq /\ e.seq > 0 /\ e.flag = "Valid" => f.hop <= e.hop]_vars
    BY <1>1 DEF NotStaler
  <1> QED
    BY <1>2, Invariance, PTL DEF Spec, NeverStaler
-----------------------------------------------------------------------------
(* Routes lead to their destinations.                                      *)

\* A node to which packets for d may be sent.
Knows(k, d) == k = d \/ RouteFound(routeTable[k], d)

\* A message that teaches a route comes from a neighbour that has one.
Taught(m) ==
    /\ m.type = "RREQ" => /\ m.to \in Neighbours(m.last)
                          /\ m.orig \notin lost => Knows(m.last, m.orig)
    /\ m.type = "RREP" => /\ m.to \in Neighbours(m.last)
                          /\ m.dest \notin lost => Knows(m.last, m.dest)

InRange ==
    \A n, d \in Node : RouteFound(routeTable[n], d) => routeTable[n][d].next \in Neighbours(n)

Led(d) ==
    /\ \A n \in Node : RouteFound(routeTable[n], d) => Knows(routeTable[n][d].next, d)
    /\ \A ns \in SUBSET Node : ~Loops(d, ns)

LeadInv ==
    /\ \A m \in net : Taught(m)
    /\ InRange
    /\ \A d \in Node : d \notin lost => Led(d)

\* What a step may do to a route: nothing, or to set it when there is none.
SameRoute(n, d) ==
    /\ RouteFound(routeTable'[n], d) <=> RouteFound(routeTable[n], d)
    /\ routeTable'[n][d].next = routeTable[n][d].next

NewRoute(n, d) ==
    /\ ~RouteFound(routeTable[n], d) /\ RouteFound(routeTable'[n], d)
    /\ routeTable'[n][d].next \in Neighbours(n)
    /\ d \notin lost => Knows(routeTable'[n][d].next, d)

Extends ==
    /\ UNCHANGED lost
    /\ \E n \in Node : \A k, d \in Node : SameRoute(k, d) \/ (k = n /\ NewRoute(k, d))

LEMMA NeighbourFacts ==
    ASSUME NEW n, NEW m \in Neighbours(n)
    PROVE  m \in Node /\ m # n /\ (n \in Node => n \in Neighbours(m))
<1>1. {n, m} = {m, n}
  OBVIOUS
<1> QED BY <1>1 DEF Neighbours

LEMMA NextIsNode ==
    ASSUME IInv, NEW n \in Node, NEW d \in Node
    PROVE  IF RouteFound(routeTable[n], d) THEN routeTable[n][d].next \in Node
                                           ELSE routeTable[n][d].next = NULL
<1>1. routeTable[n][d] \in Route
  BY DEF IInv, TableInv
<1> QED BY <1>1, RouteFields DEF RouteFound

LEMMA KnowsOn ==
    ASSUME Extends, NEW k \in Node, NEW d \in Node, Knows(k, d)
    PROVE  Knows(k, d)'
  BY DEF Extends, SameRoute, NewRoute, Knows

LEMMA TaughtOn ==
    ASSUME IInv, Extends, NEW m \in net, Taught(m)
    PROVE  Taught(m)'
<1>1. lost' = lost
  BY DEF Extends
<1>2. m.type = "RREQ" => m \in RREQ
  BY MessageKind DEF IInv, NetInv
<1>3. m.type = "RREP" => m \in RREP
  BY MessageKind DEF IInv, NetInv
<1>4. m.type = "RREQ" /\ m.orig \notin lost => Knows(m.last, m.orig)'
  BY <1>2, KnowsOn, RreqFields DEF Taught
<1>5. m.type = "RREP" /\ m.dest \notin lost => Knows(m.last, m.dest)'
  BY <1>3, KnowsOn, RrepFields DEF Taught
<1>6. /\ m.type = "RREQ" => m.to \in Neighbours(m.last)
      /\ m.type = "RREP" => m.to \in Neighbours(m.last)
  BY DEF Taught
<1> QED BY <1>1, <1>4, <1>5, <1>6 DEF Taught, Neighbours

LEMMA InRangeOn ==
    ASSUME InRange, Extends
    PROVE  InRange'
  BY DEF InRange, Extends, SameRoute, NewRoute, Neighbours

\* No node is routed over one that has no route, so that a new route closes no
\* loop: without it the loop would have been there before.
LEMMA LedOn ==
    ASSUME IInv, InRange, Extends, NEW d \in Node, d \notin lost, Led(d)
    PROVE  Led(d)'
<1>1. PICK n \in Node : \A k, e \in Node : SameRoute(k, e) \/ (k = n /\ NewRoute(k, e))
  BY DEF Extends
<1>2. ASSUME NEW k \in Node, RouteFound(routeTable'[k], d), NEW x, x = routeTable'[k][d].next
      PROVE  Knows(x, d)'
  <2>1. CASE SameRoute(k, d)
    <3>1. RouteFound(routeTable[k], d) /\ x = routeTable[k][d].next
      BY <1>2, <2>1 DEF SameRoute
    <3>2. Knows(x, d) /\ x \in Node
      BY <3>1, NextIsNode DEF Led
    <3> QED BY <3>2, KnowsOn
  <2>2. CASE NewRoute(k, d)
    <3>1. Knows(x, d) /\ x \in Node
      BY <1>2, <2>2, NeighbourFacts DEF NewRoute
    <3> QED BY <3>1, KnowsOn
  <2> QED BY <1>1, <2>1, <2>2
<1>3. ASSUME NEW ns \in SUBSET Node, ns # {}, d \notin ns, \A k \in ns : routeTable'[k][d].next \in ns
      PROVE  FALSE
  <2>1. CASE \A k \in ns : SameRoute(k, d)
    <3>1. Loops(d, ns)
      BY <1>3, <2>1 DEF Loops, SameRoute
    <3> QED BY <3>1 DEF Led
  <2>2. CASE ~ \A k \in ns : SameRoute(k, d)
    <3>1. n \in ns /\ NewRoute(n, d) /\ \A k \in ns \ {n} : SameRoute(k, d)
      BY <1>1, <2>2
    <3>2. routeTable'[n][d].next \in ns \ {n}
      BY <1>3, <3>1, NeighbourFacts DEF NewRoute
    <3>3. ASSUME NEW k \in ns \ {n} PROVE routeTable[k][d].next \in ns \ {n}
      <4>1. routeTable[k][d].next \in ns
        BY <1>3, <3>1 DEF SameRoute
      <4>2. RouteFound(routeTable[k], d)
        BY <4>1, NextIsNode, LinkAssumption
      <4>3. Knows(routeTable[k][d].next, d)
        BY <4>2 DEF Led
      <4>4. ~Knows(n, d)
        BY <1>3, <3>1 DEF NewRoute, Knows
      <4> QED BY <4>1, <4>3, <4>4
    <3>4. Loops(d, ns \ {n})
      BY <1>3, <3>2, <3>3 DEF Loops
    <3> QED BY <3>4 DEF Led
  <2> QED BY <2>1, <2>2
<1>4. \A ns \in SUBSET Node : ~Loops(d, ns)'
  BY <1>3 DEF Loops
<1>5. (\A k \in Node : RouteFound(routeTable[k], d) => Knows(routeTable[k][d].next, d))'
  BY <1>2 DEF Knows
<1> QED BY <1>4, <1>5 DEF Led

\* A step that extends the routes, whose new messages come from nodes that know
\* what they teach.
LEMMA ExtendsKeepsLead ==
    ASSUME IInv, LeadInv, Extends, \A m \in net' \ net : Taught(m)'
    PROVE  LeadInv'
<1>1. \A m \in net' : Taught(m)'
  BY TaughtOn DEF LeadInv
<1>2. InRange'
  BY InRangeOn DEF LeadInv
<1>3. \A d \in Node : d \notin lost' => Led(d)'
  BY LedOn DEF LeadInv, Extends
<1> QED BY <1>1, <1>2, <1>3 DEF LeadInv

LEMMA SameRoutesExtend ==
    ASSUME UNCHANGED <<lost, routeTable>>, NEW n \in Node
    PROVE  Extends
  BY DEF Extends, SameRoute

LEMMA InvalidateExtends ==
    ASSUME IInv, UNCHANGED lost, NEW n \in Node, NEW u \in Node, NEW ds \in SUBSET Node,
           routeTable' = [routeTable EXCEPT ![n] = Invalidate(@, u, ds)]
    PROVE  Extends
<1>1. routeTable \in [Node -> [Node -> Route]]
  BY DEF IInv, TableInv
<1>2. ASSUME NEW k \in Node, NEW d \in Node PROVE SameRoute(k, d)
  <2>1. CASE k # n
    BY <1>1, <2>1 DEF SameRoute
  <2>2. CASE k = n
    <3>1. routeTable'[k] = Invalidate(routeTable[k], u, ds)
      BY <1>1, <2>2
    <3>2. RouteFound(routeTable'[k], d) <=> RouteFound(routeTable[k], d)
      BY <1>1, <3>1, InvalidateKeepsTable
    <3>3. routeTable'[k][d].next = routeTable[k][d].next
      <4>1. routeTable[k][d] \in Route
        BY <1>1
      <4>2. [routeTable[k][d] EXCEPT !.flag = "InValid"].next = routeTable[k][d].next
        BY <4>1 DEF Route, NoRoute
      <4> QED BY <3>1, <4>2 DEF Invalidate
    <3> QED BY <3>2, <3>3 DEF SameRoute
  <2> QED BY <2>1, <2>2
<1> QED BY <1>2 DEF Extends

\* An insertion of what a neighbour teaches.
LEMMA InsertExtends ==
    ASSUME IInv, UNCHANGED lost, NEW n \in Node, NEW d \in Node, NEW s \in Nat, NEW h \in Nat,
           NEW x \in Neighbours(n), d \notin lost => Knows(x, d),
           routeTable' = [routeTable EXCEPT ![n] = InsertInRouteTable(@, d, s, h, x)]
    PROVE  Extends /\ RouteFound(routeTable'[n], d)
<1> DEFINE t == routeTable[n]
           u == InsertInRouteTable(t, d, s, h, x)
<1>1. routeTable \in [Node -> [Node -> Route]] /\ t \in [Node -> Route] /\ t[d] \in Route
  BY DEF IInv, TableInv
<1>2. x \in Node
  BY NeighbourFacts
<1>3. routeTable'[n] = u /\ \A k \in Node \ {n} : routeTable'[k] = routeTable[k]
  BY <1>1
<1>4. RouteFound(u, d)
  BY <1>1, <1>2, InsertKeepsTable
<1>5. \A e \in Node \ {d} : u[e] = t[e]
  BY <1>1 DEF InsertInRouteTable
<1>6. u[d].next = IF RouteFound(t, d) THEN t[d].next ELSE x
  <2>1. CASE RouteFound(t, d)
    <3>1. t[d].next # NULL
      BY <1>1, <2>1, RouteFields, LinkAssumption DEF RouteFound
    <3> QED BY <1>1, <2>1, <3>1 DEF InsertInRouteTable, NextHop
  <2>2. CASE ~RouteFound(t, d)
    <3>1. t[d].next = NULL /\ t[d].seq = 0
      BY <1>1, <2>2, RouteFields DEF RouteFound
    <3> QED BY <1>1, <2>2, <3>1 DEF InsertInRouteTable, NextHop, Newer
  <2> QED BY <2>1, <2>2
<1> HIDE DEF u
<1>7. ASSUME NEW k \in Node, NEW e \in Node
      PROVE  SameRoute(k, e) \/ (k = n /\ NewRoute(k, e))
  <2>1. CASE k # n \/ e # d
    BY <1>3, <1>5, <2>1 DEF SameRoute, RouteFound
  <2>2. CASE k = n /\ e = d
    <3>1. CASE RouteFound(t, d)
      BY <1>3, <1>4, <1>6, <2>2, <3>1 DEF SameRoute
    <3>2. CASE ~RouteFound(t, d)
      BY <1>3, <1>4, <1>6, <2>2, <3>2 DEF NewRoute
    <3> QED BY <3>1, <3>2
  <2> QED BY <2>1, <2>2
<1> QED BY <1>3, <1>4, <1>7 DEF Extends

LEMMA RreqTaught ==
    ASSUME NEW n \in Node, NEW orig \in Node, NEW dest, NEW oseq, NEW id, NEW hop, NEW ttl,
           orig \notin lost' => Knows(n, orig)',
           NEW m \in RreqCopies(n, orig, oseq, dest, id, hop, ttl)
    PROVE  Taught(m)'
<1>1. PICK x \in Neighbours(n) :
        m = [type |-> "RREQ", to |-> x, last |-> n, orig |-> orig,
             oseq |-> oseq, dest |-> dest, id |-> id, hop |-> hop, ttl |-> ttl]
  BY DEF RreqCopies
<1>2. m.type = "RREQ" /\ m.to \in Neighbours(n) /\ m.last = n /\ m.orig = orig
  BY <1>1
<1>3. (m.orig \notin lost => Knows(m.last, m.orig))'
  BY <1>2 DEF Knows
<1> QED BY <1>2, <1>3 DEF Taught, Neighbours

LEMMA RrepTaught ==
    ASSUME NEW n \in Node, NEW to \in Neighbours(n), NEW orig, NEW dest \in Node,
           NEW dseq, NEW hop, NEW ttl, dest \notin lost' => Knows(n, dest)',
           NEW m, m = Rrep(to, n, orig, dest, dseq, hop, ttl)
    PROVE  Taught(m)'
<1>1. m.type = "RREP" /\ m.to \in Neighbours(n) /\ m.last = n /\ m.dest = dest
  BY DEF Rrep
<1>2. (m.dest \notin lost => Knows(m.last, m.dest))'
  BY <1>1 DEF Knows
<1> QED BY <1>1, <1>2 DEF Taught, Neighbours

\* A node that sends a message for itself knows itself.
LEMMA KnowsItself ==
    ASSUME NEW n
    PROVE  Knows(n, n)'
  BY DEF Knows

LEMMA SendRREQLeads ==
    ASSUME IInv, LeadInv, NEW n \in Node, NEW d, NEW ttl, SendRREQ(n, d, ttl),
           UNCHANGED <<routeTable, lost>>
    PROVE  LeadInv'
<1>1. net' = net \cup RreqCopies(n, n, seqNumber[n] + 1, d, nRREQId + 1, 0, ttl)
  BY DEF SendRREQ
<1>2. ASSUME NEW m \in net' \ net PROVE Taught(m)'
  <2>1. PICK q, id : m \in RreqCopies(n, n, q, d, id, 0, ttl)
    BY <1>1
  <2> QED BY <2>1, RreqTaught, KnowsItself
<1> QED BY <1>2, SameRoutesExtend, ExtendsKeepsLead

LEMMA QuietLeads ==
    ASSUME IInv, LeadInv, UNCHANGED <<routeTable, lost>>, net' \subseteq net, NEW n \in Node
    PROVE  LeadInv'
  BY SameRoutesExtend, ExtendsKeepsLead

\* What is processed is known to be taught by a neighbour.
LEMMA RequestTeaches ==
    ASSUME IInv, LeadInv, NEW n \in Node, NEW m \in net, LearnsReverse(n, m)
    PROVE  /\ m \in RREQ /\ m.last \in Neighbours(n)
           /\ Extends /\ RouteFound(routeTable'[n], m.orig) /\ lost' = lost
<1>1. m \in RREQ /\ m.to = n /\ m.type = "RREQ" /\ lost' = lost
  BY MessageKind DEF LearnsReverse, RreqAt, IInv, NetInv, GoodMessage
<1>2. m.orig \in Node /\ m.last \in Node /\ m.oseq \in Nat /\ m.hop \in Nat
  BY <1>1, RreqFields
<1>3. m.last \in Neighbours(n) /\ (m.orig \notin lost => Knows(m.last, m.orig))
  BY <1>1, <1>2, NeighbourFacts DEF LeadInv, Taught
<1>4. routeTable' = [routeTable EXCEPT ![n] = InsertInRouteTable(@, m.orig, m.oseq, m.hop, m.last)]
  BY DEF LearnsReverse
<1> QED BY <1>1, <1>2, <1>3, <1>4, InsertExtends

LEMMA ReplyTeaches ==
    ASSUME IInv, LeadInv, NEW n \in Node, NEW m \in net, LearnsRoute(n, m)
    PROVE  /\ m \in RREP /\ Extends /\ lost' = lost
           /\ m.dest # n => RouteFound(routeTable'[n], m.dest)
<1>1. m \in RREP /\ m.to = n /\ m.type = "RREP" /\ lost' = lost
  BY MessageKind DEF LearnsRoute, RrepAt, IInv, NetInv, GoodMessage
<1>2. m.dest \in Node /\ m.last \in Node /\ m.dseq \in Nat /\ m.hop \in Nat
  BY <1>1, RrepFields
<1>3. m.last \in Neighbours(n) /\ (m.dest \notin lost => Knows(m.last, m.dest))
  BY <1>1, <1>2, NeighbourFacts DEF LeadInv, Taught
<1>4. CASE m.dest = n
  BY <1>1, <1>4, SameRoutesExtend DEF LearnsRoute
<1>5. CASE m.dest # n
  <2>1. routeTable' = [routeTable EXCEPT ![n] = InsertInRouteTable(@, m.dest, m.dseq, m.hop, m.last)]
    BY <1>5 DEF LearnsRoute
  <2> QED BY <1>1, <1>2, <1>3, <2>1, InsertExtends
<1> QED BY <1>4, <1>5

LEMMA ProcessRREQLeads ==
    ASSUME IInv, LeadInv, NEW n \in Node, NEW m \in net, ProcessRREQ(n, m)
    PROVE  LeadInv'
<1>1. CASE DropsSeenRREQ(n, m)
  BY <1>1, QuietLeads DEF DropsSeenRREQ
<1>2. CASE AnswersRREQ(n, m)
  <2>1. LearnsReverse(n, m)
        /\ net' = (net \ {m}) \cup {Rrep(m.last, n, m.orig, n, seqNumber[n] + 1, 1, m.hop + 2)}
    BY <1>2 DEF AnswersRREQ
  <2>2. ASSUME NEW k \in net' \ net PROVE Taught(k)'
    <3>1. PICK q, h : k = Rrep(m.last, n, m.orig, n, q, 1, h)
      BY <2>1, <2>2
    <3> QED BY <2>1, <3>1, RequestTeaches, RrepTaught, KnowsItself
  <2> QED BY <2>1, <2>2, RequestTeaches, ExtendsKeepsLead
<1>3. CASE AnswersForDestination(n, m)
  <2> DEFINE e == routeTable'[n][m.dest]
  <2>1. /\ LearnsReverse(n, m) /\ RouteFound(routeTable'[n], m.dest)
        /\ net' = (net \ {m}) \cup {Rrep(m.last, n, m.orig, m.dest, e.seq, e.hop, NET_DIAMETER)}
    BY <1>3 DEF AnswersForDestination, KnowsRoute
  <2>2. m.dest \in Node /\ Knows(n, m.dest)'
    BY <2>1, RequestTeaches, RreqFields DEF Knows
  <2>3. ASSUME NEW k \in net' \ net PROVE Taught(k)'
    <3>1. PICK q, h : k = Rrep(m.last, n, m.orig, m.dest, q, h, NET_DIAMETER)
      BY <2>1, <2>3
    <3> QED BY <2>1, <2>2, <3>1, RequestTeaches, RrepTaught
  <2> QED BY <2>1, <2>3, RequestTeaches, ExtendsKeepsLead
<1>4. CASE ForwardsRREQ(n, m)
  <2> DEFINE new == RreqCopies(n, m.orig, m.oseq, m.dest, m.id, m.hop + 1, m.ttl - 1)
  <2>1. LearnsReverse(n, m) /\ net' \subseteq net \cup new
    BY <1>4 DEF ForwardsRREQ
  <2>2. m.orig \in Node /\ Knows(n, m.orig)'
    BY <2>1, RequestTeaches, RreqFields DEF Knows
  <2>3. ASSUME NEW k \in net' \ net PROVE Taught(k)'
    <3>1. k \in new
      BY <2>1, <2>3
    <3> QED BY <2>2, <3>1, RreqTaught
  <2> HIDE DEF new
  <2> QED BY <2>1, <2>3, RequestTeaches, ExtendsKeepsLead
<1> QED BY <1>1, <1>2, <1>3, <1>4 DEF ProcessRREQ

\* A reply is passed on over the reverse route, which is in range, lost or not.
LEMMA ProcessRREPLeads ==
    ASSUME IInv, LeadInv, NEW n \in Node, NEW m \in net, ProcessRREP(n, m)
    PROVE  LeadInv'
<1>1. CASE EndsDiscovery(n, m)
  BY <1>1, ReplyTeaches, ExtendsKeepsLead DEF EndsDiscovery
<1>2. CASE PassesRREP(n, m)
  <2> DEFINE to == routeTable'[n][m.orig].next
             on == m.dest # n /\ ~isHello(m) /\ RouteFound(routeTable'[n], m.orig) /\ m.ttl - 1 > 1
  <2>1. /\ LearnsRoute(n, m)
        /\ net' = (net \ {m}) \cup
             (IF on THEN {Rrep(to, n, m.orig, m.dest, m.dseq, m.hop + 1, m.ttl - 1)} ELSE {})
    BY <1>2 DEF PassesRREP
  <2>2. m \in RREP /\ Extends /\ lost' = lost /\ m.orig \in Node /\ m.dest \in Node
        /\ (m.dest # n => Knows(n, m.dest)')
    BY <2>1, ReplyTeaches, RrepFields DEF Knows
  <2>3. on => to \in Neighbours(n)
    <3>1. InRange'
      BY <2>2, InRangeOn DEF LeadInv
    <3> QED BY <2>2, <3>1 DEF InRange, Neighbours
  <2>4. ASSUME NEW k \in net' \ net PROVE Taught(k)'
    <3>1. on /\ k = Rrep(to, n, m.orig, m.dest, m.dseq, m.hop + 1, m.ttl - 1)
      BY <2>1, <2>4
    <3>2. PICK x \in Neighbours(n) : k = Rrep(x, n, m.orig, m.dest, m.dseq, m.hop + 1, m.ttl - 1)
      BY <2>3, <3>1
    <3> HIDE DEF to
    <3> QED BY <2>2, <3>1, <3>2, RrepTaught
  <2> QED BY <2>2, <2>4, ExtendsKeepsLead
<1> QED BY <1>1, <1>2 DEF ProcessRREP

LEMMA RerrTaught ==
    ASSUME NEW n, NEW ds, NEW m \in RerrCopies(n, ds)
    PROVE  Taught(m)'
<1>1. m.type = "RERR"
  BY DEF RerrCopies
<1> QED BY <1>1 DEF Taught

LEMMA ErrorLeads ==
    ASSUME IInv, LeadInv, UNCHANGED lost, NEW n \in Node, NEW u \in Node, NEW ds \in SUBSET Node,
           routeTable' = [routeTable EXCEPT ![n] = Invalidate(@, u, ds)],
           NEW es, net' \subseteq net \cup RerrCopies(n, es)
    PROVE  LeadInv'
<1>1. Extends
  BY InvalidateExtends
<1>2. \A m \in net' \ net : Taught(m)'
  BY RerrTaught
<1> QED BY <1>1, <1>2, ExtendsKeepsLead

LEMMA HelloLeads ==
    ASSUME IInv, LeadInv, NEW n \in Node, Hello(n)
    PROVE  LeadInv'
<1>1. ASSUME NEW m \in net' \ net PROVE Taught(m)'
  <2>1. PICK x \in Neighbours(n) : \E q : m = Rrep(x, n, n, n, q, 0, 2)
    BY <1>1 DEF Hello
  <2>2. PICK q : m = Rrep(x, n, n, n, q, 0, 2)
    BY <2>1
  <2> QED BY <2>2, RrepTaught, KnowsItself
<1> QED BY <1>1, SameRoutesExtend, ExtendsKeepsLead DEF Hello

\* A destination to which a route expires is not spoken of any more.
LEMMA ExpiryLeads ==
    ASSUME IInv, LeadInv, NEW n \in Node, NEW d \in Node, ActiveRouteTimeout(n, d)
    PROVE  LeadInv'
<1>1. /\ routeTable' = [routeTable EXCEPT ![n][d] = NoRoute]
      /\ lost' = lost \cup {d} /\ net' = net
  BY DEF ActiveRouteTimeout
<1>2. routeTable \in [Node -> [Node -> Route]]
  BY DEF IInv, TableInv
<1>3. \A k, e \in Node : (k # n \/ e # d) => routeTable'[k][e] = routeTable[k][e]
  BY <1>1, <1>2
<1>4. ~RouteFound(routeTable'[n], d)
  BY <1>1, <1>2 DEF RouteFound, NoRoute
<1>5. InRange'
  <2>1. ASSUME NEW k \in Node, NEW e \in Node, RouteFound(routeTable'[k], e)
        PROVE  routeTable'[k][e].next \in Neighbours(k)
    <3>1. routeTable'[k][e] = routeTable[k][e]
      BY <1>3, <1>4, <2>1
    <3>2. RouteFound(routeTable[k], e)
      BY <2>1, <3>1 DEF RouteFound
    <3> QED BY <3>1, <3>2 DEF LeadInv, InRange
  <2> QED BY <2>1 DEF InRange, Neighbours
<1>6. ASSUME NEW m \in net PROVE Taught(m)'
  <2>1. m.type = "RREQ" => m.last \in Node /\ m.orig \in Node
    BY MessageKind, RreqFields DEF IInv, NetInv
  <2>2. m.type = "RREP" => m.last \in Node /\ m.dest \in Node
    BY MessageKind, RrepFields DEF IInv, NetInv
  <2>3. \A k, e \in Node : e # d /\ Knows(k, e) => k = e \/ RouteFound(routeTable'[k], e)
    BY <1>3 DEF Knows, RouteFound
  <2>4. /\ m.type = "RREQ" => m.to \in Neighbours(m.last)
        /\ m.type = "RREP" => m.to \in Neighbours(m.last)
    BY DEF LeadInv, Taught
  <2>5. m.type = "RREQ" /\ m.orig \notin lost' => Knows(m.last, m.orig)'
    BY <1>1, <2>1, <2>3 DEF LeadInv, Taught, Knows
  <2>6. m.type = "RREP" /\ m.dest \notin lost' => Knows(m.last, m.dest)'
    BY <1>1, <2>2, <2>3 DEF LeadInv, Taught, Knows
  <2> QED BY <2>4, <2>5, <2>6 DEF Taught, Neighbours
<1>7. ASSUME NEW e \in Node, e \notin lost' PROVE Led(e)'
  <2>1. e \notin lost /\ \A k \in Node : routeTable'[k][e] = routeTable[k][e]
    BY <1>1, <1>3, <1>7
  <2>2. Led(e)
    BY <2>1 DEF LeadInv
  <2>3. \A k \in Node : RouteFound(routeTable[k], e) => routeTable[k][e].next \in Node
    BY NextIsNode
  <2>4. ASSUME NEW k \in Node, RouteFound(routeTable'[k], e), NEW x, x = routeTable'[k][e].next
        PROVE  Knows(x, e)'
    <3>1. RouteFound(routeTable[k], e) /\ x = routeTable[k][e].next
      BY <2>1, <2>4 DEF RouteFound
    <3>2. Knows(x, e) /\ x \in Node
      BY <2>2, <2>3, <3>1 DEF Led
    <3> QED BY <2>1, <3>2 DEF Knows, RouteFound
  <2>5. \A ns \in SUBSET Node : Loops(e, ns)' => Loops(e, ns)
    BY <2>1 DEF Loops
  <2>6. (\A ns \in SUBSET Node : ~Loops(e, ns))'
    BY <2>2, <2>5 DEF Led
  <2>7. (\A k \in Node : RouteFound(routeTable[k], e) => Knows(routeTable[k][e].next, e))'
    BY <2>4 DEF Knows
  <2> QED BY <2>6, <2>7 DEF Led
<1> QED BY <1>1, <1>5, <1>6, <1>7 DEF LeadInv

LEMMA InitLeads == IInv /\ Init => LeadInv
<1> SUFFICES ASSUME IInv, Init PROVE LeadInv
  OBVIOUS
<1>1. net = {} /\ \A n, d \in Node : ~RouteFound(routeTable[n], d)
  BY DEF Init, RouteFound, NoRoute
<1>2. ASSUME NEW d \in Node, NEW ns \in SUBSET Node, Loops(d, ns) PROVE FALSE
  <2>1. PICK n \in ns : routeTable[n][d].next \in ns
    BY <1>2 DEF Loops
  <2>2. routeTable[n][d].next = NULL
    BY <1>1, NextIsNode
  <2> QED BY <2>1, <2>2, LinkAssumption
<1> QED BY <1>1, <1>2 DEF LeadInv, InRange, Led

LEMMA NextLeads ==
    ASSUME IInv, LeadInv, [Next]_vars
    PROVE  LeadInv'
<1>1. CASE UNCHANGED vars
  BY <1>1 DEF vars, LeadInv, Taught, InRange, Led, Knows, Loops, Neighbours, RouteFound
<1>2. ASSUME NEW p \in Packet, NEW n \in Node, NetworkOut(p, n) PROVE LeadInv'
  <2>1. CASE SendsOn(p, n) \/ JoinsFIFO(p, n)
    BY <2>1, QuietLeads DEF SendsOn, JoinsFIFO
  <2>2. CASE StartsDiscovery(p, n)
    BY <2>2, SendRREQLeads DEF StartsDiscovery
  <2> QED BY <1>2, <2>1, <2>2 DEF NetworkOut
<1>3. ASSUME NEW p \in Packet, NEW n \in Node, NEW m \in Node,
             Arrives(p, n, m) \/ DropNotified(p, n, m)
      PROVE  LeadInv'
  BY <1>3, QuietLeads DEF Arrives, DropNotified
<1>4. ASSUME NEW p \in Packet, NEW n \in Node, NEW m \in Node, DropReported(p, n, m)
      PROVE  LeadInv'
  BY <1>4, ErrorLeads DEF DropReported
<1>5. ASSUME NEW n \in Node, NEW m \in net, ProcessRERR(n, m) PROVE LeadInv'
  <2>1. m \in RERR
    BY <1>5, MessageKind DEF ProcessRERR, IInv, NetInv, GoodMessage
  <2>2. m.src \in Node /\ m.dests \in SUBSET Node
    BY <2>1, RerrFields
  <2>3. net' \subseteq net \cup RerrCopies(n, m.dests)
    BY <1>5 DEF ProcessRERR
  <2> QED BY <1>5, <2>2, <2>3, ErrorLeads DEF ProcessRERR
<1>6. ASSUME NEW n \in Node, NEW d \in Node, RreqTimeout(n, d) PROVE LeadInv'
  <2>1. CASE RetryRREQ(n, d)
    BY <2>1, SendRREQLeads DEF RetryRREQ
  <2>2. CASE GivesUp(n, d)
    BY <2>2, QuietLeads DEF GivesUp
  <2> QED BY <1>6, <2>1, <2>2 DEF RreqTimeout
<1>7. ASSUME NEW n \in Node, NEW d \in Expiring, ActiveRouteTimeout(n, d) PROVE LeadInv'
  BY <1>7, SwitchAssumption, ExpiryLeads
<1>8. ASSUME NEW n \in Beacons, Hello(n) PROVE LeadInv'
  BY <1>8, AODVBoundAssumption, HelloLeads
<1> QED
  BY <1>1, <1>2, <1>3, <1>4, <1>5, <1>6, <1>7, <1>8, ProcessRREQLeads, ProcessRREPLeads DEF Next

\* However requests, replies, errors and hello messages overtake each other, the
\* next hops to a destination to which no route has expired lead over nodes that
\* have one to the destination, without a loop: an entry never gets another next
\* hop, whatever newer route it is told of (InsertInRouteTable, AODV_RouteTable.c).
THEOREM RoutesAlwaysLead == Spec => []RoutesLeadToDestination
<1>1. LeadInv => RoutesLeadToDestination
  BY NeighbourFacts DEF LeadInv, InRange, Led, Knows, RoutesLeadToDestination
<1>2. Init => IInv
  BY Initially
<1> QED BY <1>1, <1>2, InitLeads, NextLeads, Invariance, PTL DEF Spec

-----------------------------------------------------------------------------
(* The scenarios.                                                          *)

\* The state that AODV works on.
LEMMA AodvStep == [SuiteNext]_suite => [Next]_vars
  BY DEF SuiteNext, suite, InAodv, InRip, InAdj, InFlooding, InDsr, InRpl


\* The state that RIP works on.
LEMMA RipStep == [SuiteNext]_suite => [Rip!Next]_(Rip!vars)
  BY DEF SuiteNext, suite, InAodv, InRip, InAdj, InFlooding, InDsr, InRpl, rip, Rip!vars

\* The state that RPL works on; the scenario may end before RPL does.
LEMMA RplStep == [SuiteNext]_suite => [Rpl!Next]_(Rpl!vars)
  BY DEF SuiteNext, suite, InAodv, InRip, InAdj, InFlooding, InDsr, InRpl, rpl, Rpl!vars

\* The state that DSR works on.
LEMMA DsrStep == [SuiteNext]_suite => [Dsr!Next]_(Dsr!vars)
  BY DEF SuiteNext, suite, InAodv, InRip, InAdj, InFlooding, InDsr, InRpl, dsr, Dsr!vars

\* The state that the adjacency of OSPF works on.
LEMMA AdjStep == [SuiteNext]_suite => [Adj!Next]_(Adj!vars)
  BY DEF SuiteNext, suite, InAodv, InRip, InAdj, InFlooding, InDsr, InRpl, adj, Adj!vars

\* A scenario runs AODV, or leaves it alone.
THEOREM ImplementsAodv == SuiteSpec => Spec
<1>1. SuiteInit => Init
  BY DEF SuiteInit
<1> QED BY <1>1, AodvStep, PTL DEF SuiteSpec, Spec

\* A scenario runs RIP, or leaves it alone.
THEOREM ImplementsRip == SuiteSpec => Rip!Spec
<1>1. SuiteInit => Rip!Init
  BY DEF SuiteInit
<1> QED BY <1>1, RipStep, PTL DEF SuiteSpec, Rip!Spec

\* A scenario runs RPL, or leaves it alone.
THEOREM ImplementsRpl == SuiteSpec => Rpl!Spec
<1>1. SuiteInit => Rpl!Init
  BY DEF SuiteInit
<1> QED BY <1>1, RplStep, PTL DEF SuiteSpec, Rpl!Spec

\* A scenario runs DSR, or leaves it alone.
THEOREM ImplementsDsr == SuiteSpec => Dsr!Spec
<1>1. SuiteInit => Dsr!Init
  BY DEF SuiteInit
<1> QED BY <1>1, DsrStep, PTL DEF SuiteSpec, Dsr!Spec

\* A scenario runs the adjacency of OSPF, or leaves it alone.
THEOREM ImplementsAdjacency == SuiteSpec => Adj!Spec
<1>1. SuiteInit => Adj!Init
  BY DEF SuiteInit
<1> QED BY <1>1, AdjStep, PTL DEF SuiteSpec, Adj!Spec

\* The routers and LSAs of the OSPF scenarios are such as the theorems are about.
LEMMA AdjConfigured == Adj!Configured
<1>1. Low \notin LSAs /\ High \notin LSAs /\ Low # High
  BY OspfAssumption
<1>2. HeardByHigh \in [LSAs -> {Low, High}]
  BY DEF HeardByHigh
<1>3. 2 \in Nat /\ PacketsLost \in Nat /\ 1 \in Nat
  BY OspfAssumption
<1>4. Adj!IsFiniteSet(LSAs)
  BY OspfAssumption DEF IsFiniteSet, Adj!IsFiniteSet
<1> QED BY <1>1, <1>2, <1>3, <1>4 DEF Adj!Configured, Adj!Router

\* The packets of the DSR scenarios are such as the theorems of DSR are about.
LEMMA DsrConfigured == Dsr!Configured
  BY DsrAssumption DEF Dsr!Configured

\* The network of the RPL scenarios is one that the theorems of RPL are about.
LEMMA RplConfigured == Rpl!Configured
<1> DEFINE O == RplOrder
<1>1. O = [n \in Nodes3 |-> IF n = n1 THEN <<n2, n3>> ELSE IF n = n2 THEN <<n1, n3>> ELSE <<n2, n1>>]
  BY DEF RplOrder
<1>2. O \in [Nodes3 -> Seq(Nodes3)]
  <2>1. n1 \in Nodes3 /\ n2 \in Nodes3 /\ n3 \in Nodes3
    BY DEF Nodes3
  <2>2. <<n2, n3>> \in Seq(Nodes3) /\ <<n1, n3>> \in Seq(Nodes3) /\ <<n2, n1>> \in Seq(Nodes3)
    <3> HIDE DEF O
    <3> QED BY <2>1
  <2>3. \A n \in Nodes3 : O[n] \in Seq(Nodes3)
    BY <1>1, <2>2
  <2> QED BY <1>1, <2>3
<1>3. ASSUME NEW n \in Nodes3, NEW m \in Rpl!Neighbours(n)
      PROVE  n \in Rpl!Neighbours(m) /\ {n, m} \in Triangle
  <2>1. \A k \in Nodes3 : Rpl!Neighbours(k) =
           IF k = n1 THEN {n2, n3} ELSE IF k = n2 THEN {n1, n3} ELSE {n2, n1}
    BY <1>1 DEF Rpl!Neighbours
  <2> QED BY <2>1 DEF Nodes3, Triangle
<1>4. DOMAIN RplCost = Triangle /\ \A l \in Triangle : RplCost[l] \subseteq Nat \ {0}
  BY DEF RplCost
<1>5. NULL \notin Nodes3 /\ NULL \notin Rpl!Dio
  BY RplAssumption DEF Rpl!Dio, Rpl!Rank, Rpl!IsRank
<1> HIDE DEF O
<1>6. /\ RplOrder \in [Nodes3 -> Seq(Nodes3)]
      /\ \A n \in Nodes3 : \A m \in Rpl!Neighbours(n) : n \in Rpl!Neighbours(m) /\ {n, m} \in DOMAIN RplCost
      /\ \A l \in DOMAIN RplCost : RplCost[l] \subseteq Nat \ {0}
  BY <1>2, <1>3, <1>4 DEF O
<1>7. 6 \in Nat /\ 1 <= 6 /\ 0 \in Nat /\ 1 \in Nat /\ 2 \in Nat
  OBVIOUS
<1> QED BY <1>5, <1>6, <1>7, Zenon DEF Rpl!Configured

\* However the links of the routers run and however old the updates are that
\* they act on, the next routers of RIP never form a loop.
THEOREM RipRoutesDescend == SuiteSpec => []RoutesDescend
  BY ImplementsRip, Rip!RoutesAlwaysDescend, PTL DEF RoutesDescend

\* On links that lose nothing RIP passes on what a router learns.
THEOREM RipLearntIsPassedOn == SuiteSpec => []LearntIsPassedOn
  BY ImplementsRip, Rip!LearntIsAlwaysPassedOn, PTL DEF LearntIsPassedOn

\* The routes that DSR caches follow links and visit no node twice, unless an
\* initiator has been on the way of its own request.
THEOREM DsrRoutesFollowLinks == SuiteSpec => []RoutesFollowLinks
  BY ImplementsDsr, DsrConfigured, Dsr!RoutesAlwaysFollowLinks, PTL DEF RoutesFollowLinks

\* A RREQ timeout of DSR finds an entry to count in, unless its node asked for
\* the target anew before the last timeout for it was over.
THEOREM DsrTimeoutFindsEntry == SuiteSpec => []TimeoutFindsEntry
  BY ImplementsDsr, DsrConfigured, Dsr!TimeoutsFindTheirEntry, PTL DEF TimeoutFindsEntry

\* A member of the DODAG remembers a message of each of its parents and siblings.
THEOREM RplParentsAreKnown == SuiteSpec => []ParentsAreKnown
  BY ImplementsRpl, RplConfigured, Rpl!ParentsStayKnown, PTL DEF ParentsAreKnown

\* The negotiation of master and slave has one outcome, and on a link that loses
\* nothing no event is raised that has no handler.
THEOREM AdjNegotiationAgrees == SuiteSpec => []NegotiationAgrees
<1>1. SuiteSpec => []Adj!OneMaster
  BY ImplementsAdjacency, AdjConfigured, Adj!OneMasterHolds, PTL
<1>2. SuiteSpec => []Adj!NoMismatch
  BY ImplementsAdjacency, AdjConfigured, Adj!NoMismatchHolds, PTL
<1> QED BY <1>1, <1>2, PTL DEF NegotiationAgrees

\* On a link that loses nothing, a router whose neighbour is Full lacks nothing
\* that is not queued for it or on its way.
THEOREM AdjFullIsSynchronised == SuiteSpec => []FullIsSynchronised
  BY ImplementsAdjacency, AdjConfigured, Adj!FullIsSynchronisedHolds, PTL DEF FullIsSynchronised
=============================================================================
