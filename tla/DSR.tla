--------------------------------- MODULE DSR ---------------------------------
(***************************************************************************)
(* DSR on a wireless subnet: the send buffer, the route request table and  *)
(* the route cache of each node, the discovery of source routes and their  *)
(* maintenance by acknowledgements of the network layer.                   *)
(*                                                                         *)
(* The handlers run one at a time; what interleaves is the delivery of     *)
(* messages, the NETWORK_OUT events a handler adds, and the timers.  A     *)
(* message stands for all its copies in flight.  A packet is routed at     *)
(* every hop by the cache of that hop: the source route in it only says it *)
(* has one.  As nSegsLeft is never decremented the route error of          *)
(* GenerateRERR has no segment to travel (RouteError.c:60), so that it is  *)
(* processed where it is made and freed; it is part of the timeout here.   *)
(* Left out: the acknowledgements of the link layer, lengths and metrics.  *)
(***************************************************************************)
EXTENDS Naturals, Sequences, FiniteSets, SequencesExt

CONSTANTS
    Node,
    Link,          \* the pairs {n, m} of nodes in range of each other
    Fragile,       \* bound: the links that may break
    Ageing,        \* bound: the nodes whose cached routes may expire
    Packet,
    Src, Dst,      \* [Packet -> Node]
    RequestLimit,  \* DSR_MAX_REQUEST_REXMT, 16 in the code
    HopLimit,      \* DSR_DISCOVERY_HOP_LIMIT, 255 in the code
    Hasty,         \* bound: the nodes with timers as short as messages take
    MaxId          \* bound: nRREQIdentification

VARIABLES
    id,      \* nRREQIdentification
    buffer,  \* pstruSendBuffer: [target, packets]
    table,   \* pstruRREQTable: [target, id, count, flag, event]
    cache,   \* pstruRouteCache: [path, expired]
    maint,   \* pstruMaintBuffer: [nextHop, source, dest, count, packets]
    timers,  \* pending RREQ timeouts, named by the id of the request: [target, id]
    unsent,  \* packets of the applications that are still to come
    out,     \* packets at a node for NETWORK_OUT, in this instant
    net,     \* messages in flight
    down,    \* the links that are broken
    \* History, for the properties:
    astray,  \* a request or an answer has come by its own initiator
    again    \* <<n, target>>: n has asked for it anew before the last timeout was over

vars == <<id, buffer, table, cache, maint, timers, unsent, out, net, down, astray, again>>

MaxMaintRexmt == 2

Neighbours(n) == {m \in Node \ {n} : {n, m} \in Link}

Init ==
    /\ id = [n \in Node |-> 0]
    /\ buffer = [n \in Node |-> <<>>]
    /\ table = [n \in Node |-> <<>>]
    /\ cache = [n \in Node |-> <<>>]
    /\ maint = [n \in Node |-> <<>>]
    /\ timers = [n \in Node |-> {}]
    /\ unsent = Packet
    /\ out = {}
    /\ net = {}
    /\ down = {}
    /\ astray = FALSE
    /\ again = {}

\* The elements of a list that stay when those not in I are taken out.
Kept(list, I) ==
    LET Nth(i) == CHOOSE k \in I : Cardinality({j \in I : j <= k}) = i
    IN  [i \in 1 .. Cardinality(I) |-> list[Nth(i)]]

Position(path, a) == SelectInSeq(path, LAMBDA b : b = a)
-----------------------------------------------------------------------------
(* The route cache *)

Visits(c, target) == target \in ToSet(c.path)

\* FindCache: the first route that passes the target and has not expired.
FindCache(n, target) ==
    SelectInSeq(cache[n], LAMBDA c : ~c.expired /\ Visits(c, target))

\* ... and the expired routes before it are gone.
AfterFind(n, target) ==
    LET hit == FindCache(n, target)
    IN  Kept(cache[n], {i \in DOMAIN cache[n] : cache[n][i].expired => hit # 0 /\ i > hit})

\* UpdateRouteCache: the part of the route from this node on.
Suffix(addresses, n) ==
    SubSeq(addresses, Position(addresses, n), Len(addresses))

\* Mutant of ValidateRouteCache: no address is compared.
NeverValidates(path, list) == TRUE

\* No node of the request's list is on the cached route.
ValidateRouteCache(path, list) == ToSet(path) \cap ToSet(list) = {}

\* A route of a cache with the link from n to m, which a route error deletes.
Uses(path, n, m) == \E i \in 1..(Len(path) - 1) : path[i] = n /\ path[i + 1] = m

\* ROUTE_CACHE_TIMEOUT passes since a route of n was cached or found.
Expire(n) ==
    /\ n \in Ageing
    /\ \E i \in DOMAIN cache[n] :
          ~cache[n][i].expired /\ cache' = [cache EXCEPT ![n][i].expired = TRUE]
    /\ UNCHANGED <<id, buffer, table, maint, timers, unsent, out, net, down, astray, again>>
-----------------------------------------------------------------------------
(* NETWORK_OUT *)

Request(n, target, rid, ttl) ==
    {[kind |-> "RREQ", from |-> n, to |-> m, origin |-> n, target |-> target,
      id |-> rid, list |-> <<>>, ttl |-> ttl] : m \in Neighbours(n)}

\* AddToMaintBuffer: a copy waits for the acknowledgement.
AddToMaintBuffer(n, p, nextHop) ==
    LET Same(e) == e.nextHop = nextHop /\ e.source = Src[p] /\ e.dest = Dst[p]
        i == SelectInSeq(maint[n], Same)
    IN  IF i = 0
        THEN Append(maint[n], [nextHop |-> nextHop, source |-> Src[p], dest |-> Dst[p],
                               count |-> 0, packets |-> <<p>>])
        ELSE [maint[n] EXCEPT ![i].packets = Append(@, p)]

\* GeneralPacketProcessing: there is a route, and the packet takes it.
RouteOut(n, p) ==
    LET hit == FindCache(n, Dst[p])
        nextHop == cache[n][hit].path[2]
    IN  /\ hit # 0
        /\ cache' = [cache EXCEPT ![n] = AfterFind(n, Dst[p])]
        /\ maint' = [maint EXCEPT ![n] = AddToMaintBuffer(n, p, nextHop)]
        /\ net' = net \cup {[kind |-> "DATA", from |-> n, to |-> nextHop, packet |-> p]}
        /\ UNCHANGED <<id, buffer, table, timers, again>>

\* ... a discovery of the target is under way: the packet waits with the others.
QueueOut(n, p) ==
    LET i == SelectInSeq(buffer[n], LAMBDA b : b.target = Dst[p])
    IN  /\ FindCache(n, Dst[p]) = 0
        /\ i # 0
        /\ buffer' = [buffer EXCEPT ![n][i].packets = Append(@, p)]
        /\ cache' = [cache EXCEPT ![n] = AfterFind(n, Dst[p])]
        /\ UNCHANGED <<id, table, maint, timers, net, again>>

\* ... InitRouteRequest: the packet waits and its neighbours are asked.
DiscoverOut(n, p) ==
    /\ FindCache(n, Dst[p]) = 0
    /\ \A b \in ToSet(buffer[n]) : b.target # Dst[p]
    /\ id[n] < MaxId
    /\ id' = [id EXCEPT ![n] = @ + 1]
    /\ buffer' = [buffer EXCEPT ![n] = Append(@, [target |-> Dst[p], packets |-> <<p>>])]
    /\ cache' = [cache EXCEPT ![n] = AfterFind(n, Dst[p])]
    /\ table' = [table EXCEPT ![n] = Append(@, [target |-> Dst[p], id |-> id'[n], count |-> 1,
                                                flag |-> FALSE, event |-> id'[n]])]
    /\ timers' = [timers EXCEPT ![n] = @ \cup {[target |-> Dst[p], id |-> id'[n]]}]
    /\ net' = net \cup Request(n, Dst[p], id'[n], 1)
    /\ again' = IF \E t \in timers[n] : t.target = Dst[p] THEN again \cup {<<n, Dst[p]>>} ELSE again
    /\ UNCHANGED maint

NetworkOut(o) ==
    /\ out' = out \ {o}
    /\ RouteOut(o.at, o.packet) \/ QueueOut(o.at, o.packet) \/ DiscoverOut(o.at, o.packet)
    /\ UNCHANGED <<unsent, down, astray>>
-----------------------------------------------------------------------------
(* The RREQ timeout *)

\* getRREQTable: the first entry of the target without a reply, 0 when none is left.
RREQTable(n, target) == SelectInSeq(table[n], LAMBDA e : e.target = target /\ ~e.flag)

\* DeleteRREQTable: the first entry of the target, answered or not.
DeleteRREQTable(n, target) ==
    LET i == SelectInSeq(table[n], LAMBDA e : e.target = target)
    IN  IF i = 0 THEN table[n] ELSE RemoveAt(table[n], i)

\* RetryRREQ: to the whole network now.
Retry(n, target) ==
    LET i == RREQTable(n, target)
    IN  /\ FindCache(n, target) = 0
        /\ i # 0 /\ table[n][i].count < RequestLimit
        /\ id[n] < MaxId
        /\ id' = [id EXCEPT ![n] = @ + 1]
        /\ table' = [table EXCEPT ![n][i].count = @ + 1, ![n][i].id = id'[n], ![n][i].event = id'[n]]
        /\ net' = net \cup Request(n, target, id'[n], HopLimit)
        /\ UNCHANGED buffer

\* EmptySendBuffer: the packets for the target are dropped.
GiveUp(n, target) ==
    LET i == RREQTable(n, target)
    IN  /\ FindCache(n, target) = 0
        /\ i # 0 /\ table[n][i].count >= RequestLimit
        /\ buffer' = [buffer EXCEPT ![n] = Kept(@, {b \in DOMAIN @ : @[b].target # target})]
        /\ table' = [table EXCEPT ![n] = DeleteRREQTable(n, target)]
        /\ UNCHANGED <<id, net>>

\* "Route reply already received. Ignore the event"
IgnoreTimeout(n, target) == FindCache(n, target) # 0 /\ UNCHANGED <<id, buffer, table, net>>

RREQTimeout(n, t) ==
    /\ Retry(n, t.target) \/ GiveUp(n, t.target) \/ IgnoreTimeout(n, t.target)
    /\ timers' = [timers EXCEPT ![n] =
           (@ \ {t}) \cup IF id'[n] # id[n] THEN {[target |-> t.target, id |-> id'[n]]} ELSE {}]
    /\ cache' = [cache EXCEPT ![n] = AfterFind(n, t.target)]
    /\ UNCHANGED <<maint, unsent, out, down, astray, again>>
-----------------------------------------------------------------------------
(* Route requests and replies *)

\* CheckEntryInRREQTable: by id and target; the ids of different origins collide.
Seen(n, m) == \E e \in ToSet(table[n]) : e.id = m.id /\ e.target = m.target

Entry(m, count) ==
    [target |-> m.target, id |-> m.id, count |-> count, flag |-> FALSE, event |-> 0]

Reply(n, addresses, nextHop) ==
    [kind |-> "RREP", from |-> n, to |-> nextHop, addresses |-> addresses]

\* determine_position: where the origin last is on a cached route as far as the
\* target, or 0.
OriginOn(path, m) ==
    SelectLastInSubSeq(path, 1, Position(path, m.target), LAMBDA b : b = m.origin)

Way(m) == <<m.origin>> \o m.list

\* GenerateRREPUsingRouteCache: the list, then the cached route as far as the
\* target, without what comes before the origin in it.
CachedAddresses(m, path) ==
    Way(m) \o SubSeq(path, OriginOn(path, m) + 1, Position(path, m.target))

\* ProcessRREQ of a request that is new to n: n is the target, ...
AnswerAsTarget(n, m) ==
    /\ n = m.target
    /\ table' = [table EXCEPT ![n] = Append(@, Entry(m, 1))]
    /\ net' = (net \ {m}) \cup {Reply(n, Append(Way(m), n), Last(Way(m)))}
    /\ UNCHANGED <<cache, astray>>

\* ... has been on the way of the request, ...
DropOwn(n, m) ==
    /\ n # m.target /\ n \in ToSet(m.list)
    /\ table' = [table EXCEPT ![n] = Append(@, Entry(m, 1))]
    /\ net' = net \ {m}
    /\ UNCHANGED <<cache, astray>>

\* (a second entry is made for a node that is neither)
PassesOn(n, m) ==
    /\ n # m.target /\ n \notin ToSet(m.list)
    /\ table' = [table EXCEPT ![n] = @ \o <<Entry(m, 1), Entry(m, 0)>>]
    /\ cache' = [cache EXCEPT ![n] = AfterFind(n, m.target)]

\* ... knows a route to the target, or ...
AnswerFromCache(n, m) ==
    LET path == cache[n][FindCache(n, m.target)].path
    IN  /\ PassesOn(n, m)
        /\ FindCache(n, m.target) # 0
        /\ IF ValidateRouteCache(path, m.list)
             THEN /\ net' = (net \ {m}) \cup {Reply(n, CachedAddresses(m, path), Last(Way(m)))}
                  /\ astray' = (astray \/ (m.list # <<>> /\ OriginOn(path, m) # 0))
             ELSE net' = net \ {m} /\ UNCHANGED astray

\* ... rebroadcasts it, which IP does for a time to live that is left.
Rebroadcast(n, m) ==
    /\ PassesOn(n, m)
    /\ FindCache(n, m.target) = 0
    /\ IF m.ttl > 1
         THEN /\ net' = (net \ {m}) \cup
                     {[m EXCEPT !.from = n, !.to = k, !.list = Append(@, n), !.ttl = @ - 1] :
                         k \in Neighbours(n)}
              /\ astray' = (astray \/ n = m.origin)
         ELSE net' = net \ {m} /\ UNCHANGED astray

DropSeen(n, m) == Seen(n, m) /\ net' = net \ {m} /\ UNCHANGED <<table, cache, astray>>

ProcessRREQ(m) ==
    /\ m.kind = "RREQ"
    /\ \/ DropSeen(m.to, m)
       \/ /\ ~Seen(m.to, m)
          /\ \/ AnswerAsTarget(m.to, m) \/ DropOwn(m.to, m)
             \/ AnswerFromCache(m.to, m) \/ Rebroadcast(m.to, m)
    /\ UNCHANGED <<id, buffer, maint, timers, out>>

\* CheckSendBuffer does not go back to the first route for the second buffer:
\* only the packets of the first target are compared with the routes.
Compared(n) == DOMAIN buffer[n] \cap {1}

ReachedBuffers(n, routes) ==
    {i \in Compared(n) : \E c \in ToSet(routes) : Visits(c, buffer[n][i].target)}

\* Mutant of AnswersRequest: the timer of the answered request runs on.
AnswerKeepsTimer(n, addresses) ==
    LET i == RREQTable(n, Last(addresses))
    IN  /\ UNCHANGED timers
        /\ table' = IF i = 0 THEN table ELSE [table EXCEPT ![n][i].flag = TRUE]

\* ForwardRREP at the origin: the request is answered and its timer deleted.
AnswersRequest(n, addresses) ==
    LET i == RREQTable(n, Last(addresses))
    IN  IF i = 0 THEN UNCHANGED <<table, timers>>
        ELSE /\ table' = [table EXCEPT ![n][i].flag = TRUE]
             /\ timers' = [timers EXCEPT ![n] = {t \in @ : t.id # table[n][i].event}]

ProcessRREP(m) ==
    LET n == m.to
        routes == Append(cache[n], [path |-> Suffix(m.addresses, n), expired |-> FALSE])
        reached == ReachedBuffers(n, routes)
        Forwarded == Reply(n, m.addresses, m.addresses[Position(m.addresses, n) - 1])
    IN  /\ m.kind = "RREP"
        /\ cache' = [cache EXCEPT ![n] = routes]
        /\ out' = out \cup
              UNION {{[at |-> n, packet |-> p] : p \in ToSet(buffer[n][i].packets)} : i \in reached}
        /\ buffer' = [buffer EXCEPT ![n] = IF reached = {} THEN @ ELSE Tail(@)]
        /\ IF n = Head(m.addresses)
           THEN AnswersRequest(n, m.addresses) /\ net' = net \ {m}
           ELSE net' = (net \ {m}) \cup {Forwarded} /\ UNCHANGED <<table, timers>>
        /\ UNCHANGED <<id, maint, astray>>
-----------------------------------------------------------------------------
(* Source routes and their maintenance *)

\* The receiver acknowledges the packet; NETWORK_OUT follows on the way.
ProcessSourceRoute(m) ==
    /\ m.kind = "DATA"
    /\ net' = (net \ {m}) \cup {[kind |-> "ACK", from |-> m.to, to |-> m.from]}
    /\ out' = IF m.to = Dst[m.packet] THEN out ELSE out \cup {[at |-> m.to, packet |-> m.packet]}
    /\ UNCHANGED <<id, buffer, table, cache, maint, timers, astray>>

\* EmptyMaintBuffer: an acknowledgement is for all that the next hop was sent.
EmptyMaintBuffer(entries, nextHop) ==
    [i \in DOMAIN entries |->
        IF entries[i].nextHop = nextHop THEN [entries[i] EXCEPT !.packets = <<>>] ELSE entries[i]]

ProcessAck(m) ==
    /\ m.kind = "ACK"
    /\ maint' = [maint EXCEPT ![m.to] = EmptyMaintBuffer(@, m.from)]
    /\ net' = net \ {m}
    /\ UNCHANGED <<id, buffer, table, cache, timers, out, astray>>

\* RetransmitBuffer: the packets go through NETWORK_OUT again.
Retransmit(n, i) ==
    /\ maint[n][i].count < MaxMaintRexmt
    /\ out' = out \cup {[at |-> n, packet |-> p] : p \in ToSet(maint[n][i].packets)}
    /\ maint' = [maint EXCEPT ![n][i].count = @ + 1, ![n][i].packets = <<>>]
    /\ UNCHANGED cache

\* GenerateRERR, which goes no further than PROCESS_RERR here.
BreakRoute(n, i) ==
    LET nextHop == maint[n][i].nextHop
    IN  /\ maint[n][i].count >= MaxMaintRexmt
        /\ cache' = [cache EXCEPT ![n] = Kept(@, {c \in DOMAIN @ : ~Uses(@[c].path, n, nextHop)})]
        /\ maint' = [maint EXCEPT ![n] = EmptyMaintBuffer([@ EXCEPT ![i].count = 0], nextHop)]
        /\ UNCHANGED out

\* The timer of an entry is pending while packets are in it.
MaintTimeout(n, i) ==
    /\ maint[n][i].packets # <<>>
    /\ Retransmit(n, i) \/ BreakRoute(n, i)
    /\ UNCHANGED <<id, buffer, table, timers, unsent, net, down, astray, again>>
-----------------------------------------------------------------------------
Receive(m) ==
    /\ {m.from, m.to} \notin down
    /\ ProcessRREQ(m) \/ ProcessRREP(m) \/ ProcessSourceRoute(m) \/ ProcessAck(m)
    /\ UNCHANGED <<unsent, down, again>>

\* What is sent over a link that is down is lost.
Lose(m) ==
    /\ {m.from, m.to} \in down
    /\ net' = net \ {m}
    /\ UNCHANGED <<id, buffer, table, cache, maint, timers, unsent, out, down, astray, again>>

\* The nodes move apart.
Break(l) ==
    /\ l \in Fragile \ down
    /\ down' = down \cup {l}
    /\ UNCHANGED <<id, buffer, table, cache, maint, timers, unsent, out, net, astray, again>>

\* The application hands a packet down.
Originate(p) ==
    /\ p \in unsent
    /\ unsent' = unsent \ {p}
    /\ out' = {[at |-> Src[p], packet |-> p]}
    /\ UNCHANGED <<id, buffer, table, cache, maint, timers, net, down, astray, again>>

\* The NETWORK_OUT events that a handler adds are at its own time: they come
\* before what arrives or expires later.  Timers, those of routes too, go off when
\* no message is in flight, except in nodes that are hasty.
Next ==
    \/ \E o \in out : NetworkOut(o)
    \/ /\ out = {}
       /\ \/ \E p \in unsent : Originate(p)
          \/ \E m \in net : Receive(m) \/ Lose(m)
          \/ \E l \in Fragile : Break(l)
    \/ \E n \in Node :
          /\ out = {} /\ (n \in Hasty \/ net = {})
          /\ \/ \E t \in timers[n] : RREQTimeout(n, t)
             \/ \E i \in DOMAIN maint[n] : MaintTimeout(n, i)
             \/ Expire(n)

Spec == Init /\ [][Next]_vars
-----------------------------------------------------------------------------
Message ==
    [kind : {"RREQ"}, from : Node, to : Node, origin : Node, target : Node,
     id : 1..MaxId, list : Seq(Node), ttl : Nat]
    \cup [kind : {"RREP"}, from : Node, to : Node, addresses : Seq(Node)]
    \cup [kind : {"DATA"}, from : Node, to : Node, packet : Packet]
    \cup [kind : {"ACK"}, from : Node, to : Node]

SendBuffer == [target : Node, packets : Seq(Packet) \ {<<>>}]
RREQEntry == [target : Node, id : 1..MaxId, count : 0..RequestLimit, flag : BOOLEAN, event : 0..MaxId]
Route == [path : Seq(Node), expired : BOOLEAN]
MaintBuffer ==
    [nextHop : Node, source : Node, dest : Node, count : 0..MaxMaintRexmt, packets : Seq(Packet)]
Timer == [target : Node, id : 1..MaxId]

\* The types of the state.
TypeOK ==
    /\ id \in [Node -> 0..MaxId]
    /\ buffer \in [Node -> Seq(SendBuffer)]
    /\ table \in [Node -> Seq(RREQEntry)]
    /\ cache \in [Node -> Seq(Route)]
    /\ maint \in [Node -> Seq(MaintBuffer)]
    /\ timers \in [Node -> SUBSET Timer]
    /\ unsent \subseteq Packet
    /\ out \subseteq [at : Node, packet : Packet]
    /\ net \subseteq Message
    /\ down \subseteq Fragile
    /\ astray \in BOOLEAN
    /\ again \subseteq Node \X Node

\* A route of a cache begins at its node and goes on.  It follows links and visits
\* no node twice, though it may be spliced from the list of a request and a route
\* cached earlier (ValidateRouteCache), unless an initiator has been on the way
\* of its own request: determine_position cuts the cached route behind it.
RoutesFollowLinks ==
    \A n \in Node : \A c \in ToSet(cache[n]) :
        /\ Len(c.path) > 1 /\ c.path[1] = n
        /\ ~astray => /\ IsInjective(c.path)
                      /\ \A i \in 1..(Len(c.path) - 1) : {c.path[i], c.path[i + 1]} \in Link

\* A pending RREQ timeout finds an entry to count its retries in, whatever
\* replies, other nodes' requests and failed discoveries did to the table:
\* RREQTimeout reads what getRREQTable returns without looking (RouteRequest.c:97).
\* Two timeouts for one target may take each other's entry.
TimeoutFindsEntry ==
    \A n \in Node : \A t \in timers[n] :
        <<n, t.target>> \in again \/ RREQTable(n, t.target) # 0

\* CheckSendBuffer "checks if the route cache has the route to the target and
\* transmits the packet if it has" (SendBuffer.c:80): no packet is left in the
\* send buffer when there is a route to its target.
NoRouteIsIgnored ==
    \A n \in Node : \A b \in ToSet(buffer[n]) :
        \A c \in ToSet(cache[n]) : ~c.expired => ~Visits(c, b.target)
==============================================================================
