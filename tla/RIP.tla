-------------------------------- MODULE RIP --------------------------------
(***************************************************************************)
(* RIP: the periodic update, the triggered update and the distance vector  *)
(* algorithm of the routers.                                               *)
(*                                                                         *)
(* A message is the list of the sender's routes when it was sent.  It may  *)
(* be lost or overtaken, UDP carries it; a second copy of a message        *)
(* changes nothing, so the messages in flight are a set.  The timers of    *)
(* a route are not here: RIP_TIMEOUT acts only while nStatus, the number   *)
(* of messages received, is zero, and it is scheduled by a message: until  *)
(* that 16-bit counter wraps no route ever expires, and none is collected. *)
(***************************************************************************)
EXTENDS Integers, FiniteSets

CONSTANTS
    Router,
    Network,
    Link,          \* the pairs {n, m} of routers joined by a WAN link
    Attached,      \* [Router -> SUBSET Network]: the initial tables
    MaxMetric,     \* the largest metric
    MaxInFlight    \* bound: the updates of a router in flight when its timer expires

VARIABLES
    lossy,     \* whether messages may be lost; it does not change
    database,  \* [Router -> routes], a route has a metric and a next router
    net        \* the updates in flight

vars == <<lossy, database, net>>

Neighbours(n) == {m \in Router : {n, m} \in Link}

Route == [metric : 1 .. MaxMetric, next : Router]

\* The entries of the databases: the networks a router has a route to.
Known(n) == DOMAIN database[n]

RoutesOf(n) == [d \in Known(n) |-> database[n][d].metric]

TypeOK ==
    /\ lossy \in BOOLEAN
    /\ \A n \in Router : Known(n) \subseteq Network /\ database[n] \in [Known(n) -> Route]
    /\ \A m \in net : /\ m.from \in Router /\ m.to \in Neighbours(m.from)
                      /\ DOMAIN m.routes \subseteq Known(m.from)

Init ==
    /\ lossy \in BOOLEAN
    /\ database = [n \in Router |-> [d \in Attached[n] |-> [metric |-> 1, next |-> n]]]
    /\ net = {}

Update(n, routes) == {[from |-> n, to |-> m, routes |-> routes] : m \in Neighbours(n)}

UpdateTimer(n) ==
    /\ Cardinality({m \in net : m.from = n}) <= MaxInFlight
    /\ net' = net \cup Update(n, RoutesOf(n))
    /\ UNCHANGED <<lossy, database>>

\* Mutants of Learnt: the last update wins, or a known network keeps its entry.
LastWins(m, done) ==
    LET db == database[m.to]
    IN  [d \in DOMAIN db \cup done |->
           IF d \in done /\ (d \in DOMAIN db => db[d].next # m.to)
             THEN [metric |-> m.routes[d] + 1, next |-> m.from]
             ELSE db[d]]
FirstWins(m, done) ==
    LET db == database[m.to]
    IN  [d \in DOMAIN db \cup done |->
           IF d \in DOMAIN db THEN db[d] ELSE [metric |-> m.routes[d] + 1, next |-> m.from]]

\* The database of m.to when the networks of done have been read from m.
Learnt(m, done) ==
    LET db == database[m.to]
    IN  [d \in DOMAIN db \cup done |->
           IF d \in done /\ (d \in DOMAIN db => db[d].metric > m.routes[d] + 1)
             THEN [metric |-> m.routes[d] + 1, next |-> m.from]
             ELSE db[d]]

Orders(S) == {f \in [S -> 1 .. Cardinality(S)] : \A d, e \in S : f[d] = f[e] => d = e}

\* Mutant of ReadUpTo: the update is sent before the entry is in the table.
ReadBefore(m, order, d) == {e \in DOMAIN m.routes : order[e] < order[d]}

\* The networks read when d has been added.
ReadUpTo(m, order, d) == {e \in DOMAIN m.routes : order[e] <= order[d]}

(* Reading a message.  A network that was not known, and only that,        *)
(* triggers an update at the moment it is added: the update carries what   *)
(* has been read so far, in the order of the list, which is left open.     *)
Receive(m) ==
    \E order \in Orders(DOMAIN m.routes) :
       LET added == DOMAIN m.routes \ Known(m.to)
           At(d) == Learnt(m, ReadUpTo(m, order, d))
           Triggered(d) == Update(m.to, [e \in DOMAIN At(d) |-> At(d)[e].metric])
       IN  /\ database' = [database EXCEPT ![m.to] = Learnt(m, DOMAIN m.routes)]
           /\ net' = (net \ {m}) \cup UNION {Triggered(d) : d \in added}
           /\ UNCHANGED lossy

Lose(m) ==
    /\ lossy
    /\ net' = net \ {m}
    /\ UNCHANGED <<lossy, database>>

Next ==
    \/ \E n \in Router : UpdateTimer(n)
    \/ \E m \in net : Receive(m) \/ Lose(m)

Spec == Init /\ [][Next]_vars
-----------------------------------------------------------------------------
\* The timer runs, and a message sent again and again comes through.
ReceiveFrom(n, m) ==
    \E msg \in net : msg.from = n /\ msg.to = m /\ msg.routes = RoutesOf(n) /\ Receive(msg)

Fairness ==
    \A n \in Router : /\ WF_vars(UpdateTimer(n))
                      /\ WF_vars(\E m \in net : m.from = n /\ (Receive(m) \/ Lose(m)))
                      /\ \A m \in Neighbours(n) : SF_vars(ReceiveFrom(n, m))

\* The next routers of the routes to a network never form a loop, however
\* old the updates are that routers act on: each is closer than the one
\* before it, by its own database as it is now (DistanceVectorAlgorithm.c).
RoutesDescend ==
    \A n \in Router : \A d \in Known(n) :
      LET next == database[n][d].next
      IN  IF next = n THEN d \in Attached[n]
          ELSE /\ next \in Neighbours(n) /\ d \in Known(next)
               /\ database[next][d].metric < database[n][d].metric

\* On links that lose nothing, a network that a router has learnt of is known
\* to each neighbour or on its way there: the triggered update carries the
\* entry that triggered it, though it is sent while its message is read.
LearntIsPassedOn ==
    ~lossy => \A n \in Router : \A d \in Known(n) \ Attached[n] : \A m \in Neighbours(n) :
                \/ d \in Known(m)
                \/ \E msg \in net : msg.from = n /\ msg.to = m /\ d \in DOMAIN msg.routes

\* The databases settle on the shortest paths, though updates are lost and
\* an improved metric, unlike a new entry, triggers no update.
Shortest ==
    LET \* The networks within k routers of each router.
        Within[k \in Nat] ==
          IF k = 0 THEN [n \in Router |-> {}]
          ELSE IF k = 1 THEN Attached
          ELSE [n \in Router |-> Within[k - 1][n] \cup UNION {Within[k - 1][m] : m \in Neighbours(n)}]
    IN  \A n \in Router : \A d \in Network :
          \A k \in 1 .. MaxMetric :
            (d \in Known(n) /\ database[n][d].metric = k) <=> d \in Within[k][n] \ Within[k - 1][n]

SettlesOnShortest == <>[]Shortest
=============================================================================
