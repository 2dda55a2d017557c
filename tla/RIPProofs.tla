----------------------------- MODULE RIPProofs ------------------------------
(***************************************************************************)
(* For every set of routers, networks and links: the routes to a network   *)
(* descend, so that they form no loop, and what a router has learnt is     *)
(* passed on to each of its neighbours.                                    *)
(***************************************************************************)
EXTENDS RIP, TLAPS

\* A routing table: networks with a metric, which no maximum bounds here, and
\* the next router.
Good(db) ==
    \A d \in DOMAIN db : db[d].metric \in Nat /\ db[d].next \in Router

\* An entry of n has next as its next router and what that one has now is closer.
Descends(n, d) ==
    LET next == database[n][d].next
    IN  IF next = n THEN d \in Attached[n]
        ELSE next \in Neighbours(n) /\ d \in Known(next) /\ database[next][d].metric < database[n][d].metric

\* An update in flight is no better than the table of its sender is by now.
Honest(m) ==
    /\ m.from \in Router /\ m.to \in Neighbours(m.from)
    /\ \A d \in DOMAIN m.routes :
         /\ d \in Known(m.from) /\ m.routes[d] \in Nat
         /\ database[m.from][d].metric <= m.routes[d]

DatabaseInv == DOMAIN database = Router /\ \A n \in Router : Good(database[n])
DescendInv == \A n \in Router : \A d \in Known(n) : Descends(n, d)
NetInv == \A m \in net : Honest(m)

IInv == DatabaseInv /\ DescendInv /\ NetInv

\* The network d, known to n, is known to m too or on its way there.
PassedOn(n, d, m) ==
    \/ d \in Known(m)
    \/ \E msg \in net : msg.from = n /\ msg.to = m /\ d \in DOMAIN msg.routes

-----------------------------------------------------------------------------
(* The table after an update has been read.                                *)

\* Reading some networks of an update adds these and no others.
LEMMA LearntDomain ==
    ASSUME NEW m, NEW done
    PROVE  DOMAIN Learnt(m, done) = Known(m.to) \cup done
  BY DEF Learnt, Known

\* No metric grows, and an entry that changes is one more than the update says.
LEMMA LearntEntry ==
    ASSUME DatabaseInv, NEW m, Honest(m), m.to \in Router,
           NEW done \in SUBSET DOMAIN m.routes, NEW d \in DOMAIN Learnt(m, done)
    PROVE  /\ Learnt(m, done)[d].metric \in Nat /\ Learnt(m, done)[d].next \in Router
           /\ d \in Known(m.to) => Learnt(m, done)[d].metric <= database[m.to][d].metric
           /\ \/ d \in Known(m.to) /\ Learnt(m, done)[d] = database[m.to][d]
              \/ /\ d \in DOMAIN m.routes
                 /\ Learnt(m, done)[d] = [metric |-> m.routes[d] + 1, next |-> m.from]
                 /\ d \in Known(m.to) => m.routes[d] + 1 < database[m.to][d].metric
<1> DEFINE db == database[m.to]
<1>1. d \in DOMAIN db \cup done
  BY LearntDomain DEF Known
<1>2. d \in DOMAIN db => db[d].metric \in Nat /\ db[d].next \in Router
  BY DEF DatabaseInv, Good
<1>3. d \in done => m.routes[d] \in Nat /\ m.from \in Router
  BY DEF Honest
<1>4. CASE d \in done /\ (d \in DOMAIN db => db[d].metric > m.routes[d] + 1)
  <2>1. Learnt(m, done)[d] = [metric |-> m.routes[d] + 1, next |-> m.from]
    BY <1>1, <1>4 DEF Learnt
  <2>2. Learnt(m, done)[d].metric = m.routes[d] + 1 /\ Learnt(m, done)[d].next = m.from
    BY <2>1
  <2> QED BY <1>2, <1>3, <1>4, <2>1, <2>2 DEF Known
<1>5. CASE ~(d \in done /\ (d \in DOMAIN db => db[d].metric > m.routes[d] + 1))
  <2>1. d \in DOMAIN db
    BY <1>1, <1>5
  <2>2. Learnt(m, done)[d] = db[d]
    BY <1>1, <1>5 DEF Learnt
  <2> QED BY <1>2, <2>1, <2>2 DEF Known
<1> QED BY <1>4, <1>5

\* Reading more networks makes no entry worse.
LEMMA LearntMore ==
    ASSUME DatabaseInv, NEW m, Honest(m), m.to \in Router,
           NEW done \in SUBSET DOMAIN m.routes, NEW d \in DOMAIN Learnt(m, done)
    PROVE  /\ d \in DOMAIN Learnt(m, DOMAIN m.routes)
           /\ Learnt(m, DOMAIN m.routes)[d].metric <= Learnt(m, done)[d].metric
<1> DEFINE all == DOMAIN m.routes
<1>1. d \in DOMAIN Learnt(m, all) /\ d \in Known(m.to) \cup done
  <2>1. DOMAIN Learnt(m, done) = Known(m.to) \cup done /\ DOMAIN Learnt(m, all) = Known(m.to) \cup all
    BY LearntDomain
  <2> QED BY <2>1
<1>2. CASE d \in done
  <2>1. Learnt(m, all)[d] = Learnt(m, done)[d]
    BY <1>1, <1>2 DEF Learnt, Known
  <2> QED BY <1>1, <2>1, LearntEntry
<1>3. CASE d \notin done
  <2>1. Learnt(m, done)[d] = database[m.to][d] /\ d \in Known(m.to)
    BY <1>1, <1>3 DEF Learnt, Known
  <2>2. Learnt(m, all)[d].metric <= database[m.to][d].metric
    BY <1>1, <2>1, LearntEntry
  <2> QED BY <1>1, <2>1, <2>2
<1> QED BY <1>2, <1>3

\* Two routers on a link are neighbours of each other.
LEMMA NeighboursMutual ==
    ASSUME NEW n \in Router, NEW m \in Neighbours(n)
    PROVE  m \in Router /\ n \in Neighbours(m)
<1>1. {n, m} = {m, n}
  OBVIOUS
<1> QED BY <1>1 DEF Neighbours

-----------------------------------------------------------------------------
(* The steps. *)

\* What a step may do to the tables: no entry goes and no metric grows.
Improves ==
    \A n \in Router : \A d \in Known(n) :
        d \in Known(n)' /\ database'[n][d].metric <= database[n][d].metric

\* An update in flight stays as honest as it was.
LEMMA HonestStays ==
    ASSUME DatabaseInv, DatabaseInv', Improves, NEW m, Honest(m)
    PROVE  Honest(m)'
<1> SUFFICES ASSUME NEW d \in DOMAIN m.routes
             PROVE  d \in Known(m.from)' /\ database'[m.from][d].metric <= m.routes[d]
  BY DEF Honest, Neighbours
<1>1. /\ m.from \in Router /\ d \in Known(m.from) /\ m.routes[d] \in Nat
      /\ database[m.from][d].metric <= m.routes[d]
  BY DEF Honest
<1>2. d \in Known(m.from)' /\ database'[m.from][d].metric <= database[m.from][d].metric
  BY <1>1 DEF Improves
<1>3. database[m.from][d].metric \in Nat /\ database'[m.from][d].metric \in Nat
  BY <1>1, <1>2 DEF DatabaseInv, Good, Known
<1> QED BY <1>1, <1>2, <1>3

\* An entry that a step leaves alone goes on descending.
LEMMA DescendsStays ==
    ASSUME DatabaseInv, DatabaseInv', Improves, NEW n \in Router, NEW d \in Known(n),
           Descends(n, d), d \in Known(n)', database'[n][d] = database[n][d]
    PROVE  Descends(n, d)'
<1> DEFINE next == database[n][d].next
<1>1. CASE next = n
  BY <1>1 DEF Descends
<1>2. CASE next # n
  <2>1. next \in Neighbours(n) /\ d \in Known(next) /\ database[next][d].metric < database[n][d].metric
    BY <1>2 DEF Descends
  <2>2. next \in Router
    BY <2>1 DEF Neighbours
  <2>3. d \in Known(next)' /\ database'[next][d].metric <= database[next][d].metric
    BY <2>1, <2>2 DEF Improves
  <2>4. /\ database[next][d].metric \in Nat /\ database'[next][d].metric \in Nat
        /\ database[n][d].metric \in Nat
    BY <2>1, <2>2, <2>3 DEF DatabaseInv, Good, Known
  <2>5. database'[next][d].metric < database'[n][d].metric
    BY <2>1, <2>3, <2>4
  <2>6. database'[n][d].next = next /\ next \in Neighbours(n)'
    BY <2>1 DEF Neighbours
  <2> QED BY <1>2, <2>3, <2>5, <2>6 DEF Descends
<1> QED BY <1>1, <1>2

LEMMA UpdateTimerStep ==
    ASSUME IInv, NEW n \in Router, UpdateTimer(n)
    PROVE  IInv'
<1>1. UNCHANGED database
  BY DEF UpdateTimer
<1>2. DatabaseInv' /\ DescendInv'
  BY <1>1 DEF IInv, DatabaseInv, DescendInv, Descends, Known, Neighbours
<1>3. Improves
  BY <1>1 DEF Improves, Known, IInv, DatabaseInv, Good
<1>4. ASSUME NEW m \in net' PROVE Honest(m)'
  <2>1. CASE m \in net
    BY <1>2, <1>3, <2>1, HonestStays DEF IInv, NetInv
  <2>2. CASE m \in Update(n, RoutesOf(n))
    <3>1. PICK to \in Neighbours(n) : m = [from |-> n, to |-> to, routes |-> RoutesOf(n)]
      BY <2>2 DEF Update
    <3>2. \A d \in Known(n) : database[n][d].metric \in Nat
      BY DEF IInv, DatabaseInv, Good, Known
    <3>3. Honest(m)
      BY <3>1, <3>2 DEF Honest, RoutesOf
    <3> QED BY <1>2, <1>3, <3>3, HonestStays DEF IInv
  <2> QED BY <2>1, <2>2 DEF UpdateTimer
<1> QED BY <1>2, <1>4 DEF IInv, NetInv

\* The update that adding d to the table triggers, when done has been read.
AfterReading(m, done) == [e \in DOMAIN Learnt(m, done) |-> Learnt(m, done)[e].metric]

\* What Receive does, without the order in which the update is read: each added
\* network is in an update to every neighbour, with others read before it.
LEMMA ReceiveEffect ==
    ASSUME NEW m, Receive(m)
    PROVE  /\ database' = [database EXCEPT ![m.to] = Learnt(m, DOMAIN m.routes)]
           /\ \A msg \in net' : \/ msg \in net
                                 \/ \E done \in SUBSET DOMAIN m.routes :
                                      msg \in Update(m.to, AfterReading(m, done))
           /\ net \ {m} \subseteq net'
           /\ \A d \in DOMAIN m.routes \ Known(m.to) :
                \E done \in SUBSET DOMAIN m.routes :
                  d \in done /\ Update(m.to, AfterReading(m, done)) \subseteq net'
           /\ UNCHANGED lossy
<1> DEFINE R == DOMAIN m.routes
           At(order, d) == Learnt(m, ReadUpTo(m, order, d))
           Triggered(order, d) == Update(m.to, [e \in DOMAIN At(order, d) |-> At(order, d)[e].metric])
           added == R \ Known(m.to)
<1>1. PICK order \in Orders(R) :
        /\ database' = [database EXCEPT ![m.to] = Learnt(m, R)]
        /\ net' = (net \ {m}) \cup UNION {Triggered(order, d) : d \in added}
        /\ UNCHANGED lossy
  BY DEF Receive
<1>2. ASSUME NEW d
      PROVE  /\ ReadUpTo(m, order, d) \in SUBSET R
             /\ Triggered(order, d) = Update(m.to, AfterReading(m, ReadUpTo(m, order, d)))
  BY DEF ReadUpTo, AfterReading
<1>3. ASSUME NEW d \in R PROVE d \in ReadUpTo(m, order, d)
  <2>1. order[d] \in 1 .. Cardinality(R)
    BY <1>1 DEF Orders
  <2>2. order[d] <= order[d]
    BY <2>1
  <2> QED BY <2>2 DEF ReadUpTo
<1>4. ASSUME NEW msg \in net', msg \notin net
      PROVE  \E done \in SUBSET R : msg \in Update(m.to, AfterReading(m, done))
  <2>1. PICK d \in added : msg \in Triggered(order, d)
    BY <1>1, <1>4
  <2> QED BY <1>2, <2>1
<1>5. ASSUME NEW d \in added
      PROVE  \E done \in SUBSET R : d \in done /\ Update(m.to, AfterReading(m, done)) \subseteq net'
  <2>1. Triggered(order, d) \subseteq net'
    BY <1>1
  <2> QED BY <1>2, <1>3, <2>1
<1> QED BY <1>1, <1>4, <1>5

LEMMA ReceiveImproves ==
    ASSUME DatabaseInv, NEW m, Honest(m), Receive(m)
    PROVE  DatabaseInv' /\ Improves
<1> DEFINE all == DOMAIN m.routes
<1>1. m.to \in Router
  BY NeighboursMutual DEF Honest
<1>2. /\ DOMAIN database' = Router
      /\ database'[m.to] = Learnt(m, all)
      /\ \A n \in Router \ {m.to} : database'[n] = database[n]
  BY <1>1, ReceiveEffect DEF DatabaseInv
<1>3. Good(Learnt(m, all))
  BY <1>1, LearntEntry DEF Good
<1>4. DatabaseInv'
  BY <1>2, <1>3 DEF DatabaseInv, Good
<1>5. ASSUME NEW n \in Router, NEW d \in Known(n)
      PROVE  d \in Known(n)' /\ database'[n][d].metric <= database[n][d].metric
  <2>1. CASE n = m.to
    <3>1. DOMAIN Learnt(m, all) = Known(m.to) \cup all
      BY LearntDomain
    <3>2. d \in DOMAIN Learnt(m, all)
      BY <2>1, <3>1
    <3>3. Learnt(m, all)[d].metric <= database[m.to][d].metric
      BY <1>1, <2>1, <3>2, LearntEntry
    <3> QED BY <1>2, <2>1, <3>2, <3>3 DEF Known
  <2>2. CASE n # m.to
    <3>1. database'[n] = database[n] /\ database[n][d].metric \in Nat
      BY <1>2, <2>2 DEF DatabaseInv, Good, Known
    <3> QED BY <3>1 DEF Known
  <2> QED BY <2>1, <2>2
<1> QED BY <1>4, <1>5 DEF Improves

LEMMA ReceiveDescends ==
    ASSUME IInv, NEW m \in net, Receive(m)
    PROVE  DescendInv'
<1> DEFINE all == DOMAIN m.routes
           to == m.to
<1>1. DatabaseInv /\ DescendInv /\ Honest(m)
  BY DEF IInv, NetInv
<1>2. DatabaseInv' /\ Improves
  BY <1>1, ReceiveImproves
<1>3. to \in Router /\ m.from \in Router /\ m.from \in Neighbours(to)
  BY <1>1, NeighboursMutual DEF Honest
<1>4. /\ database'[to] = Learnt(m, all)
      /\ \A n \in Router \ {to} : database'[n] = database[n]
  BY <1>1, <1>3, ReceiveEffect DEF DatabaseInv
<1>5. ASSUME NEW n \in Router, NEW d \in Known(n)', d \in Known(n), database'[n][d] = database[n][d]
      PROVE  Descends(n, d)'
  BY <1>1, <1>2, <1>5, DescendsStays DEF DescendInv
<1>6. ASSUME NEW d \in all,
             database'[to][d] = [metric |-> m.routes[d] + 1, next |-> m.from],
             d \in Known(to) => m.routes[d] + 1 < database[to][d].metric
      PROVE  Descends(to, d)'
  <2>1. d \in Known(m.from) /\ database[m.from][d].metric <= m.routes[d] /\ m.routes[d] \in Nat
    BY <1>1 DEF Honest
  <2>2. d \in Known(m.from)' /\ database'[m.from][d].metric <= database[m.from][d].metric
    BY <1>2, <1>3, <2>1 DEF Improves
  <2>3. database[m.from][d].metric \in Nat /\ database'[m.from][d].metric \in Nat
    BY <1>1, <1>2, <1>3, <2>1, <2>2 DEF DatabaseInv, Good, Known
  <2>4. m.from # to
    BY <1>6, <2>1, <2>3
  <2>5. database'[to][d].next = m.from /\ database'[to][d].metric = m.routes[d] + 1
    BY <1>6
  <2>6. database'[m.from][d].metric < database'[to][d].metric
    BY <2>1, <2>2, <2>3, <2>5
  <2>7. m.from \in Neighbours(to)'
    BY <1>3 DEF Neighbours
  <2> QED BY <2>2, <2>4, <2>5, <2>6, <2>7 DEF Descends
<1>7. ASSUME NEW n \in Router, NEW d \in Known(n)'
      PROVE  Descends(n, d)'
  <2>1. CASE n = to
    <3>1. d \in DOMAIN Learnt(m, all)
      BY <1>4, <2>1 DEF Known
    <3>2. \/ d \in Known(to) /\ database'[to][d] = database[to][d]
          \/ /\ d \in all
             /\ database'[to][d] = [metric |-> m.routes[d] + 1, next |-> m.from]
             /\ d \in Known(to) => m.routes[d] + 1 < database[to][d].metric
      BY <1>1, <1>3, <1>4, <3>1, LearntEntry
    <3> QED BY <1>5, <1>6, <2>1, <3>2
  <2>2. CASE n # to
    BY <1>4, <1>5, <2>2 DEF Known
  <2> QED BY <2>1, <2>2
<1> QED BY <1>7 DEF DescendInv

LEMMA ReceiveKeepsNet ==
    ASSUME IInv, NEW m \in net, Receive(m)
    PROVE  NetInv'
<1> DEFINE all == DOMAIN m.routes
           to == m.to
<1>1. DatabaseInv /\ Honest(m) /\ \A msg \in net : Honest(msg)
  BY DEF IInv, NetInv
<1>2. DatabaseInv' /\ Improves
  BY <1>1, ReceiveImproves
<1>3. to \in Router
  BY <1>1, NeighboursMutual DEF Honest
<1>4. database'[to] = Learnt(m, all)
  BY <1>1, <1>3, ReceiveEffect DEF DatabaseInv
<1>5. ASSUME NEW msg \in net' PROVE Honest(msg)'
  <2>1. CASE msg \in net
    BY <1>1, <1>2, <2>1, HonestStays
  <2>2. ASSUME NEW done \in SUBSET all, msg \in Update(to, AfterReading(m, done))
        PROVE  Honest(msg)'
    <3>1. PICK n \in Neighbours(to) : msg = [from |-> to, to |-> n, routes |-> AfterReading(m, done)]
      BY <2>2 DEF Update
    <3>2. msg.from = to /\ msg.to = n /\ msg.routes = AfterReading(m, done)
      BY <3>1
    <3>3. ASSUME NEW d \in DOMAIN msg.routes
          PROVE  /\ d \in Known(to)' /\ msg.routes[d] \in Nat
                 /\ database'[to][d].metric <= msg.routes[d]
      <4>1. d \in DOMAIN Learnt(m, done) /\ msg.routes[d] = Learnt(m, done)[d].metric
        BY <3>2, <3>3 DEF AfterReading
      <4>2. Learnt(m, done)[d].metric \in Nat
        BY <1>1, <1>3, <4>1, LearntEntry
      <4>3. d \in DOMAIN Learnt(m, all) /\ Learnt(m, all)[d].metric <= Learnt(m, done)[d].metric
        BY <1>1, <1>3, <4>1, LearntMore
      <4> QED BY <1>4, <4>1, <4>2, <4>3 DEF Known
    <3> QED BY <1>3, <3>2, <3>3 DEF Honest, Neighbours
  <2> QED BY <2>1, <2>2, ReceiveEffect
<1> QED BY <1>5 DEF NetInv

-----------------------------------------------------------------------------
(* The invariant and what it says.                                         *)

LEMMA InitIInv ==
    Init => IInv
<1> SUFFICES ASSUME Init PROVE IInv
  OBVIOUS
<1>1. /\ DOMAIN database = Router /\ net = {}
      /\ \A n \in Router : database[n] = [d \in Attached[n] |-> [metric |-> 1, next |-> n]]
  BY DEF Init
<1>2. ASSUME NEW n \in Router, NEW d \in Known(n)
      PROVE  d \in Attached[n] /\ database[n][d].metric = 1 /\ database[n][d].next = n
  <2>1. d \in Attached[n] /\ database[n][d] = [metric |-> 1, next |-> n]
    BY <1>1 DEF Known
  <2> QED BY <2>1
<1>3. DatabaseInv
  BY <1>1, <1>2 DEF DatabaseInv, Good, Known
<1>4. DescendInv
  BY <1>2 DEF DescendInv, Descends
<1> QED BY <1>1, <1>3, <1>4 DEF IInv, NetInv

LEMMA LoseStep ==
    ASSUME IInv, NEW m, Lose(m)
    PROVE  IInv'
<1>1. UNCHANGED database /\ net' \subseteq net
  BY DEF Lose
<1> QED BY <1>1 DEF IInv, DatabaseInv, DescendInv, Descends, NetInv, Honest, Known, Neighbours

LEMMA NextIInv ==
    IInv /\ [Next]_vars => IInv'
<1> SUFFICES ASSUME IInv, [Next]_vars PROVE IInv'
  OBVIOUS
<1>1. CASE \E n \in Router : UpdateTimer(n)
  BY <1>1, UpdateTimerStep
<1>2. ASSUME NEW m \in net, Receive(m) PROVE IInv'
  <2>1. DatabaseInv /\ Honest(m)
    BY DEF IInv, NetInv
  <2> QED BY <1>2, <2>1, ReceiveImproves, ReceiveDescends, ReceiveKeepsNet DEF IInv
<1>3. CASE \E m \in net : Lose(m)
  BY <1>3, LoseStep
<1>4. CASE UNCHANGED vars
  BY <1>4 DEF vars, IInv, DatabaseInv, DescendInv, Descends, NetInv, Honest, Known, Neighbours
<1> QED BY <1>1, <1>2, <1>3, <1>4 DEF Next

THEOREM Invariance == Spec => []IInv
<1> QED BY InitIInv, NextIInv, PTL DEF Spec

\* The routes to a network descend, and so form no loop, on every network of routers,
\* whatever updates are lost, delayed or overtaken.
THEOREM RoutesAlwaysDescend == Spec => []RoutesDescend
<1>1. IInv => RoutesDescend
  BY DEF IInv, DescendInv, Descends, RoutesDescend
<1> QED BY <1>1, Invariance, PTL

\* No entry of a table is ever removed and no metric ever grows: a route that
\* gets worse is never noticed.
THEOREM MetricsNeverGrow == Spec => [][Improves]_vars
<1>1. IInv /\ [Next]_vars => [Improves]_vars
  <2> SUFFICES ASSUME IInv, [Next]_vars PROVE Improves \/ UNCHANGED vars
    OBVIOUS
  <2>1. CASE UNCHANGED database
    BY <2>1 DEF Improves, Known, IInv, DatabaseInv, Good
  <2>2. ASSUME NEW m \in net, Receive(m) PROVE Improves
    BY <2>2, ReceiveImproves DEF IInv, NetInv
  <2> QED BY <2>1, <2>2 DEF Next, UpdateTimer, Lose
<1> QED BY <1>1, Invariance, PTL DEF Spec

-----------------------------------------------------------------------------
(* What is learnt is passed on.                                            *)

LEMMA PassedOnStays ==
    ASSUME Improves, NEW n \in Router, NEW d, NEW m \in Router, PassedOn(n, d, m),
           \A msg \in net \ net' : msg.to = m /\ d \in DOMAIN msg.routes => d \in Known(m)'
    PROVE  PassedOn(n, d, m)'
<1>1. CASE d \in Known(m)
  BY <1>1 DEF Improves, PassedOn
<1>2. CASE \E msg \in net : msg.from = n /\ msg.to = m /\ d \in DOMAIN msg.routes
  BY <1>2 DEF PassedOn
<1> QED BY <1>1, <1>2 DEF PassedOn

PassedInv ==
    ~lossy => \A n \in Router : \A d \in Known(n) \ Attached[n] : \A m \in Neighbours(n) : PassedOn(n, d, m)

LEMMA PassedStep ==
    ASSUME IInv, PassedInv, [Next]_vars
    PROVE  PassedInv'
<1> SUFFICES ASSUME ~lossy,
                    NEW n \in Router, NEW d \in Known(n)', d \notin Attached[n], NEW k \in Neighbours(n)
             PROVE  PassedOn(n, d, k)'
  <2>1. \A m : Receive(m) => lossy' = lossy
    BY ReceiveEffect
  <2>2. lossy' = lossy
    BY <2>1 DEF Next, UpdateTimer, Lose, vars
  <2> QED BY <2>2 DEF PassedInv, Neighbours
<1>0. k \in Router
  BY DEF Neighbours
<1>1. CASE UNCHANGED database /\ net \subseteq net'
  BY <1>1 DEF PassedInv, PassedOn, Known
<1>2. ASSUME NEW m \in net, Receive(m) PROVE PassedOn(n, d, k)'
  <2>1. DatabaseInv /\ Honest(m) /\ DatabaseInv' /\ Improves /\ m.to \in Router
    BY <1>2, ReceiveImproves, NeighboursMutual DEF IInv, NetInv, Honest
  <2>2. /\ database'[m.to] = Learnt(m, DOMAIN m.routes)
        /\ \A r \in Router \ {m.to} : database'[r] = database[r]
    BY <1>2, <2>1, ReceiveEffect DEF DatabaseInv
  <2>3. Known(m.to)' = Known(m.to) \cup DOMAIN m.routes
    BY <2>2, LearntDomain DEF Known
  <2>4. net \ net' \subseteq {m}
    BY <1>2, ReceiveEffect
  <2>5. CASE d \in Known(n)
    <3>1. PassedOn(n, d, k)
      BY <2>5 DEF PassedInv
    <3> QED BY <1>0, <2>1, <2>3, <2>4, <3>1, PassedOnStays
  <2>6. CASE d \notin Known(n)
    <3>1. n = m.to /\ d \in DOMAIN m.routes \ Known(m.to)
      BY <2>2, <2>3, <2>6 DEF Known
    <3>2. PICK done \in SUBSET DOMAIN m.routes :
            d \in done /\ Update(m.to, AfterReading(m, done)) \subseteq net'
      BY <1>2, <3>1, ReceiveEffect
    <3> DEFINE msg == [from |-> n, to |-> k, routes |-> AfterReading(m, done)]
    <3>3. msg \in net'
      BY <3>1, <3>2 DEF Update
    <3>4. DOMAIN AfterReading(m, done) = Known(m.to) \cup done
      BY LearntDomain DEF AfterReading
    <3>5. d \in DOMAIN msg.routes
      BY <3>2, <3>4
    <3>6. \E x \in net' : x.from = n /\ x.to = k /\ d \in DOMAIN x.routes
      BY <3>3, <3>5
    <3> QED BY <3>6 DEF PassedOn
  <2> QED BY <2>5, <2>6
<1> QED BY <1>1, <1>2 DEF Next, UpdateTimer, Lose, vars

\* On links that lose nothing, each neighbour of a router that has learnt of a
\* network knows it too, or an update on its way there says so.
THEOREM LearntIsAlwaysPassedOn == Spec => []LearntIsPassedOn
<1>1. Init => PassedInv
  BY DEF Init, PassedInv, Known
<1>2. IInv /\ PassedInv /\ [Next]_vars => PassedInv'
  BY PassedStep
<1>3. PassedInv => LearntIsPassedOn
  BY DEF PassedInv, PassedOn, LearntIsPassedOn
<1> QED BY <1>1, <1>2, <1>3, Invariance, PTL DEF Spec
=============================================================================
