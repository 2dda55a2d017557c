----------------------------- MODULE OSPFFlooding -----------------------------
(***************************************************************************)
(* OSPF: the flooding of router LSAs over adjacencies that are all Full,   *)
(* on point-to-point links.                                                *)
(*                                                                         *)
(* Time is counted in units of which MinLS make minLSInterval.  Delays     *)
(* below a unit are zero: a packet arrives in the unit it is sent in, and  *)
(* the links keep their order.  Every timer is the time left to it.  An    *)
(* LSA has a sequence number, a body and an age of one per hop; the aging  *)
(* of the database, acknowledgements and retransmission lists, whose timer *)
(* ospf_lsa_flood never starts, are left out.                              *)
(***************************************************************************)
EXTENDS Integers, SequencesExt

CONSTANTS
    Router,
    Link,           \* the pairs {n, m} of adjacent routers
    Origin,         \* the routers whose links change
    MinLS,          \* minLSInterval
    Jitter,         \* the random delay of a timer is 0 .. Jitter
    MaxChanges      \* bound: changes of the links of a router

VARIABLES
    rt,     \* [Router -> what a router keeps]
    wire    \* [<<from, to>> -> Seq(updates)]

vars == <<rt, wire>>

Neighbours(n) == {m \in Router : {n, m} \in Link}
Wires == {w \in Router \X Router : {w[1], w[2]} \in Link}

Off == -1    \* a timer that is not set
Timer == Off .. 2 * MinLS + Jitter

LSA == [origin : Origin, seq : Nat, body : 0 .. MaxChanges, age : Nat]

RouterState(n) ==
    [db : [Origin -> [seq : Nat, body : 0 .. MaxChanges]],
     young : [Origin -> 0 .. MinLS],      \* of minLSInterval since the install
     out : [Neighbours(n) -> Seq(LSA)],   \* updateLSAList
     flood : [Neighbours(n) -> Timer],    \* OSPF_FLOODTIMER
     rest : [Neighbours(n) -> 0 .. 2 * MinLS + Jitter],    \* lastFloodTimer + minLSInterval
     due : Off .. MinLS + Jitter,         \* OSPF_SCHEDULELSDB
     since : 0 .. MinLS,                  \* of minLSInterval since the last origination
     links : 0 .. MaxChanges]             \* the links of the router

TypeOK ==
    /\ DOMAIN rt = Router /\ \A n \in Router : rt[n] \in RouterState(n)
    /\ wire \in [Wires -> Seq(Seq(LSA))]

Init ==
    /\ rt = [n \in Router |->
               [db |-> [o \in Origin |-> [seq |-> 1, body |-> 0]],
                young |-> [o \in Origin |-> 0],
                out |-> [m \in Neighbours(n) |-> << >>],
                flood |-> [m \in Neighbours(n) |-> Off],
                rest |-> [m \in Neighbours(n) |-> 0],
                due |-> Off, since |-> 0, links |-> 0]]
    /\ wire = [w \in Wires |-> << >>]

\* Mutant of Schedule: within minLSInterval nothing is scheduled.
ScheduleOrForget(r, j) == IF r.due # Off \/ r.since > 0 THEN r ELSE [r EXCEPT !.due = j]

\* ospf_lsa_schedule_routerLSA
Schedule(r, j) ==
    IF r.due # Off THEN r
    ELSE [r EXCEPT !.due = IF r.since = 0 THEN j ELSE r.since]

\* ospf_lsa_queueToFlood: only an entry of the same age is replaced.
Queued(list, lsa) ==
    LET same == {i \in DOMAIN list : list[i].origin = lsa.origin /\ list[i].age = lsa.age}
    IN  IF same = {} THEN Append(list, lsa)
        ELSE LET i == CHOOSE i \in same : TRUE
             IN  IF lsa.seq <= list[i].seq THEN list
                 ELSE Append(SelectSeq(list, LAMBDA l : l # list[i]), lsa)

\* Mutant of Flood: the timer does not wait for minLSInterval since the last one.
FloodSoon(r, lsa, to, jitter) ==
    [r EXCEPT !.out = [m \in DOMAIN @ |-> IF m \in to THEN Queued(@[m], lsa) ELSE @[m]],
              !.flood = [m \in DOMAIN @ |-> IF m \in to /\ @[m] = Off THEN jitter[m] ELSE @[m]]]

\* ospf_lsa_flood to the neighbours to; jitter is the one of each timer.
Flood(r, lsa, to, jitter) ==
    LET at(m) == IF m \in to /\ r.flood[m] = Off THEN r.rest[m] + jitter[m] ELSE r.flood[m]
    IN  [r EXCEPT !.out = [m \in DOMAIN @ |-> IF m \in to THEN Queued(@[m], lsa) ELSE @[m]],
                  !.flood = [m \in DOMAIN @ |-> at(m)],
                  !.rest = [m \in DOMAIN @ |-> IF m \in to /\ r.flood[m] = Off
                                                 THEN at(m) + MinLS ELSE @[m]]]

\* ospf_lsdb_install: nothing is replaced by an LSA with the same body.
Install(r, lsa) ==
    IF r.db[lsa.origin].body = lsa.body THEN r
    ELSE [r EXCEPT !.db[lsa.origin] = [seq |-> lsa.seq, body |-> lsa.body],
                   !.young[lsa.origin] = MinLS]

\* ospf_lsa_isMoreRecent gives 1, 0 or -1, and ospf_handle_LSUPDATE takes
\* both 1 and -1 for "more recent".
MoreRecent(old, lsa) == lsa.seq # old.seq

TooEarly(n, r, lsa) == n # lsa.origin /\ r.young[lsa.origin] > 0

FloodsTo(n, m) == Neighbours(n) \ {m}

\* One LSA of an update that n got from m: ospf_lsdb_update.
Handled(n, r, lsa, m, jitter) ==
    LET updated == Install(Flood(r, lsa, FloodsTo(n, m), jitter), lsa)
    IN  IF ~MoreRecent(r.db[lsa.origin], lsa) \/ TooEarly(n, r, lsa) THEN r
        ELSE IF n # lsa.origin THEN updated
        ELSE Schedule([updated EXCEPT !.db[n].seq = lsa.seq + 1], jitter[m])

Jitters(n) == [Neighbours(n) -> 0 .. Jitter]

\* ospf_handle_LSUPDATE
ReceiveUpdate(n, m) ==
    /\ wire[<<m, n>>] # << >>
    /\ \E jitter \in Jitters(n) :
         rt' = [rt EXCEPT ![n] = FoldLeft(LAMBDA r, lsa : Handled(n, r, lsa, m, jitter),
                                          @, Head(wire[<<m, n>>]))]
    /\ wire' = [wire EXCEPT ![<<m, n>>] = Tail(@)]

\* ospf_lsa_handle_floodTimer_event
FloodTimer(n, m) ==
    LET list == rt[n].out[m]
    IN  /\ rt[n].flood[m] = 0
        /\ wire' = [wire EXCEPT ![<<n, m>>] =
                      Append(@, [i \in DOMAIN list |-> [list[i] EXCEPT !.age = @ + 1]])]
        /\ rt' = [rt EXCEPT ![n].out[m] = << >>, ![n].flood[m] = Off]

\* A neighbour of o becomes Full or leaves Full.
LinkChange(o) ==
    /\ rt[o].links < MaxChanges
    /\ \E j \in 0 .. Jitter :
         rt' = [rt EXCEPT ![o] = Schedule([@ EXCEPT !.links = @ + 1], j)]
    /\ UNCHANGED wire

\* ospf_rlsa_originateRouterLSA
OriginateRouterLSA(o) ==
    LET lsa == [origin |-> o, seq |-> rt[o].db[o].seq + 1, body |-> rt[o].links, age |-> 0]
    IN  /\ rt[o].due = 0
        /\ \E jitter \in Jitters(o) :
             rt' = [rt EXCEPT ![o] = Install([Flood(@, lsa, Neighbours(o), jitter)
                                                EXCEPT !.due = Off, !.since = MinLS], lsa)]
        /\ UNCHANGED wire

Down(t) == IF t > 0 THEN t - 1 ELSE t

\* Time passes when nothing is to be done now.
Tick ==
    /\ \A w \in Wires : wire[w] = << >>
    /\ \A n \in Router : rt[n].due # 0 /\ \A m \in Neighbours(n) : rt[n].flood[m] # 0
    /\ rt' = [n \in Router |->
                [rt[n] EXCEPT !.young = [o \in Origin |-> Down(@[o])],
                              !.flood = [m \in Neighbours(n) |-> Down(@[m])],
                              !.rest = [m \in Neighbours(n) |-> Down(@[m])],
                              !.due = Down(@), !.since = Down(@)]]
    /\ UNCHANGED wire

Next ==
    \/ \E w \in Wires : ReceiveUpdate(w[2], w[1]) \/ FloodTimer(w[1], w[2])
    \/ \E o \in Origin : LinkChange(o) \/ OriginateRouterLSA(o)
    \/ Tick

Spec == Init /\ [][Next]_vars
-----------------------------------------------------------------------------
\* Time passes, packets arrive and timers expire.
Progress ==
    \/ \E w \in Wires : ReceiveUpdate(w[2], w[1]) \/ FloodTimer(w[1], w[2])
    \/ \E o \in Origin : OriginateRouterLSA(o)
    \/ Tick

Fairness == WF_vars(Progress)

\* "Received LSA is more recent or no current Database copy exist"
\* (OSPF_LSUPDATE.c): a router never goes back to an LSA that its origin
\* had replaced; bodies are numbered in the order of their origination.
\* Violated where LSAs reach a router by two ways, see README.
NeverOlder ==
    [][\A n \in Router : \A o \in Origin : rt'[n].db[o].body >= rt[n].db[o].body]_vars

LinksOn(list, o) == {list[i].body : i \in {j \in DOMAIN list : list[j].origin = o}}

\* Where one way leads to each router, links that a neighbour has newer are in its
\* flood list or on the wire: none is dropped as too early, though nothing is sent
\* twice, since the flood timers and the originations keep minLSInterval apart.
MissingIsOnItsWay ==
    \A n \in Router : \A m \in Neighbours(n) : \A o \in Origin :
        rt[m].db[o].body < rt[n].db[o].body =>
            rt[n].db[o].body \in LinksOn(rt[n].out[m], o)
                                \cup LinksOn(FlattenSeq(wire[<<n, m>>]), o)

\* Each router ends up with the links of every other one.
Converges == <>[](\A n \in Router : \A o \in Origin : rt[n].db[o].body = rt[o].links)
=============================================================================
