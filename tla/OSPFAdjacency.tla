---------------------------- MODULE OSPFAdjacency ----------------------------
(***************************************************************************)
(* OSPF: two routers on a point-to-point link find each other, exchange    *)
(* the summaries of their databases, request what they lack and flood what *)
(* is new.                                                                 *)
(*                                                                         *)
(* A handler runs to its end; the events a handler adds for the present    *)
(* instant (ExchangeDone) are part of it.  The link keeps the order of     *)
(* the packets.  An LSA is a key with the number of its instance; its body *)
(* changes with every instance.  Acknowledgements are left out: they only  *)
(* empty neighLSRxtList, which ospf_lsa_flood fills without starting the   *)
(* timer that would send it again.  Hellos are not lost for so long that   *)
(* the neighbour is given up.  Ages, areas and the other types of          *)
(* interface are left out too.                                             *)
(***************************************************************************)
EXTENDS Naturals, FiniteSets, SequencesExt

CONSTANTS
    Low, High,      \* the two routers, by the order of their ids
    External,       \* LSAs that a router hears of from its other neighbours
    Hears,          \* [External -> {Low, High}]
    MaxInstance,    \* bound: instances of an LSA
    MaxHeard,       \* bound: instances of an external LSA
    MaxLost,        \* bound: packets lost
    DDMax           \* OSPF_DD_MAX_LSA_COUNT

Router == {Low, High}
Key == Router \cup External
Other(n) == IF n = Low THEN High ELSE Low

VARIABLES
    lost,       \* packets lost so far
    delayed,    \* isSendDelayedUpdate; it does not change
    nbr,        \* [Router -> what it keeps of the other one]
    db,         \* [Router -> [Key -> instance]], 0 when there is none
    out,        \* [Router -> [Key -> instance]]: updateLSAList
    rlsaDue,    \* [Router -> BOOLEAN]: isRouterLSTimer
    link,       \* [Router -> Seq(packets on the way to it)]
    failed      \* an event without a handler was raised

vars == <<lost, delayed, nbr, db, out, rlsaDue, link, failed>>

AtLeastExchange == {"Exchange", "Loading", "Full"}
State == {"DOWN", "Init", "ExStart"} \cup AtLeastExchange

NoDD == [type |-> "none"]
NoLsa == [k \in Key |-> 0]

Lsas == [Key -> 0 .. MaxInstance]
Hello == [type : {"hello"}, listed : BOOLEAN]
\* init, more and master are the IMMS bits.
DD == [type : {"dd"}, seq : Nat, init : BOOLEAN, more : BOOLEAN, master : BOOLEAN, lsas : Lsas]
Request == [type : {"request"}, keys : SUBSET Key]
Update == [type : {"update"}, lsas : Lsas]

Neighbour ==
    [state : State, isMaster : BOOLEAN, seq : Nat,
     more : BOOLEAN,           \* the more bit of IMMS
     rxmt : BOOLEAN,           \* a DD_RXMT_IN_EXSTART is pending
     last : DD \cup {NoDD},    \* lastrecvDDPacket
     summary : Lsas,           \* neighDBSummaryList
     req : Lsas,               \* neighLSReqList
     asked : BOOLEAN]          \* a timer of the request list is pending

TypeOK ==
    /\ lost \in 0 .. MaxLost /\ delayed \in BOOLEAN /\ failed \in BOOLEAN
    /\ nbr \in [Router -> Neighbour]
    /\ db \in [Router -> Lsas] /\ out \in [Router -> Lsas]
    /\ rlsaDue \in [Router -> BOOLEAN]
    /\ \A n \in Router : \A i \in DOMAIN link[n] :
         link[n][i] \in Hello \cup DD \cup Request \cup Update

\* The interfaces have come up: the first router LSA is due.
Init ==
    /\ lost = 0 /\ delayed \in BOOLEAN
    /\ nbr = [n \in Router |->
                [state |-> "DOWN", isMaster |-> FALSE, seq |-> 0, more |-> FALSE, rxmt |-> FALSE,
                 last |-> NoDD, summary |-> NoLsa, req |-> NoLsa, asked |-> FALSE]]
    /\ db = [n \in Router |-> NoLsa]
    /\ out = [n \in Router |-> NoLsa]
    /\ rlsaDue = [n \in Router |-> TRUE]
    /\ link = [n \in Router |-> << >>]
    /\ failed = FALSE

Keys(lsas) == {k \in Key : lsas[k] > 0}
Only(lsas, S) == [k \in Key |-> IF k \in S THEN lsas[k] ELSE 0]
Newest(a, b) == [k \in Key |-> IF a[k] > b[k] THEN a[k] ELSE b[k]]
Newer(a, b) == {k \in Key : a[k] > b[k]}

InFlight(n, type) == \E i \in DOMAIN link[n] : link[n][i].type = type

\* A step of n that puts packets on the link, or takes the first one off too.
Sends(n, packets) == link' = [link EXCEPT ![Other(n)] = @ \o packets]
Takes(n, packets) == link' = [link EXCEPT ![n] = Tail(@), ![Other(n)] = @ \o packets]
Arrives(n, type) == link[n] # << >> /\ Head(link[n]).type = type

\* ospf_neighbor_change_state: entering Full schedules a router LSA.
DueAfter(n, r) ==
    [rlsaDue EXCEPT ![n] = @ \/ (r.state = "Full" /\ nbr[n].state # "Full")]
-----------------------------------------------------------------------------
(* Hello and the start of the adjacency *)

HelloTimer(n) ==
    /\ ~InFlight(Other(n), "hello")    \* bound: one hello of n in flight
    /\ nbr[Other(n)].state \in {"DOWN", "Init"}    \* any other hello changes nothing
    /\ Sends(n, <<[type |-> "hello", listed |-> nbr[n].state # "DOWN"]>>)
    /\ UNCHANGED <<lost, delayed, nbr, db, out, rlsaDue, failed>>

\* The first DDSeqNo of a router is the time, never that of the other one.
FirstSeq(n) == IF n = Low THEN 10 ELSE 20

ExStartDD(r) ==
    [type |-> "dd", seq |-> r.seq, init |-> TRUE, more |-> TRUE, master |-> TRUE, lsas |-> NoLsa]

\* 2-WayReceived in state Init: ospf_neighbor_attempt_adjacency.
Adjacent(n, r) ==
    [r EXCEPT !.state = "ExStart", !.isMaster = TRUE, !.seq = FirstSeq(n),
              !.more = TRUE, !.rxmt = TRUE]

ReceiveHello(n) ==
    LET heard == [nbr[n] EXCEPT !.state = IF @ = "DOWN" THEN "Init" ELSE @]
        twoWay == Head(link[n]).listed /\ heard.state = "Init"
        r == IF twoWay THEN Adjacent(n, heard) ELSE heard
    IN  /\ Arrives(n, "hello")
        /\ nbr' = [nbr EXCEPT ![n] = r]
        /\ Takes(n, IF twoWay THEN <<ExStartDD(r)>> ELSE << >>)
        /\ UNCHANGED <<lost, delayed, db, out, rlsaDue, failed>>

\* RxmtInterval is far longer than a round trip: the DDs sent before have
\* been answered or lost.
ExStartTimer(n) ==
    /\ nbr[n].rxmt
    /\ \A m \in Router : ~InFlight(m, "dd")
    /\ IF nbr[n].state = "ExStart"
         THEN Sends(n, <<ExStartDD(nbr[n])>>) /\ UNCHANGED nbr
         ELSE nbr' = [nbr EXCEPT ![n].rxmt = FALSE] /\ UNCHANGED link
    /\ UNCHANGED <<lost, delayed, db, out, rlsaDue, failed>>
-----------------------------------------------------------------------------
(* Database description *)

RequestOf(r) == [type |-> "request", keys |-> Keys(r.req)]

Done(r) ==
    IF Keys(r.req) = {}
      THEN [r EXCEPT !.state = "Full"]
      ELSE [r EXCEPT !.state = "Loading", !.asked = TRUE]

\* Mutant of DoneSends: the first request is left to a timer.
DoneSilently(r) == << >>

DoneSends(r) == IF Keys(r.req) = {} THEN << >> ELSE <<RequestOf(r)>>

\* The next LSAs of the summary list, in the order of a list left open.
Tops(r) ==
    {S \in SUBSET Keys(r.summary) :
       IF Cardinality(Keys(r.summary)) <= DDMax THEN S = Keys(r.summary)
                                                ELSE Cardinality(S) = DDMax}

ExchangeDD(r, S) ==
    [type |-> "dd", seq |-> r.seq, init |-> FALSE, more |-> Keys(r.summary) # S,
     master |-> r.isMaster, lsas |-> Only(r.summary, S)]

Described(r, S) ==
    [r EXCEPT !.summary = Only(@, Key \ S), !.more = (Keys(r.summary) # S)]

\* ospf_process_DD: what n keeps and sends for the DD dd.
Process(n, r, dd) ==
    LET missing == Newer(dd.lsas, db[n]) \ Keys(r.req)
        asking == [r EXCEPT !.req = Newest(@, Only(dd.lsas, missing))]
        master == [asking EXCEPT !.seq = @ + 1]
        slave == [asking EXCEPT !.seq = dd.seq]
    IN  IF r.isMaster
          THEN IF ~r.more /\ ~dd.more
                 THEN {<<Done(master), DoneSends(master)>>}
                 ELSE {<<Described(master, S), <<ExchangeDD(master, S)>> >> : S \in Tops(master)}
          ELSE {LET told == Described(slave, S)
                    reply == <<ExchangeDD(slave, S)>>
                IN  IF ~dd.more /\ Keys(told.summary) = {}
                      THEN <<Done(told), reply \o DoneSends(told)>>
                      ELSE <<told, reply>> : S \in Tops(slave)}

\* NegotiationDone, then the DD that decided it.
Negotiated(n, r, dd) ==
    Process(n, [r EXCEPT !.state = "Exchange", !.summary = Newest(@, db[n])], dd)

BecomesSlave(n, r, dd) ==
    dd.init /\ dd.more /\ dd.master /\ Keys(dd.lsas) = {} /\ n = Low

BecomesMaster(n, r, dd) ==
    ~dd.init /\ ~dd.master /\ dd.seq = r.seq /\ n = High

InExStart(n, r, dd) ==
    IF BecomesSlave(n, r, dd)
      THEN Negotiated(n, [r EXCEPT !.seq = dd.seq, !.isMaster = FALSE], dd)
    ELSE IF BecomesMaster(n, r, dd) THEN Negotiated(n, [r EXCEPT !.isMaster = TRUE], dd)
    ELSE {<<r, << >> >>}

\* The events that ospf_event has no handler for stop the simulation.
Unhandled == {}

\* Mutant of InSequence: the slave expects the number it has.
SameSequence(r, dd) == dd.master # r.isMaster /\ ~dd.init /\ dd.seq = r.seq

InSequence(r, dd) ==
    /\ dd.master # r.isMaster
    /\ ~dd.init
    /\ dd.seq = IF r.isMaster THEN r.seq ELSE r.seq + 1

\* The slave answers a duplicate with a copy of lastrecvDDPacket, which is
\* the duplicate itself.
Repeated(r, dd) == {<<r, IF r.isMaster THEN << >> ELSE <<dd>> >>}

Duplicate(r, dd) ==
    /\ r.last # NoDD
    /\ dd.seq = r.last.seq /\ dd.init = r.last.init
    /\ dd.more = r.last.more /\ dd.master = r.last.master

\* What becomes of the neighbour and what is sent, by its state.
AfterDD(n, dd) ==
    LET r == [nbr[n] EXCEPT !.last = dd]
        dup == Duplicate(nbr[n], dd)
    IN  CASE r.state = "DOWN" -> {<<nbr[n], << >> >>}
          [] r.state = "Init" ->
               {<<a[1], <<ExStartDD(Adjacent(n, r))>> \o a[2]>> : a \in InExStart(n, Adjacent(n, r), dd)}
          [] r.state = "ExStart" -> InExStart(n, r, dd)
          [] r.state = "Exchange" ->
               IF dup THEN Repeated(r, dd)
               ELSE IF InSequence(r, dd) THEN Process(n, r, dd) ELSE Unhandled
          [] OTHER -> IF dup THEN Repeated(r, dd) ELSE Unhandled

ReceiveDD(n) ==
    /\ Arrives(n, "dd")
    /\ LET outcomes == AfterDD(n, Head(link[n]))
       IN  \/ \E o \in outcomes :
                /\ nbr' = [nbr EXCEPT ![n] = o[1]]
                /\ rlsaDue' = DueAfter(n, o[1])
                /\ Takes(n, o[2])
                /\ UNCHANGED failed
           \/ /\ outcomes = Unhandled
              /\ failed' = TRUE
              /\ Takes(n, << >>)
              /\ UNCHANGED <<nbr, rlsaDue>>
    /\ UNCHANGED <<lost, delayed, db, out>>
-----------------------------------------------------------------------------
(* Requests and updates *)

\* ospf_handle_LSRequest: the answer waits for the flood timer, or takes
\* everything that is queued for the interface with it.
ReceiveRequest(n) ==
    LET keys == Head(link[n]).keys
        queued == Newest(out[n], Only(db[n], keys))
        bad == \E k \in keys : db[n][k] = 0
    IN  /\ Arrives(n, "request")
        /\ IF nbr[n].state \notin AtLeastExchange
             THEN Takes(n, << >>) /\ UNCHANGED <<out, failed>>
           ELSE IF bad
             THEN Takes(n, << >>) /\ failed' = TRUE /\ UNCHANGED out
           ELSE /\ UNCHANGED failed
                /\ IF delayed
                     THEN out' = [out EXCEPT ![n] = queued] /\ Takes(n, << >>)
                     ELSE out' = [out EXCEPT ![n] = NoLsa]
                          /\ Takes(n, <<[type |-> "update", lsas |-> queued]>>)
        /\ UNCHANGED <<lost, delayed, nbr, db, rlsaDue>>

\* OSPF_RXMTTIMER of a request; it is due after RxmtInterval microseconds.
RequestTimer(n) ==
    /\ nbr[n].asked /\ Keys(nbr[n].req) # {}
    \* bound: one request of n, or an update for it, in flight
    /\ ~InFlight(Other(n), "request") /\ ~InFlight(n, "update")
    /\ Sends(n, <<RequestOf(nbr[n])>>)
    /\ UNCHANGED <<lost, delayed, nbr, db, out, rlsaDue, failed>>

\* OSPF_FLOODTIMER
FloodTimer(n) ==
    /\ Keys(out[n]) # {}
    /\ out' = [out EXCEPT ![n] = NoLsa]
    /\ Sends(n, <<[type |-> "update", lsas |-> out[n]]>>)
    /\ UNCHANGED <<lost, delayed, nbr, db, rlsaDue, failed>>

(* ospf_handle_LSUPDATE.  early are the keys whose last instance came less *)
(* than minLSInterval ago: what is older or newer than it is dropped.  The *)
(* flood timer keeps two updates of an interface that far apart, the       *)
(* answer to a request that is not delayed does not.  An instance that was *)
(* requested, or a newer one, leaves the request list.  Whether the first  *)
(* request left is taken for answered (ospf_lsreq_isRequestedLSAReceived   *)
(* reads the item as an LSA) is open.                                      *)
ReceiveUpdate(n) ==
    LET lsas == Head(link[n]).lsas
        r == nbr[n]
        known == {k \in Keys(lsas) : db[n][k] > 0}
        equal == {k \in known : db[n][k] = lsas[k]}
    IN  /\ Arrives(n, "update")
        /\ IF r.state \notin AtLeastExchange
             THEN Takes(n, << >>) /\ UNCHANGED <<nbr, db, rlsaDue, failed>>
           ELSE IF equal \cap Keys(r.req) # {}
             THEN Takes(n, << >>) /\ failed' = TRUE /\ UNCHANGED <<nbr, db, rlsaDue>>
           ELSE \E early \in IF delayed THEN {{}} ELSE SUBSET ((known \ equal) \ {n}) :
                  LET taken == (Keys(lsas) \ equal) \ early
                      met == {k \in taken : r.state # "Full" /\ lsas[k] >= r.req[k]}
                      left == [r EXCEPT !.req = Only(@, Key \ met)]
                      loaded == [left EXCEPT !.asked = FALSE,
                                             !.state = IF @ = "Loading" THEN "Full" ELSE @]
                  IN  /\ db' = [db EXCEPT ![n] = [k \in Key |->
                                 IF k \notin taken THEN @[k]
                                 ELSE IF k = n THEN lsas[k] + 1 ELSE lsas[k]]]
                      /\ IF Keys(left.req) = {}
                           THEN nbr' = [nbr EXCEPT ![n] = loaded] /\ Takes(n, << >>)
                           ELSE \/ nbr' = [nbr EXCEPT ![n] = left] /\ Takes(n, << >>)
                                \/ nbr' = [nbr EXCEPT ![n] = [left EXCEPT !.asked = TRUE]]
                                   /\ Takes(n, <<RequestOf(left)>>)
                      /\ rlsaDue' = [DueAfter(n, nbr'[n]) EXCEPT ![n] = @ \/ n \in taken]
                      /\ UNCHANGED failed
        /\ UNCHANGED <<lost, delayed, out>>

\* Mutant of Flooded: only a Full neighbour is told.
FloodedToFull(n, k) ==
    /\ db[n][k] < MaxInstance
    /\ db' = [db EXCEPT ![n][k] = @ + 1]
    /\ out' = IF nbr[n].state = "Full" THEN [out EXCEPT ![n][k] = db[n][k] + 1] ELSE out

\* ospf_lsa_flood to the only neighbour, and ospf_lsdb_install.
Flooded(n, k) ==
    /\ db[n][k] < MaxInstance
    /\ db' = [db EXCEPT ![n][k] = @ + 1]
    /\ out' = IF nbr[n].state \in AtLeastExchange
                THEN [out EXCEPT ![n][k] = db[n][k] + 1] ELSE out

\* OSPF_SCHEDULELSDB
OriginateRouterLSA(n) ==
    /\ rlsaDue[n]
    /\ rlsaDue' = [rlsaDue EXCEPT ![n] = FALSE]
    /\ Flooded(n, n)
    /\ UNCHANGED <<lost, delayed, nbr, link, failed>>

\* A newer instance from another neighbour of n.
Hear(k) ==
    /\ db[Hears[k]][k] < MaxHeard
    /\ Flooded(Hears[k], k)
    /\ UNCHANGED <<lost, delayed, nbr, rlsaDue, link, failed>>

Lose(n) ==
    /\ lost < MaxLost /\ link[n] # << >>
    /\ lost' = lost + 1
    /\ Takes(n, << >>)
    /\ UNCHANGED <<delayed, nbr, db, out, rlsaDue, failed>>

Receive(n) == ReceiveHello(n) \/ ReceiveDD(n) \/ ReceiveRequest(n) \/ ReceiveUpdate(n)

Next ==
    /\ ~failed
    /\ \/ \E n \in Router :
            \/ HelloTimer(n) \/ ExStartTimer(n) \/ RequestTimer(n) \/ FloodTimer(n)
            \/ OriginateRouterLSA(n) \/ Receive(n) \/ Lose(n)
       \/ \E k \in External : Hear(k)

Spec == Init /\ [][Next]_vars
-----------------------------------------------------------------------------
\* Packets arrive and timers expire.
Fairness ==
    \A n \in Router :
      /\ WF_vars(~failed /\ Receive(n))
      /\ WF_vars(~failed /\ HelloTimer(n)) /\ WF_vars(~failed /\ ExStartTimer(n))
      /\ WF_vars(~failed /\ FloodTimer(n)) /\ WF_vars(~failed /\ OriginateRouterLSA(n))

\* The negotiation has one outcome: once both routers exchange descriptions the
\* one with the greater id is the master and the other the slave, though both
\* start as masters and their first packets cross (OSPF_DD.c,
\* ospf_process_dd_in_exstart_state).
OneMaster ==
    (\A n \in Router : nbr[n].state \in AtLeastExchange)
       => nbr[High].isMaster /\ ~nbr[Low].isMaster

\* On a link that loses nothing no description is out of sequence, no request
\* is for an LSA the neighbour lacks and no requested LSA comes as an old one:
\* SeqNumberMismatch and BadLSReq, for which no handler is written, are never
\* raised (OSPF_DD.c, OSPF_LSREQ.c:334, OSPF_LSUPDATE.c:291).
NoMismatch == lost = 0 => ~failed

\* A router whose neighbour is Full lacks nothing that the neighbour has: a
\* newer instance is queued for it or on its way, even one that came in while
\* the summaries were being exchanged (ospf_neighbor_create_DBSummaryList takes
\* a snapshot, ospf_lsa_flood looks at the state of the neighbour).
FullIsSynchronised ==
    lost = 0 /\ delayed =>
      \A n \in Router : nbr[n].state = "Full" =>
        \A k \in Newer(db[Other(n)], db[n]) :
          \/ out[Other(n)][k] = db[Other(n)][k]
          \/ \E i \in DOMAIN link[n] :
               link[n][i].type = "update" /\ link[n][i].lsas[k] = db[Other(n)][k]

=============================================================================
