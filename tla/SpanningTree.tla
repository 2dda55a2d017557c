----------------------------- MODULE SpanningTree -----------------------------
(***************************************************************************)
(* Ethernet switches: the spanning tree protocol and the frames that are    *)
(* switched while it runs.                                                 *)
(*                                                                         *)
(* Every switch announces itself as the root once, at the start; it is the *)
(* only configuration BPDU that it makes, and the others it forwards.  No  *)
(* BPDU ages or is repeated, and no port that is blocked forwards           *)
(* again: forward_port is never called.  Port types are written but not    *)
(* read.  A port is named by the device at its other end.                  *)
(* Left out: bit errors, VLANs, firewalls, routers of several LANs,        *)
(* parallel links, and the time a BPDU waits behind another one in a port.  *)
(***************************************************************************)
EXTENDS Naturals, Sequences, FiniteSets, SequencesExt

CONSTANTS
    Switch,
    Rank,      \* [Switch -> Nat]: the order of the switch ids, which are strings:
               \* "32768..." comes before "4096..." in it
    Cost,      \* [Switch -> Nat]: stpCost
    Station,
    At,        \* [Station -> Switch]
    Lan        \* bound: the configurations [wire, alike, flow], that is the pairs
               \* {s, t} of switches with a link, whether the links all have the
               \* same speed and delay, and the frames <<source, destination>>; the
               \* broadcast address is a destination that no station has

VARIABLES
    lan,       \* the configuration
    root,      \* rootId
    cost,      \* rootPathCost
    rootPort,  \* rootPort; the switch itself stands for none
    blocked,   \* ports <<s, t>> in PORTSTATE_BLOCKING
    bpdus,     \* [<<s, t>> -> BPDUs in flight], in order
    tables,    \* switchTable: [Switch -> set of <<station, port>>]
    unsent,    \* flows whose frame is still to come
    frames     \* frames in flight

vars == <<lan, root, cost, rootPort, blocked, bpdus, tables, unsent, frames>>

Ports == {p \in Switch \X Switch : {p[1], p[2]} \in lan.wire /\ p[1] # p[2]}

Neighbours(s) == {t \in Switch : <<s, t>> \in Ports}

\* init_spanning_tree_protocol: every switch starts as root and sends its BPDU.
Init ==
    /\ lan \in Lan
    /\ root = [s \in Switch |-> s]
    /\ cost = [s \in Switch |-> 0]
    /\ rootPort = [s \in Switch |-> s]
    /\ blocked = {}
    /\ bpdus = [p \in Ports |-> <<[root |-> p[1], cost |-> Cost[p[1]], hops |-> 1]>>]
    /\ tables = [s \in Switch |-> {}]
    /\ unsent = lan.flow
    /\ frames = {}
-----------------------------------------------------------------------------
(* compare_bpdu and process_configbpdu *)

\* FORWARD
Better(s, b) ==
    \/ Rank[b.root] < Rank[root[s]]
    \/ b.root = root[s] /\ root[s] # s /\ b.cost < cost[s]

\* Mutant of Worse: a BPDU of the same cost changes nothing.
OnlyCostlier(s, t, b) ==
    b.root = root[s] /\ root[s] # s /\ b.cost > cost[s]

\* BLOCK: it makes no difference whether the port leads to the root, nor which
\* of the two bridges has the better BPDU.
Worse(s, t, b) ==
    /\ b.root = root[s] /\ root[s] # s
    /\ b.cost > cost[s] \/ (b.cost = cost[s] /\ rootPort[s] # t)

\* On links that are alike a BPDU arrives after those that made fewer hops.
Arrives(p) ==
    /\ bpdus[p] # <<>>
    /\ lan.alike => \A q \in Ports : bpdus[q] # <<>> => Head(bpdus[p]).hops <= Head(bpdus[q]).hops

Consume(p) == [bpdus EXCEPT ![p] = Tail(@)]

\* mark_port, update_spt and forward_bpdu.
Adopt(s, t, b) ==
    LET onward == [root |-> b.root, cost |-> Cost[s] + b.cost, hops |-> b.hops + 1]
        queues == Consume(<<t, s>>)
    IN  /\ Better(s, b)
        /\ root' = [root EXCEPT ![s] = b.root]
        /\ cost' = [cost EXCEPT ![s] = b.cost]
        /\ rootPort' = [rootPort EXCEPT ![s] = t]
        /\ bpdus' = [p \in Ports |->
               IF p[1] = s /\ p[2] # t THEN Append(queues[p], onward) ELSE queues[p]]
        /\ UNCHANGED blocked

BlockPort(s, t, b) ==
    /\ Worse(s, t, b)
    /\ blocked' = blocked \cup {<<s, t>>}
    /\ bpdus' = Consume(<<t, s>>)
    /\ UNCHANGED <<root, cost, rootPort>>

\* DONT_FORWARD
Ignore(s, t, b) ==
    /\ ~Better(s, b) /\ ~Worse(s, t, b)
    /\ bpdus' = Consume(<<t, s>>)
    /\ UNCHANGED <<root, cost, rootPort, blocked>>

ProcessBpdu(s, t) ==
    /\ Arrives(<<t, s>>)
    /\ LET b == Head(bpdus[<<t, s>>])
       IN  Adopt(s, t, b) \/ BlockPort(s, t, b) \/ Ignore(s, t, b)
    /\ UNCHANGED <<lan, tables, unsent, frames>>
-----------------------------------------------------------------------------
(* Frames *)

Knows(s, h) == \E e \in tables[s] : e[1] = h

\* Mutant of Learn: the last port that a station was seen on counts.
LearnLast(s, h, port) == {e \in tables[s] : e[1] # h} \cup {<<h, port>>}

\* SWITCHTABLE_NEW: the first port that a station was seen on, for ever.
Learn(s, h, port) == IF Knows(s, h) THEN tables[s] ELSE tables[s] \cup {<<h, port>>}

\* forward_frame without an entry: all ports but the incoming one and those
\* that block.  The state of the incoming port is not looked at.
FloodPorts(s, from) ==
    ({t \in Neighbours(s) : <<s, t>> \notin blocked} \cup {h \in Station : At[h] = s}) \ {from}

OutPorts(s, f, table) ==
    LET known == {e[2] : e \in {d \in table : d[1] = f.dst}}
    IN  IF known # {} THEN known ELSE FloodPorts(s, f.from)

\* ethernet_mac_process_frame in a switch.
Forward(f) ==
    /\ f.to \in Switch
    /\ LET s == f.to
           table == Learn(s, f.src, f.from)
       IN  /\ tables' = [tables EXCEPT ![s] = table]
           /\ frames' = (frames \ {f}) \cup
                  {[f EXCEPT !.from = s, !.to = port] : port \in OutPorts(s, f, table)}
    /\ UNCHANGED <<lan, root, cost, rootPort, blocked, bpdus, unsent>>

\* check_move_frame_up in a station, which keeps a frame or frees it.
MoveUp(f) ==
    /\ f.to \in Station
    /\ frames' = frames \ {f}
    /\ UNCHANGED <<lan, root, cost, rootPort, blocked, bpdus, tables, unsent>>

\* packet_arrive_from_network_layer in a station.  Bound: one frame and its
\* copies at a time.
Send(w) ==
    /\ w \in unsent /\ frames = {}
    /\ unsent' = unsent \ {w}
    /\ frames' = frames \cup {[src |-> w[1], dst |-> w[2], from |-> w[1], to |-> At[w[1]]]}
    /\ UNCHANGED <<lan, root, cost, rootPort, blocked, bpdus, tables>>

Next ==
    \/ \E p \in Ports : ProcessBpdu(p[1], p[2])
    \/ \E f \in frames : Forward(f) \/ MoveUp(f)
    \/ \E w \in unsent : Send(w)

Spec == Init /\ [][Next]_vars
-----------------------------------------------------------------------------
\* The types of the state.
TypeOK ==
    /\ root \in [Switch -> Switch]
    /\ \A s \in Switch : cost[s] \in Nat /\ rootPort[s] \in Neighbours(s) \cup {s}
    /\ blocked \subseteq Ports
    /\ \A p \in Ports : \A b \in ToSet(bpdus[p]) : b.root \in Switch
    /\ \A s \in Switch : tables[s] \subseteq Station \X (Switch \cup Station)
    /\ lan \in Lan /\ unsent \subseteq lan.flow

Settled == \A p \in Ports : bpdus[p] = <<>>

\* A frame that leaves by p leaves the next switch by any other open port.
Continues(p, q) == q[1] = p[2] /\ q[2] # p[1]

\* On links that are alike, whatever the order in which the BPDUs of all the
\* roots to be arrive, the ports left open when the last one has been read let no
\* frame circulate: no set of open ports feed one another (compare_bpdu,
\* block_port).  See the README for links that differ.
NoForwardingLoop ==
    Settled /\ lan.alike => \A F \in SUBSET (Ports \ blocked) :
                   F # {} => \E p \in F : \A q \in F : ~Continues(p, q)

\* The switch tables lead to their stations, though frames may circulate while
\* the tree is being built and flow over ports that block: from a switch with an
\* entry for a station the entries lead there, and not in a circle (SWITCHTABLE_NEW).
TablesLeadToStation ==
    \A h \in Station : \A S \in (SUBSET Switch) \ {{}} :
        (\A s \in S : Knows(s, h)) =>
            \E e \in UNION {tables[s] : s \in S} : e[1] = h /\ e[2] \notin S
==============================================================================
