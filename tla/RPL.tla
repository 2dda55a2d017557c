---------------------------------- MODULE RPL ----------------------------------
(***************************************************************************)
(* RPL: the DODAGs that nodes build from the DIO messages of their         *)
(* neighbours, with the poisoning of those that lose their parents.        *)
(*                                                                         *)
(* A trickle interval is longer than a message lasts; its doubling is left *)
(* out, as are DAO messages and the routes down, DIS messages, to which a  *)
(* DIO is the answer, and the configuration options, which are the same in *)
(* all DIOs.  Every DIO carries the sequence number 1, no preference and   *)
(* no grounded flag: nothing in the code sets others.                      *)
(***************************************************************************)
EXTENDS Naturals, Sequences

CONSTANTS
    Node, none,
    Order,        \* [Node -> the sequence of its neighbours], as first heard
    Root,         \* the nodes configured as roots
    Cost,         \* [{n, m} -> the increment of rank that a link can mean]
    Infinite,     \* INFINITE_RANK
    MaxRankInc,   \* max_rank_inc
    PoisonCount,  \* RPL_DEFAULT_POISON_COUNT
    MaxDisturbed  \* bound: the changes of the quality of links and the messages lost

VARIABLES
    dag,      \* [Node -> the root_info, joined_dodag and poison count of a node]
    heard,    \* [Node -> [Node -> lastDIOMSG of the neighbour, or none]]
    told,     \* [Node -> trickle t is over in the current interval]
    dios,     \* the DIO messages on their way
    inc,      \* [{n, m} -> the increment that the quality of a link now means]
    disturbed

vars == <<dag, heard, told, dios, inc, disturbed>>

Neighbours(n) == {Order[n][i] : i \in DOMAIN Order[n]}

\* The first of a set of neighbours in the neighbor_list of n.
First(n, S) == Order[n][CHOOSE i \in DOMAIN Order[n] :
                          Order[n][i] \in S /\ \A j \in 1 .. i - 1 : Order[n][j] \notin S]

\* A node without parents.
Outside(state, id, rank) ==
    [state |-> state, id |-> id, rank |-> rank, lowest |-> Infinite,
     parent |-> none, parents |-> {}, siblings |-> {}, poison |-> 0]

Init ==
    /\ dag = [n \in Node |-> IF n \in Root THEN Outside("root", n, 1)
                             ELSE Outside("isolated", none, Infinite)]
    /\ heard = [n \in Node |-> [m \in Neighbours(n) |-> none]]
    /\ told = [n \in Node |-> FALSE]
    /\ dios = {}
    /\ inc \in {f \in [DOMAIN Cost -> UNION {Cost[l] : l \in DOMAIN Cost}] :
                  \A l \in DOMAIN Cost : f[l] \in Cost[l]}
    /\ disturbed = 0
-----------------------------------------------------------------------------
(* The handlers work on the state of a node g (its part of dag) and on what  *)
(* it has heard, h; they are functions of the two.                           *)

\* lastDIOMSG of the neighbours S is freed.
Forget(h, S) == [m \in DOMAIN h |-> IF m \in S THEN none ELSE h[m]]

\* start_dio_poisoning
Poisoned(n, g, h) ==
    [g |-> [g EXCEPT !.state = "poisoning", !.parents = {}, !.parent = none,
                     !.rank = Infinite, !.lowest = Infinite, !.poison = 0],
     h |-> Forget(h, DOMAIN h), reset |-> TRUE]

\* start_as_root
AsRoot(n, g, h) == [g |-> Outside("root", n, 1), h |-> Forget(h, DOMAIN h), reset |-> TRUE]

\* The neighbours that get_preferred_dodag_dio_pdu considers.
Eligible(g, h) ==
    {m \in DOMAIN h : /\ h[m] # none /\ h[m].rank < Infinite
                      /\ ~(g.state = "joined" /\ h[m].id = g.id /\ h[m].rank >= g.rank)}

\* get_preferred_dodag_dio_pdu: the neighbour whose message it returns.  All
\* messages being as good, it is the first, and otherwise the old parent.
Preferred(n, g, h) ==
    IF Eligible(g, h) # {} THEN First(n, Eligible(g, h))
    ELSE IF g.state # "joined" \/ g.parent = none \/ h[g.parent] = none THEN none
    ELSE g.parent

\* Its output "same".
Same(n, g, h) ==
    LET p == Preferred(n, g, h)
    IN  IF p # none THEN g.state \in {"joined", "poisoning"} /\ g.id = h[p].id
        ELSE g.state = "root"

\* join_dodag_iteration
Joined(id) == Outside("joined", id, Infinite)

\* The neighbours whose rank choose_parents_and_siblings computes.
Candidates(g, h) ==
    {m \in DOMAIN h : h[m] # none /\ h[m].id = g.id /\ h[m].rank < Infinite /\ h[m].rank <= g.rank}

\* compute_candidate_rank.  No path is so long that ranks reach the 16 bits
\* before MaxRankInc.
RankVia(n, m, h) ==
    LET r == h[m].rank + inc[{n, m}] IN IF r > Infinite THEN Infinite ELSE r

\* The first of the neighbours that give the lowest rank.
Best(n, C, h) == First(n, {m \in C : \A k \in C : RankVia(n, m, h) <= RankVia(n, k, h)})

\* The end of choose_parents_and_siblings: the neighbour p becomes the parent.
Chosen(n, g, h, C, p) ==
    LET r == RankVia(n, p, h)
        kept == {m \in C : RankVia(n, m, h) < Infinite /\ h[m].rank <= r}
    IN  [g |-> [g EXCEPT !.state = "joined", !.rank = r, !.parent = p,
                         !.lowest = IF r < @ THEN r ELSE @,
                         !.parents = {m \in kept : h[m].rank < r},
                         !.siblings = {m \in kept : h[m].rank = r}],
         h |-> Forget(h, DOMAIN h \ kept), reset |-> FALSE]

\* choose_parents_and_siblings of a node that has just joined the DODAG of a
\* message it remembers.
ChooseAnew(n, id, h) ==
    LET g == Joined(id)
        C == Candidates(g, h)
        p == Best(n, C, h)
    IN  IF C = {} \/ RankVia(n, p, h) >= Infinite THEN Poisoned(n, g, h)
        ELSE [Chosen(n, g, h, C, p) EXCEPT !.reset = TRUE]

\* choose_parents_and_siblings.  The rank of a parent that is followed is read
\* from another structure, where it is 0.
Choose(n, g0, h0) ==
    LET C == Candidates(g0, h0)
        h == Forget(h0, {m \in DOMAIN h0 : h0[m] # none /\ h0[m].id = g0.id
                                             /\ h0[m].rank < Infinite /\ h0[m].rank > g0.rank})
        g == [g0 EXCEPT !.parents = {}, !.siblings = {}]
        p == Best(n, C, h)
        tooMuch == RankVia(n, p, h) >= Infinite \/ RankVia(n, p, h) > g.lowest + MaxRankInc
    IN  IF C = {}
        THEN IF Preferred(n, g, h) # none /\ ~Same(n, g, h)
             THEN ChooseAnew(n, h[Preferred(n, g, h)].id, h)
             ELSE Poisoned(n, g, h)
        ELSE IF ~tooMuch THEN Chosen(n, g, h, C, p)
        ELSE IF g.parent # none /\ h[g.parent] # none THEN ChooseAnew(n, h[g.parent].id, h)
        ELSE Poisoned(n, g, h)

\* join_dodag_iteration with the preferred message, and choose_parents_and_siblings.
JoinPreferred(n, g, h) == ChooseAnew(n, h[Preferred(n, g, h)].id, h)

\* update_dodag_config starts a new trickle interval.  All configurations are the
\* same, but dio_pdu_dodag_config_changed also takes the one of a parent of which
\* no message was remembered for a change.
ConfigUpdated(x, m, first) ==
    IF first /\ m \in x.g.parents THEN [g |-> x.g, h |-> x.h, reset |-> TRUE] ELSE x

\* What a node does with a DIO that it has remembered, once it knows the
\* preferred one; first tells that it remembered none of m.
Reconsider(n, g, h, m, first) ==
    LET p == Preferred(n, g, h)
        stay == [g |-> g, h |-> h, reset |-> FALSE]
    IN  IF g.state = "poisoning" THEN stay
        ELSE IF p # none /\ ~(g.state = "joined" /\ Same(n, g, h)) THEN JoinPreferred(n, g, h)
        ELSE IF g.state # "joined" THEN stay
        ELSE IF ~Same(n, g, h) THEN AsRoot(n, g, h)
        ELSE ConfigUpdated(IF h[m].id = g.id THEN Choose(n, g, h) ELSE stay, m, first)

\* Mutant of Ignored: it forgets a parent that has sunk below it.
LowerIgnored(g, m, d) ==
    g.id = d.id /\ ((g.state = "joined" /\ g.rank < d.rank) \/ g.state = "root")

\* The messages that rpl_process_dio_msg makes a node forget: those of the members
\* below it.
Ignored(g, m, d) ==
    /\ g.id = d.id
    /\ \/ g.state = "joined" /\ g.rank < d.rank /\ m \notin g.parents \cup g.siblings
       \/ g.state = "root"

\* Mutant of Unchanged: only the first message of a neighbour counts.
Heard(h, m, d) == h[m] # none

\* The message says what the last one said.
Unchanged(h, m, d) == h[m] = d

\* rpl_process_dio_msg
Processed(n, g, h, m, d) ==
    IF Unchanged(h, m, d) THEN [g |-> g, h |-> h, reset |-> FALSE]
    ELSE IF Ignored(g, m, d) THEN [g |-> g, h |-> Forget(h, {m}), reset |-> FALSE]
    ELSE LET known == [h EXCEPT ![m] = d]
         IN  IF g.state = "joined" /\ g.parent = m /\ d.rank = Infinite THEN Poisoned(n, g, known)
             ELSE Reconsider(n, g, known, m, h[m] = none)
-----------------------------------------------------------------------------
\* A node takes the state x.g and remembers x.h; rpl_trickle_reset starts a new
\* interval.
Becomes(n, x) ==
    /\ dag' = [dag EXCEPT ![n] = x.g]
    /\ heard' = [heard EXCEPT ![n] = x.h]
    /\ told' = [told EXCEPT ![n] = IF x.reset THEN FALSE ELSE @]

Receive(m) ==
    /\ m \in dios
    /\ dios' = dios \ {m}
    /\ Becomes(m.to, Processed(m.to, dag[m.to], heard[m.to], m.from, m.dio))
    /\ UNCHANGED <<inc, disturbed>>

Lose(m) ==
    /\ m \in dios /\ disturbed < MaxDisturbed
    /\ dios' = dios \ {m} /\ disturbed' = disturbed + 1
    /\ UNCHANGED <<dag, heard, told, inc>>

\* rpl_trickle_handle_t_timeout.  An interval is longer than a message lasts.
TrickleT(n) ==
    /\ dag[n].state # "isolated" /\ ~told[n]
    /\ \A m \in dios : m.from # n
    /\ dios' = dios \cup {[from |-> n, to |-> m, dio |-> [id |-> dag[n].id, rank |-> dag[n].rank]] :
                            m \in Neighbours(n)}
    /\ told' = [told EXCEPT ![n] = TRUE]
    /\ UNCHANGED <<dag, heard, inc, disturbed>>

\* rpl_trickle_handle_i_timeout
TrickleI(n) ==
    /\ told[n]
    /\ \A m \in dios : m.from # n
    /\ LET g == dag[n]
           h == heard[n]
       IN  IF g.state # "poisoning" THEN Becomes(n, [g |-> g, h |-> h, reset |-> TRUE])
           ELSE IF g.poison < PoisonCount
           THEN Becomes(n, [g |-> [g EXCEPT !.poison = @ + 1], h |-> h, reset |-> TRUE])
           ELSE IF Preferred(n, g, h) # none THEN Becomes(n, JoinPreferred(n, g, h))
           ELSE Becomes(n, AsRoot(n, g, h))
    /\ UNCHANGED <<dios, inc, disturbed>>

\* Nodes move: the quality of a link changes.
Change(l) ==
    /\ disturbed < MaxDisturbed
    /\ \E c \in Cost[l] \ {inc[l]} : inc' = [inc EXCEPT ![l] = c]
    /\ disturbed' = disturbed + 1
    /\ UNCHANGED <<dag, heard, told, dios>>

Next ==
    \/ \E m \in dios : Receive(m) \/ Lose(m)
    \/ \E n \in Node : TrickleT(n) \/ TrickleI(n)
    \/ \E l \in DOMAIN Cost : Change(l)

Spec == Init /\ [][Next]_vars

\* What the event list makes sure of: the trickle timers of n go off, so that
\* told[n] changes, and the messages of n arrive.  These stand for TrickleT(n),
\* TrickleI(n), and Receive or Lose, the only steps that do the one or the other.
TimersGoOff(n) == dag[n].state # "isolated" /\ told' = [told EXCEPT ![n] = ~ @]
MessageArrives(n) == \E m \in dios : m.from = n /\ dios' = dios \ {m}
-----------------------------------------------------------------------------
\* The types of the state.
TypeOK ==
    /\ \A n \in Node :
          LET g == dag[n]
          IN  /\ g.state \in {"isolated", "root", "joined", "poisoning"}
              /\ g.id \in Node \cup {none} /\ g.rank \in 1 .. Infinite /\ g.lowest \in 1 .. Infinite
              /\ g.parent \in Neighbours(n) \cup {none}
              /\ g.parents \subseteq Neighbours(n) /\ g.siblings \subseteq Neighbours(n)
              /\ g.poison \in 0 .. PoisonCount
    /\ \A n \in Node : told[n] \in BOOLEAN
    /\ \A m \in dios : m.to \in Neighbours(m.from) /\ m.dio.rank \in 1 .. Infinite
    /\ disturbed \in 0 .. MaxDisturbed

InDodag == {n \in Node : dag[n].state = "joined"}

\* A member remembers the last message of its preferred parent and of every parent
\* and sibling, and that message, unless it is of another DODAG by now, puts them
\* above the node or level with it: rpl_process_dio_msg forgets the messages of
\* neighbours below the node by the parent sets and the rank of the moment.
ParentsAreKnown ==
    \A n \in InDodag :
      /\ dag[n].parent \in dag[n].parents
      /\ \A p \in dag[n].parents \cup dag[n].siblings :
           /\ heard[n][p] # none
           /\ heard[n][p].id = dag[n].id =>
                IF p \in dag[n].parents THEN heard[n][p].rank < dag[n].rank
                                        ELSE heard[n][p].rank = dag[n].rank

\* Every node is a member of the DODAG of the root, and the preferred parents,
\* the default routes of rpl_add_route_to_parent, form no loop.
Settled ==
    /\ InDodag = Node \ Root
    /\ \A S \in SUBSET InDodag : S # {} => \E n \in S : dag[n].parent \notin S
=============================================================================
