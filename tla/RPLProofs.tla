----------------------------- MODULE RPLProofs ------------------------------
(***************************************************************************)
(* For every network of nodes, however often links change and DIOs are     *)
(* lost: the types, and that a member of a DODAG remembers a message of    *)
(* each of its parents and siblings.                                       *)
(***************************************************************************)
EXTENDS RPL, WellFoundedInduction, TLAPS

\* The base of a DIO message; a rank is not zero, INFINITE_RANK the highest.
IsRank(r) == r \in Nat /\ 1 <= r /\ r <= Infinite
Rank == {r \in Nat : IsRank(r)}
Dio == [id : Node \cup {none}, rank : Rank]

\* What the constants are: neighbours are mutual, every link to one has a cost, and a cost is
\* an increment of at least 1 (RPL_MINIMUM_RANK_INCREMENT).
Configured ==
    /\ none \notin Node /\ none \notin Dio
    /\ Order \in [Node -> Seq(Node)]
    /\ \A n \in Node : \A m \in Neighbours(n) : n \in Neighbours(m) /\ {n, m} \in DOMAIN Cost
    /\ \A l \in DOMAIN Cost : Cost[l] \subseteq Nat \ {0}
    /\ Infinite \in Nat /\ 1 <= Infinite /\ MaxRankInc \in Nat
    /\ PoisonCount \in Nat /\ MaxDisturbed \in Nat

State == {"isolated", "root", "joined", "poisoning"}
Poisons == {k \in Nat : k <= PoisonCount}

Dag(n) ==
    [state : State, id : Node \cup {none}, rank : Rank, lowest : Rank,
     parent : Neighbours(n) \cup {none}, parents : SUBSET Neighbours(n),
     siblings : SUBSET Neighbours(n), poison : Poisons]

\* What n may have heard.
Memory(n) == [Neighbours(n) -> Dio \cup {none}]

\* ParentsAreKnown of one parent or sibling p.
Fits(g, h, p) ==
    h[p].id = g.id => IF p \in g.parents THEN h[p].rank < g.rank ELSE h[p].rank = g.rank

Remembers(g, h) ==
    g.state = "joined" => /\ g.parent \in g.parents
                          /\ \A p \in g.parents \cup g.siblings : h[p] # none /\ Fits(g, h, p)

Good(n, g, h) == g \in Dag(n) /\ h \in Memory(n) /\ Remembers(g, h)

\* What a handler leaves.
Sound(n, x) == Good(n, x.g, x.h) /\ x.reset \in BOOLEAN

IncInv == DOMAIN inc = DOMAIN Cost /\ \A l \in DOMAIN Cost : inc[l] \in Cost[l]

-----------------------------------------------------------------------------
(* The order of neighbours and the least of them.                          *)

LEMMA Least ==
    ASSUME NEW T \in SUBSET Nat, T # {}
    PROVE  \E x \in T : \A y \in T : x <= y
<1> DEFINE R == OpToRel(<, Nat)
<1>1. IsWellFoundedOn(R, Nat)
  BY NatLessThanWellFounded
<1>2. PICK x \in T : \A y \in T : ~ (<<y, x>> \in R)
  <2> HIDE DEF R
  <2> QED BY <1>1, WFMin
<1>3. \A y \in T : ~ (y < x)
  BY <1>2 DEF OpToRel
<1> QED BY <1>3

LEMMA FirstIsOne ==
    ASSUME Configured, NEW n \in Node, NEW S \in SUBSET Neighbours(n), S # {}
    PROVE  First(n, S) \in S
<1> DEFINE I == {i \in DOMAIN Order[n] : Order[n][i] \in S}
<1>1. Order[n] \in Seq(Node)
  BY DEF Configured
<1>2. DOMAIN Order[n] \subseteq Nat
  BY <1>1
<1>3. I \in SUBSET Nat /\ I # {}
  BY <1>2 DEF Neighbours
<1>4. PICK i \in I : \A j \in I : i <= j
  <2> HIDE DEF I
  <2> QED BY <1>3, Least
<1>5. \A j \in 1 .. i - 1 : Order[n][j] \notin S
  <2> SUFFICES ASSUME NEW j \in 1 .. i - 1, Order[n][j] \in S PROVE FALSE
    OBVIOUS
  <2>1. i \in DOMAIN Order[n] /\ i \in Nat /\ DOMAIN Order[n] = 1 .. Len(Order[n]) /\ Len(Order[n]) \in Nat
    BY <1>1, <1>2, <1>4
  <2>2. j \in DOMAIN Order[n] /\ j < i
    BY <2>1
  <2>3. j \in I
    BY <2>2
  <2> QED BY <1>2, <1>4, <2>1, <2>2, <2>3
<1> DEFINE Q(k) == Order[n][k] \in S /\ \A j \in 1 .. k - 1 : Order[n][j] \notin S
<1>6. \E k \in DOMAIN Order[n] : Q(k)
  BY <1>4, <1>5
<1>7. Q(CHOOSE k \in DOMAIN Order[n] : Q(k))
  <2> HIDE DEF Q
  <2> QED BY <1>6
<1> QED BY <1>7 DEF First

LEMMA NeighbourFacts ==
    ASSUME Configured, NEW n \in Node, NEW m \in Neighbours(n)
    PROVE  m \in Node /\ n \in Neighbours(m) /\ {n, m} \in DOMAIN Cost /\ m # none
<1>1. Order[n] \in Seq(Node) /\ Neighbours(n) \subseteq Node
  BY DEF Configured, Neighbours
<1> QED BY <1>1 DEF Configured

-----------------------------------------------------------------------------
(* The fields of the state of a node, and what handlers make of it.        *)

LEMMA DagFields ==
    ASSUME NEW n, NEW g \in Dag(n)
    PROVE  /\ g.state \in State /\ g.id \in Node \cup {none}
           /\ g.rank \in Rank /\ g.lowest \in Rank
           /\ g.parent \in Neighbours(n) \cup {none}
           /\ g.parents \subseteq Neighbours(n) /\ g.siblings \subseteq Neighbours(n)
           /\ g.poison \in Poisons
  BY DEF Dag

LEMMA OutsideIsDag ==
    ASSUME Configured, NEW n, NEW s \in State, NEW id \in Node \cup {none}, NEW r \in Rank
    PROVE  Outside(s, id, r) \in Dag(n) /\ Outside(s, id, r).state = s /\ Outside(s, id, r).id = id
<1>1. Infinite \in Rank /\ 0 \in Poisons
  BY DEF Configured, Rank, IsRank, Poisons
<1> QED BY <1>1 DEF Outside, Dag

\* What has been heard of a neighbour, when something has.
LEMMA HeardFields ==
    ASSUME NEW n, NEW h \in Memory(n), NEW m \in Neighbours(n), h[m] # none
    PROVE  /\ DOMAIN h = Neighbours(n)
           /\ h[m] \in Dio /\ h[m].id \in Node \cup {none} /\ h[m].rank \in Rank
  BY DEF Memory, Dio

LEMMA ForgetKeepsMemory ==
    ASSUME NEW n, NEW h \in Memory(n), NEW S
    PROVE  /\ Forget(h, S) \in Memory(n)
           /\ \A m \in Neighbours(n) : Forget(h, S)[m] = IF m \in S THEN none ELSE h[m]
  BY DEF Memory, Forget

\* A node that is no member remembers its parents, for it has none.
LEMMA OutsideRemembers ==
    ASSUME NEW g, NEW h, g.state # "joined"
    PROVE  Remembers(g, h)
  BY DEF Remembers

LEMMA PoisonedIsSound ==
    ASSUME Configured, NEW n \in Node, NEW g \in Dag(n), NEW h \in Memory(n)
    PROVE  Sound(n, Poisoned(n, g, h))
<1> DEFINE x == Poisoned(n, g, h)
<1>1. Infinite \in Rank /\ 0 \in Poisons
  BY DEF Configured, Rank, IsRank, Poisons
<1>2. x.g \in Dag(n) /\ x.g.state = "poisoning"
  BY <1>1 DEF Poisoned, Dag, State
<1>3. x.h \in Memory(n) /\ x.reset = TRUE
  BY ForgetKeepsMemory DEF Poisoned
<1> QED BY <1>2, <1>3, OutsideRemembers DEF Sound, Good

LEMMA AsRootIsSound ==
    ASSUME Configured, NEW n \in Node, NEW g, NEW h \in Memory(n)
    PROVE  Sound(n, AsRoot(n, g, h))
<1> DEFINE x == AsRoot(n, g, h)
<1>1. 1 \in Rank
  BY DEF Configured, Rank, IsRank
<1>2. x.g \in Dag(n) /\ x.g.state = "root"
  BY <1>1, OutsideIsDag DEF AsRoot, State
<1>3. x.h \in Memory(n) /\ x.reset = TRUE
  BY ForgetKeepsMemory DEF AsRoot
<1> QED BY <1>2, <1>3, OutsideRemembers DEF Sound, Good

-----------------------------------------------------------------------------
(* The choice of parents.                                                  *)

\* The rank through a neighbour is a rank, above that of the neighbour.
LEMMA RankViaNeighbour ==
    ASSUME Configured, IncInv, NEW n \in Node, NEW h \in Memory(n),
           NEW m \in Neighbours(n), h[m] # none
    PROVE  /\ RankVia(n, m, h) \in Rank
           /\ RankVia(n, m, h) < Infinite => h[m].rank < RankVia(n, m, h)
<1>1. h[m].rank \in Nat /\ 1 <= h[m].rank
  BY HeardFields DEF Rank, IsRank
<1>2. {n, m} \in DOMAIN Cost
  BY NeighbourFacts
<1>3. inc[{n, m}] \in Nat /\ inc[{n, m}] # 0
  BY <1>2 DEF IncInv, Configured
<1>4. Infinite \in Nat /\ 1 <= Infinite
  BY DEF Configured
<1> QED BY <1>1, <1>3, <1>4 DEF RankVia, Rank, IsRank

LEMMA BestIsOne ==
    ASSUME Configured, IncInv, NEW n \in Node, NEW h \in Memory(n),
           NEW C \in SUBSET Neighbours(n), C # {}, \A m \in C : h[m] # none
    PROVE  Best(n, C, h) \in C
<1> DEFINE T == {RankVia(n, m, h) : m \in C}
           B == {m \in C : \A k \in C : RankVia(n, m, h) <= RankVia(n, k, h)}
<1>1. \A m \in C : RankVia(n, m, h) \in Nat
  BY RankViaNeighbour DEF Rank
<1>2. T \in SUBSET Nat /\ T # {}
  BY <1>1
<1>3. PICK x \in T : \A y \in T : x <= y
  <2> HIDE DEF T
  <2> QED BY <1>2, Least
<1>4. B # {}
  BY <1>3
<1>5. First(n, B) \in B
  BY <1>4, FirstIsOne
<1> QED BY <1>5 DEF Best

\* The candidates of choose_parents_and_siblings, or some of them.
Choosable(n, g, h, C) ==
    C \subseteq Neighbours(n) /\ \A m \in C : h[m] # none /\ h[m].id = g.id

LEMMA CandidatesChoosable ==
    ASSUME NEW n, NEW g, NEW h \in Memory(n)
    PROVE  Choosable(n, g, h, Candidates(g, h))
  BY DEF Choosable, Candidates, Memory

LEMMA ChosenIsSound ==
    ASSUME Configured, IncInv, NEW n \in Node, NEW g \in Dag(n), NEW h \in Memory(n),
           NEW C, Choosable(n, g, h, C), NEW p \in C, RankVia(n, p, h) < Infinite
    PROVE  Sound(n, Chosen(n, g, h, C, p))
<1> DEFINE r == RankVia(n, p, h)
           kept == {m \in C : RankVia(n, m, h) < Infinite /\ h[m].rank <= r}
           x == Chosen(n, g, h, C, p)
<1>1. C \subseteq Neighbours(n) /\ \A m \in C : h[m] # none /\ h[m].id = g.id
  BY DEF Choosable
<1>2. r \in Rank /\ h[p].rank < r
  BY <1>1, RankViaNeighbour
<1>3. \A m \in C : h[m].rank \in Nat
  BY <1>1, HeardFields DEF Rank
<1>4. r \in Nat
  BY <1>2 DEF Rank
<1>5. p \in kept
  BY <1>2, <1>3, <1>4
<1>6. /\ x.g = [g EXCEPT !.state = "joined", !.rank = r, !.parent = p,
                         !.lowest = IF r < @ THEN r ELSE @,
                         !.parents = {m \in kept : h[m].rank < r},
                         !.siblings = {m \in kept : h[m].rank = r}]
      /\ x.h = Forget(h, DOMAIN h \ kept) /\ x.reset = FALSE
  BY DEF Chosen
<1>7. /\ x.g.state = "joined" /\ x.g.rank = r /\ x.g.parent = p /\ x.g.id = g.id
      /\ x.g.parents = {m \in kept : h[m].rank < r}
      /\ x.g.siblings = {m \in kept : h[m].rank = r}
      /\ x.g \in Dag(n)
  <2> HIDE DEF kept, r, x
  <2>1. kept \subseteq Neighbours(n) /\ p \in Neighbours(n)
    BY <1>1 DEF kept
  <2> DEFINE P == {m \in kept : h[m].rank < r}
             S == {m \in kept : h[m].rank = r}
             low == IF r < g.lowest THEN r ELSE g.lowest
  <2>2. P \in SUBSET Neighbours(n) /\ S \in SUBSET Neighbours(n)
    BY <2>1
  <2>3. low \in Rank
    BY <1>2, DagFields
  <2>4. x.g = [g EXCEPT !.state = "joined", !.rank = r, !.parent = p, !.lowest = low,
                        !.parents = P, !.siblings = S]
    BY <1>6
  <2>5. /\ x.g.state = "joined" /\ x.g.rank = r /\ x.g.parent = p /\ x.g.id = g.id
        /\ x.g.parents = P /\ x.g.siblings = S /\ x.g \in Dag(n)
    <3> HIDE DEF P, S, low
    <3>1. DOMAIN g = {"state", "id", "rank", "lowest", "parent", "parents", "siblings", "poison"}
      BY DEF Dag
    <3>2. /\ x.g.state = "joined" /\ x.g.rank = r /\ x.g.parent = p /\ x.g.id = g.id
          /\ x.g.parents = P /\ x.g.siblings = S /\ x.g.lowest = low /\ x.g.poison = g.poison
      BY <2>4, <3>1
    <3>3. x.g \in Dag(n)
      BY <1>2, <2>1, <2>2, <2>3, <2>4 DEF Dag, State
    <3> QED BY <3>2, <3>3
  <2> QED BY <2>5
<1>8. /\ x.h \in Memory(n)
      /\ \A m \in kept : x.h[m] = h[m]
  <2> HIDE DEF kept, r, x
  <2>1. kept \subseteq Neighbours(n)
    BY <1>1 DEF kept
  <2> QED BY <1>6, <2>1, ForgetKeepsMemory
<1>9. ASSUME NEW m \in x.g.parents \cup x.g.siblings
      PROVE  x.h[m] # none /\ Fits(x.g, x.h, m)
  <2> HIDE DEF x, r
  <2>1. m \in kept /\ (m \in x.g.parents <=> h[m].rank < r) /\ (m \notin x.g.parents => h[m].rank = r)
    BY <1>7, <1>9
  <2> HIDE DEF kept
  <2>2. x.h[m] = h[m] /\ h[m] # none
    BY <1>1, <1>8, <2>1 DEF kept
  <2> QED BY <1>7, <2>1, <2>2 DEF Fits
<1>10. x.g.parent \in x.g.parents
  BY <1>2, <1>5, <1>7
<1>11. Sound(n, x)
  <2> HIDE DEF x, kept, r
  <2> QED BY <1>6, <1>7, <1>8, <1>9, <1>10 DEF Sound, Good, Remembers
<1> QED BY <1>11

LEMMA ChooseAnewIsSound ==
    ASSUME Configured, IncInv, NEW n \in Node, NEW id \in Node \cup {none}, NEW h \in Memory(n)
    PROVE  Sound(n, ChooseAnew(n, id, h))
<1> DEFINE g == Joined(id)
           C == Candidates(g, h)
           p == Best(n, C, h)
           y == Chosen(n, g, h, C, p)
<1>1. g \in Dag(n)
  <2>1. Infinite \in Rank
    BY DEF Configured, Rank, IsRank
  <2> QED BY <2>1, OutsideIsDag DEF Joined, State
<1>2. CASE C = {} \/ RankVia(n, p, h) >= Infinite
  <2>1. ChooseAnew(n, id, h) = Poisoned(n, g, h)
    BY <1>2 DEF ChooseAnew
  <2> QED BY <1>1, <2>1, PoisonedIsSound
<1>3. CASE ~(C = {} \/ RankVia(n, p, h) >= Infinite)
  <2>1. ChooseAnew(n, id, h) = [y EXCEPT !.reset = TRUE]
    BY <1>3 DEF ChooseAnew
  <2>2. Choosable(n, g, h, C)
    BY CandidatesChoosable
  <2>3. C \in SUBSET Neighbours(n) /\ \A m \in C : h[m] # none
    BY <2>2 DEF Choosable
  <2>4. p \in C
    <3> HIDE DEF C
    <3> QED BY <1>3, <2>3, BestIsOne
  <2>5. RankVia(n, p, h) < Infinite
    <3> HIDE DEF p, C
    <3>1. RankVia(n, p, h) \in Rank
      BY <2>3, <2>4, RankViaNeighbour
    <3> QED BY <1>3, <3>1 DEF Rank, Configured
  <2>6. Sound(n, y)
    <3> HIDE DEF g, C, p
    <3> QED BY <1>1, <2>2, <2>4, <2>5, ChosenIsSound
  <2>7. [y EXCEPT !.reset = TRUE].g = y.g /\ [y EXCEPT !.reset = TRUE].h = y.h
        /\ [y EXCEPT !.reset = TRUE].reset = TRUE
    BY DEF Chosen
  <2> HIDE DEF y
  <2> QED BY <2>1, <2>6, <2>7 DEF Sound
<1> QED BY <1>2, <1>3

\* The neighbour whose message is preferred has sent one.
LEMMA PreferredIsHeard ==
    ASSUME Configured, NEW n \in Node, NEW g \in Dag(n), NEW h \in Memory(n),
           Preferred(n, g, h) # none
    PROVE  /\ Preferred(n, g, h) \in Neighbours(n)
           /\ h[Preferred(n, g, h)] # none
           /\ h[Preferred(n, g, h)].id \in Node \cup {none}
<1> DEFINE E == Eligible(g, h)
           p == Preferred(n, g, h)
<1>1. E \in SUBSET Neighbours(n) /\ \A m \in E : h[m] # none
  BY DEF Eligible, Memory
<1>2. p \in Neighbours(n) /\ h[p] # none
  <2>1. CASE E # {}
    <3>1. First(n, E) \in E
      <4> HIDE DEF E
      <4> QED BY <1>1, <2>1, FirstIsOne
    <3>2. p = First(n, E)
      BY <2>1 DEF Preferred
    <3> QED BY <1>1, <3>1, <3>2
  <2>2. CASE E = {}
    <3>1. p = g.parent /\ g.parent # none /\ h[g.parent] # none
      BY <2>2 DEF Preferred
    <3> QED BY <3>1, DagFields
  <2> QED BY <2>1, <2>2
<1> HIDE DEF p
<1>3. h[p].id \in Node \cup {none}
  BY <1>2, HeardFields
<1> QED BY <1>2, <1>3 DEF p

LEMMA JoinPreferredIsSound ==
    ASSUME Configured, IncInv, NEW n \in Node, NEW g \in Dag(n), NEW h \in Memory(n),
           Preferred(n, g, h) # none
    PROVE  Sound(n, JoinPreferred(n, g, h))
  BY PreferredIsHeard, ChooseAnewIsSound DEF JoinPreferred

LEMMA ChooseIsSound ==
    ASSUME Configured, IncInv, NEW n \in Node, NEW g0 \in Dag(n), NEW h0 \in Memory(n)
    PROVE  Sound(n, Choose(n, g0, h0))
<1> DEFINE C == Candidates(g0, h0)
           h == Forget(h0, {m \in DOMAIN h0 : h0[m] # none /\ h0[m].id = g0.id
                                             /\ h0[m].rank < Infinite /\ h0[m].rank > g0.rank})
           g == [g0 EXCEPT !.parents = {}, !.siblings = {}]
           p == Best(n, C, h)
           tooMuch == RankVia(n, p, h) >= Infinite \/ RankVia(n, p, h) > g.lowest + MaxRankInc
<1>1. g \in Dag(n) /\ g.id = g0.id
  BY DEF Dag
<1>2. h \in Memory(n)
  BY ForgetKeepsMemory
<1>3. Choosable(n, g, h, C)
  <2>1. ASSUME NEW m \in C
        PROVE  m \in Neighbours(n) /\ h[m] # none /\ h[m].id = g.id
    <3>1. m \in Neighbours(n) /\ h0[m] # none /\ h0[m].id = g0.id /\ h0[m].rank <= g0.rank
      BY <2>1 DEF Candidates, Memory
    <3>2. h0[m].rank \in Nat /\ g0.rank \in Nat
      BY <3>1, HeardFields, DagFields DEF Rank
    <3>3. h[m] = h0[m]
      BY <3>1, <3>2, ForgetKeepsMemory
    <3> QED BY <1>1, <3>1, <3>3
  <2> QED BY <2>1 DEF Choosable
<1> DEFINE foreign == Preferred(n, g, h) # none /\ ~Same(n, g, h)
           followed == g.parent # none /\ h[g.parent] # none
<1>4. Choose(n, g0, h0) =
        IF C = {}
        THEN IF foreign THEN ChooseAnew(n, h[Preferred(n, g, h)].id, h) ELSE Poisoned(n, g, h)
        ELSE IF ~tooMuch THEN Chosen(n, g, h, C, p)
        ELSE IF followed THEN ChooseAnew(n, h[g.parent].id, h)
        ELSE Poisoned(n, g, h)
  BY DEF Choose
<1> HIDE DEF g, h, C
<1>5. CASE C = {} /\ foreign
  <2>1. Choose(n, g0, h0) = ChooseAnew(n, h[Preferred(n, g, h)].id, h)
    BY <1>4, <1>5
  <2>2. h[Preferred(n, g, h)].id \in Node \cup {none}
    BY <1>1, <1>2, <1>5, PreferredIsHeard
  <2> QED BY <1>2, <2>1, <2>2, ChooseAnewIsSound
<1>6. CASE C # {} /\ ~tooMuch
  <2>1. Choose(n, g0, h0) = Chosen(n, g, h, C, p)
    BY <1>4, <1>6
  <2>2. C \in SUBSET Neighbours(n) /\ \A m \in C : h[m] # none
    BY <1>3 DEF Choosable
  <2>3. p \in C
    BY <1>2, <1>6, <2>2, BestIsOne
  <2> HIDE DEF p
  <2>4. RankVia(n, p, h) \in Rank
    BY <1>2, <2>2, <2>3, RankViaNeighbour
  <2>5. RankVia(n, p, h) < Infinite
    BY <1>6, <2>4 DEF Rank, Configured
  <2> QED BY <1>1, <1>2, <1>3, <2>1, <2>3, <2>5, ChosenIsSound
<1>7. CASE C # {} /\ tooMuch /\ followed
  <2>1. Choose(n, g0, h0) = ChooseAnew(n, h[g.parent].id, h)
    BY <1>4, <1>7
  <2>2. h[g.parent].id \in Node \cup {none}
    <3>1. g.parent \in Neighbours(n) /\ h[g.parent] # none
      BY <1>1, <1>7, DagFields
    <3> QED BY <1>2, <3>1, HeardFields
  <2> QED BY <1>2, <2>1, <2>2, ChooseAnewIsSound
<1>8. CASE (C = {} /\ ~foreign) \/ (C # {} /\ tooMuch /\ ~followed)
  <2>1. Choose(n, g0, h0) = Poisoned(n, g, h)
    BY <1>4, <1>8
  <2> QED BY <1>1, <1>2, <2>1, PoisonedIsSound
<1> QED BY <1>5, <1>6, <1>7, <1>8

-----------------------------------------------------------------------------
(* The processing of a message.                                            *)

\* All but the message of m fits.
RemembersBut(g, h, m) ==
    g.state = "joined" => /\ g.parent \in g.parents
                          /\ \A p \in g.parents \cup g.siblings : h[p] # none /\ (p # m => Fits(g, h, p))

LEMMA ConfigUpdatedIsSound ==
    ASSUME NEW n, NEW x, NEW m, NEW first, Sound(n, x)
    PROVE  Sound(n, ConfigUpdated(x, m, first))
<1> DEFINE y == [g |-> x.g, h |-> x.h, reset |-> TRUE]
<1>1. ConfigUpdated(x, m, first) = x \/ ConfigUpdated(x, m, first) = y
  BY DEF ConfigUpdated
<1>2. y.g = x.g /\ y.h = x.h /\ y.reset \in BOOLEAN
  OBVIOUS
<1>3. Sound(n, y)
  BY <1>2 DEF Sound
<1> QED BY <1>1, <1>3

LEMMA ReconsiderIsSound ==
    ASSUME Configured, IncInv, NEW n \in Node, NEW g \in Dag(n), NEW h \in Memory(n),
           NEW m \in Neighbours(n), RemembersBut(g, h, m), NEW first
    PROVE  Sound(n, Reconsider(n, g, h, m, first))
<1> DEFINE p == Preferred(n, g, h)
           stay == [g |-> g, h |-> h, reset |-> FALSE]
           same == Same(n, g, h)
           joined == g.state = "joined"
           chosen == IF h[m].id = g.id THEN Choose(n, g, h) ELSE stay
<1>1. ASSUME ~joined \/ h[m].id # g.id PROVE Sound(n, stay)
  <2>1. Remembers(g, h)
    BY <1>1 DEF RemembersBut, Remembers, Fits
  <2> QED BY <2>1 DEF Sound, Good
<1>2. Reconsider(n, g, h, m, first) =
        IF g.state = "poisoning" THEN stay
        ELSE IF p # none /\ ~(joined /\ same) THEN JoinPreferred(n, g, h)
        ELSE IF ~joined THEN stay
        ELSE IF ~same THEN AsRoot(n, g, h)
        ELSE ConfigUpdated(chosen, m, first)
  BY DEF Reconsider
<1>3. CASE g.state = "poisoning"
  BY <1>1, <1>2, <1>3
<1>4. CASE g.state # "poisoning" /\ p # none /\ ~(joined /\ same)
  BY <1>2, <1>4, JoinPreferredIsSound
<1>5. CASE g.state # "poisoning" /\ ~(p # none /\ ~(joined /\ same)) /\ ~joined
  BY <1>1, <1>2, <1>5
<1>6. CASE g.state # "poisoning" /\ p = none /\ joined /\ ~same
  BY <1>2, <1>6, AsRootIsSound
<1>7. CASE g.state # "poisoning" /\ joined /\ same
  <2>1. Sound(n, chosen)
    BY <1>1, ChooseIsSound
  <2>2. Reconsider(n, g, h, m, first) = ConfigUpdated(chosen, m, first)
    BY <1>2, <1>7
  <2> HIDE DEF chosen
  <2> QED BY <2>1, <2>2, ConfigUpdatedIsSound
<1> QED BY <1>3, <1>4, <1>5, <1>6, <1>7

LEMMA ProcessedIsSound ==
    ASSUME Configured, IncInv, NEW n \in Node, NEW g, NEW h, Good(n, g, h),
           NEW m \in Neighbours(n), NEW d \in Dio
    PROVE  Sound(n, Processed(n, g, h, m, d))
<1> DEFINE known == [h EXCEPT ![m] = d]
           poisoned == g.state = "joined" /\ g.parent = m /\ d.rank = Infinite
<1>1. g \in Dag(n) /\ h \in Memory(n) /\ Remembers(g, h)
  BY DEF Good
<1>2. Processed(n, g, h, m, d) =
        IF Unchanged(h, m, d) THEN [g |-> g, h |-> h, reset |-> FALSE]
        ELSE IF Ignored(g, m, d) THEN [g |-> g, h |-> Forget(h, {m}), reset |-> FALSE]
        ELSE IF poisoned THEN Poisoned(n, g, known)
        ELSE Reconsider(n, g, known, m, h[m] = none)
  BY DEF Processed
<1>3. CASE Unchanged(h, m, d)
  BY <1>1, <1>2, <1>3 DEF Sound, Good
<1>4. CASE ~Unchanged(h, m, d) /\ Ignored(g, m, d)
  <2>1. g.state = "joined" => m \notin g.parents \cup g.siblings
    BY <1>4 DEF Ignored
  <2>2. g.parents \subseteq Neighbours(n) /\ g.siblings \subseteq Neighbours(n)
    BY <1>1, DagFields
  <2>3. Forget(h, {m}) \in Memory(n)
        /\ \A k \in Neighbours(n) : Forget(h, {m})[k] = IF k = m THEN none ELSE h[k]
    BY <1>1, ForgetKeepsMemory
  <2>4. Remembers(g, Forget(h, {m}))
    BY <1>1, <2>1, <2>2, <2>3 DEF Remembers, Fits
  <2> QED BY <1>1, <1>2, <1>4, <2>3, <2>4 DEF Sound, Good
<1>5. CASE ~Unchanged(h, m, d) /\ ~Ignored(g, m, d)
  <2>1. d # none
    BY DEF Configured
  <2>2. known \in Memory(n) /\ \A k \in Neighbours(n) : known[k] = IF k = m THEN d ELSE h[k]
    BY <1>1 DEF Memory
  <2>3. g.parents \subseteq Neighbours(n) /\ g.siblings \subseteq Neighbours(n)
    BY <1>1, DagFields
  <2>4. RemembersBut(g, known, m)
    BY <1>1, <2>1, <2>2, <2>3 DEF Remembers, RemembersBut, Fits
  <2> HIDE DEF known
  <2>5. Sound(n, Poisoned(n, g, known)) /\ Sound(n, Reconsider(n, g, known, m, h[m] = none))
    BY <1>1, <2>2, <2>4, PoisonedIsSound, ReconsiderIsSound
  <2> QED BY <1>2, <1>5, <2>5
<1> QED BY <1>3, <1>4, <1>5

-----------------------------------------------------------------------------
(* The steps.                                                              *)

DiosInv == \A m \in dios : /\ m.from \in Node /\ m.to \in Neighbours(m.from) /\ m.dio \in Dio

NodesInv ==
    /\ DOMAIN dag = Node /\ DOMAIN heard = Node /\ told \in [Node -> BOOLEAN]
    /\ \A n \in Node : Good(n, dag[n], heard[n])

IInv ==
    /\ NodesInv /\ DiosInv /\ IncInv
    /\ disturbed \in Nat /\ disturbed <= MaxDisturbed

\* A node that becomes what a handler made of it is as good as it was.
LEMMA BecomesKeepsNodes ==
    ASSUME NodesInv, NEW n \in Node, NEW x, Sound(n, x), Becomes(n, x)
    PROVE  NodesInv'
<1>1. /\ dag' = [dag EXCEPT ![n] = x.g] /\ heard' = [heard EXCEPT ![n] = x.h]
      /\ told' = [told EXCEPT ![n] = IF x.reset THEN FALSE ELSE @]
  BY DEF Becomes
<1>2. Good(n, x.g, x.h)
  BY DEF Sound
<1>3. DOMAIN dag' = Node /\ DOMAIN heard' = Node /\ told' \in [Node -> BOOLEAN]
  BY <1>1 DEF NodesInv
<1>4. ASSUME NEW k \in Node PROVE Good(k, dag'[k], heard'[k])
  <2>1. CASE k = n
    <3>1. dag'[k] = x.g /\ heard'[k] = x.h
      BY <1>1, <2>1 DEF NodesInv
    <3> QED BY <1>2, <2>1, <3>1
  <2>2. CASE k # n
    <3>1. dag'[k] = dag[k] /\ heard'[k] = heard[k]
      BY <1>1, <2>2 DEF NodesInv
    <3> QED BY <3>1 DEF NodesInv
  <2> QED BY <2>1, <2>2
<1>5. \A k \in Node : Good(k, dag[k], heard[k])'
  BY <1>4 DEF Good, Dag, Memory, Remembers, Fits, Neighbours
<1> QED BY <1>3, <1>5 DEF NodesInv

\* Nodes that nothing happens to, but for their timers.
LEMMA SameNodes ==
    ASSUME NodesInv, dag' = dag, heard' = heard, told' \in [Node -> BOOLEAN]
    PROVE  NodesInv'
<1>1. \A k \in Node : Good(k, dag'[k], heard'[k])
  BY DEF NodesInv
<1>2. \A k \in Node : Good(k, dag[k], heard[k])'
  BY <1>1 DEF Good, Dag, Memory, Remembers, Fits, Neighbours
<1>3. DOMAIN dag' = Node /\ DOMAIN heard' = Node
  BY DEF NodesInv
<1> QED BY <1>2, <1>3 DEF NodesInv

LEMMA InitIInv ==
    ASSUME Configured, Init
    PROVE  IInv
<1>1. Infinite \in Rank /\ 1 \in Rank
  BY DEF Configured, Rank, IsRank
<1>2. ASSUME NEW n \in Node PROVE Good(n, dag[n], heard[n])
  <2>1. heard[n] = [m \in Neighbours(n) |-> none]
    BY DEF Init
  <2>2. heard[n] \in Memory(n)
    BY <2>1 DEF Memory
  <2>3. dag[n] = IF n \in Root THEN Outside("root", n, 1) ELSE Outside("isolated", none, Infinite)
    BY DEF Init
  <2>4. dag[n] \in Dag(n) /\ dag[n].state # "joined"
    BY <1>1, <2>3, OutsideIsDag DEF State
  <2> QED BY <2>2, <2>4, OutsideRemembers DEF Good
<1>3. NodesInv
  BY <1>2 DEF NodesInv, Init
<1>4. IncInv
  BY DEF IncInv, Init
<1>5. DiosInv /\ disturbed \in Nat /\ disturbed <= MaxDisturbed
  BY DEF DiosInv, Init, Configured
<1> QED BY <1>3, <1>4, <1>5 DEF IInv

LEMMA ReceiveStep ==
    ASSUME Configured, IInv, NEW m \in dios, Receive(m)
    PROVE  IInv'
<1>1. m.from \in Node /\ m.to \in Neighbours(m.from) /\ m.dio \in Dio
  BY DEF IInv, DiosInv
<1>2. m.to \in Node /\ m.from \in Neighbours(m.to)
  BY <1>1, NeighbourFacts
<1> DEFINE x == Processed(m.to, dag[m.to], heard[m.to], m.from, m.dio)
<1>3. Good(m.to, dag[m.to], heard[m.to])
  BY <1>2 DEF IInv, NodesInv
<1>4. Sound(m.to, x)
  BY <1>1, <1>2, <1>3, ProcessedIsSound DEF IInv
<1>5. Becomes(m.to, x) /\ dios' = dios \ {m} /\ inc' = inc /\ disturbed' = disturbed
  BY DEF Receive
<1>6. NodesInv'
  <2> HIDE DEF x
  <2> QED BY <1>2, <1>4, <1>5, BecomesKeepsNodes DEF IInv
<1>7. DiosInv'
  BY <1>5 DEF IInv, DiosInv, Neighbours, Dio
<1> QED BY <1>5, <1>6, <1>7 DEF IInv, IncInv

LEMMA LoseStep ==
    ASSUME Configured, IInv, NEW m \in dios, Lose(m)
    PROVE  IInv'
<1>1. /\ disturbed < MaxDisturbed /\ dios' = dios \ {m} /\ disturbed' = disturbed + 1
      /\ UNCHANGED <<dag, heard, told, inc>>
  BY DEF Lose
<1>2. DiosInv'
  BY <1>1 DEF IInv, DiosInv, Neighbours, Dio
<1>3. disturbed' \in Nat /\ disturbed' <= MaxDisturbed
  BY <1>1 DEF IInv, Configured
<1>4. told' \in [Node -> BOOLEAN]
  BY <1>1 DEF IInv, NodesInv
<1>5. NodesInv' /\ IncInv'
  BY <1>1, <1>4, SameNodes DEF IInv, IncInv
<1> QED BY <1>2, <1>3, <1>5 DEF IInv

\* A node tells its neighbours its rank.
LEMMA TrickleTStep ==
    ASSUME Configured, IInv, NEW n \in Node, TrickleT(n)
    PROVE  IInv'
<1> DEFINE d == [id |-> dag[n].id, rank |-> dag[n].rank]
           new == {[from |-> n, to |-> m, dio |-> d] : m \in Neighbours(n)}
<1>1. /\ dios' = dios \cup new /\ told' = [told EXCEPT ![n] = TRUE]
      /\ UNCHANGED <<dag, heard, inc, disturbed>>
  BY DEF TrickleT
<1>2. dag[n] \in Dag(n)
  BY DEF IInv, NodesInv, Good
<1>3. d \in Dio
  BY <1>2, DagFields DEF Dio
<1>4. \A m \in new : m.from \in Node /\ m.to \in Neighbours(m.from) /\ m.dio \in Dio
  <2> HIDE DEF d
  <2> QED BY <1>3
<1>5. DiosInv'
  <2> HIDE DEF new
  <2> QED BY <1>1, <1>4 DEF IInv, DiosInv, Neighbours, Dio
<1>6. told' \in [Node -> BOOLEAN]
  BY <1>1 DEF IInv, NodesInv
<1>7. NodesInv' /\ IncInv'
  BY <1>1, <1>6, SameNodes DEF IInv, IncInv
<1> QED BY <1>1, <1>5, <1>7 DEF IInv

\* A node poisons on, leaves its old DODAG, or starts another interval.
LEMMA TrickleIStep ==
    ASSUME Configured, IInv, NEW n \in Node, TrickleI(n)
    PROVE  IInv'
<1> DEFINE g == dag[n]
           h == heard[n]
           again == [g |-> g, h |-> h, reset |-> TRUE]
           more == [g EXCEPT !.poison = @ + 1]
           poison == [g |-> more, h |-> h, reset |-> TRUE]
<1>1. g \in Dag(n) /\ h \in Memory(n) /\ Remembers(g, h)
  BY DEF IInv, NodesInv, Good
<1>2. dios' = dios /\ inc' = inc /\ disturbed' = disturbed
  BY DEF TrickleI
<1>3. IncInv
  BY DEF IInv
<1>4. \E x : Sound(n, x) /\ Becomes(n, x)
  <2>1. CASE g.state # "poisoning"
    <3>1. Becomes(n, again)
      BY <2>1 DEF TrickleI
    <3>2. Sound(n, again)
      BY <1>1 DEF Sound, Good
    <3> QED BY <3>1, <3>2
  <2>2. CASE g.state = "poisoning" /\ g.poison < PoisonCount
    <3>1. Becomes(n, poison)
      BY <2>2 DEF TrickleI
    <3>2. g.poison + 1 \in Poisons
      BY <1>1, <2>2, DagFields DEF Poisons, Configured
    <3>3. more \in Dag(n) /\ more.state = "poisoning"
      BY <1>1, <2>2, <3>2 DEF Dag
    <3>4. Sound(n, poison)
      <4> HIDE DEF more, h
      <4> QED BY <1>1, <3>3, OutsideRemembers DEF Sound, Good
    <3> QED BY <3>1, <3>4
  <2>3. CASE g.state = "poisoning" /\ ~(g.poison < PoisonCount) /\ Preferred(n, g, h) # none
    <3>1. Becomes(n, JoinPreferred(n, g, h))
      BY <2>3 DEF TrickleI
    <3> QED BY <1>1, <1>3, <2>3, <3>1, JoinPreferredIsSound
  <2>4. CASE g.state = "poisoning" /\ ~(g.poison < PoisonCount) /\ Preferred(n, g, h) = none
    <3>1. Becomes(n, AsRoot(n, g, h))
      BY <2>4 DEF TrickleI
    <3> QED BY <1>1, <3>1, AsRootIsSound
  <2> QED BY <2>1, <2>2, <2>3, <2>4
<1>5. NodesInv'
  BY <1>4, BecomesKeepsNodes DEF IInv
<1>6. DiosInv' /\ IncInv'
  BY <1>2 DEF IInv, DiosInv, IncInv, Neighbours, Dio
<1> QED BY <1>2, <1>5, <1>6 DEF IInv

LEMMA ChangeStep ==
    ASSUME Configured, IInv, NEW l \in DOMAIN Cost, Change(l)
    PROVE  IInv'
<1>1. PICK c \in Cost[l] : inc' = [inc EXCEPT ![l] = c]
  BY DEF Change
<1>2. /\ disturbed < MaxDisturbed /\ disturbed' = disturbed + 1
      /\ UNCHANGED <<dag, heard, told, dios>>
  BY DEF Change
<1>3. IncInv'
  BY <1>1 DEF IInv, IncInv
<1>4. disturbed' \in Nat /\ disturbed' <= MaxDisturbed
  BY <1>2 DEF IInv, Configured
<1>5. told' \in [Node -> BOOLEAN] /\ dios' = dios
  BY <1>2 DEF IInv, NodesInv
<1>6. NodesInv'
  BY <1>2, <1>5, SameNodes DEF IInv
<1>7. DiosInv'
  BY <1>5 DEF IInv, DiosInv, Neighbours, Dio
<1> QED BY <1>3, <1>4, <1>6, <1>7 DEF IInv

LEMMA NextStep ==
    ASSUME Configured, IInv, [Next]_vars
    PROVE  IInv'
<1>1. CASE Next
  BY <1>1, ReceiveStep, LoseStep, TrickleTStep, TrickleIStep, ChangeStep DEF Next
<1>2. CASE UNCHANGED vars
  <2>1. UNCHANGED <<dag, heard, told, dios, inc, disturbed>> /\ told' \in [Node -> BOOLEAN]
    BY <1>2 DEF vars, IInv, NodesInv
  <2>2. NodesInv'
    BY <2>1, SameNodes DEF IInv
  <2>3. DiosInv' /\ IncInv' /\ disturbed' \in Nat /\ disturbed' <= MaxDisturbed
    BY <2>1 DEF IInv, DiosInv, IncInv, Neighbours, Dio
  <2> QED BY <2>2, <2>3 DEF IInv
<1> QED BY <1>1, <1>2

\* The inductive invariant.
THEOREM Invariance ==
    ASSUME Configured
    PROVE  Spec => []IInv
<1>1. Init => IInv
  BY InitIInv
<1>2. IInv /\ [Next]_vars => IInv'
  BY NextStep
<1> QED BY <1>1, <1>2, PTL DEF Spec

LEMMA TypesOfInvariant ==
    ASSUME Configured, IInv
    PROVE  TypeOK
<1>1. Infinite \in Nat /\ PoisonCount \in Nat /\ MaxDisturbed \in Nat
  BY DEF Configured
<1>2. \A r \in Rank : r \in 1 .. Infinite
  BY <1>1 DEF Rank, IsRank
<1>3. \A k \in Poisons : k \in 0 .. PoisonCount
  BY <1>1 DEF Poisons
<1>4. ASSUME NEW n \in Node
      PROVE  LET g == dag[n]
             IN  /\ g.state \in {"isolated", "root", "joined", "poisoning"}
                 /\ g.id \in Node \cup {none} /\ g.rank \in 1 .. Infinite /\ g.lowest \in 1 .. Infinite
                 /\ g.parent \in Neighbours(n) \cup {none}
                 /\ g.parents \subseteq Neighbours(n) /\ g.siblings \subseteq Neighbours(n)
                 /\ g.poison \in 0 .. PoisonCount
  <2>1. dag[n] \in Dag(n)
    BY DEF IInv, NodesInv, Good
  <2> QED BY <1>2, <1>3, <2>1, DagFields DEF State
<1>5. \A n \in Node : told[n] \in BOOLEAN
  BY DEF IInv, NodesInv
<1>6. \A m \in dios : m.to \in Neighbours(m.from) /\ m.dio.rank \in 1 .. Infinite
  BY <1>2 DEF IInv, DiosInv, Dio
<1>7. disturbed \in 0 .. MaxDisturbed
  BY <1>1 DEF IInv
<1> QED BY <1>4, <1>5, <1>6, <1>7 DEF TypeOK

LEMMA ParentsOfInvariant ==
    ASSUME IInv
    PROVE  ParentsAreKnown
<1>1. ASSUME NEW n \in InDodag PROVE Remembers(dag[n], heard[n]) /\ dag[n].state = "joined"
  BY DEF InDodag, IInv, NodesInv, Good
<1> QED BY <1>1 DEF ParentsAreKnown, Remembers, Fits

\* The types hold.
THEOREM TypesHold ==
    ASSUME Configured
    PROVE  Spec => []TypeOK
<1>1. IInv => TypeOK
  BY TypesOfInvariant
<1> QED BY <1>1, Invariance, PTL

\* However messages are lost, however late they come and however links change,
\* the message of every parent and sibling that a member of a DODAG has is still
\* remembered, and puts it above the member or level with it: what
\* rpl_process_dio_msg forgets is never a message that a member still stands on.
THEOREM ParentsStayKnown ==
    ASSUME Configured
    PROVE  Spec => []ParentsAreKnown
<1>1. IInv => ParentsAreKnown
  BY ParentsOfInvariant
<1> QED BY <1>1, Invariance, PTL
=============================================================================
