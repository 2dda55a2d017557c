----------------------------- MODULE DSRProofs ------------------------------
(***************************************************************************)
(* For every network of nodes, links and packets, however long discoveries *)
(* last and routes break: the types, that cached routes follow links, and  *)
(* that a RREQ timeout finds its entry.                                    *)
(***************************************************************************)
EXTENDS DSR, SequenceTheorems, FiniteSetTheorems, WellFoundedInduction, TLAPS

\* Each packet is for another node; the constants of DSR.h.
Configured ==
    /\ Src \in [Packet -> Node] /\ Dst \in [Packet -> Node]
    /\ \A p \in Packet : Src[p] # Dst[p]
    /\ RequestLimit \in Nat \ {0} /\ HopLimit \in Nat /\ MaxId \in Nat

-----------------------------------------------------------------------------
(* Sequences.                                                              *)

LEMMA Least ==
    ASSUME NEW T \in SUBSET Nat, T # {}
    PROVE  \E x \in T : \A y \in T : x <= y
<1> DEFINE R == OpToRel(<, Nat)
<1>1. IsWellFoundedOn(R, Nat)
  BY NatLessThanWellFounded
<1>2. PICK x \in T : \A y \in T : ~ (<<y, x>> \in R)
  <2> HIDE DEF R
  <2> QED BY <1>1, WFMin
<1>3. \A y \in T : ~ (y < x)
  BY <1>2 DEF OpToRel
<1> QED BY <1>3

LEMMA MinOfSet ==
    ASSUME NEW T \in SUBSET Nat, T # {}
    PROVE  Min(T) \in T /\ \A y \in T : Min(T) <= y
BY Least DEF Min

LEMMA MaxOfSet ==
    ASSUME NEW N \in Nat, NEW T \in SUBSET (1 .. N), T # {}
    PROVE  Max(T) \in T /\ \A y \in T : y <= Max(T)
<1> DEFINE U == {k \in Nat : \A y \in T : y <= k}
<1>1. U \in SUBSET Nat /\ N \in U
  OBVIOUS
<1>2. PICK x \in U : \A y \in U : x <= y
  <2> HIDE DEF U
  <2> QED BY <1>1, Least
<1>3. x \in T
  <2> SUFFICES ASSUME x \notin T PROVE FALSE
    OBVIOUS
  <2>1. x \in Nat /\ \A y \in T : y \in Nat \ {0} /\ y < x
    BY <1>2
  <2>2. x # 0
    <3>1. PICK y : y \in T
      OBVIOUS
    <3> QED BY <2>1, <3>1
  <2>3. x - 1 \in U
    BY <2>1, <2>2
  <2> HIDE DEF U
  <2> QED BY <1>2, <2>1, <2>3
<1>4. \E z \in T : \A y \in T : z >= y
  BY <1>2, <1>3
<1>5. Max(T) \in T /\ \A y \in T : Max(T) >= y
  BY <1>4 DEF Max
<1> QED BY <1>5

LEMMA PositionOf ==
    ASSUME NEW S, NEW s \in Seq(S), NEW a
    PROVE  /\ a \in ToSet(s) => /\ Position(s, a) \in 1 .. Len(s) /\ s[Position(s, a)] = a
                                /\ \A i \in 1 .. Len(s) : s[i] = a => Position(s, a) <= i
           /\ a \notin ToSet(s) => Position(s, a) = 0
<1> DEFINE I == {i \in 1 .. Len(s) : s[i] = a}
<1>1. Position(s, a) = IF I # {} THEN Min(I) ELSE 0
  BY DEF Position, SelectInSeq
<1>2. DOMAIN s = 1 .. Len(s) /\ Len(s) \in Nat
  OBVIOUS
<1>3. a \in ToSet(s) <=> I # {}
  BY <1>2 DEF ToSet
<1>4. I # {} => Min(I) \in I /\ \A i \in I : Min(I) <= i
  <2>1. I \in SUBSET Nat
    BY <1>2
  <2> HIDE DEF I
  <2> QED BY <2>1, MinOfSet
<1> QED BY <1>1, <1>3, <1>4

\* The elements of I are numbered from 1 in their order.
LEMMA Numbered ==
    ASSUME NEW N \in Nat, NEW I \in SUBSET (1 .. N), NEW i \in 1 .. Cardinality(I)
    PROVE  \E k \in I : Cardinality({j \in I : j <= k}) = i
<1> DEFINE Upto(k) == {j \in I : j <= k}
           T == {k \in 0 .. N : Cardinality(Upto(k)) >= i}
<1>1. IsFiniteSet(I) /\ Cardinality(I) \in Nat
  <2>1. IsFiniteSet(1 .. N)
    BY FS_Interval
  <2> QED BY <2>1, FS_Subset, FS_CardinalityType
<1>2. ASSUME NEW k
      PROVE  IsFiniteSet(Upto(k)) /\ Cardinality(Upto(k)) \in Nat
  <2>1. Upto(k) \in SUBSET I
    BY Zenon
  <2> QED BY <1>1, <2>1, FS_Subset, FS_CardinalityType
<1>3. Cardinality(Upto(0)) = 0 /\ Cardinality(Upto(N)) = Cardinality(I)
  <2>1. \A j \in I : j \in Nat /\ ~ (j <= 0) /\ j <= N
    OBVIOUS
  <2>2. Upto(0) = {} /\ Upto(N) = I
    BY <2>1, Zenon
  <2> QED BY <2>2, FS_EmptySet
<1>4. T \in SUBSET Nat
  <2>1. \A k \in 0 .. N : k \in Nat
    OBVIOUS
  <2> HIDE DEF Upto
  <2> QED BY <2>1, Zenon
<1>5. N \in T
  <2> HIDE DEF Upto
  <2> QED BY <1>1, <1>3
<1>6. PICK k \in T : \A j \in T : k <= j
  <2> HIDE DEF T
  <2> QED BY <1>4, <1>5, Least
<1>7. k \in 1 .. N /\ Cardinality(Upto(k)) >= i /\ i \in Nat \ {0}
  <2> HIDE DEF Upto
  <2> QED BY <1>1, <1>3
<1>8. Cardinality(Upto(k - 1)) < i
  <2>1. k - 1 \in 0 .. N /\ ~ (k <= k - 1)
    BY <1>7
  <2>2. k - 1 \notin T
    <3> HIDE DEF T
    <3> QED BY <1>6, <2>1, Zenon
  <2> HIDE DEF Upto
  <2> QED BY <2>1, <2>2, <1>2, <1>7
<1>9. \A j \in I : (j <= k) = (j <= k - 1 \/ j = k)
  BY <1>7
<1>10. CASE k \in I
  <2>1. ~ (k <= k - 1)
    BY <1>7
  <2>2. Upto(k) = Upto(k - 1) \cup {k} /\ k \notin Upto(k - 1)
    BY <1>9, <1>10, <2>1, Zenon
  <2>3. Cardinality(Upto(k)) = Cardinality(Upto(k - 1)) + 1
    <3> HIDE DEF Upto
    <3> QED BY <1>2, <2>2, FS_AddElement
  <2>4. Cardinality(Upto(k)) = i
    <3> HIDE DEF Upto
    <3> QED BY <1>2, <1>7, <1>8, <2>3
  <2> QED BY <1>10, <2>4
<1>11. CASE k \notin I
  <2>1. Upto(k) = Upto(k - 1)
    BY <1>9, <1>11, Zenon
  <2> HIDE DEF Upto
  <2> QED BY <1>2, <1>7, <1>8, <2>1
<1> QED BY <1>10, <1>11

\* What is kept of a sequence was in it.
LEMMA KeptOf ==
    ASSUME NEW S, NEW s \in Seq(S), NEW I \in SUBSET DOMAIN s
    PROVE  Kept(s, I) \in Seq(S) /\ ToSet(Kept(s, I)) \subseteq ToSet(s)
<1> DEFINE Nth(i) == CHOOSE k \in I : Cardinality({j \in I : j <= k}) = i
           t == [i \in 1 .. Cardinality(I) |-> s[Nth(i)]]
<1>1. Kept(s, I) = t
  BY DEF Kept
<1>2. Len(s) \in Nat /\ DOMAIN s = 1 .. Len(s) /\ \A i \in DOMAIN s : s[i] \in S
  OBVIOUS
<1>3. Cardinality(I) \in Nat
  <2>1. IsFiniteSet(1 .. Len(s))
    BY <1>2, FS_Interval
  <2> QED BY <1>2, <2>1, FS_Subset, FS_CardinalityType
<1>4. \A i \in 1 .. Cardinality(I) : Nth(i) \in I
  BY <1>2, Numbered
<1>5. t \in [1 .. Cardinality(I) -> S] /\ \A i \in DOMAIN t : t[i] \in ToSet(s)
  <2> HIDE DEF Nth
  <2> QED BY <1>2, <1>4 DEF ToSet
<1> HIDE DEF t
<1>6. t \in Seq(S)
  BY <1>3, <1>5
<1> QED BY <1>1, <1>5, <1>6 DEF ToSet

LEMMA ToSetAppend ==
    ASSUME NEW S, NEW s \in Seq(S), NEW e \in S
    PROVE  ToSet(Append(s, e)) = ToSet(s) \cup {e}
BY AppendProperties DEF ToSet

LEMMA ToSetConcat ==
    ASSUME NEW S, NEW s \in Seq(S), NEW t \in Seq(S)
    PROVE  ToSet(s \o t) = ToSet(s) \cup ToSet(t)
<1>1. /\ s \o t \in Seq(S) /\ Len(s \o t) = Len(s) + Len(t) /\ Len(s) \in Nat /\ Len(t) \in Nat
      /\ \A i \in 1 .. Len(s) + Len(t) : (s \o t)[i] = IF i <= Len(s) THEN s[i] ELSE t[i - Len(s)]
  BY ConcatProperties
<1>2. \A j \in 1 .. Len(t) : (s \o t)[Len(s) + j] = t[j]
  BY <1>1
<1>3. \A r \in Seq(S) : DOMAIN r = 1 .. Len(r)
  OBVIOUS
<1>4. \A i \in 1 .. Len(s \o t) : (s \o t)[i] \in ToSet(s) \cup ToSet(t)
  BY <1>1, <1>3 DEF ToSet
<1>5. \A i \in 1 .. Len(s) : s[i] \in ToSet(s \o t)
  BY <1>1, <1>3 DEF ToSet
<1>6. \A i \in 1 .. Len(t) : t[i] \in ToSet(s \o t)
  <2> TAKE i \in 1 .. Len(t)
  <2>1. Len(s) + i \in 1 .. Len(s \o t)
    BY <1>1
  <2> QED BY <1>1, <1>2, <1>3, <2>1 DEF ToSet
<1> QED BY <1>1, <1>3, <1>4, <1>5, <1>6 DEF ToSet

LEMMA ToSetSubSeq ==
    ASSUME NEW S, NEW s \in Seq(S), NEW i \in Nat \ {0}, NEW j \in 0 .. Len(s)
    PROVE  SubSeq(s, i, j) \in Seq(S) /\ ToSet(SubSeq(s, i, j)) \subseteq ToSet(s)
<1>1. Len(s) \in Nat /\ DOMAIN s = 1 .. Len(s) /\ \A k \in 1 .. Len(s) : s[k] \in S
  OBVIOUS
<1>2. /\ SubSeq(s, i, j) \in Seq(S)
      /\ Len(SubSeq(s, i, j)) = IF i <= j THEN j - i + 1 ELSE 0
      /\ \A k \in 1 .. j - i + 1 : SubSeq(s, i, j)[k] = s[i + k - 1]
  BY <1>1, SubSeqProperties
<1>3. DOMAIN SubSeq(s, i, j) = 1 .. Len(SubSeq(s, i, j))
  BY <1>2
<1>4. \A k \in 1 .. Len(SubSeq(s, i, j)) : k \in 1 .. j - i + 1 /\ i + k - 1 \in 1 .. Len(s)
  BY <1>1, <1>2
<1> HIDE DEF ToSet
<1>5. \A k \in 1 .. Len(SubSeq(s, i, j)) : SubSeq(s, i, j)[k] \in ToSet(s)
  BY <1>1, <1>2, <1>4 DEF ToSet
<1> QED BY <1>2, <1>3, <1>5 DEF ToSet

LEMMA ToSetTail ==
    ASSUME NEW S, NEW s \in Seq(S), s # <<>>
    PROVE  Tail(s) \in Seq(S) /\ ToSet(Tail(s)) \subseteq ToSet(s)
BY HeadTailProperties DEF ToSet

LEMMA ToSetExcept ==
    ASSUME NEW S, NEW s \in Seq(S), NEW i \in DOMAIN s, NEW e \in S
    PROVE  /\ [s EXCEPT ![i] = e] \in Seq(S) /\ ToSet([s EXCEPT ![i] = e]) \subseteq ToSet(s) \cup {e}
           /\ e \in ToSet([s EXCEPT ![i] = e])
           /\ \A a \in ToSet(s) : a # s[i] => a \in ToSet([s EXCEPT ![i] = e])
<1> DEFINE t == [s EXCEPT ![i] = e]
<1>1. DOMAIN s = 1 .. Len(s)
  OBVIOUS
<1>2. t \in Seq(S) /\ Len(t) = Len(s) /\ \A j \in 1 .. Len(s) : t[j] = IF j = i THEN e ELSE s[j]
  BY <1>1, ExceptSeq
<1>3. DOMAIN t = 1 .. Len(s)
  BY <1>2
<1> HIDE DEF t
<1> QED BY <1>1, <1>2, <1>3 DEF ToSet, t

LEMMA ToSetRemoveAt ==
    ASSUME NEW S, NEW s \in Seq(S), NEW i \in 1 .. Len(s)
    PROVE  /\ RemoveAt(s, i) \in Seq(S) /\ ToSet(RemoveAt(s, i)) \subseteq ToSet(s)
           /\ \A a \in ToSet(s) : a # s[i] => a \in ToSet(RemoveAt(s, i))
<1> DEFINE l == SubSeq(s, 1, i - 1)
           r == SubSeq(s, i + 1, Len(s))
<1>1. Len(s) \in Nat /\ i \in Nat \ {0} /\ i <= Len(s) /\ \A k \in 1 .. Len(s) : s[k] \in S
  OBVIOUS
<1>2. /\ l \in Seq(S) /\ Len(l) = i - 1
      /\ \A k \in 1 .. i - 1 : l[k] = s[k]
  <2> DEFINE j == i - 1
  <2>1. /\ j \in Int /\ (IF 1 <= j THEN j - 1 + 1 ELSE 0) = j
        /\ \A k \in 1 .. j : s[k] \in S /\ k \in 1 .. j - 1 + 1 /\ 1 + k - 1 = k
    BY <1>1
  <2> HIDE DEF j
  <2>2. /\ SubSeq(s, 1, j) \in Seq(S) /\ Len(SubSeq(s, 1, j)) = IF 1 <= j THEN j - 1 + 1 ELSE 0
        /\ \A k \in 1 .. j - 1 + 1 : SubSeq(s, 1, j)[k] = s[1 + k - 1]
    BY <2>1, SubSeqProperties
  <2>3. \A k \in 1 .. j : SubSeq(s, 1, j)[k] = s[k]
    BY <2>1, <2>2
  <2> QED BY <2>1, <2>2, <2>3 DEF j
<1>3. /\ r \in Seq(S) /\ Len(r) = Len(s) - i
      /\ \A k \in 1 .. Len(s) - i : r[k] = s[i + k]
  <2> DEFINE j == i + 1
  <2>1. /\ j \in Int /\ Len(s) \in Int /\ (IF j <= Len(s) THEN Len(s) - j + 1 ELSE 0) = Len(s) - i
        /\ \A k \in j .. Len(s) : s[k] \in S
        /\ \A k \in 1 .. Len(s) - i : k \in 1 .. Len(s) - j + 1 /\ j + k - 1 = i + k
    BY <1>1
  <2> HIDE DEF j
  <2>2. /\ SubSeq(s, j, Len(s)) \in Seq(S)
        /\ Len(SubSeq(s, j, Len(s))) = IF j <= Len(s) THEN Len(s) - j + 1 ELSE 0
        /\ \A k \in 1 .. Len(s) - j + 1 : SubSeq(s, j, Len(s))[k] = s[j + k - 1]
    BY <2>1, SubSeqProperties
  <2>3. \A k \in 1 .. Len(s) - i : SubSeq(s, j, Len(s))[k] = s[i + k]
    BY <2>1, <2>2
  <2> QED BY <2>1, <2>2, <2>3 DEF j
<1>4. RemoveAt(s, i) = l \o r
  BY DEF RemoveAt
<1> HIDE DEF l, r
<1>5. l \o r \in Seq(S) /\ ToSet(l \o r) = ToSet(l) \cup ToSet(r)
  BY <1>2, <1>3, ConcatProperties, ToSetConcat
<1>6. /\ DOMAIN l = 1 .. i - 1 /\ DOMAIN r = 1 .. Len(s) - i /\ DOMAIN s = 1 .. Len(s)
  BY <1>2, <1>3
<1>7. ToSet(l) \subseteq ToSet(s)
  BY <1>1, <1>2, <1>6 DEF ToSet
<1>8. ToSet(r) \subseteq ToSet(s)
  <2>1. \A k \in 1 .. Len(s) - i : i + k \in 1 .. Len(s)
    BY <1>1
  <2> QED BY <1>3, <1>6, <2>1 DEF ToSet
<1>9. ASSUME NEW k \in 1 .. Len(s), k # i
      PROVE  s[k] \in ToSet(l) \cup ToSet(r)
  <2>1. CASE k < i
    <3>1. k \in 1 .. i - 1 /\ l[k] = s[k]
      BY <1>1, <1>2, <2>1
    <3> QED BY <1>6, <3>1 DEF ToSet
  <2>2. CASE k > i
    <3>1. k - i \in 1 .. Len(s) - i /\ i + (k - i) = k
      BY <1>1, <2>2
    <3>2. r[k - i] = s[k]
      BY <1>3, <3>1
    <3> QED BY <1>6, <3>1, <3>2 DEF ToSet
  <2> QED BY <1>1, <1>9, <2>1, <2>2
<1> QED BY <1>4, <1>5, <1>6, <1>7, <1>8, <1>9 DEF ToSet

LEMMA ToSetOne ==
    ASSUME NEW S, NEW s \in Seq(S)
    PROVE  /\ ToSet(s) \subseteq S
           /\ \A i \in DOMAIN s : s[i] \in ToSet(s)
           /\ \A i \in 1 .. Len(s) : s[i] \in ToSet(s)
           /\ \A a \in ToSet(s) : \E i \in 1 .. Len(s) : s[i] = a
BY DEF ToSet

\* The first route with the target.
LEMMA FindCacheOf ==
    ASSUME NEW n, NEW target, cache[n] \in Seq(Route), FindCache(n, target) # 0
    PROVE  /\ FindCache(n, target) \in 1 .. Len(cache[n])
           /\ ~cache[n][FindCache(n, target)].expired
           /\ Visits(cache[n][FindCache(n, target)], target)
<1> DEFINE I == {i \in 1 .. Len(cache[n]) : ~cache[n][i].expired /\ Visits(cache[n][i], target)}
<1>1. FindCache(n, target) = IF I # {} THEN Min(I) ELSE 0
  BY DEF FindCache, SelectInSeq
<1>2. Len(cache[n]) \in Nat
  OBVIOUS
<1>3. I # {} => Min(I) \in I
  <2>1. I \in SUBSET Nat
    BY <1>2
  <2> HIDE DEF I
  <2> QED BY <2>1, MinOfSet
<1> QED BY <1>1, <1>3

-----------------------------------------------------------------------------
(* Roads: sequences of nodes that follow links and visit no node twice.    *)

Road(s) == IsInjective(s) /\ \A i \in 1 .. Len(s) - 1 : {s[i], s[i + 1]} \in Link

LEMMA PartOfRoad ==
    ASSUME NEW s \in Seq(Node), Road(s), NEW i \in Nat \ {0}, NEW j \in 0 .. Len(s)
    PROVE  Road(SubSeq(s, i, j))
<1> DEFINE t == SubSeq(s, i, j)
<1>1. Len(s) \in Nat /\ DOMAIN s = 1 .. Len(s) /\ j \in Nat /\ j <= Len(s)
  OBVIOUS
<1>2. /\ t \in Seq(Node) /\ Len(t) = IF i <= j THEN j - i + 1 ELSE 0
      /\ \A k \in 1 .. j - i + 1 : t[k] = s[i + k - 1]
  BY <1>1, SubSeqProperties
<1>3. DOMAIN t = 1 .. Len(t)
  BY <1>2
<1> HIDE DEF t
<1>4. ASSUME NEW k \in 1 .. Len(t)
      PROVE  k \in 1 .. j - i + 1 /\ i + k - 1 \in 1 .. Len(s) /\ t[k] = s[i + k - 1]
  <2>1. k \in 1 .. j - i + 1 /\ i + k - 1 \in 1 .. Len(s)
    BY <1>1, <1>2
  <2> QED BY <1>2, <2>1
<1>5. ASSUME NEW a \in 1 .. Len(t), NEW b \in 1 .. Len(t), t[a] = t[b]
      PROVE  a = b
  <2>1. i + a - 1 = i + b - 1
    BY <1>1, <1>4, <1>5 DEF Road, IsInjective
  <2> QED BY <2>1
<1>6. ASSUME NEW k \in 1 .. Len(t) - 1
      PROVE  {t[k], t[k + 1]} \in Link
  <2>1. k \in 1 .. Len(t) /\ k + 1 \in 1 .. Len(t) /\ i + k - 1 \in 1 .. Len(s) - 1
    BY <1>1, <1>2
  <2>2. i + (k + 1) - 1 = (i + k - 1) + 1
    OBVIOUS
  <2>3. t[k] = s[i + k - 1] /\ t[k + 1] = s[(i + k - 1) + 1]
    BY <1>4, <2>1, <2>2
  <2> QED BY <2>1, <2>3 DEF Road
<1>7. IsInjective(t)
  BY <1>3, <1>5 DEF IsInjective
<1> QED BY <1>6, <1>7 DEF Road, t

LEMMA RoadsJoined ==
    ASSUME NEW s \in Seq(Node), NEW t \in Seq(Node), Road(s), Road(t), s # <<>>, t # <<>>,
           ToSet(s) \cap ToSet(t) = {}, {Last(s), t[1]} \in Link
    PROVE  Road(s \o t)
<1> DEFINE r == s \o t
<1>1. /\ Len(s) \in Nat \ {0} /\ Len(t) \in Nat \ {0}
      /\ DOMAIN s = 1 .. Len(s) /\ DOMAIN t = 1 .. Len(t)
  BY EmptySeq
<1>2. /\ r \in Seq(Node) /\ Len(r) = Len(s) + Len(t)
      /\ \A i \in 1 .. Len(s) + Len(t) : r[i] = IF i <= Len(s) THEN s[i] ELSE t[i - Len(s)]
  BY ConcatProperties
<1>3. DOMAIN r = 1 .. Len(s) + Len(t)
  BY <1>2
<1> HIDE DEF r
<1>4. \A i \in 1 .. Len(s) : \A j \in 1 .. Len(t) : s[i] # t[j]
  BY <1>1, Zenon DEF ToSet
<1>5. ASSUME NEW a \in 1 .. Len(s) + Len(t), NEW b \in 1 .. Len(s) + Len(t), r[a] = r[b]
      PROVE  a = b
  <2>1. CASE a <= Len(s) /\ b <= Len(s)
    <3>1. a \in 1 .. Len(s) /\ b \in 1 .. Len(s) /\ s[a] = s[b]
      BY <1>1, <1>2, <1>5, <2>1
    <3> QED BY <1>1, <3>1 DEF Road, IsInjective
  <2>2. CASE ~ (a <= Len(s)) /\ ~ (b <= Len(s))
    <3>1. a - Len(s) \in 1 .. Len(t) /\ b - Len(s) \in 1 .. Len(t) /\ t[a - Len(s)] = t[b - Len(s)]
      BY <1>1, <1>2, <1>5, <2>2
    <3>2. a - Len(s) = b - Len(s)
      BY <1>1, <3>1 DEF Road, IsInjective
    <3> QED BY <1>1, <3>2
  <2>3. CASE a <= Len(s) /\ ~ (b <= Len(s))
    <3>1. a \in 1 .. Len(s) /\ b - Len(s) \in 1 .. Len(t) /\ s[a] = t[b - Len(s)]
      BY <1>1, <1>2, <1>5, <2>3
    <3> QED BY <1>4, <3>1
  <2>4. CASE ~ (a <= Len(s)) /\ b <= Len(s)
    <3>1. b \in 1 .. Len(s) /\ a - Len(s) \in 1 .. Len(t) /\ s[b] = t[a - Len(s)]
      BY <1>1, <1>2, <1>5, <2>4
    <3> QED BY <1>4, <3>1
  <2> QED BY <2>1, <2>2, <2>3, <2>4
<1>6. ASSUME NEW i \in 1 .. Len(r) - 1
      PROVE  {r[i], r[i + 1]} \in Link
  <2>1. CASE i < Len(s)
    <3>1. i \in 1 .. Len(s) - 1 /\ r[i] = s[i] /\ r[i + 1] = s[i + 1]
      BY <1>1, <1>2, <2>1
    <3> QED BY <3>1 DEF Road
  <2>2. CASE i = Len(s)
    <3>1. r[i] = Last(s) /\ r[i + 1] = t[1]
      BY <1>1, <1>2, <2>2 DEF Last
    <3> QED BY <3>1
  <2>3. CASE i > Len(s)
    <3>1. i - Len(s) \in 1 .. Len(t) - 1 /\ r[i] = t[i - Len(s)] /\ r[i + 1] = t[(i - Len(s)) + 1]
      <4>1. (i + 1) - Len(s) = (i - Len(s)) + 1
        BY <1>1
      <4> QED BY <1>1, <1>2, <2>3, <4>1
    <3> QED BY <3>1 DEF Road
  <2>4. i \in Nat /\ Len(s) \in Nat
    BY <1>1, <1>2
  <2> QED BY <2>1, <2>2, <2>3, <2>4
<1>7. IsInjective(r)
  BY <1>3, <1>5 DEF IsInjective
<1> QED BY <1>6, <1>7 DEF Road, r

LEMMA OneNodeRoad ==
    ASSUME NEW n \in Node
    PROVE  <<n>> \in Seq(Node) /\ Road(<<n>>) /\ ToSet(<<n>>) = {n} /\ Len(<<n>>) = 1 /\ <<n>>[1] = n
<1>1. <<n>> \in Seq(Node) /\ Len(<<n>>) = 1 /\ DOMAIN <<n>> = {1} /\ <<n>>[1] = n
  OBVIOUS
<1> QED BY <1>1 DEF Road, IsInjective, ToSet

LEMMA RoadGoesOn ==
    ASSUME NEW s \in Seq(Node), Road(s), s # <<>>, NEW n \in Node, n \notin ToSet(s), {Last(s), n} \in Link
    PROVE  Road(Append(s, n))
<1>1. Append(s, n) = s \o <<n>>
  BY AppendIsConcat
<1> DEFINE t == <<n>>
<1>2. t \in Seq(Node) /\ Road(t) /\ ToSet(t) = {n} /\ t # <<>> /\ t[1] = n
  BY OneNodeRoad
<1> HIDE DEF t
<1>3. ToSet(s) \cap ToSet(t) = {} /\ {Last(s), t[1]} \in Link
  BY <1>2
<1>4. Road(s \o t)
  BY <1>2, <1>3, RoadsJoined
<1> QED BY <1>1, <1>4 DEF t

-----------------------------------------------------------------------------
(* The routes of requests, replies and caches.                             *)

LEMMA RequestIs ==
    ASSUME NEW m \in Message, m.kind = "RREQ"
    PROVE  /\ m.from \in Node /\ m.to \in Node /\ m.origin \in Node /\ m.target \in Node
           /\ m.id \in 1 .. MaxId /\ m.list \in Seq(Node) /\ m.ttl \in Nat
           /\ m \in [kind : {"RREQ"}, from : Node, to : Node, origin : Node, target : Node,
                     id : 1 .. MaxId, list : Seq(Node), ttl : Nat]
BY DEF Message

LEMMA ReplyIs ==
    ASSUME NEW m \in Message, m.kind = "RREP"
    PROVE  m.from \in Node /\ m.to \in Node /\ m.addresses \in Seq(Node)
BY DEF Message

LEMMA WayIs ==
    ASSUME NEW m, m.origin \in Node, m.list \in Seq(Node)
    PROVE  /\ Way(m) \in Seq(Node) /\ Way(m) # <<>> /\ Len(Way(m)) \in Nat \ {0}
           /\ Last(Way(m)) \in Node /\ ToSet(Way(m)) = {m.origin} \cup ToSet(m.list)
           /\ m.list = <<>> => Way(m) = <<m.origin>> /\ Last(Way(m)) = m.origin
<1> DEFINE t == <<m.origin>>
<1>1. t \in Seq(Node) /\ ToSet(t) = {m.origin} /\ Len(t) = 1 /\ t[1] = m.origin
  BY OneNodeRoad
<1>2. Way(m) = t \o m.list
  BY DEF Way
<1> HIDE DEF t
<1>3. Way(m) \in Seq(Node) /\ Len(Way(m)) = Len(t) + Len(m.list) /\ Len(m.list) \in Nat
  <2> DEFINE l == m.list
  <2>1. l \in Seq(Node)
    OBVIOUS
  <2> HIDE DEF l
  <2>2. t \o l \in Seq(Node) /\ Len(t \o l) = Len(t) + Len(l) /\ Len(l) \in Nat
    BY <1>1, <2>1, ConcatProperties
  <2> QED BY <1>2, <2>2 DEF l
<1>4. Len(Way(m)) \in Nat \ {0} /\ Way(m) # <<>>
  BY <1>1, <1>3
<1>5. Last(Way(m)) \in Node
  BY <1>3, <1>4 DEF Last
<1>6. ToSet(Way(m)) = {m.origin} \cup ToSet(m.list)
  BY <1>1, <1>2, ToSetConcat
<1>7. m.list = <<>> => Way(m) = t
  BY <1>1, <1>2, ConcatEmptySeq
<1> QED BY <1>1, <1>3, <1>4, <1>5, <1>6, <1>7 DEF Last, t

LEMMA Associates ==
    \A a, b, c \in Seq(Node) : a \o (b \o c) = (a \o b) \o c
<1> TAKE a \in Seq(Node), b \in Seq(Node), c \in Seq(Node)
<1> QED BY ConcatAssociative, SMT

\* A node that passes a request on is the last on its way.
LEMMA WayGoesOn ==
    ASSUME NEW m, m.origin \in Node, m.list \in Seq(Node), NEW n \in Node
    PROVE  LET w == <<m.origin>> \o Append(m.list, n)
           IN  w = Append(Way(m), n) /\ Last(w) = n
<1> DEFINE t == <<m.origin>>
<1>1. t \in Seq(Node)
  BY OneNodeRoad
<1>2. <<n>> \in Seq(Node)
  BY OneNodeRoad
<1>3. Append(m.list, n) = m.list \o <<n>>
  BY AppendIsConcat
<1>4. Append(Way(m), n) = Way(m) \o <<n>>
  BY WayIs, AppendIsConcat
<1>5. t \o (m.list \o <<n>>) = (t \o m.list) \o <<n>>
  BY <1>1, <1>2, Associates, Zenon
<1>6. t \o Append(m.list, n) = Append(Way(m), n)
  BY <1>3, <1>4, <1>5 DEF Way
<1>7. Last(Append(Way(m), n)) = n
  BY WayIs, AppendProperties DEF Last
<1> QED BY <1>6, <1>7

\* The part of a reply's route from a node on, and the node before it.
LEMMA SuffixIs ==
    ASSUME NEW a \in Seq(Node), NEW i \in 1 .. Len(a) - 1
    PROVE  /\ Suffix(a, a[i]) \in Seq(Node) /\ Len(Suffix(a, a[i])) > 1 /\ Suffix(a, a[i])[1] = a[i]
           /\ Road(a) => Road(Suffix(a, a[i]))
           /\ Position(a, a[i]) \in 1 .. Len(a) - 1
           /\ a[i] # Head(a) => Position(a, a[i]) - 1 \in 1 .. Len(a) - 1
<1> DEFINE k == Position(a, a[i])
<1>1. Len(a) \in Nat /\ DOMAIN a = 1 .. Len(a) /\ a # <<>> /\ i \in 1 .. Len(a)
  OBVIOUS
<1>2. a[i] \in ToSet(a)
  BY <1>1 DEF ToSet
<1>3. k \in 1 .. Len(a) /\ a[k] = a[i] /\ k <= i
  BY <1>1, <1>2, PositionOf
<1> HIDE DEF k
<1>4. k \in 1 .. Len(a) - 1
  BY <1>1, <1>3
<1>5. Suffix(a, a[i]) = SubSeq(a, k, Len(a))
  BY DEF Suffix, k
<1>6. /\ SubSeq(a, k, Len(a)) \in Seq(Node)
      /\ Len(SubSeq(a, k, Len(a))) = Len(a) - k + 1
      /\ \A j \in 1 .. Len(a) - k + 1 : SubSeq(a, k, Len(a))[j] = a[k + j - 1]
  <2>1. \A j \in k .. Len(a) : a[j] \in Node
    BY <1>1, <1>4
  <2>2. k \in Int /\ Len(a) \in Int /\ k <= Len(a)
    BY <1>1, <1>4
  <2> QED BY <2>1, <2>2, SubSeqProperties
<1>7. Len(SubSeq(a, k, Len(a))) > 1 /\ SubSeq(a, k, Len(a))[1] = a[k]
  <2>1. 1 \in 1 .. Len(a) - k + 1 /\ k + 1 - 1 = k /\ Len(a) - k + 1 > 1
    BY <1>1, <1>4
  <2> QED BY <1>6, <2>1
<1>8. Road(a) => Road(SubSeq(a, k, Len(a)))
  <2>1. k \in Nat \ {0} /\ Len(a) \in 0 .. Len(a)
    BY <1>1, <1>4
  <2> QED BY <2>1, PartOfRoad
<1>9. Head(a) = a[1]
  BY <1>1
<1>10. a[i] # a[1] => k - 1 \in 1 .. Len(a) - 1
  BY <1>1, <1>3, <1>4
<1> QED BY <1>3, <1>4, <1>5, <1>6, <1>7, <1>8, <1>9, <1>10 DEF k

\* Where a reply from the cache of n starts in the cached route, and where it ends.
LEMMA CachedPart ==
    ASSUME NEW m, m.origin # m.target, NEW path \in Seq(Node), m.target \in ToSet(path)
    PROVE  LET i == OriginOn(path, m)
               j == Position(path, m.target)
               part == SubSeq(path, i + 1, j)
           IN  /\ i \in Nat /\ j \in 1 .. Len(path) /\ i < j
               /\ part \in Seq(Node) /\ Len(part) = j - i /\ part # <<>> /\ part[1] = path[i + 1]
               /\ ToSet(part) \subseteq ToSet(path)
               /\ i # 0 => path[i] = m.origin
               /\ m.origin \notin ToSet(part) /\ (Road(path) => Road(part))
<1> DEFINE i == OriginOn(path, m)
           j == Position(path, m.target)
           T == {k \in 1 .. j : path[k] = m.origin}
           part == SubSeq(path, i + 1, j)
<1>1. Len(path) \in Nat /\ DOMAIN path = 1 .. Len(path)
  OBVIOUS
<1>2. j \in 1 .. Len(path) /\ path[j] = m.target
  BY PositionOf
<1>3. i = IF T # {} THEN Max(T) ELSE 0
  BY DEF OriginOn, SelectLastInSubSeq
<1> HIDE DEF i, j
<1>4. T # {} => i \in T /\ \A k \in T : k <= i
  <2>1. j \in Nat /\ T \in SUBSET (1 .. j)
    BY <1>1, <1>2
  <2> HIDE DEF T
  <2> QED BY <1>3, <2>1, MaxOfSet
<1>5. i \in Nat /\ i < j
  BY <1>1, <1>2, <1>3, <1>4
<1>6. /\ i # 0 => path[i] = m.origin
      /\ \A k \in 1 .. j : path[k] = m.origin => k <= i
  BY <1>3, <1>4
<1> HIDE DEF T
<1>7. /\ i + 1 \in 1 .. Len(path) /\ j \in 0 .. Len(path)
      /\ i + 1 \in Nat \ {0} /\ i + 1 <= j /\ j - (i + 1) + 1 = j - i
  BY <1>1, <1>2, <1>5
<1>8. /\ part \in Seq(Node) /\ Len(part) = j - i
      /\ \A k \in 1 .. j - i : part[k] = path[(i + 1) + k - 1]
  <2> DEFINE b == i + 1
  <2>1. b \in Int /\ j \in Int /\ b <= j /\ j - b + 1 = j - i
    BY <1>1, <1>7
  <2>2. \A k \in b .. j : path[k] \in Node
    BY <1>1, <1>7
  <2> HIDE DEF b
  <2>3. /\ SubSeq(path, b, j) \in Seq(Node) /\ Len(SubSeq(path, b, j)) = j - b + 1
        /\ \A k \in 1 .. j - b + 1 : SubSeq(path, b, j)[k] = path[b + k - 1]
    BY <2>1, <2>2, SubSeqProperties
  <2> QED BY <2>1, <2>3 DEF b
<1>9. ToSet(part) \subseteq ToSet(path) /\ (Road(path) => Road(part))
  BY <1>7, ToSetSubSeq, PartOfRoad
<1> HIDE DEF part
<1>10. part # <<>> /\ part[1] = path[i + 1]
  <2>1. 1 \in 1 .. j - i /\ (i + 1) + 1 - 1 = i + 1 /\ j - i > 0
    BY <1>1, <1>2, <1>5
  <2>2. Len(<<>>) = 0
    OBVIOUS
  <2> QED BY <1>8, <2>1, <2>2
<1>11. m.origin \notin ToSet(part)
  <2> SUFFICES ASSUME m.origin \in ToSet(part) PROVE FALSE
    OBVIOUS
  <2>1. PICK k \in 1 .. j - i : part[k] = m.origin
    BY <1>8, ToSetOne
  <2>2. i + k \in 1 .. j /\ i + k > i /\ (i + 1) + k - 1 = i + k
    BY <1>1, <1>2, <1>5
  <2>3. path[i + k] = m.origin
    BY <1>8, <2>1, <2>2
  <2> QED BY <1>5, <1>6, <2>2, <2>3
<1> QED BY <1>2, <1>5, <1>6, <1>8, <1>9, <1>10, <1>11 DEF i, j, part

-----------------------------------------------------------------------------
(* The invariant.                                                          *)

\* A message is about other nodes than the one that sent it first; a reply is
\* at a node of its route, and not at the end of it.
Sensible(m) ==
    /\ m.kind = "RREQ" => m.origin # m.target
    /\ m.kind = "RREP" => \E i \in 1 .. Len(m.addresses) - 1 : m.addresses[i] = m.to

ForOthers(n, packets) == \A p \in ToSet(packets) : Dst[p] # n

EndsInv ==
    /\ \A n \in Node :
          /\ \A c \in ToSet(cache[n]) : Len(c.path) > 1 /\ c.path[1] = n
          /\ \A b \in ToSet(buffer[n]) : ForOthers(n, b.packets)
          /\ \A e \in ToSet(maint[n]) : ForOthers(n, e.packets)
          /\ \A t \in timers[n] : t.target # n
    /\ \A m \in net : Sensible(m)
    /\ \A o \in out : Dst[o.packet] # o.at

\* The only timer for a target has its entry.
Attended(n, entries, pending, twice) ==
    \A t \in pending : <<n, t.target>> \notin twice =>
        /\ \A u \in pending : u.target = t.target => u = t
        /\ \E e \in ToSet(entries) : e.target = t.target /\ ~e.flag /\ e.event = t.id

TimersInv == \A n \in Node : Attended(n, table[n], timers[n], again)

\* The way of a request goes on to its receiver and has not been at the target.
Straight(m) ==
    /\ m.kind = "RREQ" => /\ Road(Way(m)) /\ m.target \notin ToSet(Way(m))
                          /\ {Last(Way(m)), m.to} \in Link
    /\ m.kind = "RREP" => Road(m.addresses)

RoadsInv ==
    /\ \A n \in Node : \A c \in ToSet(cache[n]) : Road(c.path)
    /\ \A m \in net : Straight(m)

IInv == TypeOK /\ EndsInv /\ TimersInv /\ (~astray => RoadsInv)

-----------------------------------------------------------------------------
(* The steps, and what they do to the caches.                              *)

LEMMA Steps ==
    ASSUME Next
    PROVE  \/ \E o \in out : NetworkOut(o)
           \/ \E p \in unsent : Originate(p)
           \/ \E m \in net : Receive(m)
           \/ \E m \in net : Lose(m)
           \/ \E n \in Node : Expire(n)
           \/ \E l \in Fragile : Break(l)
           \/ \E n \in Node : \E t \in timers[n] : RREQTimeout(n, t)
           \/ \E n \in Node : \E i \in DOMAIN maint[n] : MaintTimeout(n, i)
BY Zenon DEF Next

LEMMA AfterFindOf ==
    ASSUME NEW n, NEW target, cache[n] \in Seq(Route)
    PROVE  AfterFind(n, target) \in Seq(Route) /\ ToSet(AfterFind(n, target)) \subseteq ToSet(cache[n])
<1> DEFINE s == cache[n]
           I == {i \in DOMAIN s : s[i].expired => FindCache(n, target) # 0 /\ i > FindCache(n, target)}
<1>1. s \in Seq(Route) /\ I \in SUBSET DOMAIN s
  OBVIOUS
<1>2. AfterFind(n, target) = Kept(s, I)
  BY DEF AfterFind
<1> HIDE DEF s, I
<1>3. Kept(s, I) \in Seq(Route) /\ ToSet(Kept(s, I)) \subseteq ToSet(s)
  BY <1>1, KeptOf
<1> QED BY <1>2, <1>3 DEF s

\* A route of a cache after a step was there before, or comes with a reply.
Known(n, c) ==
    \/ \E d \in ToSet(cache[n]) : c.path = d.path
    \/ \E m \in net : m.kind = "RREP" /\ m.to = n /\ c.path = Suffix(m.addresses, n)

CacheStep ==
    /\ cache' \in [Node -> Seq(Route)]
    /\ \A n \in Node : \A c \in ToSet(cache'[n]) : Known(n, c)

LEMMA CacheKept ==
    ASSUME TypeOK, NEW n \in Node, NEW s \in Seq(Route), \A c \in ToSet(s) : Known(n, c),
           cache' = [cache EXCEPT ![n] = s]
    PROVE  CacheStep
<1>1. cache \in [Node -> Seq(Route)]
  BY DEF TypeOK
<1>2. \A k \in Node : cache'[k] = IF k = n THEN s ELSE cache[k]
  BY <1>1
<1>3. cache' \in [Node -> Seq(Route)]
  BY <1>1
<1>4. \A k \in Node : \A c \in ToSet(cache[k]) : Known(k, c)
  BY DEF Known
<1> QED BY <1>2, <1>3, <1>4, Zenon DEF CacheStep

LEMMA CacheFound ==
    ASSUME TypeOK, NEW n \in Node, NEW target, cache' = [cache EXCEPT ![n] = AfterFind(n, target)]
    PROVE  CacheStep
<1>1. cache[n] \in Seq(Route)
  BY DEF TypeOK
<1>2. AfterFind(n, target) \in Seq(Route) /\ \A c \in ToSet(AfterFind(n, target)) : Known(n, c)
  BY <1>1, AfterFindOf DEF Known
<1> QED BY <1>2, CacheKept

LEMMA CacheSame ==
    ASSUME TypeOK, UNCHANGED cache
    PROVE  CacheStep
BY DEF CacheStep, Known, TypeOK

\* What a reply brings to a cache.
LEMMA ReplyBrings ==
    ASSUME IInv, NEW m \in net, m.kind = "RREP"
    PROVE  /\ m \in Message /\ m.to \in Node /\ m.from \in Node /\ m.addresses \in Seq(Node)
           /\ Suffix(m.addresses, m.to) \in Seq(Node)
           /\ Len(Suffix(m.addresses, m.to)) > 1 /\ Suffix(m.addresses, m.to)[1] = m.to
           /\ ~astray => Road(m.addresses) /\ Road(Suffix(m.addresses, m.to))
           /\ m.to # Head(m.addresses) =>
                 Position(m.addresses, m.to) - 1 \in 1 .. Len(m.addresses) - 1
<1>1. m \in Message /\ m.to \in Node /\ m.from \in Node /\ m.addresses \in Seq(Node)
  BY ReplyIs DEF IInv, TypeOK
<1>2. PICK i \in 1 .. Len(m.addresses) - 1 : m.addresses[i] = m.to
  BY DEF IInv, EndsInv, Sensible
<1> DEFINE a == m.addresses
<1>3. a \in Seq(Node) /\ i \in 1 .. Len(a) - 1 /\ a[i] = m.to
  BY <1>1, <1>2
<1>4. ~astray => Road(a)
  BY DEF IInv, RoadsInv, Straight
<1> HIDE DEF a
<1>5. /\ Suffix(a, a[i]) \in Seq(Node) /\ Len(Suffix(a, a[i])) > 1 /\ Suffix(a, a[i])[1] = a[i]
      /\ Road(a) => Road(Suffix(a, a[i]))
      /\ a[i] # Head(a) => Position(a, a[i]) - 1 \in 1 .. Len(a) - 1
  BY <1>3, SuffixIs
<1> QED BY <1>1, <1>3, <1>4, <1>5 DEF a

LEMMA CacheAfterReply ==
    ASSUME IInv, NEW m \in net, ProcessRREP(m)
    PROVE  CacheStep
<1> DEFINE n == m.to
           r == [path |-> Suffix(m.addresses, n), expired |-> FALSE]
           s == Append(cache[n], r)
<1>1. m.kind = "RREP" /\ cache' = [cache EXCEPT ![n] = s]
  BY DEF ProcessRREP
<1>2. n \in Node /\ r \in Route /\ cache[n] \in Seq(Route)
  BY <1>1, ReplyBrings DEF Route, IInv, TypeOK
<1>3. Known(n, r)
  BY <1>1 DEF Known
<1> HIDE DEF r
<1>4. s \in Seq(Route) /\ ToSet(s) = ToSet(cache[n]) \cup {r}
  BY <1>2, ToSetAppend
<1>5. \A c \in ToSet(s) : Known(n, c)
  BY <1>3, <1>4 DEF Known
<1> HIDE DEF s, n
<1> QED BY <1>1, <1>2, <1>4, <1>5, CacheKept DEF IInv

LEMMA CacheAfterExpire ==
    ASSUME IInv, NEW n \in Node, Expire(n)
    PROVE  CacheStep
<1> DEFINE s == cache[n]
<1>1. s \in Seq(Route) /\ cache \in [Node -> Seq(Route)]
  BY DEF IInv, TypeOK
<1>2. PICK i \in DOMAIN s : cache' = [cache EXCEPT ![n][i].expired = TRUE]
  BY DEF Expire
<1> DEFINE e == [s[i] EXCEPT !.expired = TRUE]
<1>3. cache' = [cache EXCEPT ![n] = [s EXCEPT ![i] = e]]
  BY <1>2, Zenon
<1>4. s[i] \in Route
  BY <1>1
<1> HIDE DEF s
<1>5. e \in Route /\ e.path = s[i].path /\ s[i] \in ToSet(s)
  BY <1>4 DEF Route, ToSet
<1> HIDE DEF e
<1>6. [s EXCEPT ![i] = e] \in Seq(Route) /\ ToSet([s EXCEPT ![i] = e]) \subseteq ToSet(s) \cup {e}
  BY <1>1, <1>5, ToSetExcept
<1>7. \A c \in ToSet([s EXCEPT ![i] = e]) : Known(n, c)
  BY <1>5, <1>6 DEF Known, s
<1> QED BY <1>3, <1>6, <1>7, CacheKept DEF IInv

LEMMA CacheAfterBreak ==
    ASSUME IInv, NEW n \in Node, NEW i, BreakRoute(n, i)
    PROVE  CacheStep
<1> DEFINE s == cache[n]
           I == {c \in DOMAIN s : ~Uses(s[c].path, n, maint[n][i].nextHop)}
<1>1. s \in Seq(Route) /\ I \in SUBSET DOMAIN s
  BY DEF IInv, TypeOK
<1>2. cache' = [cache EXCEPT ![n] = Kept(s, I)]
  BY DEF BreakRoute
<1> HIDE DEF I
<1>3. Kept(s, I) \in Seq(Route) /\ ToSet(Kept(s, I)) \subseteq ToSet(s)
  BY <1>1, KeptOf
<1>4. \A c \in ToSet(Kept(s, I)) : Known(n, c)
  BY <1>3 DEF Known
<1> QED BY <1>2, <1>3, <1>4, CacheKept DEF IInv

\* The fields of what is at hand.
LEMMA OutIs ==
    ASSUME TypeOK, NEW o \in out
    PROVE  o.at \in Node /\ o.packet \in Packet
BY DEF TypeOK

LEMMA CacheAlways ==
    ASSUME IInv, Next
    PROVE  CacheStep
<1>1. ASSUME NEW o \in out, NetworkOut(o)
      PROVE  CacheStep
  <2>1. cache' = [cache EXCEPT ![o.at] = AfterFind(o.at, Dst[o.packet])]
    BY <1>1, Zenon DEF NetworkOut, RouteOut, QueueOut, DiscoverOut
  <2> QED BY <2>1, OutIs, CacheFound DEF IInv
<1>2. ASSUME NEW m \in net, Receive(m)
      PROVE  CacheStep
  <2>1. CASE ProcessRREQ(m)
    <3>1. m.to \in Node
      BY <2>1, RequestIs DEF ProcessRREQ, IInv, TypeOK
    <3>2. UNCHANGED cache \/ cache' = [cache EXCEPT ![m.to] = AfterFind(m.to, m.target)]
      BY <2>1, Zenon DEF ProcessRREQ, DropSeen, AnswerAsTarget, DropOwn,
        AnswerFromCache, Rebroadcast, PassesOn
    <3> QED BY <3>1, <3>2, CacheFound, CacheSame DEF IInv
  <2>2. CASE ProcessRREP(m)
    BY <2>2, CacheAfterReply
  <2>3. CASE ProcessSourceRoute(m) \/ ProcessAck(m)
    BY <2>3, CacheSame DEF IInv, ProcessSourceRoute, ProcessAck
  <2> QED BY <1>2, <2>1, <2>2, <2>3 DEF Receive
<1>3. ASSUME NEW n \in Node, NEW t \in timers[n], RREQTimeout(n, t)
      PROVE  CacheStep
  BY <1>3, CacheFound DEF RREQTimeout, IInv
<1>4. ASSUME NEW n \in Node, NEW i \in DOMAIN maint[n], MaintTimeout(n, i)
      PROVE  CacheStep
  BY <1>4, CacheAfterBreak, CacheSame DEF MaintTimeout, Retransmit, IInv
<1>5. ASSUME \/ \E p \in unsent : Originate(p)
             \/ \E m \in net : Lose(m)
             \/ \E l \in Fragile : Break(l)
      PROVE  CacheStep
  BY <1>5, CacheSame DEF IInv, Originate, Lose, Break
<1> QED BY <1>1, <1>2, <1>3, <1>4, <1>5, Steps, CacheAfterExpire

-----------------------------------------------------------------------------
(* The packets at a node are for other nodes.                              *)

BufferStep ==
    /\ buffer' \in [Node -> Seq(SendBuffer)]
    /\ \A n \in Node : \A b \in ToSet(buffer'[n]) : ForOthers(n, b.packets)

MaintStep ==
    /\ maint' \in [Node -> Seq(MaintBuffer)]
    /\ \A n \in Node : \A e \in ToSet(maint'[n]) : ForOthers(n, e.packets)

OutStep ==
    /\ out' \subseteq [at : Node, packet : Packet]
    /\ \A o \in out' : Dst[o.packet] # o.at

LEMMA BufferSame == ASSUME IInv, UNCHANGED buffer PROVE BufferStep
BY DEF BufferStep, IInv, TypeOK, EndsInv

LEMMA MaintSame == ASSUME IInv, UNCHANGED maint PROVE MaintStep
BY DEF MaintStep, IInv, TypeOK, EndsInv

LEMMA OutSame == ASSUME IInv, UNCHANGED out PROVE OutStep
BY DEF OutStep, IInv, TypeOK, EndsInv

LEMMA BufferKept ==
    ASSUME IInv, NEW n \in Node, NEW s \in Seq(SendBuffer), \A b \in ToSet(s) : ForOthers(n, b.packets),
           buffer' = [buffer EXCEPT ![n] = s]
    PROVE  BufferStep
<1>1. /\ buffer \in [Node -> Seq(SendBuffer)]
      /\ \A k \in Node : \A b \in ToSet(buffer[k]) : ForOthers(k, b.packets)
  BY DEF IInv, TypeOK, EndsInv
<1>2. buffer' \in [Node -> Seq(SendBuffer)] /\ \A k \in Node : buffer'[k] = IF k = n THEN s ELSE buffer[k]
  BY <1>1
<1> QED BY <1>1, <1>2, Zenon DEF BufferStep

LEMMA MaintKept ==
    ASSUME IInv, NEW n \in Node, NEW s \in Seq(MaintBuffer), \A e \in ToSet(s) : ForOthers(n, e.packets),
           maint' = [maint EXCEPT ![n] = s]
    PROVE  MaintStep
<1>1. /\ maint \in [Node -> Seq(MaintBuffer)]
      /\ \A k \in Node : \A e \in ToSet(maint[k]) : ForOthers(k, e.packets)
  BY DEF IInv, TypeOK, EndsInv
<1>2. maint' \in [Node -> Seq(MaintBuffer)] /\ \A k \in Node : maint'[k] = IF k = n THEN s ELSE maint[k]
  BY <1>1
<1> QED BY <1>1, <1>2, Zenon DEF MaintStep

\* A list of packets for others, with one more.
LEMMA OneMore ==
    ASSUME NEW n, NEW s \in Seq(Packet), ForOthers(n, s), NEW p \in Packet, Dst[p] # n
    PROVE  Append(s, p) \in Seq(Packet) \ {<<>>} /\ ForOthers(n, Append(s, p))
BY AppendProperties, ToSetAppend DEF ForOthers

LEMMA JustOne ==
    ASSUME NEW n, NEW p \in Packet, Dst[p] # n
    PROVE  <<p>> \in Seq(Packet) \ {<<>>} /\ ForOthers(n, <<p>>)
<1>1. <<p>> \in Seq(Packet) /\ Len(<<p>>) = 1 /\ DOMAIN <<p>> = {1} /\ <<p>>[1] = p
  OBVIOUS
<1>2. <<p>> # <<>>
  OBVIOUS
<1> QED BY <1>1, <1>2 DEF ForOthers, ToSet

LEMMA BufferAfterQueue ==
    ASSUME IInv, NEW n \in Node, NEW p \in Packet, Dst[p] # n, QueueOut(n, p)
    PROVE  BufferStep
<1> DEFINE s == buffer[n]
           i == SelectInSeq(s, LAMBDA b : b.target = Dst[p])
           I == {k \in 1 .. Len(s) : s[k].target = Dst[p]}
           e == [s[i] EXCEPT !.packets = Append(s[i].packets, p)]
<1>1. s \in Seq(SendBuffer) /\ \A b \in ToSet(s) : ForOthers(n, b.packets)
  BY DEF IInv, TypeOK, EndsInv
<1>2. i # 0 /\ buffer' = [buffer EXCEPT ![n] = [s EXCEPT ![i] = e]]
  BY Zenon DEF QueueOut
<1>3. i = IF I # {} THEN Min(I) ELSE 0
  BY DEF SelectInSeq
<1>4. I \in SUBSET Nat
  BY <1>1
<1>5. i \in DOMAIN s
  <2>1. i \in I
    <3> HIDE DEF I, i
    <3> QED BY <1>2, <1>3, <1>4, MinOfSet
  <2> HIDE DEF i
  <2> QED BY <1>1, <2>1
<1> HIDE DEF s, i, I
<1>6. s[i] \in SendBuffer /\ s[i] \in ToSet(s)
  BY <1>1, <1>5, ToSetOne
<1>7. s[i].packets \in Seq(Packet) /\ ForOthers(n, s[i].packets)
  BY <1>1, <1>6 DEF SendBuffer
<1>8. Append(s[i].packets, p) \in Seq(Packet) \ {<<>>} /\ ForOthers(n, Append(s[i].packets, p))
  <2> DEFINE l == s[i].packets
  <2>1. l \in Seq(Packet) /\ ForOthers(n, l)
    BY <1>7
  <2> HIDE DEF l
  <2>2. Append(l, p) \in Seq(Packet) \ {<<>>} /\ ForOthers(n, Append(l, p))
    BY <2>1, OneMore
  <2> QED BY <2>2 DEF l
<1>9. e \in SendBuffer /\ e.packets = Append(s[i].packets, p)
  BY <1>6, <1>8 DEF SendBuffer
<1> HIDE DEF e
<1>10. [s EXCEPT ![i] = e] \in Seq(SendBuffer) /\ ToSet([s EXCEPT ![i] = e]) \subseteq ToSet(s) \cup {e}
  BY <1>1, <1>5, <1>9, ToSetExcept
<1>11. \A b \in ToSet([s EXCEPT ![i] = e]) : ForOthers(n, b.packets)
  BY <1>1, <1>8, <1>9, <1>10
<1> QED BY <1>2, <1>10, <1>11, BufferKept

LEMMA BufferAfterDiscover ==
    ASSUME Configured, IInv, NEW n \in Node, NEW p \in Packet, Dst[p] # n, DiscoverOut(n, p)
    PROVE  BufferStep
<1> DEFINE s == buffer[n]
           e == [target |-> Dst[p], packets |-> <<p>>]
<1>1. s \in Seq(SendBuffer) /\ \A b \in ToSet(s) : ForOthers(n, b.packets)
  BY DEF IInv, TypeOK, EndsInv
<1>2. e \in SendBuffer /\ ForOthers(n, e.packets)
  BY JustOne DEF SendBuffer, Configured
<1>3. buffer' = [buffer EXCEPT ![n] = Append(s, e)]
  BY DEF DiscoverOut
<1> HIDE DEF s, e
<1>4. Append(s, e) \in Seq(SendBuffer) /\ \A b \in ToSet(Append(s, e)) : ForOthers(n, b.packets)
  BY <1>1, <1>2, ToSetAppend
<1> QED BY <1>3, <1>4, BufferKept

LEMMA BufferAfterGiveUp ==
    ASSUME IInv, NEW n \in Node, NEW target, GiveUp(n, target)
    PROVE  BufferStep
<1> DEFINE s == buffer[n]
           I == {b \in DOMAIN s : s[b].target # target}
<1>1. s \in Seq(SendBuffer) /\ I \in SUBSET DOMAIN s /\ \A b \in ToSet(s) : ForOthers(n, b.packets)
  BY DEF IInv, TypeOK, EndsInv
<1>2. buffer' = [buffer EXCEPT ![n] = Kept(s, I)]
  BY DEF GiveUp
<1> HIDE DEF I, s
<1>3. Kept(s, I) \in Seq(SendBuffer) /\ \A b \in ToSet(Kept(s, I)) : ForOthers(n, b.packets)
  BY <1>1, KeptOf
<1> QED BY <1>2, <1>3, BufferKept

LEMMA BufferAfterReply ==
    ASSUME IInv, NEW m \in net, ProcessRREP(m)
    PROVE  BufferStep
<1> DEFINE n == m.to
           s == buffer[n]
           reached == ReachedBuffers(n,
                         Append(cache[n], [path |-> Suffix(m.addresses, n), expired |-> FALSE]))
<1>1. m.kind = "RREP" /\ buffer' = [buffer EXCEPT ![n] = IF reached = {} THEN s ELSE Tail(s)]
  BY DEF ProcessRREP
<1>2. n \in Node
  BY <1>1, ReplyBrings
<1>3. s \in Seq(SendBuffer) /\ \A b \in ToSet(s) : ForOthers(n, b.packets)
  BY <1>2 DEF IInv, TypeOK, EndsInv
<1>4. reached # {} => s # <<>>
  <2>1. reached \subseteq DOMAIN s
    BY DEF ReachedBuffers, Compared
  <2>2. s = <<>> => DOMAIN s = {}
    OBVIOUS
  <2> HIDE DEF reached, s
  <2> QED BY <2>1, <2>2
<1> HIDE DEF n, s, reached
<1>5. reached # {} => Tail(s) \in Seq(SendBuffer) /\ ToSet(Tail(s)) \subseteq ToSet(s)
  BY <1>3, <1>4, ToSetTail
<1> DEFINE r == IF reached = {} THEN s ELSE Tail(s)
<1>6. r \in Seq(SendBuffer) /\ \A b \in ToSet(r) : ForOthers(n, b.packets)
  BY <1>3, <1>5
<1>7. buffer' = [buffer EXCEPT ![n] = r]
  BY <1>1
<1> HIDE DEF r
<1> QED BY <1>2, <1>6, <1>7, BufferKept

\* The next hop of a route of the cache.
LEMMA NextHopIs ==
    ASSUME IInv, NEW n \in Node, NEW target, FindCache(n, target) # 0
    PROVE  LET path == cache[n][FindCache(n, target)].path
           IN  /\ path \in Seq(Node) /\ Len(path) > 1 /\ path[1] = n /\ path[2] \in Node
               /\ target \in ToSet(path)
               /\ ~astray => Road(path)
<1> DEFINE c == cache[n][FindCache(n, target)]
<1>1. cache[n] \in Seq(Route)
  BY DEF IInv, TypeOK
<1>2. FindCache(n, target) \in 1 .. Len(cache[n]) /\ Visits(c, target)
  BY <1>1, FindCacheOf
<1>3. c \in ToSet(cache[n]) /\ c \in Route
  BY <1>1, <1>2, ToSetOne
<1> HIDE DEF c
<1>4. c.path \in Seq(Node) /\ Len(c.path) > 1 /\ c.path[1] = n /\ (~astray => Road(c.path))
  BY <1>3 DEF IInv, EndsInv, RoadsInv, Route
<1>5. c.path[2] \in Node
  BY <1>4
<1> QED BY <1>2, <1>4, <1>5 DEF Visits, c

LEMMA AddedToMaintBuffer ==
    ASSUME Configured, IInv, NEW n \in Node, NEW p \in Packet, Dst[p] # n, NEW nextHop \in Node
    PROVE  /\ AddToMaintBuffer(n, p, nextHop) \in Seq(MaintBuffer)
           /\ \A e \in ToSet(AddToMaintBuffer(n, p, nextHop)) : ForOthers(n, e.packets)
<1> DEFINE s == maint[n]
           I == {k \in 1 .. Len(s) : s[k].nextHop = nextHop /\ s[k].source = Src[p] /\ s[k].dest = Dst[p]}
           i == IF I # {} THEN Min(I) ELSE 0
           new == [nextHop |-> nextHop, source |-> Src[p], dest |-> Dst[p],
                   count |-> 0, packets |-> <<p>>]
           more == [s[i] EXCEPT !.packets = Append(s[i].packets, p)]
<1>1. s \in Seq(MaintBuffer) /\ \A e \in ToSet(s) : ForOthers(n, e.packets)
  BY DEF IInv, TypeOK, EndsInv
<1>2. AddToMaintBuffer(n, p, nextHop) =
         IF i = 0 THEN Append(s, new) ELSE [s EXCEPT ![i] = more]
  BY Zenon DEF AddToMaintBuffer, SelectInSeq
<1>3. CASE i = 0
  <2>1. new \in MaintBuffer /\ ForOthers(n, new.packets)
    BY JustOne DEF MaintBuffer, MaxMaintRexmt, Configured
  <2> HIDE DEF new, s, i
  <2>2. Append(s, new) \in Seq(MaintBuffer) /\ \A e \in ToSet(Append(s, new)) : ForOthers(n, e.packets)
    BY <1>1, <2>1, ToSetAppend
  <2> QED BY <1>2, <1>3, <2>2
<1>4. CASE i # 0
  <2>1. i \in 1 .. Len(s)
    <3>1. I \in SUBSET Nat /\ I \subseteq 1 .. Len(s)
      BY <1>1
    <3> HIDE DEF I
    <3> QED BY <1>4, <3>1, MinOfSet
  <2> HIDE DEF i, s, new
  <2>2. s[i] \in MaintBuffer /\ s[i] \in ToSet(s) /\ i \in DOMAIN s
    BY <1>1, <2>1, ToSetOne
  <2> DEFINE l == s[i].packets
  <2>3. l \in Seq(Packet) /\ ForOthers(n, l)
    BY <1>1, <2>2 DEF MaintBuffer
  <2> HIDE DEF l
  <2>4. Append(l, p) \in Seq(Packet) /\ ForOthers(n, Append(l, p))
    BY <2>3, OneMore
  <2>5. more \in MaintBuffer /\ more.packets = Append(l, p)
    BY <2>2, <2>4 DEF MaintBuffer, l
  <2> HIDE DEF more
  <2>6. /\ [s EXCEPT ![i] = more] \in Seq(MaintBuffer)
        /\ ToSet([s EXCEPT ![i] = more]) \subseteq ToSet(s) \cup {more}
    BY <1>1, <2>2, <2>5, ToSetExcept
  <2>7. \A e \in ToSet([s EXCEPT ![i] = more]) : ForOthers(n, e.packets)
    BY <1>1, <2>4, <2>5, <2>6
  <2> QED BY <1>2, <1>4, <2>6, <2>7
<1> QED BY <1>3, <1>4, Zenon

LEMMA MaintAfterRoute ==
    ASSUME Configured, IInv, NEW n \in Node, NEW p \in Packet, Dst[p] # n, RouteOut(n, p)
    PROVE  MaintStep
<1> DEFINE nextHop == cache[n][FindCache(n, Dst[p])].path[2]
<1>1. nextHop \in Node
  BY NextHopIs DEF RouteOut
<1>2. maint' = [maint EXCEPT ![n] = AddToMaintBuffer(n, p, nextHop)]
  BY DEF RouteOut
<1> HIDE DEF nextHop
<1>3. /\ AddToMaintBuffer(n, p, nextHop) \in Seq(MaintBuffer)
      /\ \A e \in ToSet(AddToMaintBuffer(n, p, nextHop)) : ForOthers(n, e.packets)
  BY <1>1, AddedToMaintBuffer
<1> QED BY <1>2, <1>3, MaintKept

LEMMA NoneForOthers ==
    ASSUME NEW n
    PROVE  <<>> \in Seq(Packet) /\ ForOthers(n, <<>>)
<1>1. <<>> \in Seq(Packet) /\ DOMAIN <<>> = {}
  OBVIOUS
<1> QED BY <1>1 DEF ForOthers, ToSet

LEMMA EmptiedMaintBuffer ==
    ASSUME NEW n, NEW s \in Seq(MaintBuffer), \A e \in ToSet(s) : ForOthers(n, e.packets), NEW nextHop
    PROVE  /\ EmptyMaintBuffer(s, nextHop) \in Seq(MaintBuffer)
           /\ \A e \in ToSet(EmptyMaintBuffer(s, nextHop)) : ForOthers(n, e.packets)
<1> DEFINE e(i) == IF s[i].nextHop = nextHop THEN [s[i] EXCEPT !.packets = <<>>] ELSE s[i]
           t == [i \in DOMAIN s |-> e(i)]
<1>1. Len(s) \in Nat /\ DOMAIN s = 1 .. Len(s)
  OBVIOUS
<1>2. ASSUME NEW i \in DOMAIN s
      PROVE  e(i) \in MaintBuffer /\ ForOthers(n, e(i).packets)
  <2>1. s[i] \in MaintBuffer /\ ForOthers(n, s[i].packets)
    BY <1>1, ToSetOne
  <2>2. [s[i] EXCEPT !.packets = <<>>] \in MaintBuffer /\ [s[i] EXCEPT !.packets = <<>>].packets = <<>>
    BY <2>1, NoneForOthers DEF MaintBuffer
  <2> QED BY <2>1, <2>2, NoneForOthers
<1>3. EmptyMaintBuffer(s, nextHop) = t
  BY DEF EmptyMaintBuffer
<1> HIDE DEF e
<1>4. t \in [1 .. Len(s) -> MaintBuffer] /\ \A i \in DOMAIN t : ForOthers(n, t[i].packets)
  BY <1>1, <1>2
<1> HIDE DEF t
<1>5. t \in Seq(MaintBuffer)
  BY <1>1, <1>4
<1> QED BY <1>3, <1>4, <1>5 DEF ToSet

LEMMA MaintAfterAck ==
    ASSUME IInv, NEW m \in net, ProcessAck(m)
    PROVE  MaintStep
<1> DEFINE s == maint[m.to]
<1>1. m.to \in Node /\ maint' = [maint EXCEPT ![m.to] = EmptyMaintBuffer(s, m.from)]
  BY DEF ProcessAck, IInv, TypeOK, Message
<1>2. s \in Seq(MaintBuffer) /\ \A e \in ToSet(s) : ForOthers(m.to, e.packets)
  BY <1>1 DEF IInv, TypeOK, EndsInv
<1> HIDE DEF s
<1>3. /\ EmptyMaintBuffer(s, m.from) \in Seq(MaintBuffer)
      /\ \A e \in ToSet(EmptyMaintBuffer(s, m.from)) : ForOthers(m.to, e.packets)
  BY <1>2, EmptiedMaintBuffer
<1> QED BY <1>1, <1>3, MaintKept

LEMMA MaintAfterTimeout ==
    ASSUME IInv, NEW n \in Node, NEW i \in DOMAIN maint[n], MaintTimeout(n, i)
    PROVE  MaintStep
<1> DEFINE s == maint[n]
           resent == [s[i] EXCEPT !.count = s[i].count + 1, !.packets = <<>>]
           zero == [s[i] EXCEPT !.count = 0]
<1>1. s \in Seq(MaintBuffer) /\ \A e \in ToSet(s) : ForOthers(n, e.packets)
  BY DEF IInv, TypeOK, EndsInv
<1>2. s[i] \in MaintBuffer /\ s[i] \in ToSet(s) /\ i \in DOMAIN s
  BY <1>1, ToSetOne
<1>3. CASE Retransmit(n, i)
  <2>1. maint' = [maint EXCEPT ![n] = [s EXCEPT ![i] = resent]] /\ s[i].count < MaxMaintRexmt
    <3>1. maint' = [maint EXCEPT ![n][i].count = @ + 1, ![n][i].packets = <<>>]
      BY <1>3, Zenon DEF Retransmit
    <3>2. maint \in [Node -> Seq(MaintBuffer)]
      BY DEF IInv, TypeOK
    <3>3. s[i].count < MaxMaintRexmt
      BY <1>3 DEF Retransmit
    <3> QED BY <3>1, <3>2, <3>3, <1>2
  <2> HIDE DEF s
  <2>2. resent \in MaintBuffer /\ resent.packets = <<>>
    <3> DEFINE e == s[i]
               c == e.count + 1
    <3>1. e \in MaintBuffer /\ c \in 0 .. MaxMaintRexmt /\ <<>> \in Seq(Packet)
      BY <1>2, <2>1, NoneForOthers DEF MaintBuffer, MaxMaintRexmt
    <3> HIDE DEF e, c
    <3>2. LET r == [e EXCEPT !.count = c, !.packets = <<>>]
          IN  r \in MaintBuffer /\ r.packets = <<>>
      BY <3>1 DEF MaintBuffer
    <3> QED BY <3>2 DEF e, c
  <2> HIDE DEF resent
  <2>3. /\ [s EXCEPT ![i] = resent] \in Seq(MaintBuffer)
        /\ ToSet([s EXCEPT ![i] = resent]) \subseteq ToSet(s) \cup {resent}
    BY <1>1, <1>2, <2>2, ToSetExcept
  <2>4. \A e \in ToSet([s EXCEPT ![i] = resent]) : ForOthers(n, e.packets)
    BY <1>1, <2>2, <2>3, NoneForOthers
  <2> QED BY <2>1, <2>3, <2>4, MaintKept
<1>4. CASE BreakRoute(n, i)
  <2> DEFINE r == [s EXCEPT ![i] = zero]
  <2>1. maint' = [maint EXCEPT ![n] = EmptyMaintBuffer(r, s[i].nextHop)]
    BY <1>4, Zenon DEF BreakRoute
  <2> HIDE DEF s
  <2>2. zero \in MaintBuffer /\ zero.packets = s[i].packets
    BY <1>2 DEF MaintBuffer, MaxMaintRexmt
  <2> HIDE DEF zero
  <2>3. r \in Seq(MaintBuffer) /\ ToSet(r) \subseteq ToSet(s) \cup {zero}
    BY <1>1, <1>2, <2>2, ToSetExcept
  <2>4. \A e \in ToSet(r) : ForOthers(n, e.packets)
    BY <1>1, <1>2, <2>2, <2>3
  <2> HIDE DEF r
  <2>5. /\ EmptyMaintBuffer(r, s[i].nextHop) \in Seq(MaintBuffer)
        /\ \A e \in ToSet(EmptyMaintBuffer(r, s[i].nextHop)) : ForOthers(n, e.packets)
    BY <2>3, <2>4, EmptiedMaintBuffer
  <2> QED BY <2>1, <2>5, MaintKept
<1> QED BY <1>3, <1>4 DEF MaintTimeout

\* The packets of a node's buffers that go out.
LEMMA OutMore ==
    ASSUME IInv, NEW n \in Node, NEW s \in Seq(Packet), ForOthers(n, s)
    PROVE  \A o \in {[at |-> n, packet |-> p] : p \in ToSet(s)} :
               o \in [at : Node, packet : Packet] /\ Dst[o.packet] # o.at
BY ToSetOne DEF ForOthers

LEMMA OutAfterReply ==
    ASSUME IInv, NEW m \in net, ProcessRREP(m)
    PROVE  OutStep
<1> DEFINE n == m.to
           s == buffer[n]
           reached == ReachedBuffers(n,
                         Append(cache[n], [path |-> Suffix(m.addresses, n), expired |-> FALSE]))
<1>1. /\ m.kind = "RREP"
      /\ out' = out \cup UNION {{[at |-> n, packet |-> p] : p \in ToSet(s[i].packets)} : i \in reached}
  BY DEF ProcessRREP
<1>2. n \in Node
  BY <1>1, ReplyBrings
<1>3. s \in Seq(SendBuffer) /\ \A b \in ToSet(s) : ForOthers(n, b.packets)
  BY <1>2 DEF IInv, TypeOK, EndsInv
<1>4. reached \subseteq DOMAIN s
  BY DEF ReachedBuffers, Compared
<1> HIDE DEF n, s, reached
<1>5. ASSUME NEW i \in reached
      PROVE  \A o \in {[at |-> n, packet |-> p] : p \in ToSet(s[i].packets)} :
                 o \in [at : Node, packet : Packet] /\ Dst[o.packet] # o.at
  <2>1. s[i] \in ToSet(s) /\ s[i] \in SendBuffer
    BY <1>3, <1>4, ToSetOne
  <2>2. s[i].packets \in Seq(Packet) /\ ForOthers(n, s[i].packets)
    BY <1>3, <2>1 DEF SendBuffer
  <2> DEFINE l == s[i].packets
  <2> HIDE DEF l
  <2>3. l \in Seq(Packet) /\ ForOthers(n, l)
    BY <2>2 DEF l
  <2>4. \A o \in {[at |-> n, packet |-> p] : p \in ToSet(l)} :
            o \in [at : Node, packet : Packet] /\ Dst[o.packet] # o.at
    BY <1>2, <2>3, OutMore
  <2> QED BY <2>4 DEF l
<1>6. \A o \in out : o \in [at : Node, packet : Packet] /\ Dst[o.packet] # o.at
  BY DEF IInv, TypeOK, EndsInv
<1> QED BY <1>1, <1>5, <1>6, Zenon DEF OutStep

LEMMA OutAfterTimeout ==
    ASSUME IInv, NEW n \in Node, NEW i \in DOMAIN maint[n], MaintTimeout(n, i)
    PROVE  OutStep
<1>1. CASE Retransmit(n, i)
  <2> DEFINE l == maint[n][i].packets
  <2>1. l \in Seq(Packet) /\ ForOthers(n, l)
    <3> DEFINE s == maint[n]
    <3>1. s \in Seq(MaintBuffer) /\ \A e \in ToSet(s) : ForOthers(n, e.packets)
      BY DEF IInv, TypeOK, EndsInv
    <3>2. s[i] \in MaintBuffer /\ s[i] \in ToSet(s)
      BY <3>1, ToSetOne
    <3> QED BY <3>1, <3>2 DEF MaintBuffer
  <2>2. out' = out \cup {[at |-> n, packet |-> p] : p \in ToSet(l)}
    BY <1>1 DEF Retransmit
  <2> HIDE DEF l
  <2>3. \A o \in {[at |-> n, packet |-> p] : p \in ToSet(l)} :
            o \in [at : Node, packet : Packet] /\ Dst[o.packet] # o.at
    BY <2>1, OutMore
  <2>4. \A o \in out : o \in [at : Node, packet : Packet] /\ Dst[o.packet] # o.at
    BY DEF IInv, TypeOK, EndsInv
  <2> QED BY <2>2, <2>3, <2>4, Zenon DEF OutStep
<1>2. CASE BreakRoute(n, i)
  BY <1>2, OutSame DEF BreakRoute
<1> QED BY <1>1, <1>2 DEF MaintTimeout

\* What a step does to the packets at the nodes.
LEMMA PacketsAlways ==
    ASSUME Configured, IInv, Next
    PROVE  BufferStep /\ MaintStep /\ OutStep
<1>1. ASSUME NEW o \in out, NetworkOut(o)
      PROVE  BufferStep /\ MaintStep /\ OutStep
  <2>1. o.at \in Node /\ o.packet \in Packet /\ Dst[o.packet] # o.at
    BY OutIs DEF IInv, EndsInv
  <2>2. OutStep
    BY <1>1 DEF NetworkOut, OutStep, IInv, TypeOK, EndsInv
  <2>3. CASE RouteOut(o.at, o.packet)
    BY <2>1, <2>2, <2>3, MaintAfterRoute, BufferSame DEF RouteOut
  <2>4. CASE QueueOut(o.at, o.packet)
    BY <2>1, <2>2, <2>4, BufferAfterQueue, MaintSame DEF QueueOut
  <2>5. CASE DiscoverOut(o.at, o.packet)
    BY <2>1, <2>2, <2>5, BufferAfterDiscover, MaintSame DEF DiscoverOut
  <2> QED BY <1>1, <2>3, <2>4, <2>5 DEF NetworkOut
<1>2. ASSUME NEW m \in net, Receive(m)
      PROVE  BufferStep /\ MaintStep /\ OutStep
  <2>1. CASE ProcessRREQ(m)
    BY <2>1, BufferSame, MaintSame, OutSame DEF ProcessRREQ
  <2>2. CASE ProcessRREP(m)
    BY <2>2, BufferAfterReply, OutAfterReply, MaintSame DEF ProcessRREP
  <2>3. CASE ProcessSourceRoute(m)
    <3>1. m.to \in Node /\ m.packet \in Packet
      BY <2>3 DEF ProcessSourceRoute, IInv, TypeOK, Message
    <3>2. \A o \in out' : o \in out \/ (m.to # Dst[m.packet] /\ o = [at |-> m.to, packet |-> m.packet])
      BY <2>3 DEF ProcessSourceRoute
    <3>3. \A o \in out : o \in [at : Node, packet : Packet] /\ Dst[o.packet] # o.at
      BY DEF IInv, TypeOK, EndsInv
    <3>4. OutStep
      BY <3>1, <3>2, <3>3 DEF OutStep
    <3> QED BY <2>3, <3>4, BufferSame, MaintSame DEF ProcessSourceRoute
  <2>4. CASE ProcessAck(m)
    BY <2>4, BufferSame, MaintAfterAck, OutSame DEF ProcessAck
  <2> QED BY <1>2, <2>1, <2>2, <2>3, <2>4 DEF Receive
<1>3. ASSUME NEW n \in Node, NEW t \in timers[n], RREQTimeout(n, t)
      PROVE  BufferStep /\ MaintStep /\ OutStep
  <2>1. BufferStep
    BY <1>3, BufferAfterGiveUp, BufferSame DEF RREQTimeout, Retry, IgnoreTimeout
  <2> QED BY <1>3, <2>1, MaintSame, OutSame DEF RREQTimeout
<1>4. ASSUME NEW n \in Node, NEW i \in DOMAIN maint[n], MaintTimeout(n, i)
      PROVE  BufferStep /\ MaintStep /\ OutStep
  BY <1>4, MaintAfterTimeout, OutAfterTimeout, BufferSame DEF MaintTimeout
<1>5. ASSUME NEW p \in unsent, Originate(p)
      PROVE  BufferStep /\ MaintStep /\ OutStep
  <2>1. p \in Packet /\ out' = {[at |-> Src[p], packet |-> p]}
    BY <1>5 DEF Originate, IInv, TypeOK
  <2>2. OutStep
    BY <2>1 DEF OutStep, Configured
  <2> QED BY <1>5, <2>2, BufferSame, MaintSame DEF Originate
<1>6. ASSUME \/ \E m \in net : Lose(m)
             \/ \E n \in Node : Expire(n)
             \/ \E l \in Fragile : Break(l)
      PROVE  BufferStep /\ MaintStep /\ OutStep
  BY <1>6, BufferSame, MaintSame, OutSame DEF Expire, Lose, Break
<1> QED BY <1>1, <1>2, <1>3, <1>4, <1>5, <1>6, Steps

-----------------------------------------------------------------------------
(* The messages.                                                           *)

\* What a message is after a step.
Fine(m) == m \in Message /\ Sensible(m) /\ (~astray' => Straight(m))

NetStep == \A m \in net' : Fine(m)

LEMMA FineBefore ==
    ASSUME IInv, ~astray' => ~astray, NEW m \in net
    PROVE  Fine(m)
BY DEF Fine, IInv, TypeOK, EndsInv, RoadsInv

LEMMA FineOther ==
    ASSUME NEW m \in Message, m.kind # "RREQ", m.kind # "RREP"
    PROVE  Fine(m)
BY DEF Fine, Sensible, Straight

LEMMA FineRequest ==
    ASSUME NEW n \in Node, NEW target \in Node, target # n, NEW rid \in 1 .. MaxId, NEW ttl \in Nat
    PROVE  \A m \in Request(n, target, rid, ttl) : Fine(m)
<1> TAKE m \in Request(n, target, rid, ttl)
<1>1. PICK k \in Neighbours(n) :
         m = [kind |-> "RREQ", from |-> n, to |-> k, origin |-> n, target |-> target,
              id |-> rid, list |-> <<>>, ttl |-> ttl]
  BY DEF Request
<1>2. k \in Node /\ {n, k} \in Link
  BY DEF Neighbours
<1>3. m \in Message
  <2>1. <<>> \in Seq(Node)
    OBVIOUS
  <2> QED BY <1>1, <1>2, <2>1 DEF Message
<1>4. /\ m.kind = "RREQ" /\ m.origin = n /\ m.list = <<>> /\ m.target = target /\ m.to = k
  BY <1>1
<1>5. m.origin \in Node /\ m.list \in Seq(Node)
  BY <1>4
<1>6. Way(m) = <<m.origin>> /\ Last(Way(m)) = n
  BY <1>4, <1>5, WayIs
<1>7. Road(Way(m)) /\ ToSet(Way(m)) = {n}
  BY <1>4, <1>6, OneNodeRoad
<1>8. Straight(m)
  BY <1>2, <1>4, <1>6, <1>7 DEF Straight
<1> QED BY <1>3, <1>4, <1>8 DEF Fine, Sensible

\* A reply to a node before the last of its route.
LEMMA FineReply ==
    ASSUME NEW n \in Node, NEW a \in Seq(Node), NEW i \in 1 .. Len(a) - 1, ~astray' => Road(a)
    PROVE  Fine(Reply(n, a, a[i]))
<1> DEFINE m == Reply(n, a, a[i])
<1>1. m = [kind |-> "RREP", from |-> n, to |-> a[i], addresses |-> a]
  BY DEF Reply
<1>2. a[i] \in Node
  <2>1. i \in 1 .. Len(a)
    OBVIOUS
  <2> QED BY <2>1
<1> HIDE DEF m
<1>3. m \in Message /\ m.kind = "RREP" /\ m.addresses = a /\ m.to = a[i]
  BY <1>1, <1>2 DEF Message
<1>4. Sensible(m) /\ (~astray' => Straight(m))
  BY <1>3 DEF Sensible, Straight
<1> QED BY <1>3, <1>4 DEF Fine, m

\* What a request is when it comes to a node.
LEMMA RequestAtHand ==
    ASSUME IInv, NEW m \in net, m.kind = "RREQ"
    PROVE  /\ m \in Message /\ m.to \in Node /\ m.origin \in Node /\ m.target \in Node
           /\ m.origin # m.target
           /\ m.id \in 1 .. MaxId /\ m.list \in Seq(Node) /\ m.ttl \in Nat
           /\ ~astray => /\ Road(Way(m)) /\ m.target \notin ToSet(Way(m))
                         /\ {Last(Way(m)), m.to} \in Link
<1>1. m \in Message
  BY DEF IInv, TypeOK
<1>2. Sensible(m) /\ (~astray => Straight(m))
  BY DEF IInv, EndsInv, RoadsInv
<1> QED BY <1>1, <1>2, RequestIs DEF Sensible, Straight

LEMMA FineAnswerOfTarget ==
    ASSUME IInv, NEW m \in net, m.kind = "RREQ", AnswerAsTarget(m.to, m)
    PROVE  NetStep
<1> DEFINE w == Way(m)
           n == m.to
           a == Append(w, n)
<1>1. /\ n = m.target /\ net' = (net \ {m}) \cup {Reply(n, a, Last(w))} /\ astray' = astray
  BY DEF AnswerAsTarget
<1>2. /\ n \in Node /\ w \in Seq(Node) /\ w # <<>> /\ Len(w) \in Nat \ {0}
      /\ ~astray => Road(w) /\ n \notin ToSet(w) /\ {Last(w), n} \in Link
  BY <1>1, RequestAtHand, WayIs
<1> HIDE DEF w, n
<1>3. a \in Seq(Node) /\ Len(a) = Len(w) + 1 /\ \A i \in 1 .. Len(w) : a[i] = w[i]
  BY <1>2, AppendProperties
<1>4. ~astray => Road(a)
  BY <1>2, RoadGoesOn
<1> HIDE DEF a
<1>5. Len(w) \in 1 .. Len(a) - 1 /\ a[Len(w)] = Last(w)
  BY <1>2, <1>3 DEF Last
<1>6. Fine(Reply(n, a, Last(w)))
  <2> DEFINE i == Len(w)
  <2>1. i \in 1 .. Len(a) - 1 /\ (~astray' => Road(a))
    BY <1>1, <1>4, <1>5
  <2> HIDE DEF i
  <2>2. Fine(Reply(n, a, a[i]))
    BY <1>2, <1>3, <2>1, FineReply
  <2> QED BY <1>5, <2>2 DEF i
<1> QED BY <1>1, <1>6, FineBefore DEF NetStep

\* The list and the cached route make one road: nothing of the list is on the
\* cached route, and the origin is before the part that is taken of it.
LEMMA FineAnswerFromCache ==
    ASSUME IInv, NEW m \in net, m.kind = "RREQ", AnswerFromCache(m.to, m)
    PROVE  NetStep
<1> DEFINE n == m.to
           path == cache[n][FindCache(n, m.target)].path
           w == Way(m)
           i == OriginOn(path, m)
           j == Position(path, m.target)
           part == SubSeq(path, i + 1, j)
           a == w \o part
<1>1. /\ FindCache(n, m.target) # 0
      /\ \/ /\ ValidateRouteCache(path, m.list)
            /\ net' = (net \ {m}) \cup {Reply(n, CachedAddresses(m, path), Last(w))}
            /\ astray' = (astray \/ (m.list # <<>> /\ i # 0))
         \/ net' = net \ {m} /\ UNCHANGED astray
  BY DEF AnswerFromCache
<1>2. CachedAddresses(m, path) = a
  BY DEF CachedAddresses
<1>3. /\ n \in Node /\ m.origin \in Node /\ m.origin # m.target /\ m.list \in Seq(Node)
      /\ ~astray => Road(w) /\ {Last(w), n} \in Link
  BY RequestAtHand
<1>4. /\ w \in Seq(Node) /\ w # <<>> /\ Len(w) \in Nat \ {0}
      /\ ToSet(w) = {m.origin} \cup ToSet(m.list)
      /\ m.list = <<>> => Last(w) = m.origin
  BY <1>3, WayIs
<1>5. /\ path \in Seq(Node) /\ path[1] = n /\ m.target \in ToSet(path)
      /\ ~astray => Road(path)
  BY <1>1, <1>3, NextHopIs
<1> HIDE DEF path
<1>6. /\ i \in Nat /\ j \in 1 .. Len(path) /\ i < j
      /\ part \in Seq(Node) /\ Len(part) = j - i /\ part # <<>> /\ part[1] = path[i + 1]
      /\ ToSet(part) \subseteq ToSet(path)
      /\ i # 0 => path[i] = m.origin
      /\ m.origin \notin ToSet(part) /\ (Road(path) => Road(part))
  BY <1>3, <1>5, CachedPart
<1> HIDE DEF i, j, part, w, n
<1>7. ASSUME ValidateRouteCache(path, m.list), ~astray, m.list = <<>> \/ i = 0
      PROVE  Road(a)
  <2>1. Road(w) /\ Road(part) /\ Road(path) /\ m.origin \notin ToSet(part)
    BY <1>3, <1>5, <1>6, <1>7
  <2>2. ToSet(w) \cap ToSet(part) = {}
    BY <1>4, <1>6, <1>7, <2>1, Zenon DEF ValidateRouteCache
  <2>3. {Last(w), part[1]} \in Link
    <3>1. CASE i = 0
      <4>1. path[i + 1] = path[1]
        BY <3>1
      <4> QED BY <1>3, <1>5, <1>6, <1>7, <4>1
    <3>2. CASE i # 0
      <4>1. i \in 1 .. Len(path) - 1 /\ m.list = <<>>
        BY <1>5, <1>6, <1>7, <3>2
      <4>2. {path[i], path[i + 1]} \in Link
        BY <2>1, <4>1 DEF Road
      <4> QED BY <1>4, <1>6, <3>2, <4>1, <4>2
    <3> QED BY <3>1, <3>2
  <2> QED BY <1>4, <1>6, <2>1, <2>2, <2>3, RoadsJoined
<1>8. a \in Seq(Node) /\ Len(a) = Len(w) + Len(part) /\ Len(part) \in Nat \ {0} /\ a[Len(w)] = w[Len(w)]
  <2>1. /\ a \in Seq(Node) /\ Len(a) = Len(w) + Len(part)
        /\ \A k \in 1 .. Len(w) + Len(part) : a[k] = IF k <= Len(w) THEN w[k] ELSE part[k - Len(w)]
    BY <1>4, <1>6, ConcatProperties
  <2>2. Len(part) \in Nat \ {0}
    BY <1>5, <1>6
  <2> HIDE DEF a
  <2> QED BY <1>4, <2>1, <2>2
<1> HIDE DEF a
<1>9. ASSUME ValidateRouteCache(path, m.list), astray' = (astray \/ (m.list # <<>> /\ i # 0))
      PROVE  Fine(Reply(n, a, Last(w)))
  <2> DEFINE k == Len(w)
  <2>1. k \in 1 .. Len(a) - 1
    BY <1>4, <1>8
  <2>2. ~astray' => Road(a)
    BY <1>7, <1>9, Zenon
  <2>3. Last(w) = a[k]
    BY <1>8 DEF Last
  <2> HIDE DEF k
  <2>4. Fine(Reply(n, a, a[k]))
    BY <1>3, <1>8, <2>1, <2>2, FineReply
  <2> QED BY <2>3, <2>4
<1>10. ~astray' => ~astray
  BY <1>1, Zenon
<1>11. \A x \in net' : x \in net \/ Fine(x)
  BY <1>1, <1>2, <1>9, Zenon
<1> QED BY <1>10, <1>11, FineBefore, Zenon DEF NetStep

\* A node that passes a request on is new on its way, or it is the origin.
LEMMA FineRebroadcast ==
    ASSUME IInv, NEW m \in net, m.kind = "RREQ", Rebroadcast(m.to, m)
    PROVE  NetStep
<1> DEFINE n == m.to
           new(k) == [m EXCEPT !.from = n, !.to = k, !.list = Append(m.list, n), !.ttl = m.ttl - 1]
<1>1. /\ n # m.target /\ n \notin ToSet(m.list)
      /\ \/ /\ m.ttl > 1
            /\ net' = (net \ {m}) \cup {new(k) : k \in Neighbours(n)}
            /\ astray' = (astray \/ n = m.origin)
         \/ net' = net \ {m} /\ UNCHANGED astray
  BY DEF Rebroadcast, PassesOn
<1>2. /\ m \in Message /\ n \in Node /\ m.origin \in Node /\ m.target \in Node
      /\ m.origin # m.target /\ m.id \in 1 .. MaxId /\ m.list \in Seq(Node) /\ m.ttl \in Nat
      /\ ~astray => Road(Way(m)) /\ m.target \notin ToSet(Way(m)) /\ {Last(Way(m)), n} \in Link
  BY RequestAtHand
<1> HIDE DEF n
<1>3. ASSUME NEW k \in Neighbours(n), m.ttl > 1, astray' = (astray \/ n = m.origin)
      PROVE  Fine(new(k))
  <2> DEFINE l == Append(m.list, n)
             t == m.ttl - 1
             x == new(k)
  <2>1. k \in Node /\ {n, k} \in Link
    BY DEF Neighbours
  <2>2. l \in Seq(Node) /\ t \in Nat
    BY <1>2, <1>3
  <2>3. m \in [kind : {"RREQ"}, from : Node, to : Node, origin : Node, target : Node,
               id : 1 .. MaxId, list : Seq(Node), ttl : Nat]
    BY <1>2, RequestIs
  <2> HIDE DEF l, t
  <2>4. LET y == [m EXCEPT !.from = n, !.to = k, !.list = l, !.ttl = t]
        IN  /\ y \in [kind : {"RREQ"}, from : Node, to : Node, origin : Node, target : Node,
                      id : 1 .. MaxId, list : Seq(Node), ttl : Nat]
            /\ y.kind = "RREQ" /\ y.to = k /\ y.origin = m.origin /\ y.target = m.target /\ y.list = l
    BY <1>2, <2>1, <2>2, <2>3
  <2>5. x \in Message
    BY <2>4 DEF Message, l, t
  <2>6. /\ x.kind = "RREQ" /\ x.to = k /\ x.origin = m.origin /\ x.target = m.target
        /\ x.list = Append(m.list, n)
    BY <2>4 DEF l, t
  <2> HIDE DEF new
  <2>7. Way(x) = Append(Way(m), n) /\ Last(Way(x)) = n
    BY <1>2, <2>6, WayGoesOn DEF Way
  <2>8. ~astray' => Road(Way(x)) /\ x.target \notin ToSet(Way(x)) /\ {Last(Way(x)), x.to} \in Link
    <3> SUFFICES ASSUME ~astray'
                 PROVE  Road(Way(x)) /\ x.target \notin ToSet(Way(x)) /\ {Last(Way(x)), x.to} \in Link
      OBVIOUS
    <3> DEFINE w == Way(m)
    <3>1. Road(w) /\ m.target \notin ToSet(w) /\ {Last(w), n} \in Link /\ n # m.origin
      BY <1>2, <1>3
    <3>2. w \in Seq(Node) /\ w # <<>> /\ ToSet(w) = {m.origin} \cup ToSet(m.list)
      BY <1>2, WayIs
    <3> HIDE DEF w
    <3>3. n \notin ToSet(w)
      BY <1>1, <3>1, <3>2
    <3>4. Road(Append(w, n)) /\ ToSet(Append(w, n)) = ToSet(w) \cup {n}
      BY <1>2, <3>1, <3>2, <3>3, RoadGoesOn, ToSetAppend
    <3> QED BY <1>1, <2>6, <2>1, <2>7, <3>1, <3>4 DEF w
  <2>9. Sensible(x) /\ (~astray' => Straight(x))
    BY <1>2, <2>6, <2>8 DEF Sensible, Straight
  <2> QED BY <2>5, <2>9 DEF Fine
<1> HIDE DEF new
<1>4. ~astray' => ~astray
  BY <1>1, Zenon
<1>5. \A x \in net' : x \in net \/ Fine(x)
  BY <1>1, <1>3, Zenon
<1> QED BY <1>4, <1>5, FineBefore, Zenon DEF NetStep

LEMMA FineAfterReply ==
    ASSUME IInv, NEW m \in net, ProcessRREP(m)
    PROVE  NetStep
<1> DEFINE n == m.to
           a == m.addresses
           i == Position(a, n) - 1
<1>1. /\ m.kind = "RREP" /\ astray' = astray
      /\ \/ n = Head(a) /\ net' = net \ {m}
         \/ n # Head(a) /\ net' = (net \ {m}) \cup {Reply(n, a, a[i])}
  BY DEF ProcessRREP
<1>2. /\ n \in Node /\ a \in Seq(Node) /\ (~astray => Road(a))
      /\ n # Head(a) => i \in 1 .. Len(a) - 1
  BY <1>1, ReplyBrings
<1> HIDE DEF n, a, i
<1>3. n # Head(a) => Fine(Reply(n, a, a[i]))
  BY <1>1, <1>2, FineReply
<1> QED BY <1>1, <1>3, FineBefore DEF NetStep

LEMMA NetSame ==
    ASSUME IInv, net' \subseteq net, UNCHANGED astray
    PROVE  NetStep
BY FineBefore DEF NetStep

LEMMA NetMore ==
    ASSUME IInv, UNCHANGED astray, NEW S, \A m \in S : Fine(m), net' \subseteq net \cup S
    PROVE  NetStep
BY FineBefore DEF NetStep

\* The id of a request that is made.
LEMMA NextId ==
    ASSUME Configured, IInv, NEW n \in Node, id[n] < MaxId, id' = [id EXCEPT ![n] = @ + 1]
    PROVE  id' \in [Node -> 0 .. MaxId] /\ id'[n] \in 1 .. MaxId
<1>1. id \in [Node -> 0 .. MaxId] /\ MaxId \in Nat
  BY DEF IInv, TypeOK, Configured
<1>2. id'[n] = id[n] + 1 /\ id[n] \in 0 .. MaxId
  BY <1>1
<1>3. id[n] + 1 \in 1 .. MaxId /\ id[n] + 1 \in 0 .. MaxId
  BY <1>1, <1>2
<1>4. id' \in [Node -> 0 .. MaxId]
  BY <1>1, <1>3
<1> QED BY <1>2, <1>3, <1>4

LEMMA TimerIs ==
    ASSUME IInv, NEW n \in Node, NEW t \in timers[n]
    PROVE  t \in Timer /\ t.target \in Node /\ t.target # n
BY DEF IInv, TypeOK, EndsInv, Timer

LEMMA NetAlways ==
    ASSUME Configured, IInv, Next
    PROVE  NetStep
<1>1. ASSUME NEW o \in out, NetworkOut(o)
      PROVE  NetStep
  <2> DEFINE n == o.at
             p == o.packet
  <2>1. n \in Node /\ p \in Packet /\ Dst[p] # n /\ Dst[p] \in Node /\ UNCHANGED astray
    BY <1>1, OutIs DEF IInv, EndsInv, NetworkOut, Configured
  <2>2. CASE RouteOut(n, p)
    <3> DEFINE nextHop == cache[n][FindCache(n, Dst[p])].path[2]
               d == [kind |-> "DATA", from |-> n, to |-> nextHop, packet |-> p]
    <3>1. net' = net \cup {d} /\ FindCache(n, Dst[p]) # 0
      BY <2>2 DEF RouteOut
    <3>2. nextHop \in Node
      BY <2>1, <3>1, NextHopIs
    <3> HIDE DEF nextHop
    <3>3. d \in Message /\ d.kind = "DATA"
      BY <2>1, <3>2 DEF Message
    <3> HIDE DEF d
    <3> DEFINE S == {d}
    <3>4. (\A x \in S : Fine(x)) /\ net' \subseteq net \cup S
      BY <3>1, <3>3, FineOther
    <3> HIDE DEF S
    <3> QED BY <2>1, <3>4, NetMore
  <2>3. CASE QueueOut(n, p)
    BY <2>1, <2>3, NetSame DEF QueueOut
  <2>4. CASE DiscoverOut(n, p)
    <3>1. id[n] < MaxId /\ id' = [id EXCEPT ![n] = @ + 1] /\ net' = net \cup Request(n, Dst[p], id'[n], 1)
      BY <2>4 DEF DiscoverOut
    <3>2. id'[n] \in 1 .. MaxId
      BY <2>1, <3>1, NextId
    <3>3. \A m \in Request(n, Dst[p], id'[n], 1) : Fine(m)
      BY <2>1, <3>2, FineRequest
    <3> QED BY <2>1, <3>1, <3>3, NetMore
  <2> QED BY <1>1, <2>2, <2>3, <2>4 DEF NetworkOut
<1>2. ASSUME NEW m \in net, Receive(m)
      PROVE  NetStep
  <2>1. CASE ProcessRREQ(m)
    <3>1. m.kind = "RREQ"
      BY <2>1 DEF ProcessRREQ
    <3>2. CASE AnswerAsTarget(m.to, m)
      BY <3>1, <3>2, FineAnswerOfTarget
    <3>3. CASE AnswerFromCache(m.to, m)
      BY <3>1, <3>3, FineAnswerFromCache
    <3>4. CASE Rebroadcast(m.to, m)
      BY <3>1, <3>4, FineRebroadcast
    <3>5. CASE DropSeen(m.to, m) \/ DropOwn(m.to, m)
      BY <3>5, NetSame DEF DropSeen, DropOwn
    <3> QED BY <2>1, <3>2, <3>3, <3>4, <3>5 DEF ProcessRREQ
  <2>2. CASE ProcessRREP(m)
    BY <2>2, FineAfterReply
  <2>3. CASE ProcessSourceRoute(m)
    <3> DEFINE a == [kind |-> "ACK", from |-> m.to, to |-> m.from]
    <3>1. net' = (net \ {m}) \cup {a} /\ UNCHANGED astray
      BY <2>3 DEF ProcessSourceRoute
    <3>2. m.to \in Node /\ m.from \in Node
      BY <2>3 DEF ProcessSourceRoute, IInv, TypeOK, Message
    <3>3. a \in Message /\ a.kind = "ACK"
      BY <3>2 DEF Message
    <3> HIDE DEF a
    <3> DEFINE S == {a}
    <3>4. (\A x \in S : Fine(x)) /\ net' \subseteq net \cup S
      BY <3>1, <3>3, FineOther
    <3> HIDE DEF S
    <3> QED BY <3>1, <3>4, NetMore
  <2>4. CASE ProcessAck(m)
    BY <2>4, NetSame DEF ProcessAck
  <2> QED BY <1>2, <2>1, <2>2, <2>3, <2>4 DEF Receive
<1>3. ASSUME NEW n \in Node, NEW t \in timers[n], RREQTimeout(n, t)
      PROVE  NetStep
  <2>1. CASE Retry(n, t.target)
    <3>1. /\ id[n] < MaxId /\ id' = [id EXCEPT ![n] = @ + 1] /\ UNCHANGED astray
          /\ net' = net \cup Request(n, t.target, id'[n], HopLimit)
      BY <1>3, <2>1 DEF Retry, RREQTimeout
    <3>2. id'[n] \in 1 .. MaxId /\ HopLimit \in Nat
      BY <3>1, NextId DEF Configured
    <3>3. \A m \in Request(n, t.target, id'[n], HopLimit) : Fine(m)
      BY <3>2, TimerIs, FineRequest
    <3> QED BY <3>1, <3>3, NetMore
  <2>2. CASE GiveUp(n, t.target) \/ IgnoreTimeout(n, t.target)
    BY <1>3, <2>2, NetSame DEF GiveUp, IgnoreTimeout, RREQTimeout
  <2> QED BY <1>3, <2>1, <2>2 DEF RREQTimeout
<1>4. ASSUME \/ \E n \in Node : \E i \in DOMAIN maint[n] : MaintTimeout(n, i)
             \/ \E p \in unsent : Originate(p)
             \/ \E m \in net : Lose(m)
             \/ \E n \in Node : Expire(n)
             \/ \E l \in Fragile : Break(l)
      PROVE  NetStep
  BY <1>4, NetSame DEF MaintTimeout, Originate, Lose, Expire, Break
<1> QED BY <1>1, <1>2, <1>3, <1>4, Steps

-----------------------------------------------------------------------------
(* The route request tables and their timers.                              *)

TableStep ==
    /\ id' \in [Node -> 0 .. MaxId]
    /\ table' \in [Node -> Seq(RREQEntry)]
    /\ timers' \in [Node -> SUBSET Timer]
    /\ again' \subseteq Node \X Node
    /\ \A n \in Node : \A t \in timers'[n] : t.target # n
    /\ \A n \in Node : Attended(n, table'[n], timers'[n], again')

LEMMA TableKept ==
    ASSUME IInv, NEW n \in Node, NEW entries \in Seq(RREQEntry), NEW pending \in SUBSET Timer,
           \A t \in pending : t.target # n, Attended(n, entries, pending, again'),
           again \subseteq again', again' \subseteq Node \X Node, id' \in [Node -> 0 .. MaxId],
           table' = [table EXCEPT ![n] = entries], timers' = [timers EXCEPT ![n] = pending]
    PROVE  TableStep
<1>1. /\ table \in [Node -> Seq(RREQEntry)] /\ timers \in [Node -> SUBSET Timer]
      /\ \A k \in Node : \A t \in timers[k] : t.target # k
      /\ \A k \in Node : Attended(k, table[k], timers[k], again)
  BY DEF IInv, TypeOK, EndsInv, TimersInv
<1>2. table' \in [Node -> Seq(RREQEntry)] /\ \A k \in Node : table'[k] = IF k = n THEN entries ELSE table[k]
  BY <1>1
<1>3. /\ timers' \in [Node -> SUBSET Timer]
      /\ \A k \in Node : timers'[k] = IF k = n THEN pending ELSE timers[k]
  BY <1>1
<1>4. \A k \in Node : Attended(k, table[k], timers[k], again')
  BY <1>1, Zenon DEF Attended
<1>5. \A k \in Node : Attended(k, table'[k], timers'[k], again')
  BY <1>2, <1>3, <1>4, Zenon
<1>6. \A k \in Node : \A t \in timers'[k] : t.target # k
  BY <1>1, <1>3, Zenon
<1> QED BY <1>2, <1>3, <1>5, <1>6 DEF TableStep

LEMMA TableSame ==
    ASSUME IInv, UNCHANGED <<id, table, timers, again>>
    PROVE  TableStep
BY DEF TableStep, IInv, TypeOK, EndsInv, TimersInv

\* What a node has of its requests.
LEMMA TableAtHand ==
    ASSUME IInv, NEW n \in Node
    PROVE  /\ id \in [Node -> 0 .. MaxId] /\ again \subseteq Node \X Node
           /\ table \in [Node -> Seq(RREQEntry)] /\ timers \in [Node -> SUBSET Timer]
           /\ table[n] \in Seq(RREQEntry) /\ timers[n] \in SUBSET Timer
           /\ \A t \in timers[n] : t.target # n
           /\ Attended(n, table[n], timers[n], again)
BY DEF IInv, TypeOK, EndsInv, TimersInv

LEMMA RREQTableIs ==
    ASSUME NEW n, table[n] \in Seq(RREQEntry), NEW target
    PROVE  LET i == RREQTable(n, target)
           IN  /\ i # 0 => /\ i \in DOMAIN table[n] /\ table[n][i] \in RREQEntry
                           /\ table[n][i].target = target /\ ~table[n][i].flag
               /\ (\E e \in ToSet(table[n]) : e.target = target /\ ~e.flag) => i # 0
<1> DEFINE s == table[n]
           I == {k \in 1 .. Len(s) : s[k].target = target /\ ~s[k].flag}
<1>1. RREQTable(n, target) = IF I # {} THEN Min(I) ELSE 0
  BY DEF RREQTable, SelectInSeq
<1>2. s \in Seq(RREQEntry) /\ I \in SUBSET Nat /\ DOMAIN s = 1 .. Len(s) /\ \A k \in I : k # 0
  OBVIOUS
<1>3. (\E e \in ToSet(s) : e.target = target /\ ~e.flag) => I # {}
  BY <1>2 DEF ToSet
<1>4. I # {} => Min(I) \in I
  <2> HIDE DEF I
  <2> QED BY <1>2, MinOfSet
<1>5. \A k \in I : k \in DOMAIN s /\ s[k] \in RREQEntry /\ s[k].target = target /\ ~s[k].flag
  BY <1>2
<1> HIDE DEF s, I
<1>6. RREQTable(n, target) # 0 => RREQTable(n, target) \in I
  BY <1>1, <1>4
<1>7. I # {} => RREQTable(n, target) # 0
  BY <1>1, <1>2, <1>4
<1> QED BY <1>3, <1>5, <1>6, <1>7 DEF s

\* More entries attend the timers no less.
LEMMA MoreEntries ==
    ASSUME NEW n, NEW s, NEW r, NEW pending, NEW twice,
           Attended(n, s, pending, twice), ToSet(s) \subseteq ToSet(r)
    PROVE  Attended(n, r, pending, twice)
BY Zenon DEF Attended

LEMMA TableAfterDiscover ==
    ASSUME Configured, IInv, NEW n \in Node, NEW p \in Packet, Dst[p] # n, DiscoverOut(n, p)
    PROVE  TableStep
<1> DEFINE T == Dst[p]
           rid == id'[n]
           e == [target |-> T, id |-> rid, count |-> 1, flag |-> FALSE, event |-> rid]
           t == [target |-> T, id |-> rid]
           s == table[n]
           P == timers[n]
<1>1. /\ id[n] < MaxId /\ id' = [id EXCEPT ![n] = @ + 1]
      /\ table' = [table EXCEPT ![n] = Append(s, e)]
      /\ timers' = [timers EXCEPT ![n] = P \cup {t}]
      /\ again' = IF \E u \in P : u.target = T THEN again \cup {<<n, T>>} ELSE again
  BY DEF DiscoverOut
<1>2. id' \in [Node -> 0 .. MaxId] /\ rid \in 1 .. MaxId /\ T \in Node
  BY <1>1, NextId DEF Configured
<1>3. /\ s \in Seq(RREQEntry) /\ P \in SUBSET Timer /\ again \subseteq Node \X Node
      /\ \A u \in P : u.target # n
      /\ Attended(n, s, P, again)
  BY TableAtHand
<1>4. t \in Timer /\ t.target = T /\ t.id = rid
  BY <1>2 DEF Timer
<1>5. e \in RREQEntry /\ e.target = T /\ ~e.flag /\ e.event = rid
  <2>1. rid \in 0 .. MaxId /\ 1 \in 0 .. RequestLimit
    BY <1>2 DEF Configured
  <2> HIDE DEF rid, T
  <2> QED BY <1>2, <2>1 DEF RREQEntry
<1> HIDE DEF s, P, e, t, rid, T
<1>6. Append(s, e) \in Seq(RREQEntry) /\ ToSet(Append(s, e)) = ToSet(s) \cup {e}
  BY <1>3, <1>5, ToSetAppend
<1>7. again \subseteq again' /\ again' \subseteq Node \X Node
  BY <1>1, <1>2, <1>3
<1>8. P \cup {t} \in SUBSET Timer /\ \A u \in P \cup {t} : u.target # n
  BY <1>3, <1>4 DEF T
<1>9. \A u \in P : u.target = T => <<n, T>> \in again'
  BY <1>1, Zenon
<1>10. Attended(n, Append(s, e), P \cup {t}, again')
  <2>1. Attended(n, Append(s, e), P, again')
    BY <1>3, <1>6, <1>7, Zenon DEF Attended
  <2> SUFFICES ASSUME NEW u \in P \cup {t}, <<n, u.target>> \notin again'
               PROVE  /\ \A v \in P \cup {t} : v.target = u.target => v = u
                      /\ \E d \in ToSet(Append(s, e)) : d.target = u.target /\ ~d.flag /\ d.event = u.id
    BY Zenon DEF Attended
  <2>2. CASE u = t
    <3>1. \A v \in P : v.target # u.target
      BY <1>4, <1>9, <2>2, Zenon
    <3> QED BY <1>4, <1>5, <1>6, <2>2, <3>1, Zenon
  <2>3. CASE u \in P
    <3>1. t.target # u.target
      BY <1>4, <1>9, <2>3, Zenon
    <3> QED BY <2>1, <2>3, <3>1, Zenon DEF Attended
  <2> QED BY <2>2, <2>3
<1> DEFINE Q == P \cup {t}
           r == Append(s, e)
<1>11. /\ r \in Seq(RREQEntry) /\ Q \in SUBSET Timer /\ (\A u \in Q : u.target # n)
       /\ Attended(n, r, Q, again')
       /\ table' = [table EXCEPT ![n] = r] /\ timers' = [timers EXCEPT ![n] = Q]
  BY <1>1, <1>6, <1>8, <1>10
<1> HIDE DEF Q, r
<1> QED BY <1>2, <1>7, <1>11, TableKept

LEMMA TableAfterRetry ==
    ASSUME Configured, IInv, NEW n \in Node, NEW t \in timers[n], RREQTimeout(n, t), Retry(n, t.target)
    PROVE  TableStep
<1> DEFINE T == t.target
           i == RREQTable(n, T)
           rid == id'[n]
           s == table[n]
           c == s[i].count + 1
           e == [s[i] EXCEPT !.count = c, !.id = rid, !.event = rid]
           u == [target |-> T, id |-> rid]
           P == timers[n]
           Q == (P \ {t}) \cup {u}
           r == [s EXCEPT ![i] = e]
<1>1. /\ i # 0 /\ s[i].count < RequestLimit
      /\ id[n] < MaxId /\ id' = [id EXCEPT ![n] = @ + 1]
      /\ table' = [table EXCEPT ![n][i].count = c, ![n][i].id = rid, ![n][i].event = rid]
      /\ timers' = [timers EXCEPT ![n] =
             (P \ {t}) \cup IF id'[n] # id[n] THEN {u} ELSE {}]
      /\ again' = again
  BY DEF RREQTimeout, Retry
<1>2. id' \in [Node -> 0 .. MaxId] /\ rid \in 1 .. MaxId
  BY <1>1, NextId
<1>3. /\ s \in Seq(RREQEntry) /\ P \in SUBSET Timer /\ again \subseteq Node \X Node
      /\ \A v \in P : v.target # n
      /\ Attended(n, s, P, again)
      /\ id \in [Node -> 0 .. MaxId] /\ table \in [Node -> Seq(RREQEntry)]
  BY TableAtHand
<1>4. i \in DOMAIN s /\ s[i] \in RREQEntry /\ s[i].target = T /\ ~s[i].flag
  BY <1>1, <1>3, RREQTableIs
<1>5. T \in Node /\ T # n
  BY TimerIs
<1>6. timers' = [timers EXCEPT ![n] = Q]
  <2>1. id'[n] # id[n]
    BY <1>1, <1>3
  <2> QED BY <1>1, <2>1
<1>7. table' = [table EXCEPT ![n] = r]
  <2> HIDE DEF i, rid, c
  <2> QED BY <1>1, <1>3, <1>4
<1>8. c \in 0 .. RequestLimit /\ rid \in 0 .. MaxId
  BY <1>1, <1>2, <1>4 DEF RREQEntry, Configured
<1> HIDE DEF i, s, c, rid, T, P
<1>9. e \in RREQEntry /\ e.target = T /\ ~e.flag /\ e.event = rid
  BY <1>2, <1>4, <1>8 DEF RREQEntry
<1>10. u \in Timer /\ u.target = T /\ u.id = rid
  BY <1>2, <1>5 DEF Timer
<1> HIDE DEF e, u
<1>11. r \in Seq(RREQEntry) /\ e \in ToSet(r) /\ \A d \in ToSet(s) : d # s[i] => d \in ToSet(r)
  BY <1>3, <1>4, <1>9, ToSetExcept
<1>12. Q \in SUBSET Timer /\ \A v \in Q : v.target # n
  BY <1>3, <1>5, <1>10
<1>13. t \in P /\ t.target = T
  BY DEF P, T
<1> HIDE DEF r
<1>14. Attended(n, r, Q, again)
  <2> SUFFICES ASSUME NEW v \in Q, <<n, v.target>> \notin again
               PROVE  /\ \A w \in Q : w.target = v.target => w = v
                      /\ \E d \in ToSet(r) : d.target = v.target /\ ~d.flag /\ d.event = v.id
    BY Zenon DEF Attended
  <2>1. CASE v.target = T
    <3> <<n, t.target>> \notin again
      BY <1>13, <2>1
    <3>1. \A w \in P : w.target = T => w = t
      BY <1>3, <1>13, Zenon DEF Attended
    <3>2. \A w \in Q : w.target = T => w = u
      BY <3>1, Zenon
    <3> QED BY <1>9, <1>10, <1>11, <2>1, <3>2, Zenon
  <2>2. CASE v.target # T
    <3>1. v \in P
      BY <1>10, <2>2, Zenon
    <3>2. \A w \in Q : w.target = v.target => w = v
      BY <1>3, <1>10, <2>2, <3>1, Zenon DEF Attended
    <3>3. PICK d \in ToSet(s) : d.target = v.target /\ ~d.flag /\ d.event = v.id
      BY <1>3, <3>1, Zenon DEF Attended
    <3>4. d \in ToSet(r)
      BY <1>4, <1>11, <2>2, <3>3, Zenon
    <3> QED BY <3>2, <3>3, <3>4, Zenon
  <2> QED BY <2>1, <2>2
<1> HIDE DEF Q
<1> QED BY <1>1, <1>2, <1>3, <1>6, <1>7, <1>11, <1>12, <1>14, TableKept

LEMMA TableAfterGiveUp ==
    ASSUME IInv, NEW n \in Node, NEW t \in timers[n], RREQTimeout(n, t), GiveUp(n, t.target)
    PROVE  TableStep
<1> DEFINE T == t.target
           s == table[n]
           I == {k \in 1 .. Len(s) : s[k].target = T}
           j == IF I # {} THEN Min(I) ELSE 0
           r == IF j = 0 THEN s ELSE RemoveAt(s, j)
           P == timers[n]
           Q == P \ {t}
<1>1. /\ table' = [table EXCEPT ![n] = DeleteRREQTable(n, T)]
      /\ timers' = [timers EXCEPT ![n] =
             (P \ {t}) \cup IF id'[n] # id[n] THEN {[target |-> T, id |-> id'[n]]} ELSE {}]
      /\ again' = again /\ id' = id
  BY DEF RREQTimeout, GiveUp
<1>2. DeleteRREQTable(n, T) = r
  BY DEF DeleteRREQTable, SelectInSeq
<1>3. /\ s \in Seq(RREQEntry) /\ P \in SUBSET Timer /\ again \subseteq Node \X Node
      /\ \A v \in P : v.target # n
      /\ Attended(n, s, P, again) /\ id \in [Node -> 0 .. MaxId]
  BY TableAtHand
<1>4. timers' = [timers EXCEPT ![n] = Q]
  BY <1>1
<1>5. j = 0 \/ (j \in 1 .. Len(s) /\ s[j].target = T)
  <2>1. I \in SUBSET Nat /\ \A k \in I : k \in 1 .. Len(s) /\ s[k].target = T
    OBVIOUS
  <2> HIDE DEF I
  <2>2. I # {} => Min(I) \in I
    BY <2>1, MinOfSet
  <2> QED BY <2>1, <2>2
<1> HIDE DEF s, j, P, T
<1>6. r \in Seq(RREQEntry) /\ \A d \in ToSet(s) : d.target # T => d \in ToSet(r)
  <2>1. CASE j = 0
    BY <1>3, <2>1
  <2>2. CASE j # 0
    <3>1. RemoveAt(s, j) \in Seq(RREQEntry) /\ \A d \in ToSet(s) : d # s[j] => d \in ToSet(RemoveAt(s, j))
      BY <1>3, <1>5, <2>2, ToSetRemoveAt
    <3> QED BY <1>5, <2>2, <3>1
  <2> QED BY <2>1, <2>2
<1>7. t \in P /\ t.target = T
  BY DEF P, T
<1> HIDE DEF r
<1>8. Attended(n, r, Q, again)
  <2> SUFFICES ASSUME NEW v \in Q, <<n, v.target>> \notin again
               PROVE  /\ \A w \in Q : w.target = v.target => w = v
                      /\ \E d \in ToSet(r) : d.target = v.target /\ ~d.flag /\ d.event = v.id
    BY Zenon DEF Attended
  <2>1. \A w \in P : w.target = v.target => w = v
    BY <1>3, Zenon DEF Attended
  <2>2. v.target # T
    BY <1>7, <2>1, Zenon
  <2>3. PICK d \in ToSet(s) : d.target = v.target /\ ~d.flag /\ d.event = v.id
    BY <1>3, Zenon DEF Attended
  <2>4. d \in ToSet(r)
    BY <1>6, <2>2, <2>3, Zenon
  <2> QED BY <2>1, <2>3, <2>4, Zenon
<1>9. Q \in SUBSET Timer /\ \A v \in Q : v.target # n
  BY <1>3
<1> HIDE DEF Q
<1> QED BY <1>1, <1>2, <1>3, <1>4, <1>6, <1>8, <1>9, TableKept

\* Timers that are over need no entry.
LEMMA FewerTimers ==
    ASSUME NEW n, NEW s, NEW pending, NEW twice, Attended(n, s, pending, twice),
           NEW rest \in SUBSET pending
    PROVE  Attended(n, s, rest, twice)
BY Zenon DEF Attended

LEMMA TableAfterIgnore ==
    ASSUME IInv, NEW n \in Node, NEW t \in timers[n], RREQTimeout(n, t), IgnoreTimeout(n, t.target)
    PROVE  TableStep
<1> DEFINE P == timers[n]
           Q == P \ {t}
           s == table[n]
<1>1. /\ timers' = [timers EXCEPT ![n] =
             (P \ {t}) \cup IF id'[n] # id[n] THEN {[target |-> t.target, id |-> id'[n]]} ELSE {}]
      /\ again' = again /\ id' = id /\ table' = table
  BY DEF RREQTimeout, IgnoreTimeout
<1>2. /\ s \in Seq(RREQEntry) /\ P \in SUBSET Timer /\ again \subseteq Node \X Node
      /\ \A v \in P : v.target # n
      /\ Attended(n, s, P, again) /\ id \in [Node -> 0 .. MaxId]
      /\ table \in [Node -> Seq(RREQEntry)]
  BY TableAtHand
<1>3. timers' = [timers EXCEPT ![n] = Q] /\ table' = [table EXCEPT ![n] = s]
  BY <1>1, <1>2
<1> HIDE DEF P, s
<1>4. Attended(n, s, Q, again)
  BY <1>2, FewerTimers
<1>5. Q \in SUBSET Timer /\ \A v \in Q : v.target # n
  BY <1>2
<1> HIDE DEF Q
<1> QED BY <1>1, <1>2, <1>3, <1>4, <1>5, TableKept

LEMMA EntryIs ==
    ASSUME Configured, IInv, NEW m \in net, m.kind = "RREQ"
    PROVE  Entry(m, 0) \in RREQEntry /\ Entry(m, 1) \in RREQEntry
<1>1. m.target \in Node /\ m.id \in 1 .. MaxId
  BY RequestAtHand
<1>2. 0 \in 0 .. MaxId /\ 0 \in 0 .. RequestLimit /\ 1 \in 0 .. RequestLimit
  BY DEF Configured
<1> QED BY <1>1, <1>2 DEF Entry, RREQEntry

LEMMA TableAfterRequest ==
    ASSUME Configured, IInv, NEW m \in net, ProcessRREQ(m), UNCHANGED again
    PROVE  TableStep
<1> DEFINE n == m.to
           s == table[n]
           single == Append(s, Entry(m, 1))
           two == <<Entry(m, 1), Entry(m, 0)>>
           double == s \o two
<1>1. /\ m.kind = "RREQ" /\ id' = id /\ timers' = timers
      /\ \/ table' = table
         \/ table' = [table EXCEPT ![n] = single]
         \/ table' = [table EXCEPT ![n] = double]
  BY Zenon DEF ProcessRREQ, DropSeen, AnswerAsTarget, DropOwn, AnswerFromCache, Rebroadcast, PassesOn
<1>2. n \in Node /\ Entry(m, 1) \in RREQEntry /\ Entry(m, 0) \in RREQEntry
  BY <1>1, RequestAtHand, EntryIs
<1>3. /\ s \in Seq(RREQEntry) /\ timers[n] \in SUBSET Timer /\ again \subseteq Node \X Node
      /\ \A v \in timers[n] : v.target # n
      /\ Attended(n, s, timers[n], again) /\ id \in [Node -> 0 .. MaxId]
      /\ table \in [Node -> Seq(RREQEntry)] /\ timers \in [Node -> SUBSET Timer]
  BY <1>2, TableAtHand
<1>4. single \in Seq(RREQEntry) /\ ToSet(s) \subseteq ToSet(single)
  <2> DEFINE e == Entry(m, 1)
  <2> HIDE DEF e, s
  <2>1. Append(s, e) \in Seq(RREQEntry) /\ ToSet(Append(s, e)) = ToSet(s) \cup {e}
    BY <1>2, <1>3, ToSetAppend DEF e
  <2> QED BY <2>1 DEF e
<1>5. double \in Seq(RREQEntry) /\ ToSet(s) \subseteq ToSet(double)
  <2>1. two \in Seq(RREQEntry)
    BY <1>2
  <2> HIDE DEF two, s
  <2>2. s \o two \in Seq(RREQEntry) /\ ToSet(s \o two) = ToSet(s) \cup ToSet(two)
    BY <1>3, <2>1, ConcatProperties, ToSetConcat
  <2> QED BY <2>2
<1> HIDE DEF single, double, n, s, two
<1>6. timers' = [timers EXCEPT ![n] = timers[n]]
  BY <1>1, <1>2, <1>3
<1>7. ASSUME NEW r \in Seq(RREQEntry), ToSet(s) \subseteq ToSet(r), table' = [table EXCEPT ![n] = r]
      PROVE  TableStep
  <2>1. Attended(n, r, timers[n], again')
    BY <1>3, <1>7, MoreEntries
  <2> DEFINE Q == timers[n]
  <2>2. /\ Q \in SUBSET Timer /\ (\A v \in Q : v.target # n) /\ Attended(n, r, Q, again')
        /\ timers' = [timers EXCEPT ![n] = Q]
    BY <1>3, <1>6, <2>1
  <2> HIDE DEF Q
  <2> QED BY <1>1, <1>2, <1>3, <1>7, <2>2, TableKept
<1> QED BY <1>1, <1>4, <1>5, <1>7, TableSame

LEMMA TableAfterReply ==
    ASSUME IInv, NEW m \in net, ProcessRREP(m), UNCHANGED again
    PROVE  TableStep
<1> DEFINE n == m.to
           T == Last(m.addresses)
           i == RREQTable(n, T)
           s == table[n]
           e == [s[i] EXCEPT !.flag = TRUE]
           r == [s EXCEPT ![i] = e]
           P == timers[n]
           Q == {t \in P : t.id # s[i].event}
<1>1. m.kind = "RREP" /\ id' = id
  BY DEF ProcessRREP
<1>2. \/ UNCHANGED <<table, timers>>
      \/ /\ i # 0
         /\ table' = [table EXCEPT ![n] = r]
         /\ timers' = [timers EXCEPT ![n] = Q]
  BY Zenon DEF ProcessRREP, AnswersRequest
<1>3. n \in Node
  BY <1>1, ReplyBrings
<1>4. /\ s \in Seq(RREQEntry) /\ P \in SUBSET Timer /\ again \subseteq Node \X Node
      /\ \A v \in P : v.target # n
      /\ Attended(n, s, P, again) /\ id \in [Node -> 0 .. MaxId]
  BY <1>3, TableAtHand
<1>5. CASE i # 0
  <2>1. i \in DOMAIN s /\ s[i] \in RREQEntry
    BY <1>4, <1>5, RREQTableIs
  <2> HIDE DEF s, i, n, P
  <2>2. e \in RREQEntry
    BY <2>1 DEF RREQEntry
  <2> HIDE DEF e
  <2>3. r \in Seq(RREQEntry) /\ \A d \in ToSet(s) : d # s[i] => d \in ToSet(r)
    BY <1>4, <2>1, <2>2, ToSetExcept
  <2> HIDE DEF r
  <2>4. Attended(n, r, Q, again)
    <3> SUFFICES ASSUME NEW v \in Q, <<n, v.target>> \notin again
                 PROVE  /\ \A w \in Q : w.target = v.target => w = v
                        /\ \E d \in ToSet(r) : d.target = v.target /\ ~d.flag /\ d.event = v.id
      BY Zenon DEF Attended
    <3>1. v \in P /\ v.id # s[i].event
      BY Zenon
    <3>2. \A w \in Q : w.target = v.target => w = v
      BY <1>4, <3>1, Zenon DEF Attended
    <3>3. PICK d \in ToSet(s) : d.target = v.target /\ ~d.flag /\ d.event = v.id
      BY <1>4, <3>1, Zenon DEF Attended
    <3>4. d \in ToSet(r)
      BY <2>3, <3>1, <3>3, Zenon
    <3> QED BY <3>2, <3>3, <3>4, Zenon
  <2>5. Q \in SUBSET Timer /\ \A v \in Q : v.target # n
    BY <1>4
  <2> HIDE DEF Q
  <2> QED BY <1>1, <1>2, <1>3, <1>4, <2>3, <2>4, <2>5, TableKept, TableSame
<1> HIDE DEF i, s, r, Q, n
<1> QED BY <1>1, <1>2, <1>5, TableSame

LEMMA TableAlways ==
    ASSUME Configured, IInv, Next
    PROVE  TableStep
<1>1. ASSUME NEW o \in out, NetworkOut(o)
      PROVE  TableStep
  <2>1. o.at \in Node /\ o.packet \in Packet /\ Dst[o.packet] # o.at
    BY OutIs DEF IInv, EndsInv
  <2>2. CASE DiscoverOut(o.at, o.packet)
    BY <2>1, <2>2, TableAfterDiscover
  <2>3. CASE RouteOut(o.at, o.packet) \/ QueueOut(o.at, o.packet)
    BY <2>3, TableSame DEF RouteOut, QueueOut
  <2> QED BY <1>1, <2>2, <2>3 DEF NetworkOut
<1>2. ASSUME NEW m \in net, Receive(m)
      PROVE  TableStep
  BY <1>2, TableAfterRequest, TableAfterReply, TableSame DEF Receive, ProcessSourceRoute, ProcessAck
<1>3. ASSUME NEW n \in Node, NEW t \in timers[n], RREQTimeout(n, t)
      PROVE  TableStep
  BY <1>3, TableAfterRetry, TableAfterGiveUp, TableAfterIgnore DEF RREQTimeout
<1>4. ASSUME \/ \E n \in Node : \E i \in DOMAIN maint[n] : MaintTimeout(n, i)
             \/ \E p \in unsent : Originate(p)
             \/ \E m \in net : Lose(m)
             \/ \E n \in Node : Expire(n)
             \/ \E l \in Fragile : Break(l)
      PROVE  TableStep
  BY <1>4, TableSame DEF MaintTimeout, Originate, Lose, Expire, Break
<1> QED BY <1>1, <1>2, <1>3, <1>4, Steps

-----------------------------------------------------------------------------
(* The invariant is inductive.                                             *)

\* What is left of the state.
LEMMA RestAlways ==
    ASSUME IInv, Next
    PROVE  /\ unsent' \subseteq Packet /\ down' \subseteq Fragile /\ astray' \in BOOLEAN
           /\ ~astray' => ~astray
<1>1. unsent \subseteq Packet /\ down \subseteq Fragile /\ astray \in BOOLEAN
  BY DEF IInv, TypeOK
<1>2. unsent' = unsent \/ \E p \in unsent : unsent' = unsent \ {p}
  BY Steps, Zenon DEF NetworkOut, Originate, Receive, Lose, Expire, Break, RREQTimeout, MaintTimeout
<1>3. down' = down \/ \E l \in Fragile \ down : down' = down \cup {l}
  BY Steps, Zenon DEF NetworkOut, Originate, Receive, Lose, Expire, Break, RREQTimeout, MaintTimeout
<1>4. astray' = astray \/ \E b \in BOOLEAN : astray' = (astray \/ b)
  <2>1. ASSUME NEW m, ProcessRREQ(m)
        PROVE  astray' = astray \/ \E b \in BOOLEAN : astray' = (astray \/ b)
    <3>1. \A A, B : (A # B) \in BOOLEAN /\ (A = B) \in BOOLEAN
      OBVIOUS
    <3>2. \/ astray' = astray
          \/ \E i : astray' = (astray \/ (m.list # <<>> /\ i # 0))
          \/ astray' = (astray \/ m.to = m.origin)
      BY <2>1, Zenon DEF ProcessRREQ, DropSeen, AnswerAsTarget, DropOwn, AnswerFromCache, Rebroadcast
    <3>3. \A i : (m.list # <<>> /\ i # 0) \in BOOLEAN /\ (m.to = m.origin) \in BOOLEAN
      OBVIOUS
    <3> QED BY <3>2, <3>3, Zenon
  <2>2. \/ astray' = astray
        \/ \E m \in net : ProcessRREQ(m)
    BY Steps, Zenon DEF NetworkOut, Originate, Receive, Lose, Expire, Break, RREQTimeout, MaintTimeout,
         ProcessRREP, ProcessSourceRoute, ProcessAck
  <2> QED BY <2>1, <2>2, Zenon
<1>5. astray' \in BOOLEAN /\ (~astray' => ~astray)
  BY <1>1, <1>4
<1> QED BY <1>1, <1>2, <1>3, <1>5

LEMMA KnownIs ==
    ASSUME IInv, NEW n \in Node, NEW c, Known(n, c)
    PROVE  Len(c.path) > 1 /\ c.path[1] = n /\ (~astray => Road(c.path))
<1>1. ASSUME NEW d \in ToSet(cache[n]), c.path = d.path
      PROVE  Len(c.path) > 1 /\ c.path[1] = n /\ (~astray => Road(c.path))
  BY <1>1 DEF IInv, EndsInv, RoadsInv
<1>2. ASSUME NEW m \in net, m.kind = "RREP", m.to = n, c.path = Suffix(m.addresses, n)
      PROVE  Len(c.path) > 1 /\ c.path[1] = n /\ (~astray => Road(c.path))
  BY <1>2, ReplyBrings
<1> QED BY <1>1, <1>2 DEF Known

LEMMA Invariant ==
    ASSUME Configured, IInv, Next
    PROVE  IInv'
<1>1. CacheStep /\ BufferStep /\ MaintStep /\ OutStep /\ NetStep /\ TableStep
  BY CacheAlways, PacketsAlways, NetAlways, TableAlways
<1>2. /\ unsent' \subseteq Packet /\ down' \subseteq Fragile /\ astray' \in BOOLEAN
      /\ ~astray' => ~astray
  BY RestAlways
<1>3. net' \subseteq Message
  BY <1>1 DEF NetStep, Fine
<1>4. TypeOK'
  BY <1>1, <1>2, <1>3, Zenon DEF TypeOK, CacheStep, BufferStep, MaintStep, OutStep, TableStep
<1>5. \A n \in Node : \A c \in ToSet(cache'[n]) :
         Len(c.path) > 1 /\ c.path[1] = n /\ (~astray => Road(c.path))
  BY <1>1, KnownIs DEF CacheStep
<1>6. \A n \in Node : /\ \A b \in ToSet(buffer'[n]) : ForOthers(n, b.packets)
                      /\ \A e \in ToSet(maint'[n]) : ForOthers(n, e.packets)
                      /\ \A t \in timers'[n] : t.target # n
  BY <1>1 DEF BufferStep, MaintStep, TableStep
<1>7. \A m \in net' : Sensible(m) /\ (~astray' => Straight(m))
  BY <1>1 DEF NetStep, Fine
<1>8. \A o \in out' : Dst[o.packet] # o.at
  BY <1>1 DEF OutStep
<1>9. EndsInv'
  BY <1>5, <1>6, <1>7, <1>8 DEF EndsInv
<1>10. TimersInv'
  BY <1>1 DEF TimersInv, TableStep
<1>11. ~astray' => RoadsInv'
  BY <1>2, <1>5, <1>7 DEF RoadsInv
<1> QED BY <1>4, <1>9, <1>10, <1>11 DEF IInv

LEMMA Initially ==
    ASSUME Configured, Init
    PROVE  IInv
<1> DEFINE e == <<>>
<1>1. \A S : e \in Seq(S)
  OBVIOUS
<1>2. ToSet(e) = {}
  BY DEF ToSet
<1> HIDE DEF e
<1>3. /\ id = [n \in Node |-> 0] /\ buffer = [n \in Node |-> e] /\ table = [n \in Node |-> e]
      /\ cache = [n \in Node |-> e] /\ maint = [n \in Node |-> e] /\ timers = [n \in Node |-> {}]
      /\ unsent = Packet /\ out = {} /\ net = {} /\ down = {} /\ astray = FALSE /\ again = {}
  BY DEF Init, e
<1>4. 0 \in 0 .. MaxId
  BY DEF Configured
<1>5. TypeOK
  BY <1>1, <1>3, <1>4 DEF TypeOK
<1>6. EndsInv /\ TimersInv /\ RoadsInv
  BY <1>2, <1>3 DEF EndsInv, TimersInv, Attended, RoadsInv
<1> QED BY <1>5, <1>6 DEF IInv

\* The invariant of DSR holds in every network.
THEOREM Invariance == ASSUME Configured PROVE Spec => []IInv
<1>1. Init => IInv
  BY Initially
<1>2. IInv /\ [Next]_vars => IInv'
  <2>1. ASSUME IInv, UNCHANGED vars
        PROVE  IInv'
    <3>1. TypeOK' /\ EndsInv'
      BY <2>1 DEF vars, IInv, TypeOK, EndsInv
    <3>2. TimersInv' /\ (~astray' => RoadsInv')
      BY <2>1, Zenon DEF vars, IInv, TimersInv, RoadsInv
    <3> QED BY <3>1, <3>2 DEF IInv
  <2> QED BY <2>1, Invariant
<1> QED BY <1>1, <1>2, PTL DEF Spec

\* The state of DSR and its messages keep their types.
THEOREM TypesHold == ASSUME Configured PROVE Spec => []TypeOK
<1>1. IInv => TypeOK
  BY DEF IInv
<1> QED BY <1>1, Invariance, PTL

\* The routes of the caches begin at their node and, unless an initiator has been
\* on the way of its own request, follow links and visit no node twice.
THEOREM RoutesAlwaysFollowLinks == ASSUME Configured PROVE Spec => []RoutesFollowLinks
<1>1. IInv => RoutesFollowLinks
  <2> SUFFICES ASSUME IInv, NEW n \in Node, NEW c \in ToSet(cache[n])
               PROVE  /\ Len(c.path) > 1 /\ c.path[1] = n
                      /\ ~astray => /\ IsInjective(c.path)
                                    /\ \A i \in 1..(Len(c.path) - 1) : {c.path[i], c.path[i + 1]} \in Link
    BY DEF RoutesFollowLinks
  <2> QED BY DEF IInv, EndsInv, RoadsInv, Road
<1> QED BY <1>1, Invariance, PTL

\* A pending RREQ timeout finds an entry to count in, unless the node had asked
\* for the target again before an earlier timeout was over.
THEOREM TimeoutsFindTheirEntry == ASSUME Configured PROVE Spec => []TimeoutFindsEntry
<1>1. IInv => TimeoutFindsEntry
  <2> SUFFICES ASSUME IInv, NEW n \in Node, NEW t \in timers[n], <<n, t.target>> \notin again
               PROVE  RREQTable(n, t.target) # 0
    BY DEF TimeoutFindsEntry
  <2>1. table[n] \in Seq(RREQEntry) /\ Attended(n, table[n], timers[n], again)
    BY TableAtHand
  <2>2. \E e \in ToSet(table[n]) : e.target = t.target /\ ~e.flag
    BY <2>1, Zenon DEF Attended
  <2> QED BY <2>1, <2>2, RREQTableIs
<1> QED BY <1>1, Invariance, PTL
=============================================================================
