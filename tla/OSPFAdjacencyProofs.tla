------------------------- MODULE OSPFAdjacencyProofs -------------------------
(***************************************************************************)
(* For every set of LSAs, however many instances they have and however     *)
(* many a description holds: the negotiation has one outcome, and on a     *)
(* link that loses nothing no packet is out of place and a neighbour that  *)
(* is Full lacks nothing.                                                  *)
(***************************************************************************)
EXTENDS OSPFAdjacency, SequenceTheorems, FiniteSetTheorems, TLAPS

\* What the theorems assume of the constants.
Configured ==
    /\ Low # High /\ Low \notin External /\ High \notin External
    /\ Hears \in [External -> Router]
    /\ MaxInstance \in Nat /\ MaxLost \in Nat /\ DDMax \in Nat /\ IsFiniteSet(External)

\* The router that an LSA comes from, of the two: no instance comes back to it.
Owner(k) == IF k \in Router THEN k ELSE Hears[k]

AnyPacket == Hello \cup DD \cup Request \cup Update

-----------------------------------------------------------------------------
(* What holds even on a link that loses packets.                           *)

\* Nothing is newer than the database d of its owner, and the owner of an LSA
\* is not sent an update of it nor asked for one that it lacks.
PacketOk(n, p, d) ==
    /\ p \in AnyPacket
    /\ p.type \in {"dd", "update"} => \A k \in Key : p.lsas[k] <= d[Owner(k)][k]
    /\ p.type = "update" => \A k \in Key : Owner(k) = n => p.lsas[k] = 0
    /\ p.type = "request" => \A k \in p.keys : Owner(k) = n /\ d[n][k] > 0

\* The same of what n keeps; and only High is ever the master.
RecordOk(n, r, d) ==
    /\ r \in Neighbour
    /\ \A k \in Key : r.summary[k] <= d[Owner(k)][k] /\ r.req[k] <= d[Owner(k)][k]
    /\ \A k \in Key : Owner(k) = n => r.req[k] = 0
    /\ r.state \in AtLeastExchange => (r.isMaster <=> n = High)

RecordInv == nbr \in [Router -> Neighbour] /\ \A n \in Router : RecordOk(n, nbr[n], db)

DatabaseInv ==
    /\ db \in [Router -> Lsas] /\ out \in [Router -> Lsas]
    /\ \A n \in Router : \A k \in Key :
          /\ db[n][k] <= db[Owner(k)][k] /\ out[n][k] <= db[Owner(k)][k]
          /\ Owner(k) # n => out[n][k] = 0

LinkInv ==
    /\ link \in [Router -> Seq(AnyPacket)]
    /\ \A n \in Router : \A i \in DOMAIN link[n] : PacketOk(n, link[n][i], db)

SwitchInv ==
    /\ lost \in 0 .. MaxLost /\ delayed \in BOOLEAN /\ failed \in BOOLEAN
    /\ rlsaDue \in [Router -> BOOLEAN]

AlwaysInv == RecordInv /\ DatabaseInv /\ LinkInv /\ SwitchInv

-----------------------------------------------------------------------------
(* Routers, keys and packets.                                              *)

LEMMA Routers ==
    ASSUME Configured, NEW n \in Router
    PROVE  /\ n \in Key /\ Owner(n) = n
           /\ Other(n) \in Router /\ Other(n) # n /\ Other(Other(n)) = n
           /\ \A m \in Router : m = n \/ m = Other(n)
  BY DEF Configured, Router, Key, Other, Owner

LEMMA Owners ==
    ASSUME Configured, NEW k \in Key
    PROVE  /\ Owner(k) \in Router
           /\ k \in External => Owner(k) = Hears[k]
           /\ k \in Router => Owner(k) = k
  BY DEF Configured, Router, Key, Owner

LEMMA LsasAt ==
    ASSUME Configured, NEW l \in Lsas
    PROVE  \A k \in Key : l[k] \in 0 .. MaxInstance /\ l[k] \in Nat
  BY DEF Configured, Lsas

LEMMA OnlyIs ==
    ASSUME Configured, NEW l \in Lsas, NEW S
    PROVE  /\ Only(l, S) \in Lsas
           /\ \A k \in Key : Only(l, S)[k] = IF k \in S THEN l[k] ELSE 0
  BY DEF Configured, Lsas, Only

LEMMA NewestIs ==
    ASSUME Configured, NEW a \in Lsas, NEW b \in Lsas
    PROVE  /\ Newest(a, b) \in Lsas
           /\ \A k \in Key : Newest(a, b)[k] = IF a[k] > b[k] THEN a[k] ELSE b[k]
  BY DEF Configured, Lsas, Newest

LEMMA NoLsaIs ==
    ASSUME Configured
    PROVE  NoLsa \in Lsas /\ \A k \in Key : NoLsa[k] = 0
  BY DEF Configured, Lsas, NoLsa

LEMMA KeysIs ==
    ASSUME NEW l
    PROVE  Keys(l) \in SUBSET Key /\ \A k \in Key : k \in Keys(l) <=> l[k] > 0
  BY DEF Keys

LEMMA PacketTypes ==
    ASSUME NEW p \in AnyPacket
    PROVE  /\ p.type \in {"hello", "dd", "request", "update"}
           /\ p.type = "hello" => p \in Hello
           /\ p.type = "dd" => p \in DD
           /\ p.type = "request" => p \in Request
           /\ p.type = "update" => p \in Update
  BY DEF AnyPacket, Hello, DD, Request, Update

LEMMA Fields ==
    ASSUME NEW p \in AnyPacket
    PROVE  /\ p.type = "hello" => p.listed \in BOOLEAN
           /\ p.type = "dd" => /\ p.seq \in Nat /\ p.lsas \in Lsas
                               /\ p.init \in BOOLEAN /\ p.more \in BOOLEAN /\ p.master \in BOOLEAN
           /\ p.type = "request" => p.keys \in SUBSET Key
           /\ p.type = "update" => p.lsas \in Lsas
  BY PacketTypes DEF Hello, DD, Request, Update

\* The first packet of s is taken, ...
Pulls(s, s2) ==
    /\ s2 \in Seq(AnyPacket)
    /\ \A i \in DOMAIN s2 : i + 1 \in DOMAIN s /\ s2[i] = s[i + 1]
    /\ \A i \in DOMAIN s : i > 1 => i - 1 \in DOMAIN s2 /\ s2[i - 1] = s[i]

\* ... and others are put at the end of t.
Puts(t, t2, packets) ==
    /\ t2 \in Seq(AnyPacket)
    /\ \A i \in DOMAIN t : i \in DOMAIN t2 /\ t2[i] = t[i]
    /\ \A i \in DOMAIN t2 : i \notin DOMAIN t =>
          /\ \A j \in DOMAIN t : j < i
          /\ \E j \in DOMAIN packets : i = Len(t) + j /\ t2[i] = packets[j]
    /\ \A j \in DOMAIN packets : Len(t) + j \in DOMAIN t2 /\ t2[Len(t) + j] = packets[j]

LEMMA Pulled ==
    ASSUME NEW s \in Seq(AnyPacket), s # <<>>
    PROVE  Pulls(s, Tail(s)) /\ 1 \in DOMAIN s /\ Head(s) = s[1]
<1> DEFINE t == Tail(s)
<1>1. t \in Seq(AnyPacket) /\ Len(t) = Len(s) - 1 /\ \A i \in 1 .. Len(t) : t[i] = s[i + 1]
  BY HeadTailProperties
<1>2. DOMAIN s = 1 .. Len(s) /\ DOMAIN t = 1 .. Len(t) /\ Len(s) \in Nat \ {0}
  BY <1>1, LenProperties, EmptySeq
<1>3. Head(s) = s[1]
  OBVIOUS
<1> HIDE DEF t
<1>4. /\ \A i \in DOMAIN t : i + 1 \in DOMAIN s /\ t[i] = s[i + 1]
      /\ \A i \in DOMAIN s : i > 1 => i - 1 \in DOMAIN t /\ t[i - 1] = s[i]
  BY <1>1, <1>2
<1> QED BY <1>1, <1>2, <1>3, <1>4 DEF t, Pulls

LEMMA Appended ==
    ASSUME NEW t \in Seq(AnyPacket), NEW packets \in Seq(AnyPacket)
    PROVE  Puts(t, t \o packets, packets)
<1> DEFINE t2 == t \o packets
<1>1. /\ t2 \in Seq(AnyPacket) /\ Len(t2) = Len(t) + Len(packets)
      /\ \A i \in 1 .. Len(t) + Len(packets) : t2[i] = IF i <= Len(t) THEN t[i] ELSE packets[i - Len(t)]
  BY ConcatProperties
<1>2. /\ DOMAIN t = 1 .. Len(t) /\ DOMAIN packets = 1 .. Len(packets) /\ DOMAIN t2 = 1 .. Len(t2)
      /\ Len(t) \in Nat /\ Len(packets) \in Nat
  BY <1>1, LenProperties
<1> HIDE DEF t2
<1>3. \A i \in DOMAIN t : i \in DOMAIN t2 /\ t2[i] = t[i]
  BY <1>1, <1>2
<1>4. ASSUME NEW i \in DOMAIN t2, i \notin DOMAIN t
      PROVE  /\ \A j \in DOMAIN t : j < i
             /\ \E j \in DOMAIN packets : i = Len(t) + j /\ t2[i] = packets[j]
  <2>1. i - Len(t) \in DOMAIN packets /\ i = Len(t) + (i - Len(t)) /\ t2[i] = packets[i - Len(t)]
    BY <1>1, <1>2, <1>4
  <2> QED BY <1>2, <1>4, <2>1
<1>5. \A j \in DOMAIN packets : Len(t) + j \in DOMAIN t2 /\ t2[Len(t) + j] = packets[j]
  BY <1>1, <1>2
<1> QED BY <1>1, <1>3, <1>4, <1>5, Zenon DEF t2, Puts

LEMMA TakesIs ==
    ASSUME Configured, LinkInv, NEW n \in Router, link[n] # <<>>,
           NEW packets \in Seq(AnyPacket), Takes(n, packets)
    PROVE  /\ link' \in [Router -> Seq(AnyPacket)]
           /\ 1 \in DOMAIN link[n] /\ Head(link[n]) = link[n][1]
           /\ Pulls(link[n], link'[n]) /\ Puts(link[Other(n)], link'[Other(n)], packets)
<1> DEFINE m == Other(n)
<1>1. m \in Router /\ m # n /\ \A x \in Router : x = n \/ x = m
  BY Routers
<1>2. link[n] \in Seq(AnyPacket) /\ link[m] \in Seq(AnyPacket) /\ link \in [Router -> Seq(AnyPacket)]
  BY <1>1 DEF LinkInv
<1> HIDE DEF m
<1>3. link' = [link EXCEPT ![n] = Tail(@), ![m] = @ \o packets]
  BY DEF Takes, m
<1>4. link'[n] = Tail(link[n]) /\ link'[m] = link[m] \o packets
  BY <1>1, <1>2, <1>3
<1>5. Tail(link[n]) \in Seq(AnyPacket) /\ link[m] \o packets \in Seq(AnyPacket)
  BY <1>2, HeadTailProperties, ConcatProperties
<1>6. link' \in [Router -> Seq(AnyPacket)]
  BY <1>1, <1>2, <1>3, <1>4, <1>5
<1>7. Pulls(link[n], Tail(link[n])) /\ 1 \in DOMAIN link[n] /\ Head(link[n]) = link[n][1]
  BY <1>2, Pulled
<1>8. Puts(link[m], link[m] \o packets, packets)
  BY <1>2, Appended
<1>9. Pulls(link[n], link'[n]) /\ Puts(link[m], link'[m], packets)
  BY <1>4, <1>7, <1>8, Zenon
<1> QED BY <1>6, <1>7, <1>9 DEF m

LEMMA SendsIs ==
    ASSUME Configured, LinkInv, NEW n \in Router, NEW packets \in Seq(AnyPacket), Sends(n, packets)
    PROVE  /\ link' \in [Router -> Seq(AnyPacket)] /\ link'[n] = link[n]
           /\ Puts(link[Other(n)], link'[Other(n)], packets)
<1> DEFINE m == Other(n)
<1>1. m \in Router /\ m # n /\ \A x \in Router : x = n \/ x = m
  BY Routers
<1>2. link[n] \in Seq(AnyPacket) /\ link[m] \in Seq(AnyPacket) /\ link \in [Router -> Seq(AnyPacket)]
  BY <1>1 DEF LinkInv
<1> HIDE DEF m
<1>3. link' = [link EXCEPT ![m] = @ \o packets]
  BY DEF Sends, m
<1>4. link'[n] = link[n] /\ link'[m] = link[m] \o packets
  BY <1>1, <1>2, <1>3
<1>5. link[m] \o packets \in Seq(AnyPacket)
  BY <1>2, ConcatProperties
<1>6. link' \in [Router -> Seq(AnyPacket)]
  BY <1>1, <1>2, <1>3, <1>4, <1>5
<1>7. Puts(link[m], link[m] \o packets, packets)
  BY <1>2, Appended
<1>8. Puts(link[m], link'[m], packets)
  BY <1>4, <1>7, Zenon
<1> QED BY <1>4, <1>6, <1>8 DEF m

-----------------------------------------------------------------------------
(* What a database that grows leaves as it is.                             *)

Grows(d, e) ==
    /\ d \in [Router -> Lsas] /\ e \in [Router -> Lsas]
    /\ \A k \in Key : d[Owner(k)][k] <= e[Owner(k)][k]

LEMMA PacketGrows ==
    ASSUME Configured, NEW d, NEW e, Grows(d, e), NEW n \in Router, NEW p, PacketOk(n, p, d)
    PROVE  PacketOk(n, p, e)
<1>1. \A k \in Key : d[Owner(k)][k] \in Nat /\ e[Owner(k)][k] \in Nat /\ d[Owner(k)][k] <= e[Owner(k)][k]
  BY Owners, LsasAt DEF Grows
<1>2. p \in AnyPacket
  BY DEF PacketOk
<1>3. p.type \in {"dd", "update"} => \A k \in Key : p.lsas[k] \in Nat
  BY <1>2, Fields, LsasAt
<1>4. p.type = "request" => p.keys \subseteq Key
  BY <1>2, Fields
<1> QED BY <1>1, <1>2, <1>3, <1>4 DEF PacketOk

LEMMA RecordGrows ==
    ASSUME Configured, NEW d, NEW e, Grows(d, e), NEW n \in Router, NEW r, RecordOk(n, r, d)
    PROVE  RecordOk(n, r, e)
<1>1. \A k \in Key : d[Owner(k)][k] \in Nat /\ e[Owner(k)][k] \in Nat /\ d[Owner(k)][k] <= e[Owner(k)][k]
  BY Owners, LsasAt DEF Grows
<1>2. r.summary \in Lsas /\ r.req \in Lsas
  BY DEF RecordOk, Neighbour
<1>3. \A k \in Key : r.summary[k] \in Nat /\ r.req[k] \in Nat
  BY <1>2, LsasAt
<1> QED BY <1>1, <1>3 DEF RecordOk

LEMMA Stands ==
    ASSUME Configured, DatabaseInv
    PROVE  Grows(db, db)
<1>1. \A k \in Key : db[Owner(k)][k] \in Nat
  BY Owners, LsasAt DEF DatabaseInv
<1> QED BY <1>1 DEF DatabaseInv, Grows

LEMMA LinkAfterTakes ==
    ASSUME Configured, LinkInv, Grows(db, db'), NEW n \in Router, link[n] # <<>>,
           NEW packets \in Seq(AnyPacket), Takes(n, packets),
           \A j \in DOMAIN packets : PacketOk(Other(n), packets[j], db')
    PROVE  LinkInv'
<1> DEFINE m == Other(n)
<1>1. /\ link' \in [Router -> Seq(AnyPacket)]
      /\ Pulls(link[n], link'[n]) /\ Puts(link[m], link'[m], packets)
  BY TakesIs
<1>2. m \in Router /\ \A x \in Router : x = n \/ x = m
  BY Routers
<1>3. \A x \in Router : \A i \in DOMAIN link[x] : PacketOk(x, link[x][i], db')
  BY PacketGrows DEF LinkInv
<1> HIDE DEF m
<1>4. \A i \in DOMAIN link'[n] : PacketOk(n, link'[n][i], db')
  BY <1>1, <1>3 DEF Pulls
<1>5. \A i \in DOMAIN link'[m] : PacketOk(m, link'[m][i], db')
  BY <1>1, <1>2, <1>3 DEF Puts, m
<1> QED BY <1>1, <1>2, <1>4, <1>5 DEF LinkInv

LEMMA LinkAfterSends ==
    ASSUME Configured, LinkInv, Grows(db, db'), NEW n \in Router,
           NEW packets \in Seq(AnyPacket), Sends(n, packets),
           \A j \in DOMAIN packets : PacketOk(Other(n), packets[j], db')
    PROVE  LinkInv'
<1> DEFINE m == Other(n)
<1>1. /\ link' \in [Router -> Seq(AnyPacket)] /\ link'[n] = link[n]
      /\ Puts(link[m], link'[m], packets)
  BY SendsIs
<1>2. m \in Router /\ \A x \in Router : x = n \/ x = m
  BY Routers
<1>3. \A x \in Router : \A i \in DOMAIN link[x] : PacketOk(x, link[x][i], db')
  BY PacketGrows DEF LinkInv
<1> HIDE DEF m
<1>4. \A i \in DOMAIN link'[m] : PacketOk(m, link'[m][i], db')
  BY <1>1, <1>2, <1>3 DEF Puts, m
<1> QED BY <1>1, <1>2, <1>3, <1>4 DEF LinkInv

-----------------------------------------------------------------------------
(* What ospf_process_DD makes of a description.                            *)

\* A request of what is left on the list of q.
IsRequest(p, q) == p.type = "request" /\ p.keys = Keys(q.req) /\ Keys(q.req) # {}

\* The next part S of the summaries of r, and what is left in q.
IsPart(p, r, q, S) ==
    /\ p.type = "dd" /\ ~p.init /\ p.master = r.isMaster /\ p.seq = q.seq /\ p.more = q.more
    /\ \A k \in Key : p.lsas[k] = IF k \in S THEN r.summary[k] ELSE 0
    /\ ~q.more => \A k \in Key : q.summary[k] = 0

\* q asks for what it lacks of dd.
Reads(n, r, q, dd) ==
    \A k \in Key : q.req[k] = IF dd.lsas[k] > db[n][k] /\ r.req[k] = 0 THEN dd.lsas[k] ELSE r.req[k]

Tells(r, q, S) == \A k \in Key : q.summary[k] = IF k \in S THEN 0 ELSE r.summary[k]

\* The master has all of it, ...
MasterEnds(r, dd, q, packets) ==
    /\ r.isMaster /\ ~r.more /\ ~dd.more /\ q.state \in {"Loading", "Full"}
    /\ q.seq = r.seq + 1 /\ Tells(r, q, {})
    /\ \A j \in DOMAIN packets : IsRequest(packets[j], q)

\* ... or goes on, ...
MasterGoesOn(r, dd, q, packets) ==
    /\ r.isMaster /\ (r.more \/ dd.more) /\ q.state = "Exchange" /\ q.seq = r.seq + 1
    /\ DOMAIN packets = {1}
    /\ \E S \in SUBSET Key : Tells(r, q, S) /\ IsPart(packets[1], r, q, S)

\* ... and the slave answers.
SlaveAnswers(r, dd, q, packets) ==
    /\ ~r.isMaster /\ q.state \in AtLeastExchange /\ q.seq = dd.seq
    /\ q.state # "Exchange" <=> ~q.more /\ ~dd.more
    /\ 1 \in DOMAIN packets
    /\ \A j \in DOMAIN packets : j # 1 => IsRequest(packets[j], q) /\ q.state # "Exchange"
    /\ \E S \in SUBSET Key : Tells(r, q, S) /\ IsPart(packets[1], r, q, S)

Processed(n, r, dd, q, packets) ==
    /\ q \in Neighbour /\ packets \in Seq(AnyPacket)
    /\ q.isMaster = r.isMaster /\ q.last = r.last
    /\ \A k \in Key : q.req[k] > 0 => q.state \in {"Exchange", "Loading"}
    /\ Reads(n, r, q, dd)
    /\ \/ MasterEnds(r, dd, q, packets)
       \/ MasterGoesOn(r, dd, q, packets)
       \/ SlaveAnswers(r, dd, q, packets)

LEMMA OnePacket ==
    ASSUME NEW p \in AnyPacket
    PROVE  <<p>> \in Seq(AnyPacket) /\ DOMAIN <<p>> = {1} /\ <<p>>[1] = p
  OBVIOUS

LEMMA TwoPackets ==
    ASSUME NEW p \in AnyPacket, NEW u \in AnyPacket
    PROVE  /\ <<p>> \o <<u>> \in Seq(AnyPacket) /\ DOMAIN (<<p>> \o <<u>>) = {1, 2}
           /\ (<<p>> \o <<u>>)[1] = p /\ (<<p>> \o <<u>>)[2] = u
<1> DEFINE s == <<p>>
           t == <<u>>
<1>1. s \in Seq(AnyPacket) /\ t \in Seq(AnyPacket) /\ Len(s) = 1 /\ Len(t) = 1 /\ s[1] = p /\ t[1] = u
  OBVIOUS
<1> HIDE DEF s, t
<1>2. /\ s \o t \in Seq(AnyPacket) /\ Len(s \o t) = Len(s) + Len(t)
      /\ \A i \in 1 .. Len(s) + Len(t) : (s \o t)[i] = IF i <= Len(s) THEN s[i] ELSE t[i - Len(s)]
  BY <1>1, ConcatProperties
<1>3. DOMAIN (s \o t) = 1 .. 2
  BY <1>1, <1>2, LenProperties
<1>4. (s \o t)[1] = p /\ (s \o t)[2] = u
  BY <1>1, <1>2
<1>5. 1 .. 2 = {1, 2}
  OBVIOUS
<1> QED BY <1>2, <1>3, <1>4, <1>5 DEF s, t

LEMMA NoPacket ==
    << >> \in Seq(AnyPacket) /\ DOMAIN << >> = {}
<1>1. Len(<< >>) = 0 /\ << >> \in Seq(AnyPacket)
  BY EmptySeq
<1>2. DOMAIN << >> = 1 .. 0
  BY <1>1, LenProperties
<1> QED BY <1>1, <1>2

LEMMA RequestIs ==
    ASSUME NEW q, Keys(q.req) # {}
    PROVE  RequestOf(q) \in AnyPacket /\ IsRequest(RequestOf(q), q)
  BY KeysIs DEF RequestOf, IsRequest, AnyPacket, Request

\* ExchangeDone of a slave or master that is left with r.
LEMMA DoneIs ==
    ASSUME Configured, NEW r \in Neighbour, r.state = "Exchange"
    PROVE  LET q == Done(r) IN
           /\ q \in Neighbour /\ q.state \in {"Loading", "Full"}
           /\ q.isMaster = r.isMaster /\ q.last = r.last /\ q.seq = r.seq /\ q.more = r.more
           /\ q.summary = r.summary /\ q.req = r.req
           /\ \A k \in Key : q.req[k] > 0 => q.state = "Loading"
           /\ DoneSends(r) \in Seq(AnyPacket)
           /\ DoneSends(r) = <<>> \/ (DoneSends(r) = <<RequestOf(q)>> /\ Keys(q.req) # {})
<1>1. CASE Keys(r.req) = {}
  BY <1>1, KeysIs, EmptySeq DEF Done, DoneSends, Neighbour, State, AtLeastExchange
<1>2. CASE Keys(r.req) # {}
  <2> DEFINE q == [r EXCEPT !.state = "Loading", !.asked = TRUE]
  <2>1. Done(r) = q /\ DoneSends(r) = <<RequestOf(r)>>
    BY <1>2 DEF Done, DoneSends
  <2>2. /\ q \in Neighbour /\ q.state = "Loading"
        /\ q.isMaster = r.isMaster /\ q.last = r.last /\ q.seq = r.seq /\ q.more = r.more
        /\ q.summary = r.summary /\ q.req = r.req
    BY DEF Neighbour, State, AtLeastExchange
  <2>3. RequestOf(q) = RequestOf(r)
    BY <2>2 DEF RequestOf
  <2>4. DoneSends(r) \in Seq(AnyPacket)
    BY <1>2, <2>1, RequestIs, OnePacket
  <2> HIDE DEF q
  <2> QED BY <1>2, <2>1, <2>2, <2>3, <2>4
<1> QED BY <1>1, <1>2

\* The LSAs that are asked for.
LEMMA AskingIs ==
    ASSUME Configured, DatabaseInv, NEW n \in Router, NEW r \in Neighbour, NEW dd \in DD
    PROVE  LET asking == [r EXCEPT !.req = Newest(@, Only(dd.lsas, Newer(dd.lsas, db[n]) \ Keys(r.req)))] IN
           asking \in Neighbour /\ Reads(n, r, asking, dd)
<1> DEFINE missing == Newer(dd.lsas, db[n]) \ Keys(r.req)
           l == Only(dd.lsas, missing)
           req == Newest(r.req, l)
<1>1. dd.lsas \in Lsas /\ r.req \in Lsas /\ db[n] \in Lsas
  BY DEF DD, Neighbour, DatabaseInv
<1>2. l \in Lsas /\ \A k \in Key : l[k] = IF k \in missing THEN dd.lsas[k] ELSE 0
  BY <1>1, OnlyIs
<1>3. \A k \in Key : k \in missing <=> dd.lsas[k] > db[n][k] /\ ~(r.req[k] > 0)
  BY KeysIs DEF Newer
<1> HIDE DEF missing, l
<1>4. req \in Lsas /\ \A k \in Key : req[k] = IF r.req[k] > l[k] THEN r.req[k] ELSE l[k]
  BY <1>1, <1>2, NewestIs
<1> HIDE DEF req
<1>5. \A k \in Key : r.req[k] \in Nat /\ dd.lsas[k] \in Nat /\ db[n][k] \in Nat
  BY <1>1, LsasAt
<1>6. \A k \in Key : req[k] = IF dd.lsas[k] > db[n][k] /\ r.req[k] = 0 THEN dd.lsas[k] ELSE r.req[k]
  BY <1>2, <1>3, <1>4, <1>5
<1>7. [r EXCEPT !.req = req] \in Neighbour /\ [r EXCEPT !.req = req].req = req
  BY <1>4 DEF Neighbour
<1> QED BY <1>6, <1>7 DEF Reads, req, l, missing

\* The next part of the summaries.
LEMMA DescribedIs ==
    ASSUME Configured, NEW r \in Neighbour, NEW S \in Tops(r)
    PROVE  LET q == Described(r, S)
               p == ExchangeDD(r, S)
           IN  /\ q \in Neighbour /\ q.state = r.state /\ q.isMaster = r.isMaster
               /\ q.last = r.last /\ q.req = r.req /\ q.seq = r.seq
               /\ q.more <=> Keys(q.summary) # {}
               /\ S \in SUBSET Key /\ Tells(r, q, S)
               /\ p \in AnyPacket /\ IsPart(p, r, q, S)
<1> DEFINE l == Only(r.summary, Key \ S)
           q == [r EXCEPT !.summary = l, !.more = (Keys(r.summary) # S)]
           p == ExchangeDD(r, S)
<1>1. r.summary \in Lsas /\ r.seq \in Nat /\ r.isMaster \in BOOLEAN
  BY DEF Neighbour
<1>2. S \subseteq Keys(r.summary) /\ Keys(r.summary) \subseteq Key
  BY KeysIs DEF Tops
<1>3. l \in Lsas /\ \A k \in Key : l[k] = IF k \in S THEN 0 ELSE r.summary[k]
  BY <1>1, OnlyIs
<1>4. /\ Keys(r.summary) # S <=> Keys(l) # {}
      /\ Keys(l) = {} => \A k \in Key : l[k] = 0
  <2>1. \A k \in Key : l[k] \in Nat
    BY <1>3, LsasAt
  <2>2. \A k \in Key : (k \in Keys(l) <=> l[k] > 0) /\ (k \in Keys(r.summary) <=> r.summary[k] > 0)
    BY KeysIs
  <2>3. Keys(l) \subseteq Key
    BY KeysIs
  <2> HIDE DEF l
  <2>4. \A k \in Key : k \in Keys(l) <=> k \in Keys(r.summary) \ S
    BY <1>2, <1>3, <2>2
  <2>5. Keys(l) = Keys(r.summary) \ S
    BY <1>2, <2>3, <2>4
  <2>6. Keys(l) = {} => \A k \in Key : ~ (l[k] > 0)
    BY <2>2
  <2> QED BY <1>2, <2>1, <2>5, <2>6
<1> HIDE DEF l
<1>5. /\ q \in Neighbour /\ q.state = r.state /\ q.isMaster = r.isMaster
      /\ q.last = r.last /\ q.req = r.req /\ q.seq = r.seq
      /\ q.more = (Keys(r.summary) # S) /\ q.summary = l
  BY <1>3 DEF Neighbour
<1>6. q = Described(r, S)
  BY DEF Described, l
<1> HIDE DEF q
<1>7. Only(r.summary, S) \in Lsas /\ \A k \in Key : Only(r.summary, S)[k] = IF k \in S THEN r.summary[k] ELSE 0
  BY <1>1, OnlyIs
<1>8. /\ p.type = "dd" /\ ~p.init /\ p.master = r.isMaster /\ p.seq = r.seq
      /\ p.more = (Keys(r.summary) # S) /\ p.lsas = Only(r.summary, S) /\ p \in AnyPacket
  BY <1>1, <1>7 DEF ExchangeDD, AnyPacket, DD
<1> HIDE DEF p
<1>9. ~q.more => \A k \in Key : q.summary[k] = 0
  BY <1>4, <1>5
<1>10. IsPart(p, r, q, S)
  BY <1>5, <1>7, <1>8, <1>9 DEF IsPart
<1>11. Tells(r, q, S)
  BY <1>3, <1>5 DEF Tells
<1> QED BY <1>2, <1>4, <1>5, <1>6, <1>8, <1>10, <1>11 DEF p

LEMMA SubsetOfSize ==
    ASSUME NEW K, IsFiniteSet(K), NEW d \in Nat, d < Cardinality(K)
    PROVE  \E S \in SUBSET K : Cardinality(S) = d
<1>1. Cardinality(K) \in Nat /\ ExistsBijection(1 .. Cardinality(K), K)
  BY FS_CardinalityType
<1>2. PICK f : f \in Bijection(1 .. Cardinality(K), K)
  BY <1>1 DEF ExistsBijection
<1> DEFINE S == {f[i] : i \in 1 .. d}
           g == [i \in 1 .. d |-> f[i]]
<1>3. f \in [1 .. Cardinality(K) -> K] /\ \A i, j \in 1 .. Cardinality(K) : f[i] = f[j] => i = j
  BY <1>2 DEF Bijection, Injection, IsInjective
<1>4. \A i \in 1 .. d : i \in 1 .. Cardinality(K)
  BY <1>1
<1>5. S \in SUBSET K
  BY <1>3, <1>4
<1>6. g \in [1 .. d -> S] /\ (\A i, j \in 1 .. d : g[i] = g[j] => i = j) /\ \A y \in S : \E i \in 1 .. d : g[i] = y
  BY <1>3, <1>4
<1> HIDE DEF S, g
<1>7. g \in Bijection(1 .. d, S)
  BY <1>6 DEF Bijection, Injection, IsInjective, Surjection
<1>8. Cardinality(S) = d
  BY <1>7, FS_CountingElements DEF ExistsBijection
<1> QED BY <1>5, <1>8

LEMMA TopsExist ==
    ASSUME Configured, NEW r
    PROVE  Tops(r) # {}
<1> DEFINE K == Keys(r.summary)
<1>1. IsFiniteSet(Key)
  <2>1. IsFiniteSet((External \cup {Low}) \cup {High})
    BY FS_AddElement DEF Configured
  <2>2. Key = (External \cup {Low}) \cup {High}
    BY DEF Key, Router
  <2> QED BY <2>1, <2>2
<1>2. K \in SUBSET Key /\ DDMax \in Nat
  BY KeysIs DEF Configured
<1>3. IsFiniteSet(K) /\ Cardinality(K) \in Nat
  BY <1>1, <1>2, FS_Subset, FS_CardinalityType
<1> HIDE DEF K
<1>4. CASE Cardinality(K) <= DDMax
  BY <1>4 DEF Tops, K
<1>5. CASE ~ (Cardinality(K) <= DDMax)
  <2>1. \E S \in SUBSET K : Cardinality(S) = DDMax
    BY <1>2, <1>3, <1>5, SubsetOfSize
  <2> QED BY <1>5, <2>1 DEF Tops, K
<1> QED BY <1>4, <1>5

\* What the prover needs of a choice that is not empty.
LEMMA ProcessIs ==
    ASSUME Configured, DatabaseInv, NEW n \in Router, NEW r \in Neighbour, r.state = "Exchange",
           NEW dd \in DD
    PROVE  /\ Process(n, r, dd) # {}
           /\ \A o \in Process(n, r, dd) : Processed(n, r, dd, o[1], o[2])
<1> DEFINE missing == Newer(dd.lsas, db[n]) \ Keys(r.req)
           asking == [r EXCEPT !.req = Newest(@, Only(dd.lsas, missing))]
           master == [asking EXCEPT !.seq = @ + 1]
           slave == [asking EXCEPT !.seq = dd.seq]
<1>1. asking \in Neighbour /\ Reads(n, r, asking, dd)
  BY AskingIs
<1>2. /\ asking.state = "Exchange" /\ asking.isMaster = r.isMaster /\ asking.last = r.last
      /\ asking.seq = r.seq /\ asking.more = r.more /\ asking.summary = r.summary
  BY DEF Neighbour
<1>3. r.seq \in Nat /\ dd.seq \in Nat /\ r.isMaster \in BOOLEAN /\ r.more \in BOOLEAN /\ dd.more \in BOOLEAN
  BY DEF Neighbour, DD
<1> HIDE DEF asking
<1>4. /\ master \in Neighbour /\ master.state = "Exchange" /\ master.isMaster = r.isMaster
      /\ master.last = r.last /\ master.seq = r.seq + 1 /\ master.more = r.more
      /\ master.summary = r.summary /\ master.req = asking.req
  BY <1>1, <1>2, <1>3 DEF Neighbour
<1>5. /\ slave \in Neighbour /\ slave.state = "Exchange" /\ slave.isMaster = r.isMaster
      /\ slave.last = r.last /\ slave.seq = dd.seq
      /\ slave.summary = r.summary /\ slave.req = asking.req
  BY <1>1, <1>2, <1>3 DEF Neighbour
<1>6. Process(n, r, dd) =
        IF r.isMaster
          THEN IF ~r.more /\ ~dd.more
                 THEN {<<Done(master), DoneSends(master)>>}
                 ELSE {<<Described(master, S), <<ExchangeDD(master, S)>> >> : S \in Tops(master)}
          ELSE {LET told == Described(slave, S)
                    reply == <<ExchangeDD(slave, S)>>
                IN  IF ~dd.more /\ Keys(told.summary) = {}
                      THEN <<Done(told), reply \o DoneSends(told)>>
                      ELSE <<told, reply>> : S \in Tops(slave)}
  BY DEF Process, master, slave, asking, missing
<1>7. \A q : q.req = asking.req => Reads(n, r, q, dd)
  BY <1>1 DEF Reads
<1> HIDE DEF master, slave
<1>8. \A p, q, S : q.summary = r.summary => Tells(q, p, S) = Tells(r, p, S)
  BY DEF Tells
<1>9. \A p, q, x, S : q.summary = r.summary /\ q.isMaster = r.isMaster /\ IsPart(p, q, x, S) => IsPart(p, r, x, S)
  BY DEF IsPart
<1>10. CASE r.isMaster /\ ~r.more /\ ~dd.more
  <2> DEFINE q == Done(master)
             ps == DoneSends(master)
  <2>1. Process(n, r, dd) = {<<q, ps>>}
    BY <1>6, <1>10
  <2>2. /\ q \in Neighbour /\ q.state \in {"Loading", "Full"}
        /\ q.isMaster = r.isMaster /\ q.last = r.last /\ q.seq = r.seq + 1
        /\ q.summary = r.summary /\ q.req = asking.req
        /\ \A k \in Key : q.req[k] > 0 => q.state = "Loading"
        /\ ps \in Seq(AnyPacket)
        /\ ps = <<>> \/ (ps = <<RequestOf(q)>> /\ Keys(q.req) # {})
    BY <1>4, DoneIs
  <2> HIDE DEF q, ps
  <2>3. \A j \in DOMAIN ps : IsRequest(ps[j], q)
    <3>1. CASE ps = <<>>
      BY <3>1
    <3>2. CASE ps = <<RequestOf(q)>> /\ Keys(q.req) # {}
      <4>1. RequestOf(q) \in AnyPacket /\ IsRequest(RequestOf(q), q)
        BY <3>2, RequestIs
      <4>2. DOMAIN ps = {1} /\ ps[1] = RequestOf(q)
        BY <3>2, <4>1, OnePacket
      <4> QED BY <4>1, <4>2
    <3> QED BY <2>2, <3>1, <3>2
  <2>4. Tells(r, q, {})
    BY <2>2 DEF Tells
  <2>5. MasterEnds(r, dd, q, ps)
    BY <1>10, <2>2, <2>3, <2>4 DEF MasterEnds
  <2>6. Processed(n, r, dd, q, ps)
    BY <1>7, <2>2, <2>5 DEF Processed
  <2> QED BY <2>1, <2>6
<1>11. CASE r.isMaster /\ (r.more \/ dd.more)
  <2>1. Process(n, r, dd) = {<<Described(master, S), <<ExchangeDD(master, S)>> >> : S \in Tops(master)}
    BY <1>6, <1>11
  <2>2. Tops(master) # {}
    BY TopsExist
  <2>3. ASSUME NEW S \in Tops(master)
        PROVE  Processed(n, r, dd, Described(master, S), <<ExchangeDD(master, S)>>)
    <3> DEFINE q == Described(master, S)
               p == ExchangeDD(master, S)
    <3>1. /\ q \in Neighbour /\ q.state = "Exchange" /\ q.isMaster = r.isMaster
          /\ q.last = r.last /\ q.req = asking.req /\ q.seq = r.seq + 1
          /\ S \in SUBSET Key /\ Tells(master, q, S)
          /\ p \in AnyPacket /\ IsPart(p, master, q, S)
      BY <1>4, DescribedIs
    <3> HIDE DEF q, p
    <3>2. Tells(r, q, S) /\ IsPart(p, r, q, S)
      BY <1>4, <1>8, <1>9, <3>1
    <3>3. <<p>> \in Seq(AnyPacket) /\ DOMAIN <<p>> = {1} /\ <<p>>[1] = p
      BY <3>1, OnePacket
    <3>4. MasterGoesOn(r, dd, q, <<p>>)
      BY <1>11, <3>1, <3>2, <3>3 DEF MasterGoesOn
    <3>5. Processed(n, r, dd, q, <<p>>)
      BY <1>7, <3>1, <3>3, <3>4 DEF Processed
    <3> QED BY <3>5 DEF q, p
  <2>4. ASSUME NEW o \in Process(n, r, dd)
        PROVE  Processed(n, r, dd, o[1], o[2])
    <3>1. PICK S \in Tops(master) : o = <<Described(master, S), <<ExchangeDD(master, S)>> >>
      BY <2>1
    <3>2. o[1] = Described(master, S) /\ o[2] = <<ExchangeDD(master, S)>>
      BY <3>1
    <3> QED BY <2>3, <3>2, Zenon
  <2>5. Process(n, r, dd) # {}
    BY <2>1, <2>2
  <2> QED BY <2>4, <2>5
<1>12. CASE ~r.isMaster
  <2> DEFINE Outcome(S) ==
               LET told == Described(slave, S)
                   reply == <<ExchangeDD(slave, S)>>
               IN  IF ~dd.more /\ Keys(told.summary) = {}
                     THEN <<Done(told), reply \o DoneSends(told)>>
                     ELSE <<told, reply>>
  <2>1. Process(n, r, dd) = {Outcome(S) : S \in Tops(slave)}
    BY <1>6, <1>12
  <2>2. Tops(slave) # {}
    BY TopsExist
  <2>3. ASSUME NEW S \in Tops(slave)
        PROVE  Processed(n, r, dd, Outcome(S)[1], Outcome(S)[2])
    <3> DEFINE t == Described(slave, S)
               p == ExchangeDD(slave, S)
    <3>1. /\ t \in Neighbour /\ t.state = "Exchange" /\ t.isMaster = r.isMaster
          /\ t.last = r.last /\ t.req = asking.req /\ t.seq = dd.seq
          /\ t.more <=> Keys(t.summary) # {}
          /\ S \in SUBSET Key /\ Tells(slave, t, S)
          /\ p \in AnyPacket /\ IsPart(p, slave, t, S)
      BY <1>5, DescribedIs
    <3>2. Outcome(S) = IF ~dd.more /\ Keys(t.summary) = {}
                         THEN <<Done(t), <<p>> \o DoneSends(t)>> ELSE <<t, <<p>> >>
      OBVIOUS
    <3> HIDE DEF t, p, Outcome
    <3>3. Tells(r, t, S) /\ IsPart(p, r, t, S)
      BY <1>5, <1>8, <1>9, <3>1
    <3>4. CASE ~ (~dd.more /\ Keys(t.summary) = {})
      <4>1. Outcome(S)[1] = t /\ Outcome(S)[2] = <<p>>
        BY <3>2, <3>4
      <4>2. <<p>> \in Seq(AnyPacket) /\ DOMAIN <<p>> = {1} /\ <<p>>[1] = p
        BY <3>1, OnePacket
      <4>3. SlaveAnswers(r, dd, t, <<p>>)
        BY <1>12, <3>1, <3>3, <3>4, <4>2 DEF SlaveAnswers, AtLeastExchange
      <4>4. Processed(n, r, dd, t, <<p>>)
        BY <1>7, <3>1, <4>2, <4>3 DEF Processed
      <4> QED BY <4>1, <4>4
    <3>5. CASE ~dd.more /\ Keys(t.summary) = {}
      <4> DEFINE q == Done(t)
                 ps == <<p>> \o DoneSends(t)
      <4>1. Outcome(S)[1] = q /\ Outcome(S)[2] = ps
        BY <3>2, <3>5
      <4>2. /\ q \in Neighbour /\ q.state \in {"Loading", "Full"}
            /\ q.isMaster = t.isMaster /\ q.last = t.last /\ q.seq = t.seq /\ q.more = t.more
            /\ q.summary = t.summary /\ q.req = t.req
            /\ \A k \in Key : q.req[k] > 0 => q.state = "Loading"
            /\ DoneSends(t) = <<>> \/ (DoneSends(t) = <<RequestOf(q)>> /\ Keys(q.req) # {})
        BY <3>1, DoneIs
      <4> HIDE DEF q
      <4>3. /\ ps \in Seq(AnyPacket) /\ 1 \in DOMAIN ps /\ ps[1] = p
            /\ \A j \in DOMAIN ps : j # 1 => IsRequest(ps[j], q)
        <5>1. CASE DoneSends(t) = <<>>
          <6>1. <<p>> \in Seq(AnyPacket) /\ DOMAIN <<p>> = {1} /\ <<p>>[1] = p
            BY <3>1, OnePacket
          <6>2. ps = <<p>>
            BY <5>1, <6>1, ConcatEmptySeq
          <6> QED BY <6>1, <6>2
        <5>2. CASE DoneSends(t) = <<RequestOf(q)>> /\ Keys(q.req) # {}
          <6>1. RequestOf(q) \in AnyPacket /\ IsRequest(RequestOf(q), q)
            BY <5>2, RequestIs
          <6>2. ps = <<p>> \o <<RequestOf(q)>>
            BY <5>2
          <6> HIDE DEF ps
          <6>3. ps \in Seq(AnyPacket) /\ DOMAIN ps = {1, 2} /\ ps[1] = p /\ ps[2] = RequestOf(q)
            BY <3>1, <6>1, <6>2, TwoPackets
          <6> QED BY <6>1, <6>3
        <5> QED BY <4>2, <5>1, <5>2
      <4> HIDE DEF ps
      <4>4. Tells(r, q, S) /\ IsPart(p, r, q, S)
        BY <3>3, <4>2 DEF Tells, IsPart
      <4>5. SlaveAnswers(r, dd, q, ps)
        BY <1>12, <3>1, <3>5, <4>2, <4>3, <4>4 DEF SlaveAnswers, AtLeastExchange
      <4>6. Processed(n, r, dd, q, ps)
        BY <1>7, <3>1, <4>2, <4>3, <4>5 DEF Processed
      <4> QED BY <4>1, <4>6
    <3> QED BY <3>4, <3>5
  <2>4. ASSUME NEW o \in Process(n, r, dd)
        PROVE  Processed(n, r, dd, o[1], o[2])
    <3>1. PICK S \in Tops(slave) : o = Outcome(S)
      BY <2>1
    <3> HIDE DEF Outcome
    <3> QED BY <2>3, <3>1, Zenon
  <2>5. Process(n, r, dd) # {}
    BY <2>1, <2>2
  <2> QED BY <2>4, <2>5
<1> QED BY <1>3, <1>10, <1>11, <1>12

-----------------------------------------------------------------------------
(* The outcomes of a description.                                          *)

\* n in ExStart, with the description dd.
Opened(n, dd) ==
    LET r == [nbr[n] EXCEPT !.last = dd]
    IN  IF nbr[n].state = "Init" THEN Adjacent(n, r) ELSE r

Greeting(n, dd) == IF nbr[n].state = "Init" THEN <<ExStartDD(Opened(n, dd))>> ELSE << >>

\* ... and in Exchange.
Joined(n, dd) ==
    [Opened(n, dd) EXCEPT !.seq = dd.seq, !.isMaster = (n = High), !.state = "Exchange",
                          !.summary = Newest(@, db[n])]

Decides(n, dd) ==
    BecomesSlave(n, Opened(n, dd), dd) \/ BecomesMaster(n, Opened(n, dd), dd)

Drops(n, dd, q, packets) == nbr[n].state = "DOWN" /\ q = nbr[n] /\ packets = << >>

StaysOpen(n, dd, q, packets) ==
    /\ nbr[n].state \in {"Init", "ExStart"} /\ ~Decides(n, dd)
    /\ q = Opened(n, dd) /\ packets = Greeting(n, dd)

Begins(n, dd, q, packets) ==
    /\ nbr[n].state \in {"Init", "ExStart"} /\ Decides(n, dd)
    /\ \E rest : Processed(n, Joined(n, dd), dd, q, rest) /\ packets = Greeting(n, dd) \o rest

GoesOn(n, dd, q, packets) ==
    /\ nbr[n].state = "Exchange" /\ ~Duplicate(nbr[n], dd)
    /\ Processed(n, [nbr[n] EXCEPT !.last = dd], dd, q, packets)

Repeats(n, dd, q, packets) ==
    /\ nbr[n].state \in AtLeastExchange /\ Duplicate(nbr[n], dd)
    /\ q = [nbr[n] EXCEPT !.last = dd]
    /\ packets = IF q.isMaster THEN << >> ELSE <<dd>>

Outcome(n, dd, q, packets) ==
    \/ Drops(n, dd, q, packets) \/ StaysOpen(n, dd, q, packets) \/ Begins(n, dd, q, packets)
    \/ GoesOn(n, dd, q, packets) \/ Repeats(n, dd, q, packets)

OutOfPlace(n, dd) ==
    /\ nbr[n].state \in AtLeastExchange /\ ~Duplicate(nbr[n], dd)
    /\ nbr[n].state = "Exchange" => ~InSequence(nbr[n], dd)

LEMMA OpenedIs ==
    ASSUME Configured, RecordInv, NEW n \in Router, NEW dd \in DD,
           nbr[n].state \in {"Init", "ExStart"}
    PROVE  LET R == Opened(n, dd) IN
           /\ R \in Neighbour /\ R.state = "ExStart" /\ R.last = dd
           /\ R.summary = nbr[n].summary /\ R.req = nbr[n].req
           /\ nbr[n].state = "Init" => R.seq = FirstSeq(n) /\ R.more
           /\ nbr[n].state = "ExStart" => R.seq = nbr[n].seq /\ R.more = nbr[n].more
           /\ Greeting(n, dd) \in Seq(AnyPacket)
           /\ nbr[n].state = "Init" => Greeting(n, dd) = <<ExStartDD(R)>> /\ ExStartDD(R) \in AnyPacket
<1> DEFINE r == [nbr[n] EXCEPT !.last = dd]
           R == Opened(n, dd)
<1>1. nbr[n] \in Neighbour
  BY DEF RecordInv
<1>2. /\ r \in Neighbour /\ r.state = nbr[n].state /\ r.last = dd /\ r.seq = nbr[n].seq
      /\ r.summary = nbr[n].summary /\ r.req = nbr[n].req /\ r.more = nbr[n].more
  BY <1>1 DEF Neighbour
<1>3. R = IF nbr[n].state = "Init" THEN Adjacent(n, r) ELSE r
  BY DEF Opened
<1> HIDE DEF r
<1>4. /\ Adjacent(n, r) \in Neighbour /\ Adjacent(n, r).state = "ExStart" /\ Adjacent(n, r).last = dd
      /\ Adjacent(n, r).summary = nbr[n].summary /\ Adjacent(n, r).req = nbr[n].req
      /\ Adjacent(n, r).seq = FirstSeq(n) /\ Adjacent(n, r).more
  BY <1>2 DEF Adjacent, FirstSeq, Neighbour, State
<1>5. /\ R \in Neighbour /\ R.state = "ExStart" /\ R.last = dd
      /\ R.summary = nbr[n].summary /\ R.req = nbr[n].req
      /\ nbr[n].state = "Init" => R.seq = FirstSeq(n) /\ R.more
      /\ nbr[n].state = "ExStart" => R.seq = nbr[n].seq /\ R.more = nbr[n].more
  BY <1>2, <1>3, <1>4
<1> HIDE DEF R
<1>6. ExStartDD(R) \in AnyPacket
  BY <1>5, NoLsaIs DEF ExStartDD, AnyPacket, DD, Neighbour
<1>7. Greeting(n, dd) = IF nbr[n].state = "Init" THEN <<ExStartDD(R)>> ELSE << >>
  BY DEF Greeting, R
<1>8. Greeting(n, dd) \in Seq(AnyPacket)
  BY <1>6, <1>7, OnePacket, EmptySeq
<1> QED BY <1>5, <1>6, <1>7, <1>8 DEF R

LEMMA JoinedIs ==
    ASSUME Configured, RecordInv, DatabaseInv, NEW n \in Router, NEW dd \in DD,
           nbr[n].state \in {"Init", "ExStart"}
    PROVE  LET r == Joined(n, dd) IN
           /\ r \in Neighbour /\ r.state = "Exchange" /\ (r.isMaster <=> n = High) /\ r.seq = dd.seq
           /\ r.last = dd /\ r.req = nbr[n].req /\ r.more = Opened(n, dd).more
           /\ \A k \in Key : r.summary[k] = IF nbr[n].summary[k] > db[n][k] THEN nbr[n].summary[k]
                                                                            ELSE db[n][k]
<1> DEFINE R == Opened(n, dd)
           r == Joined(n, dd)
           s == Newest(R.summary, db[n])
<1>1. /\ R \in Neighbour /\ R.state = "ExStart" /\ R.last = dd
      /\ R.summary = nbr[n].summary /\ R.req = nbr[n].req
  BY OpenedIs
<1>2. r = [R EXCEPT !.seq = dd.seq, !.isMaster = (n = High), !.state = "Exchange", !.summary = s]
  BY DEF Joined
<1> HIDE DEF R, r
<1>3. s \in Lsas /\ \A k \in Key : s[k] = IF R.summary[k] > db[n][k] THEN R.summary[k] ELSE db[n][k]
  <2>1. R.summary \in Lsas /\ db[n] \in Lsas
    BY <1>1 DEF DatabaseInv, Neighbour
  <2> QED BY <2>1, NewestIs
<1> HIDE DEF s
<1>4. dd.seq \in Nat
  BY DEF DD
<1>5. /\ r \in Neighbour /\ r.state = "Exchange" /\ r.isMaster = (n = High) /\ r.seq = dd.seq
      /\ r.last = R.last /\ r.req = R.req /\ r.more = R.more /\ r.summary = s
  BY <1>1, <1>2, <1>3, <1>4 DEF Neighbour, State, AtLeastExchange
<1> QED BY <1>1, <1>3, <1>5 DEF R, r

LEMMA NegotiatedIs ==
    ASSUME Configured, RecordInv, DatabaseInv, NEW n \in Router, NEW dd \in DD,
           nbr[n].state \in {"Init", "ExStart"}, Decides(n, dd)
    PROVE  InExStart(n, Opened(n, dd), dd) = Process(n, Joined(n, dd), dd)
<1> DEFINE R == Opened(n, dd)
           s == Newest(R.summary, db[n])
<1>1. R \in Neighbour
  BY OpenedIs
<1>2. Joined(n, dd) = [R EXCEPT !.seq = dd.seq, !.isMaster = (n = High), !.state = "Exchange", !.summary = s]
  BY DEF Joined
<1>3. Low # High
  BY DEF Configured
<1> HIDE DEF R
<1>4. CASE BecomesSlave(n, R, dd)
  <2> DEFINE x == [R EXCEPT !.seq = dd.seq, !.isMaster = FALSE]
  <2>1. n = Low
    BY <1>4 DEF BecomesSlave
  <2>2. x.summary = R.summary
    BY <1>1 DEF Neighbour
  <2>3. [x EXCEPT !.state = "Exchange", !.summary = s] = Joined(n, dd)
    BY <1>1, <1>2, <1>3, <2>1 DEF Neighbour
  <2>4. InExStart(n, R, dd) = Process(n, [x EXCEPT !.state = "Exchange", !.summary = Newest(@, db[n])], dd)
    BY <1>4 DEF InExStart, Negotiated
  <2> HIDE DEF x
  <2>5. [x EXCEPT !.state = "Exchange", !.summary = Newest(@, db[n])] = [x EXCEPT !.state = "Exchange", !.summary = s]
    BY <2>2
  <2> QED BY <2>3, <2>4, <2>5 DEF R
<1>5. CASE ~BecomesSlave(n, R, dd) /\ BecomesMaster(n, R, dd)
  <2> DEFINE x == [R EXCEPT !.isMaster = TRUE]
  <2>1. n = High /\ dd.seq = R.seq
    BY <1>5 DEF BecomesMaster
  <2>2. x.summary = R.summary
    BY <1>1 DEF Neighbour
  <2>3. [x EXCEPT !.state = "Exchange", !.summary = s] = Joined(n, dd)
    BY <1>1, <1>2, <1>3, <2>1 DEF Neighbour
  <2>4. InExStart(n, R, dd) = Process(n, [x EXCEPT !.state = "Exchange", !.summary = Newest(@, db[n])], dd)
    BY <1>5 DEF InExStart, Negotiated
  <2> HIDE DEF x
  <2>5. [x EXCEPT !.state = "Exchange", !.summary = Newest(@, db[n])] = [x EXCEPT !.state = "Exchange", !.summary = s]
    BY <2>2
  <2> QED BY <2>3, <2>4, <2>5 DEF R
<1> QED BY <1>4, <1>5 DEF Decides, R

LEMMA SingleOutcome ==
    ASSUME NEW n, NEW dd, NEW q, NEW packets, Outcome(n, dd, q, packets)
    PROVE  LET A == {<<q, packets>>} IN A # {} /\ \A o \in A : Outcome(n, dd, o[1], o[2])
<1>1. <<q, packets>>[1] = q /\ <<q, packets>>[2] = packets
  OBVIOUS
<1> QED BY <1>1, Zenon

LEMMA AfterDDIs ==
    ASSUME Configured, RecordInv, DatabaseInv, NEW n \in Router, NEW dd \in DD
    PROVE  /\ \A o \in AfterDD(n, dd) : Outcome(n, dd, o[1], o[2])
           /\ AfterDD(n, dd) = {} => OutOfPlace(n, dd)
<1> DEFINE r == [nbr[n] EXCEPT !.last = dd]
           dup == Duplicate(nbr[n], dd)
           s == nbr[n].state
<1>1. nbr[n] \in Neighbour /\ s \in {"DOWN", "Init", "ExStart", "Exchange", "Loading", "Full"}
  BY DEF RecordInv, Neighbour, State, AtLeastExchange
<1>2. /\ r \in Neighbour /\ r.state = s /\ r.isMaster = nbr[n].isMaster
      /\ InSequence(r, dd) = InSequence(nbr[n], dd)
  BY <1>1 DEF Neighbour, InSequence
<1>3. AfterDD(n, dd) =
        CASE r.state = "DOWN" -> {<<nbr[n], << >> >>}
          [] r.state = "Init" ->
               {<<a[1], <<ExStartDD(Adjacent(n, r))>> \o a[2]>> : a \in InExStart(n, Adjacent(n, r), dd)}
          [] r.state = "ExStart" -> InExStart(n, r, dd)
          [] r.state = "Exchange" ->
               IF dup THEN Repeated(r, dd)
               ELSE IF InSequence(r, dd) THEN Process(n, r, dd) ELSE Unhandled
          [] OTHER -> IF dup THEN Repeated(r, dd) ELSE Unhandled
  BY DEF AfterDD
<1>4. Opened(n, dd) = IF s = "Init" THEN Adjacent(n, r) ELSE r
  BY DEF Opened
<1>5. s \in {"Exchange", "Loading", "Full"} <=> s \in AtLeastExchange
  BY DEF AtLeastExchange
<1> HIDE DEF r, dup
<1>6. CASE s = "DOWN"
  <2>1. AfterDD(n, dd) = {<<nbr[n], << >> >>}
    BY <1>2, <1>3, <1>6
  <2>2. Outcome(n, dd, nbr[n], << >>)
    BY <1>6 DEF Outcome, Drops
  <2> QED BY <2>1, <2>2, SingleOutcome, Zenon
<1>7. CASE s \in {"Init", "ExStart"}
  <2> DEFINE R == Opened(n, dd)
             A == InExStart(n, R, dd)
             G == Greeting(n, dd)
  <2>1. \/ s = "Init" /\ G = <<ExStartDD(R)>> /\ AfterDD(n, dd) = {<<a[1], G \o a[2]>> : a \in A}
        \/ s = "ExStart" /\ G = << >> /\ AfterDD(n, dd) = A
    BY <1>2, <1>3, <1>4, <1>7 DEF Greeting
  <2>2. G \in Seq(AnyPacket)
    BY <1>7, OpenedIs
  <2> HIDE DEF R, A, G
  <2>3. CASE Decides(n, dd)
    <3>1. A = Process(n, Joined(n, dd), dd)
      BY <1>7, <2>3, NegotiatedIs DEF A, R
    <3>2. Joined(n, dd) \in Neighbour /\ Joined(n, dd).state = "Exchange"
      BY <1>7, JoinedIs
    <3>3. A # {} /\ \A a \in A : Processed(n, Joined(n, dd), dd, a[1], a[2])
      BY <3>1, <3>2, ProcessIs
    <3>4. ASSUME NEW o \in AfterDD(n, dd)
          PROVE  Begins(n, dd, o[1], o[2])
      <4>1. PICK a \in A : o[1] = a[1] /\ o[2] = G \o a[2]
        <5>1. CASE s = "Init"
          <6>1. AfterDD(n, dd) = {<<a[1], G \o a[2]>> : a \in A}
            BY <2>1, <5>1
          <6>2. PICK a \in A : o = <<a[1], G \o a[2]>>
            BY <6>1
          <6> QED BY <6>2
        <5>2. CASE s = "ExStart"
          <6>1. G = << >> /\ o \in A
            BY <2>1, <5>2
          <6>2. o[2] \in Seq(AnyPacket)
            BY <3>3, <6>1 DEF Processed
          <6>3. o[2] = G \o o[2]
            BY <6>1, <6>2, ConcatEmptySeq
          <6> QED BY <6>1, <6>3
        <5> QED BY <1>7, <5>1, <5>2
      <4>2. Processed(n, Joined(n, dd), dd, o[1], a[2])
        BY <3>3, <4>1
      <4> QED BY <1>7, <2>3, <4>1, <4>2 DEF Begins, G
    <3>5. AfterDD(n, dd) # {}
      BY <2>1, <3>3
    <3> QED BY <3>4, <3>5 DEF Outcome
  <2>4. CASE ~Decides(n, dd)
    <3>1. A = {<<R, << >> >>}
      BY <2>4 DEF Decides, InExStart, A, R
    <3>2. AfterDD(n, dd) = {<<R, G>>}
      <4> DEFINE none == << >>
      <4>1. CASE s = "Init"
        <5>1. AfterDD(n, dd) = {<<a[1], G \o a[2]>> : a \in A}
          BY <2>1, <4>1
        <5>2. G \o none = G
          BY <2>2, ConcatEmptySeq
        <5>3. A = {<<R, none>>}
          BY <3>1
        <5> HIDE DEF none
        <5>4. \A a \in A : a[1] = R /\ a[2] = none
          BY <5>3
        <5>5. \A o : o \in AfterDD(n, dd) <=> o = <<R, G>>
          BY <5>1, <5>2, <5>3, <5>4
        <5> QED BY <5>5
      <4>2. CASE s = "ExStart"
        <5>1. A = {<<R, none>>}
          BY <3>1
        <5>2. G = none
          BY <2>1, <4>2
        <5>3. AfterDD(n, dd) = A
          BY <2>1, <4>2
        <5> HIDE DEF none
        <5> QED BY <5>1, <5>2, <5>3
      <4> QED BY <1>7, <4>1, <4>2
    <3>3. Outcome(n, dd, R, G)
      BY <1>7, <2>4 DEF Outcome, StaysOpen, R, G
    <3> QED BY <3>2, <3>3, SingleOutcome, Zenon
  <2> QED BY <2>3, <2>4
<1>8. CASE s \in AtLeastExchange /\ dup
  <2>1. AfterDD(n, dd) = {<<r, IF r.isMaster THEN << >> ELSE <<dd>> >>}
    BY <1>2, <1>3, <1>5, <1>8 DEF Repeated
  <2>2. Outcome(n, dd, r, IF r.isMaster THEN << >> ELSE <<dd>>)
    BY <1>8 DEF Outcome, Repeats, r, dup
  <2> QED BY <2>1, <2>2, SingleOutcome, Zenon
<1>9. CASE s = "Exchange" /\ ~dup /\ InSequence(r, dd)
  <2>1. AfterDD(n, dd) = Process(n, r, dd)
    BY <1>2, <1>3, <1>9
  <2>2. AfterDD(n, dd) # {} /\ \A o \in AfterDD(n, dd) : Processed(n, r, dd, o[1], o[2])
    BY <1>2, <1>9, <2>1, ProcessIs
  <2>3. \A o \in AfterDD(n, dd) : GoesOn(n, dd, o[1], o[2])
    BY <1>9, <2>2 DEF GoesOn, r, dup
  <2> QED BY <2>2, <2>3 DEF Outcome
<1>10. CASE s \in AtLeastExchange /\ ~dup /\ (s = "Exchange" => ~InSequence(r, dd))
  <2>1. AfterDD(n, dd) = {}
    BY <1>2, <1>3, <1>5, <1>10 DEF Unhandled
  <2>2. OutOfPlace(n, dd)
    BY <1>2, <1>10 DEF OutOfPlace, dup
  <2> QED BY <2>1, <2>2
<1> QED BY <1>1, <1>5, <1>6, <1>7, <1>8, <1>9, <1>10

-----------------------------------------------------------------------------
(* A description leaves what always holds.                                 *)

LEMMA ProcessedOk ==
    ASSUME Configured, RecordInv, DatabaseInv, NEW n \in Router, NEW r \in Neighbour,
           RecordOk(n, r, db), r.isMaster <=> n = High,
           NEW dd \in DD, PacketOk(n, dd, db), NEW q, NEW packets, Processed(n, r, dd, q, packets)
    PROVE  /\ RecordOk(n, q, db) /\ packets \in Seq(AnyPacket)
           /\ \A j \in DOMAIN packets : PacketOk(Other(n), packets[j], db)
<1> DEFINE m == Other(n)
<1>1. /\ m \in Router /\ m # n /\ \A x \in Router : x = n \/ x = m
  BY Routers
<1>2. /\ q \in Neighbour /\ packets \in Seq(AnyPacket) /\ q.isMaster = r.isMaster
      /\ Reads(n, r, q, dd)
  BY DEF Processed
<1>3. \E S \in SUBSET Key : Tells(r, q, S)
  BY DEF Processed, MasterEnds, MasterGoesOn, SlaveAnswers
<1>4. /\ \A k \in Key : r.summary[k] \in Nat /\ r.req[k] \in Nat /\ q.req[k] \in Nat /\ dd.lsas[k] \in Nat
      /\ \A k \in Key : db[n][k] \in Nat /\ db[m][k] \in Nat /\ db[Owner(k)][k] \in Nat /\ Owner(k) \in Router
  <2>1. r.summary \in Lsas /\ r.req \in Lsas /\ q.req \in Lsas /\ dd.lsas \in Lsas
    BY <1>2 DEF Neighbour, DD
  <2>2. \A x \in Router : db[x] \in Lsas
    BY DEF DatabaseInv
  <2> QED BY <1>1, <2>1, <2>2, LsasAt, Owners
<1>5. dd.type = "dd"
  BY DEF DD
<1>6. \A k \in Key : /\ r.summary[k] <= db[Owner(k)][k] /\ r.req[k] <= db[Owner(k)][k]
                     /\ dd.lsas[k] <= db[Owner(k)][k]
                     /\ Owner(k) = n => r.req[k] = 0
  BY <1>5 DEF RecordOk, PacketOk
<1> HIDE DEF m
<1>7. \A k \in Key : /\ q.req[k] <= db[Owner(k)][k]
                     /\ Owner(k) = n => q.req[k] = 0
  BY <1>2, <1>4, <1>6 DEF Reads
<1>8. \A k \in Key : q.summary[k] <= db[Owner(k)][k]
  BY <1>3, <1>4, <1>6 DEF Tells
<1>9. RecordOk(n, q, db)
  BY <1>2, <1>7, <1>8 DEF RecordOk
<1>10. ASSUME NEW p \in AnyPacket, IsRequest(p, q)
       PROVE  PacketOk(m, p, db)
  <2>1. \A k \in Key : k \in p.keys => q.req[k] > 0
    BY <1>10, KeysIs DEF IsRequest
  <2>2. p.type = "request" /\ p.keys \subseteq Key
    BY <1>10, Fields DEF IsRequest
  <2>3. \A k \in p.keys : Owner(k) = m /\ db[m][k] > 0
    BY <1>1, <1>4, <1>7, <2>1, <2>2
  <2> QED BY <2>2, <2>3 DEF PacketOk
<1>11. ASSUME NEW p \in AnyPacket, NEW S \in SUBSET Key, IsPart(p, r, q, S)
       PROVE  PacketOk(m, p, db)
  <2>1. p.type = "dd" /\ \A k \in Key : p.lsas[k] = IF k \in S THEN r.summary[k] ELSE 0
    BY <1>11 DEF IsPart
  <2>2. \A k \in Key : p.lsas[k] <= db[Owner(k)][k]
    BY <1>4, <1>6, <2>1
  <2> QED BY <2>1, <2>2 DEF PacketOk
<1>12. \A j \in DOMAIN packets : IsRequest(packets[j], q) \/ \E S \in SUBSET Key : IsPart(packets[j], r, q, S)
  BY DEF Processed, MasterEnds, MasterGoesOn, SlaveAnswers
<1>13. \A j \in DOMAIN packets : packets[j] \in AnyPacket
  BY <1>2
<1> QED BY <1>2, <1>9, <1>10, <1>11, <1>12, <1>13 DEF m

LEMMA OutcomeOk ==
    ASSUME Configured, RecordInv, DatabaseInv, NEW n \in Router,
           NEW dd \in DD, PacketOk(n, dd, db), NEW q, NEW packets, Outcome(n, dd, q, packets)
    PROVE  /\ RecordOk(n, q, db) /\ packets \in Seq(AnyPacket)
           /\ \A j \in DOMAIN packets : PacketOk(Other(n), packets[j], db)
<1> DEFINE m == Other(n)
<1>1. /\ m \in Router /\ m # n /\ \A x \in Router : x = n \/ x = m
  BY Routers
<1>2. nbr[n] \in Neighbour /\ RecordOk(n, nbr[n], db)
  BY DEF RecordInv
<1>3. \A k \in Key : db[Owner(k)][k] \in Nat /\ db[n][k] \in Nat /\ db[n][k] <= db[Owner(k)][k]
  BY Owners, LsasAt DEF DatabaseInv
<1>4. \A x \in Router : \A p \in DD :
          (\A k \in Key : p.lsas[k] <= db[Owner(k)][k]) => PacketOk(x, p, db)
  BY DEF DD, PacketOk, AnyPacket
<1>5. dd \in AnyPacket /\ \A k \in Key : dd.lsas[k] <= db[Owner(k)][k]
  BY DEF DD, AnyPacket, PacketOk
<1>6. ASSUME nbr[n].state \in {"Init", "ExStart"}
      PROVE  /\ Greeting(n, dd) \in Seq(AnyPacket)
             /\ \A j \in DOMAIN Greeting(n, dd) : PacketOk(m, Greeting(n, dd)[j], db)
  <2>1. /\ Greeting(n, dd) \in Seq(AnyPacket)
        /\ nbr[n].state = "Init" => /\ Greeting(n, dd) = <<ExStartDD(Opened(n, dd))>>
                                    /\ ExStartDD(Opened(n, dd)) \in AnyPacket
    BY <1>6, OpenedIs
  <2>2. CASE nbr[n].state = "Init"
    <3> DEFINE p == ExStartDD(Opened(n, dd))
    <3>1. p \in AnyPacket /\ p.type = "dd" /\ \A k \in Key : p.lsas[k] = 0
      BY <2>1, <2>2, NoLsaIs DEF ExStartDD
    <3> HIDE DEF p
    <3>2. PacketOk(m, p, db)
      BY <1>1, <1>3, <3>1 DEF PacketOk
    <3>3. DOMAIN <<p>> = {1} /\ <<p>>[1] = p
      BY <3>1, OnePacket
    <3>4. Greeting(n, dd) = <<p>>
      BY <2>1, <2>2 DEF p
    <3> QED BY <2>1, <3>2, <3>3, <3>4
  <2>3. CASE nbr[n].state # "Init"
    BY <2>1, <2>3 DEF Greeting
  <2> QED BY <2>2, <2>3
<1> HIDE DEF m
<1>7. CASE Drops(n, dd, q, packets)
  BY <1>2, <1>7, EmptySeq DEF Drops
<1>8. CASE StaysOpen(n, dd, q, packets)
  <2>1. /\ q = Opened(n, dd) /\ packets = Greeting(n, dd) /\ nbr[n].state \in {"Init", "ExStart"}
    BY <1>8 DEF StaysOpen
  <2>2. /\ q \in Neighbour /\ q.state = "ExStart"
        /\ q.summary = nbr[n].summary /\ q.req = nbr[n].req
    BY <2>1, OpenedIs
  <2>3. RecordOk(n, q, db)
    BY <1>2, <2>2 DEF RecordOk, AtLeastExchange
  <2> QED BY <1>6, <2>1, <2>3 DEF m
<1>9. CASE Begins(n, dd, q, packets)
  <2>1. /\ nbr[n].state \in {"Init", "ExStart"}
        /\ \E rest : Processed(n, Joined(n, dd), dd, q, rest) /\ packets = Greeting(n, dd) \o rest
    BY <1>9 DEF Begins
  <2>2. PICK rest : Processed(n, Joined(n, dd), dd, q, rest) /\ packets = Greeting(n, dd) \o rest
    BY <2>1
  <2> DEFINE r == Joined(n, dd)
             g == Greeting(n, dd)
  <2>3. /\ r \in Neighbour /\ r.state = "Exchange" /\ (r.isMaster <=> n = High)
        /\ r.req = nbr[n].req
        /\ \A k \in Key : r.summary[k] = IF nbr[n].summary[k] > db[n][k] THEN nbr[n].summary[k]
                                                                         ELSE db[n][k]
    BY <2>1, JoinedIs
  <2>4. g \in Seq(AnyPacket) /\ \A j \in DOMAIN g : PacketOk(m, g[j], db)
    BY <1>6, <2>1
  <2> HIDE DEF r, g
  <2>5. RecordOk(n, r, db)
    BY <1>2, <1>3, <2>3 DEF RecordOk
  <2>6. /\ RecordOk(n, q, db) /\ rest \in Seq(AnyPacket)
        /\ \A j \in DOMAIN rest : PacketOk(m, rest[j], db)
    BY <2>2, <2>3, <2>5, ProcessedOk DEF r, m
  <2>7. packets = g \o rest
    BY <2>2 DEF g
  <2>8. Puts(g, packets, rest)
    BY <2>4, <2>6, <2>7, Appended
  <2>9. packets \in Seq(AnyPacket) /\ \A j \in DOMAIN packets : PacketOk(m, packets[j], db)
    BY <2>4, <2>6, <2>8 DEF Puts
  <2> QED BY <2>6, <2>9 DEF m
<1>10. CASE GoesOn(n, dd, q, packets)
  <2> DEFINE r == [nbr[n] EXCEPT !.last = dd]
  <2>1. nbr[n].state = "Exchange" /\ Processed(n, r, dd, q, packets)
    BY <1>10 DEF GoesOn
  <2>2. r \in Neighbour /\ r.summary = nbr[n].summary /\ r.req = nbr[n].req /\ r.state = nbr[n].state
        /\ r.isMaster = nbr[n].isMaster
    BY <1>2 DEF Neighbour
  <2> HIDE DEF r
  <2>3. RecordOk(n, r, db) /\ (r.isMaster <=> n = High)
    BY <1>2, <2>1, <2>2 DEF RecordOk, AtLeastExchange
  <2> QED BY <2>1, <2>2, <2>3, ProcessedOk
<1>11. CASE Repeats(n, dd, q, packets)
  <2>1. /\ q = [nbr[n] EXCEPT !.last = dd]
        /\ packets = IF q.isMaster THEN << >> ELSE <<dd>>
    BY <1>11 DEF Repeats
  <2>2. q \in Neighbour /\ q.summary = nbr[n].summary /\ q.req = nbr[n].req /\ q.state = nbr[n].state
        /\ q.isMaster = nbr[n].isMaster
    BY <1>2, <2>1 DEF Neighbour
  <2>3. RecordOk(n, q, db)
    BY <1>2, <2>2 DEF RecordOk
  <2>4. PacketOk(m, dd, db)
    BY <1>1, <1>4, <1>5 DEF m
  <2>5. CASE q.isMaster
    BY <2>1, <2>3, <2>5, EmptySeq
  <2>6. CASE ~q.isMaster
    <3>1. <<dd>> \in Seq(AnyPacket) /\ DOMAIN <<dd>> = {1} /\ <<dd>>[1] = dd
      BY <1>5, OnePacket
    <3> QED BY <2>1, <2>3, <2>4, <2>6, <3>1 DEF m
  <2> QED BY <2>5, <2>6
<1> QED BY <1>7, <1>8, <1>9, <1>10, <1>11 DEF Outcome

-----------------------------------------------------------------------------
(* Every action keeps what always holds.                                   *)

LEMMA DropsOne ==
    ASSUME Configured, LinkInv, Grows(db, db'), NEW n \in Router, link[n] # << >>, Takes(n, << >>)
    PROVE  LinkInv'
<1> DEFINE none == << >>
<1>1. none \in Seq(AnyPacket) /\ DOMAIN none = {} /\ Takes(n, none)
  BY NoPacket
<1> HIDE DEF none
<1>2. \A j \in DOMAIN none : PacketOk(Other(n), none[j], db')
  BY <1>1
<1> QED BY <1>1, <1>2, LinkAfterTakes

LEMMA RecordAfter ==
    ASSUME Configured, RecordInv, Grows(db, db'), NEW n \in Router, NEW r, RecordOk(n, r, db'),
           nbr' = [nbr EXCEPT ![n] = r]
    PROVE  RecordInv' /\ nbr'[n] = r /\ \A x \in Router : x # n => nbr'[x] = nbr[x]
<1>1. nbr \in [Router -> Neighbour] /\ r \in Neighbour
  BY DEF RecordInv, RecordOk
<1>2. nbr' \in [Router -> Neighbour] /\ nbr'[n] = r /\ \A x \in Router : x # n => nbr'[x] = nbr[x]
  BY <1>1
<1>3. \A x \in Router : RecordOk(x, nbr[x], db')
  BY RecordGrows DEF RecordInv
<1> QED BY <1>2, <1>3 DEF RecordInv

LEMMA SameRecords ==
    ASSUME Configured, RecordInv, Grows(db, db'), nbr' = nbr
    PROVE  RecordInv'
<1>1. \A x \in Router : RecordOk(x, nbr[x], db')
  BY RecordGrows DEF RecordInv
<1> QED BY <1>1 DEF RecordInv

LEMMA SameDatabase ==
    ASSUME Configured, DatabaseInv, db' = db
    PROVE  Grows(db, db')
  BY Stands

LEMMA HelloTimerAlways ==
    ASSUME Configured, AlwaysInv, NEW n \in Router, HelloTimer(n)
    PROVE  AlwaysInv'
<1> DEFINE p == [type |-> "hello", listed |-> nbr[n].state # "DOWN"]
<1>1. Sends(n, <<p>>) /\ UNCHANGED <<lost, delayed, nbr, db, out, rlsaDue, failed>>
  BY DEF HelloTimer
<1>2. p \in AnyPacket /\ p.type = "hello"
  BY DEF AnyPacket, Hello
<1> HIDE DEF p
<1>3. <<p>> \in Seq(AnyPacket) /\ DOMAIN <<p>> = {1} /\ <<p>>[1] = p
  BY <1>2, OnePacket
<1>4. PacketOk(Other(n), p, db')
  BY <1>2 DEF PacketOk
<1>5. Grows(db, db')
  BY <1>1, SameDatabase DEF AlwaysInv
<1>6. LinkInv'
  BY <1>1, <1>3, <1>4, <1>5, LinkAfterSends DEF AlwaysInv
<1>7. RecordInv'
  BY <1>1, <1>5, SameRecords DEF AlwaysInv
<1> QED BY <1>1, <1>6, <1>7 DEF AlwaysInv, DatabaseInv, SwitchInv

LEMMA FirstIs ==
    ASSUME Configured, DatabaseInv, NEW n \in Router, NEW r \in Neighbour
    PROVE  LET p == ExStartDD(r) IN
           /\ p \in AnyPacket /\ p.type = "dd" /\ p.seq = r.seq /\ p.init /\ p.more /\ p.master
           /\ \A k \in Key : p.lsas[k] = 0
           /\ PacketOk(n, p, db)
<1> DEFINE p == ExStartDD(r)
<1>1. r.seq \in Nat
  BY DEF Neighbour
<1>2. /\ p \in AnyPacket /\ p.type = "dd" /\ p.seq = r.seq /\ p.init /\ p.more /\ p.master
      /\ p.lsas = NoLsa
  BY <1>1, NoLsaIs DEF ExStartDD, AnyPacket, DD
<1> HIDE DEF p
<1>3. \A k \in Key : p.lsas[k] = 0 /\ db[Owner(k)][k] \in Nat
  BY <1>2, NoLsaIs, Owners, LsasAt DEF DatabaseInv
<1>4. PacketOk(n, p, db)
  BY <1>2, <1>3 DEF PacketOk
<1> QED BY <1>2, <1>3, <1>4 DEF p

\* What a hello makes of n.
Heard(n) ==
    LET heard == [nbr[n] EXCEPT !.state = IF @ = "DOWN" THEN "Init" ELSE @]
    IN  IF Head(link[n]).listed /\ heard.state = "Init" THEN Adjacent(n, heard) ELSE heard

TwoWay(n) == Head(link[n]).listed /\ nbr[n].state \in {"DOWN", "Init"}

LEMMA HeardIs ==
    ASSUME Configured, RecordInv, NEW n \in Router, ReceiveHello(n)
    PROVE  LET r == Heard(n) IN
           /\ Arrives(n, "hello") /\ r \in Neighbour /\ nbr' = [nbr EXCEPT ![n] = r]
           /\ Takes(n, IF TwoWay(n) THEN <<ExStartDD(r)>> ELSE << >>)
           /\ UNCHANGED <<lost, delayed, db, out, rlsaDue, failed>>
           /\ r.summary = nbr[n].summary /\ r.req = nbr[n].req /\ r.last = nbr[n].last
           /\ ~TwoWay(n) => /\ r.state = IF nbr[n].state = "DOWN" THEN "Init" ELSE nbr[n].state
                            /\ r.isMaster = nbr[n].isMaster /\ r.seq = nbr[n].seq /\ r.more = nbr[n].more
           /\ TwoWay(n) => r.state = "ExStart" /\ r.seq = FirstSeq(n) /\ r.more
<1> DEFINE heard == [nbr[n] EXCEPT !.state = IF @ = "DOWN" THEN "Init" ELSE @]
           twoWay == Head(link[n]).listed /\ heard.state = "Init"
           r == IF twoWay THEN Adjacent(n, heard) ELSE heard
<1>1. r = Heard(n)
  BY DEF Heard
<1>2. /\ Arrives(n, "hello") /\ nbr' = [nbr EXCEPT ![n] = r]
      /\ Takes(n, IF twoWay THEN <<ExStartDD(r)>> ELSE << >>)
      /\ UNCHANGED <<lost, delayed, db, out, rlsaDue, failed>>
  BY DEF ReceiveHello
<1>3. nbr[n] \in Neighbour
  BY DEF RecordInv
<1>4. /\ heard \in Neighbour /\ heard.state = IF nbr[n].state = "DOWN" THEN "Init" ELSE nbr[n].state
      /\ heard.isMaster = nbr[n].isMaster /\ heard.seq = nbr[n].seq /\ heard.more = nbr[n].more
      /\ heard.summary = nbr[n].summary /\ heard.req = nbr[n].req /\ heard.last = nbr[n].last
  BY <1>3 DEF Neighbour, State
<1>5. twoWay <=> TwoWay(n)
  BY <1>3, <1>4 DEF TwoWay
<1> HIDE DEF heard
<1>6. /\ Adjacent(n, heard) \in Neighbour /\ Adjacent(n, heard).state = "ExStart"
      /\ Adjacent(n, heard).seq = FirstSeq(n) /\ Adjacent(n, heard).more
      /\ Adjacent(n, heard).summary = nbr[n].summary /\ Adjacent(n, heard).req = nbr[n].req
      /\ Adjacent(n, heard).last = nbr[n].last
  BY <1>4 DEF Adjacent, FirstSeq, Neighbour, State
<1> HIDE DEF twoWay
<1>7. /\ r \in Neighbour /\ r.summary = nbr[n].summary /\ r.req = nbr[n].req /\ r.last = nbr[n].last
      /\ ~twoWay => /\ r.state = IF nbr[n].state = "DOWN" THEN "Init" ELSE nbr[n].state
                    /\ r.isMaster = nbr[n].isMaster /\ r.seq = nbr[n].seq /\ r.more = nbr[n].more
      /\ twoWay => r.state = "ExStart" /\ r.seq = FirstSeq(n) /\ r.more
  BY <1>4, <1>6
<1> HIDE DEF r
<1>8. (IF twoWay THEN <<ExStartDD(r)>> ELSE << >>) = IF TwoWay(n) THEN <<ExStartDD(r)>> ELSE << >>
  BY <1>5
<1>9. Takes(n, IF TwoWay(n) THEN <<ExStartDD(r)>> ELSE << >>)
  BY <1>2, <1>8
<1> QED BY <1>1, <1>2, <1>5, <1>7, <1>9

LEMMA ReceiveHelloAlways ==
    ASSUME Configured, AlwaysInv, NEW n \in Router, ReceiveHello(n)
    PROVE  AlwaysInv'
<1> DEFINE r == Heard(n)
           ps == IF TwoWay(n) THEN <<ExStartDD(r)>> ELSE << >>
<1> USE DEF AlwaysInv
<1>1. /\ r \in Neighbour /\ nbr' = [nbr EXCEPT ![n] = r] /\ Takes(n, ps) /\ link[n] # << >>
      /\ UNCHANGED <<lost, delayed, db, out, rlsaDue, failed>>
      /\ r.summary = nbr[n].summary /\ r.req = nbr[n].req
      /\ r.state \in AtLeastExchange => r.state = nbr[n].state /\ r.isMaster = nbr[n].isMaster
  BY HeardIs DEF Arrives, AtLeastExchange
<1>2. RecordOk(n, nbr[n], db)
  BY DEF RecordInv
<1> HIDE DEF r
<1>3. RecordOk(n, r, db)
  BY <1>1, <1>2 DEF RecordOk
<1>4. Grows(db, db')
  BY <1>1, SameDatabase
<1>5. RecordInv'
  BY <1>1, <1>3, <1>4, RecordAfter
<1>6. ps \in Seq(AnyPacket) /\ \A j \in DOMAIN ps : PacketOk(Other(n), ps[j], db')
  <2> DEFINE p == ExStartDD(r)
  <2>1. p \in AnyPacket /\ PacketOk(Other(n), p, db)
    BY <1>1, FirstIs, Routers
  <2> HIDE DEF p
  <2>2. <<p>> \in Seq(AnyPacket) /\ DOMAIN <<p>> = {1} /\ <<p>>[1] = p
    BY <2>1, OnePacket
  <2>3. ps = <<p>> \/ ps = << >>
    BY DEF p
  <2> QED BY <1>1, <2>1, <2>2, <2>3, EmptySeq
<1> HIDE DEF ps
<1>7. LinkInv'
  BY <1>1, <1>4, <1>6, LinkAfterTakes
<1> QED BY <1>1, <1>5, <1>7 DEF DatabaseInv, SwitchInv

LEMMA ExStartTimerAlways ==
    ASSUME Configured, AlwaysInv, NEW n \in Router, ExStartTimer(n)
    PROVE  AlwaysInv'
<1> USE DEF AlwaysInv
<1>1. UNCHANGED <<lost, delayed, db, out, rlsaDue, failed>>
  BY DEF ExStartTimer
<1>2. Grows(db, db')
  BY <1>1, SameDatabase
<1>3. nbr[n] \in Neighbour /\ RecordOk(n, nbr[n], db)
  BY DEF RecordInv
<1>4. CASE nbr[n].state = "ExStart"
  <2> DEFINE p == ExStartDD(nbr[n])
  <2>1. Sends(n, <<p>>) /\ nbr' = nbr
    BY <1>4 DEF ExStartTimer
  <2>2. p \in AnyPacket /\ PacketOk(Other(n), p, db)
    BY <1>3, FirstIs, Routers
  <2> HIDE DEF p
  <2>3. <<p>> \in Seq(AnyPacket) /\ DOMAIN <<p>> = {1} /\ <<p>>[1] = p
    BY <2>2, OnePacket
  <2>4. LinkInv'
    BY <1>1, <1>2, <2>1, <2>2, <2>3, LinkAfterSends
  <2>5. RecordInv'
    BY <1>2, <2>1, SameRecords
  <2> QED BY <1>1, <2>4, <2>5 DEF DatabaseInv, SwitchInv
<1>5. CASE nbr[n].state # "ExStart"
  <2> DEFINE r == [nbr[n] EXCEPT !.rxmt = FALSE]
  <2>1. nbr' = [nbr EXCEPT ![n] = r] /\ link' = link
    BY <1>5 DEF ExStartTimer
  <2>2. r \in Neighbour /\ r.summary = nbr[n].summary /\ r.req = nbr[n].req /\ r.state = nbr[n].state
        /\ r.isMaster = nbr[n].isMaster
    BY <1>3 DEF Neighbour
  <2> HIDE DEF r
  <2>3. RecordOk(n, r, db)
    BY <1>3, <2>2 DEF RecordOk
  <2>4. RecordInv'
    BY <1>1, <1>2, <2>1, <2>3, RecordAfter
  <2> QED BY <1>1, <2>1, <2>4 DEF DatabaseInv, SwitchInv, LinkInv
<1> QED BY <1>4, <1>5

LEMMA ReceiveDDIs ==
    ASSUME Configured, AlwaysInv, NEW n \in Router, ReceiveDD(n)
    PROVE  LET dd == Head(link[n]) IN
           /\ link[n] # << >> /\ dd \in DD /\ dd = link[n][1] /\ PacketOk(n, dd, db)
           /\ UNCHANGED <<lost, delayed, db, out>>
           /\ \/ \E q, packets :
                   /\ Outcome(n, dd, q, packets) /\ nbr' = [nbr EXCEPT ![n] = q]
                   /\ rlsaDue' = DueAfter(n, q) /\ Takes(n, packets) /\ failed' = failed
              \/ /\ OutOfPlace(n, dd) /\ failed' = TRUE /\ Takes(n, << >>)
                 /\ UNCHANGED <<nbr, rlsaDue>>
<1> DEFINE dd == Head(link[n])
<1>1. Arrives(n, "dd") /\ link[n] \in Seq(AnyPacket)
  BY DEF ReceiveDD, AlwaysInv, LinkInv
<1>2. link[n] # << >> /\ dd.type = "dd" /\ dd = link[n][1] /\ 1 \in DOMAIN link[n]
  BY <1>1, Pulled DEF Arrives
<1>3. PacketOk(n, dd, db)
  BY <1>2 DEF AlwaysInv, LinkInv
<1>4. dd \in DD
  BY <1>2, <1>3, PacketTypes DEF PacketOk
<1> HIDE DEF dd
<1>5. /\ UNCHANGED <<lost, delayed, db, out>>
      /\ \/ \E o \in AfterDD(n, dd) :
                /\ nbr' = [nbr EXCEPT ![n] = o[1]]
                /\ rlsaDue' = DueAfter(n, o[1])
                /\ Takes(n, o[2])
                /\ UNCHANGED failed
         \/ /\ AfterDD(n, dd) = {}
            /\ failed' = TRUE
            /\ Takes(n, << >>)
            /\ UNCHANGED <<nbr, rlsaDue>>
  BY DEF ReceiveDD, dd, Unhandled
<1>6. /\ \A o \in AfterDD(n, dd) : Outcome(n, dd, o[1], o[2])
      /\ AfterDD(n, dd) = {} => OutOfPlace(n, dd)
  BY <1>4, AfterDDIs DEF AlwaysInv
<1>7. ASSUME NEW o \in AfterDD(n, dd),
             nbr' = [nbr EXCEPT ![n] = o[1]] /\ rlsaDue' = DueAfter(n, o[1]) /\ Takes(n, o[2]) /\ failed' = failed
      PROVE  \E q, packets :
                   /\ Outcome(n, dd, q, packets) /\ nbr' = [nbr EXCEPT ![n] = q]
                   /\ rlsaDue' = DueAfter(n, q) /\ Takes(n, packets) /\ failed' = failed
  BY <1>6, <1>7
<1> QED BY <1>2, <1>3, <1>4, <1>5, <1>6, <1>7 DEF dd

LEMMA DueIs ==
    ASSUME NEW n \in Router, NEW r, rlsaDue \in [Router -> BOOLEAN]
    PROVE  DueAfter(n, r) \in [Router -> BOOLEAN]
  BY DEF DueAfter

LEMMA ReceiveDDAlways ==
    ASSUME Configured, AlwaysInv, NEW n \in Router, ReceiveDD(n)
    PROVE  AlwaysInv'
<1> USE DEF AlwaysInv
<1> DEFINE dd == Head(link[n])
<1>1. /\ link[n] # << >> /\ dd \in DD /\ PacketOk(n, dd, db)
      /\ UNCHANGED <<lost, delayed, db, out>>
      /\ \/ \E q, packets :
                   /\ Outcome(n, dd, q, packets) /\ nbr' = [nbr EXCEPT ![n] = q]
                   /\ rlsaDue' = DueAfter(n, q) /\ Takes(n, packets) /\ failed' = failed
         \/ /\ failed' = TRUE /\ Takes(n, << >>)
            /\ UNCHANGED <<nbr, rlsaDue>>
  BY ReceiveDDIs, Zenon
<1> HIDE DEF dd
<1>2. Grows(db, db')
  BY <1>1, SameDatabase
<1>3. CASE failed' = TRUE /\ Takes(n, << >>) /\ UNCHANGED <<nbr, rlsaDue>>
  <2>1. LinkInv'
    BY <1>1, <1>2, <1>3, DropsOne
  <2>2. RecordInv'
    BY <1>2, <1>3, SameRecords
  <2> QED BY <1>1, <1>3, <2>1, <2>2 DEF DatabaseInv, SwitchInv
<1>4. ASSUME NEW q, NEW packets,
             /\ Outcome(n, dd, q, packets) /\ nbr' = [nbr EXCEPT ![n] = q]
             /\ rlsaDue' = DueAfter(n, q) /\ Takes(n, packets) /\ failed' = failed
      PROVE  AlwaysInv'
  <2>1. /\ RecordOk(n, q, db) /\ packets \in Seq(AnyPacket)
        /\ \A j \in DOMAIN packets : PacketOk(Other(n), packets[j], db)
    BY <1>1, <1>4, OutcomeOk
  <2>2. RecordInv'
    BY <1>1, <1>2, <1>4, <2>1, RecordAfter
  <2>3. LinkInv'
    BY <1>1, <1>2, <1>4, <2>1, LinkAfterTakes
  <2>4. rlsaDue' \in [Router -> BOOLEAN]
    BY <1>4, DueIs DEF SwitchInv
  <2> QED BY <1>1, <1>4, <2>2, <2>3, <2>4 DEF DatabaseInv, SwitchInv
<1> QED BY <1>1, <1>3, <1>4

LEMMA OutAfter ==
    ASSUME Configured, DatabaseInv, db' = db, NEW n \in Router, NEW l \in Lsas,
           \A k \in Key : l[k] <= db[Owner(k)][k] /\ (Owner(k) # n => l[k] = 0),
           out' = [out EXCEPT ![n] = l]
    PROVE  DatabaseInv' /\ out'[n] = l /\ \A x \in Router : x # n => out'[x] = out[x]
<1>1. out \in [Router -> Lsas]
  BY DEF DatabaseInv
<1>2. out' \in [Router -> Lsas] /\ out'[n] = l /\ \A x \in Router : x # n => out'[x] = out[x]
  BY <1>1
<1> QED BY <1>2 DEF DatabaseInv

\* An update of what is queued for the other router.
LEMMA UpdateIs ==
    ASSUME Configured, DatabaseInv, NEW n \in Router, NEW l \in Lsas,
           \A k \in Key : l[k] <= db[Owner(k)][k] /\ (Owner(k) # n => l[k] = 0)
    PROVE  LET p == [type |-> "update", lsas |-> l] IN
           /\ p \in AnyPacket /\ p.type = "update" /\ p.lsas = l /\ PacketOk(Other(n), p, db)
           /\ <<p>> \in Seq(AnyPacket) /\ DOMAIN <<p>> = {1} /\ <<p>>[1] = p
<1> DEFINE p == [type |-> "update", lsas |-> l]
<1>1. p \in AnyPacket /\ p.type = "update" /\ p.lsas = l
  BY DEF AnyPacket, Update
<1> HIDE DEF p
<1>2. PacketOk(Other(n), p, db)
  BY <1>1, Routers DEF PacketOk
<1> QED BY <1>1, <1>2, OnePacket DEF p

\* The router that is asked queues what it has, or sends it with what was queued.
Queued(n, p, l) ==
    /\ l \in Lsas
    /\ \A k \in Key : l[k] = IF k \in p.keys THEN db[n][k] ELSE out[n][k]

LEMMA ReceiveRequestIs ==
    ASSUME Configured, AlwaysInv, NEW n \in Router, ReceiveRequest(n)
    PROVE  LET p == Head(link[n]) IN
           /\ link[n] # << >> /\ p \in AnyPacket /\ p.type = "request" /\ p = link[n][1]
           /\ PacketOk(n, p, db)
           /\ UNCHANGED <<lost, delayed, nbr, db, rlsaDue, failed>>
           /\ \/ /\ nbr[n].state \notin AtLeastExchange /\ Takes(n, << >>) /\ out' = out
              \/ /\ nbr[n].state \in AtLeastExchange
                 /\ \E l : /\ Queued(n, p, l)
                           /\ \/ /\ delayed /\ Takes(n, << >>) /\ out' = [out EXCEPT ![n] = l]
                              \/ /\ ~delayed /\ Takes(n, <<[type |-> "update", lsas |-> l]>>)
                                 /\ out' = [out EXCEPT ![n] = NoLsa]
<1> DEFINE p == Head(link[n])
           l == Newest(out[n], Only(db[n], p.keys))
<1>1. Arrives(n, "request") /\ link[n] \in Seq(AnyPacket)
  BY DEF ReceiveRequest, AlwaysInv, LinkInv
<1>2. link[n] # << >> /\ p.type = "request" /\ p = link[n][1] /\ 1 \in DOMAIN link[n]
  BY <1>1, Pulled DEF Arrives
<1>3. PacketOk(n, p, db)
  BY <1>2 DEF AlwaysInv, LinkInv
<1>4. p \in AnyPacket /\ \A k \in p.keys : Owner(k) = n /\ db[n][k] > 0
  BY <1>2, <1>3 DEF PacketOk
<1>5. p.keys \subseteq Key
  BY <1>2, <1>4, Fields
<1> HIDE DEF p
<1>6. ~ \E k \in p.keys : db[n][k] = 0
  BY <1>4
<1>7. /\ UNCHANGED <<lost, delayed, nbr, db, rlsaDue>>
      /\ IF nbr[n].state \notin AtLeastExchange
           THEN Takes(n, << >>) /\ UNCHANGED <<out, failed>>
         ELSE /\ UNCHANGED failed
              /\ IF delayed
                   THEN out' = [out EXCEPT ![n] = l] /\ Takes(n, << >>)
                   ELSE out' = [out EXCEPT ![n] = NoLsa]
                        /\ Takes(n, <<[type |-> "update", lsas |-> l]>>)
  BY <1>6 DEF ReceiveRequest, p
<1>8. Queued(n, p, l)
  <2> DEFINE a == Only(db[n], p.keys)
  <2>1. db[n] \in Lsas /\ out[n] \in Lsas
    BY DEF AlwaysInv, DatabaseInv
  <2>2. a \in Lsas /\ \A k \in Key : a[k] = IF k \in p.keys THEN db[n][k] ELSE 0
    BY <2>1, OnlyIs
  <2> HIDE DEF a
  <2>3. Newest(out[n], a) \in Lsas
        /\ \A k \in Key : Newest(out[n], a)[k] = IF out[n][k] > a[k] THEN out[n][k] ELSE a[k]
    BY <2>1, <2>2, NewestIs
  <2>4. \A k \in Key : db[n][k] \in Nat /\ out[n][k] \in Nat /\ out[n][k] <= db[Owner(k)][k]
    BY <2>1, LsasAt DEF AlwaysInv, DatabaseInv
  <2>5. \A k \in Key : Newest(out[n], a)[k] = IF k \in p.keys THEN db[n][k] ELSE out[n][k]
    BY <1>4, <1>5, <2>2, <2>3, <2>4
  <2> QED BY <2>3, <2>5 DEF Queued, a
<1> HIDE DEF l
<1>9. delayed \in BOOLEAN
  BY DEF AlwaysInv, SwitchInv
<1>10. CASE nbr[n].state \notin AtLeastExchange
  BY <1>2, <1>3, <1>4, <1>7, <1>10 DEF p
<1>11. CASE nbr[n].state \in AtLeastExchange /\ delayed
  <2>1. UNCHANGED failed /\ out' = [out EXCEPT ![n] = l] /\ Takes(n, << >>)
    BY <1>7, <1>11
  <2> QED BY <1>2, <1>3, <1>4, <1>7, <1>8, <1>11, <2>1 DEF p
<1>12. CASE nbr[n].state \in AtLeastExchange /\ ~delayed
  <2>1. UNCHANGED failed /\ out' = [out EXCEPT ![n] = NoLsa] /\ Takes(n, <<[type |-> "update", lsas |-> l]>>)
    BY <1>7, <1>12
  <2> QED BY <1>2, <1>3, <1>4, <1>7, <1>8, <1>12, <2>1 DEF p
<1> QED BY <1>10, <1>11, <1>12

LEMMA QueuedIs ==
    ASSUME Configured, DatabaseInv, NEW n \in Router, NEW p, PacketOk(n, p, db), p.type = "request",
           NEW l, Queued(n, p, l)
    PROVE  l \in Lsas /\ \A k \in Key : l[k] <= db[Owner(k)][k] /\ (Owner(k) # n => l[k] = 0)
<1>1. \A k \in Key : /\ db[n][k] <= db[Owner(k)][k] /\ out[n][k] <= db[Owner(k)][k]
                     /\ Owner(k) # n => out[n][k] = 0 /\ k \notin p.keys
  BY DEF DatabaseInv, PacketOk
<1> QED BY <1>1 DEF Queued

LEMMA NothingIs ==
    ASSUME Configured, DatabaseInv, NEW n
    PROVE  NoLsa \in Lsas /\ \A k \in Key : NoLsa[k] <= db[Owner(k)][k] /\ (Owner(k) # n => NoLsa[k] = 0)
<1>1. \A k \in Key : db[Owner(k)][k] \in Nat
  BY Owners, LsasAt DEF DatabaseInv
<1> QED BY <1>1, NoLsaIs

LEMMA ReceiveRequestAlways ==
    ASSUME Configured, AlwaysInv, NEW n \in Router, ReceiveRequest(n)
    PROVE  AlwaysInv'
<1> USE DEF AlwaysInv
<1> DEFINE p == Head(link[n])
<1>1. /\ link[n] # << >> /\ p.type = "request" /\ PacketOk(n, p, db)
      /\ UNCHANGED <<lost, delayed, nbr, db, rlsaDue, failed>>
      /\ \/ Takes(n, << >>) /\ out' = out
         \/ \E l : /\ Queued(n, p, l)
                   /\ \/ /\ Takes(n, << >>) /\ out' = [out EXCEPT ![n] = l]
                      \/ /\ Takes(n, <<[type |-> "update", lsas |-> l]>>)
                         /\ out' = [out EXCEPT ![n] = NoLsa]
  BY ReceiveRequestIs
<1> HIDE DEF p
<1>2. Grows(db, db')
  BY <1>1, SameDatabase
<1>3. RecordInv' /\ SwitchInv'
  BY <1>1, <1>2, SameRecords DEF SwitchInv
<1>4. CASE Takes(n, << >>) /\ out' = out
  <2>1. LinkInv'
    BY <1>1, <1>2, <1>4, DropsOne
  <2> QED BY <1>1, <1>3, <1>4, <2>1 DEF DatabaseInv
<1>5. ASSUME NEW l, Queued(n, p, l), Takes(n, << >>), out' = [out EXCEPT ![n] = l]
      PROVE  AlwaysInv'
  <2>1. LinkInv'
    BY <1>1, <1>2, <1>5, DropsOne
  <2>2. l \in Lsas /\ \A k \in Key : l[k] <= db[Owner(k)][k] /\ (Owner(k) # n => l[k] = 0)
    BY <1>1, <1>5, QueuedIs
  <2>3. DatabaseInv'
    BY <1>1, <1>5, <2>2, OutAfter
  <2> QED BY <1>3, <2>1, <2>3
<1>6. ASSUME NEW l, Queued(n, p, l), Takes(n, <<[type |-> "update", lsas |-> l]>>),
             out' = [out EXCEPT ![n] = NoLsa]
      PROVE  AlwaysInv'
  <2> DEFINE u == [type |-> "update", lsas |-> l]
  <2>1. /\ PacketOk(Other(n), u, db)
        /\ <<u>> \in Seq(AnyPacket) /\ DOMAIN <<u>> = {1} /\ <<u>>[1] = u
    BY <1>1, <1>6, QueuedIs, UpdateIs
  <2>2. Takes(n, <<u>>)
    BY <1>6
  <2> HIDE DEF u
  <2>3. LinkInv'
    BY <1>1, <1>2, <2>1, <2>2, LinkAfterTakes
  <2>4. DatabaseInv'
    BY <1>1, <1>6, NothingIs, OutAfter
  <2> QED BY <1>3, <2>3, <2>4
<1> QED BY <1>1, <1>4, <1>5, <1>6

LEMMA RequestTimerIs ==
    ASSUME Configured, AlwaysInv, NEW n \in Router, RequestTimer(n)
    PROVE  LET p == RequestOf(nbr[n]) IN
           /\ p \in AnyPacket /\ IsRequest(p, nbr[n]) /\ PacketOk(Other(n), p, db)
           /\ <<p>> \in Seq(AnyPacket) /\ DOMAIN <<p>> = {1} /\ <<p>>[1] = p
           /\ Sends(n, <<p>>) /\ UNCHANGED <<lost, delayed, nbr, db, out, rlsaDue, failed>>
<1> DEFINE p == RequestOf(nbr[n])
           m == Other(n)
<1>1. p \in AnyPacket /\ IsRequest(p, nbr[n])
  BY RequestIs DEF RequestTimer
<1>2. Sends(n, <<p>>) /\ UNCHANGED <<lost, delayed, nbr, db, out, rlsaDue, failed>>
  BY DEF RequestTimer
<1> HIDE DEF p
<1>3. p.type = "request" /\ \A k \in Key : k \in p.keys => nbr[n].req[k] > 0
  BY <1>1, KeysIs DEF IsRequest
<1>4. p.keys \subseteq Key
  BY <1>1, <1>3, Fields
<1>5. m \in Router /\ m # n /\ \A x \in Router : x = n \/ x = m
  BY Routers
<1> HIDE DEF m
<1>6. \A k \in Key : /\ nbr[n].req[k] <= db[Owner(k)][k] /\ (Owner(k) = n => nbr[n].req[k] = 0)
                     /\ nbr[n].req[k] \in Nat /\ db[Owner(k)][k] \in Nat /\ Owner(k) \in Router
  <2>1. nbr[n].req \in Lsas /\ \A x \in Router : db[x] \in Lsas
    BY DEF AlwaysInv, DatabaseInv, RecordInv, Neighbour
  <2> QED BY <2>1, LsasAt, Owners DEF AlwaysInv, RecordInv, RecordOk
<1>7. \A k \in p.keys : Owner(k) = m /\ db[m][k] > 0
  BY <1>3, <1>4, <1>5, <1>6
<1>8. PacketOk(m, p, db)
  BY <1>1, <1>3, <1>7 DEF PacketOk
<1> QED BY <1>1, <1>2, <1>8, OnePacket DEF p, m

LEMMA RequestTimerAlways ==
    ASSUME Configured, AlwaysInv, NEW n \in Router, RequestTimer(n)
    PROVE  AlwaysInv'
<1> USE DEF AlwaysInv
<1> DEFINE p == RequestOf(nbr[n])
<1>1. /\ PacketOk(Other(n), p, db)
      /\ <<p>> \in Seq(AnyPacket) /\ DOMAIN <<p>> = {1} /\ <<p>>[1] = p
      /\ Sends(n, <<p>>) /\ UNCHANGED <<lost, delayed, nbr, db, out, rlsaDue, failed>>
  BY RequestTimerIs
<1> HIDE DEF p
<1>2. Grows(db, db')
  BY <1>1, SameDatabase
<1>3. LinkInv'
  BY <1>1, <1>2, LinkAfterSends
<1>4. RecordInv'
  BY <1>1, <1>2, SameRecords
<1> QED BY <1>1, <1>3, <1>4 DEF DatabaseInv, SwitchInv

LEMMA FloodTimerIs ==
    ASSUME Configured, AlwaysInv, NEW n \in Router, FloodTimer(n)
    PROVE  LET p == [type |-> "update", lsas |-> out[n]] IN
           /\ p \in AnyPacket /\ p.type = "update" /\ p.lsas = out[n] /\ PacketOk(Other(n), p, db)
           /\ <<p>> \in Seq(AnyPacket) /\ DOMAIN <<p>> = {1} /\ <<p>>[1] = p
           /\ Sends(n, <<p>>) /\ UNCHANGED <<lost, delayed, nbr, db, rlsaDue, failed>>
           /\ out' = [out EXCEPT ![n] = NoLsa]
           /\ \E k \in Key : out[n][k] > 0
<1>1. out[n] \in Lsas /\ \A k \in Key : out[n][k] <= db[Owner(k)][k] /\ (Owner(k) # n => out[n][k] = 0)
  BY DEF AlwaysInv, DatabaseInv
<1>2. \E k \in Key : out[n][k] > 0
  BY KeysIs DEF FloodTimer
<1> QED BY <1>1, <1>2, UpdateIs DEF FloodTimer, AlwaysInv

LEMMA FloodTimerAlways ==
    ASSUME Configured, AlwaysInv, NEW n \in Router, FloodTimer(n)
    PROVE  AlwaysInv'
<1> USE DEF AlwaysInv
<1> DEFINE p == [type |-> "update", lsas |-> out[n]]
<1>1. /\ PacketOk(Other(n), p, db)
      /\ <<p>> \in Seq(AnyPacket) /\ DOMAIN <<p>> = {1} /\ <<p>>[1] = p
      /\ Sends(n, <<p>>) /\ UNCHANGED <<lost, delayed, nbr, db, rlsaDue, failed>>
      /\ out' = [out EXCEPT ![n] = NoLsa]
  BY FloodTimerIs
<1> HIDE DEF p
<1>2. Grows(db, db')
  BY <1>1, SameDatabase
<1>3. LinkInv'
  BY <1>1, <1>2, LinkAfterSends
<1>4. RecordInv'
  BY <1>1, <1>2, SameRecords
<1>5. DatabaseInv'
  BY <1>1, NothingIs, OutAfter
<1> QED BY <1>1, <1>3, <1>4, <1>5 DEF SwitchInv

\* n takes the LSAs taken of the update p, and asks again, or not, for the rest.
Installs(n, p, taken, q, packets) ==
    /\ nbr[n].state \in AtLeastExchange
    /\ taken \in SUBSET Key /\ \A k \in taken : p.lsas[k] > 0
    /\ delayed => \A k \in Key \ taken : p.lsas[k] > 0 => db[n][k] = p.lsas[k]
    /\ db' \in [Router -> Lsas] /\ \A x \in Router : x # n => db'[x] = db[x]
    /\ \A k \in Key : db'[n][k] = IF k \in taken THEN p.lsas[k] ELSE db[n][k]
    /\ q \in Neighbour /\ q.isMaster = nbr[n].isMaster /\ q.seq = nbr[n].seq /\ q.more = nbr[n].more
    /\ q.last = nbr[n].last /\ q.summary = nbr[n].summary
    /\ q.state = nbr[n].state \/ (q.state = "Full" /\ nbr[n].state = "Loading" /\ Keys(q.req) = {})
    /\ \A k \in Key : q.req[k] =
         IF k \in taken /\ nbr[n].state # "Full" /\ p.lsas[k] >= nbr[n].req[k] THEN 0 ELSE nbr[n].req[k]
    /\ packets \in Seq(AnyPacket) /\ \A j \in DOMAIN packets : IsRequest(packets[j], q)

\* The database, the record and what n does with the LSAs taken of an update.
Took(n, lsas, taken) ==
    [k \in Key |-> IF k \notin taken THEN db[n][k] ELSE IF k = n THEN lsas[k] + 1 ELSE lsas[k]]

Left(n, lsas, taken) ==
    [nbr[n] EXCEPT !.req =
       Only(@, Key \ {k \in taken : nbr[n].state # "Full" /\ lsas[k] >= nbr[n].req[k]})]

Loaded(n, lsas, taken) ==
    [Left(n, lsas, taken) EXCEPT !.asked = FALSE, !.state = IF @ = "Loading" THEN "Full" ELSE @]

TakesUpdate(n, lsas, taken) ==
    /\ db' = [db EXCEPT ![n] = Took(n, lsas, taken)]
    /\ \/ /\ Keys(Left(n, lsas, taken).req) = {}
          /\ nbr' = [nbr EXCEPT ![n] = Loaded(n, lsas, taken)] /\ Takes(n, << >>)
       \/ nbr' = [nbr EXCEPT ![n] = Left(n, lsas, taken)] /\ Takes(n, << >>)
       \/ /\ Keys(Left(n, lsas, taken).req) # {}
          /\ nbr' = [nbr EXCEPT ![n] = [Left(n, lsas, taken) EXCEPT !.asked = TRUE]]
          /\ Takes(n, <<RequestOf(Left(n, lsas, taken))>>)
    /\ rlsaDue' = [DueAfter(n, nbr'[n]) EXCEPT ![n] = @ \/ n \in taken]
    /\ UNCHANGED failed

LEMMA TookIs ==
    ASSUME Configured, DatabaseInv, NEW n \in Router, NEW p, p \in AnyPacket, p.type = "update",
           PacketOk(n, p, db), NEW taken \in SUBSET Keys(p.lsas),
           db' = [db EXCEPT ![n] = Took(n, p.lsas, taken)]
    PROVE  /\ taken \in SUBSET Key /\ \A k \in taken : p.lsas[k] > 0
           /\ db' \in [Router -> Lsas] /\ \A x \in Router : x # n => db'[x] = db[x]
           /\ \A k \in Key : db'[n][k] = IF k \in taken THEN p.lsas[k] ELSE db[n][k]
<1> DEFINE d == Took(n, p.lsas, taken)
<1>1. db' = [db EXCEPT ![n] = d] /\ db \in [Router -> Lsas]
  BY DEF DatabaseInv
<1>2. taken \in SUBSET Key /\ \A k \in taken : p.lsas[k] > 0
  BY KeysIs
<1>3. p.lsas \in Lsas /\ db[n] \in Lsas
  BY <1>1, Fields
<1>4. \A k \in Key : p.lsas[k] \in 0 .. MaxInstance /\ db[n][k] \in 0 .. MaxInstance
  BY <1>3, LsasAt
<1>5. n \notin taken
  <2>1. n \in Key /\ Owner(n) = n
    BY Routers
  <2>2. p.lsas[n] = 0
    BY <2>1 DEF PacketOk
  <2> QED BY <1>2, <2>2
<1>6. d \in Lsas /\ \A k \in Key : d[k] = IF k \in taken THEN p.lsas[k] ELSE db[n][k]
  BY <1>4, <1>5 DEF Lsas, Took
<1> HIDE DEF d
<1> QED BY <1>1, <1>2, <1>6

LEMMA TakesUpdateIs ==
    ASSUME Configured, AlwaysInv, NEW n \in Router, NEW p, p \in AnyPacket, p.type = "update",
           PacketOk(n, p, db), nbr[n].state \in AtLeastExchange, NEW taken \in SUBSET Keys(p.lsas),
           delayed => \A k \in Key \ taken : p.lsas[k] > 0 => db[n][k] = p.lsas[k],
           TakesUpdate(n, p.lsas, taken)
    PROVE  /\ \E q, packets :
                /\ Installs(n, p, taken, q, packets) /\ Takes(n, packets)
                /\ nbr' = [nbr EXCEPT ![n] = q] /\ rlsaDue' \in [Router -> BOOLEAN]
           /\ failed' = failed
<1> DEFINE r == nbr[n]
           left == Left(n, p.lsas, taken)
           met == {k \in taken : r.state # "Full" /\ p.lsas[k] >= r.req[k]}
           l == Only(r.req, Key \ met)
<1>1. rlsaDue' \in [Router -> BOOLEAN]
  <2> DEFINE due == DueAfter(n, nbr'[n])
  <2>1. due \in [Router -> BOOLEAN]
    BY DueIs DEF AlwaysInv, SwitchInv
  <2> HIDE DEF due
  <2>2. rlsaDue' = [due EXCEPT ![n] = @ \/ n \in taken]
    BY DEF TakesUpdate, due
  <2> QED BY <2>1, <2>2
<1>2. /\ taken \in SUBSET Key /\ \A k \in taken : p.lsas[k] > 0
      /\ db' \in [Router -> Lsas] /\ \A x \in Router : x # n => db'[x] = db[x]
      /\ \A k \in Key : db'[n][k] = IF k \in taken THEN p.lsas[k] ELSE db[n][k]
  BY TookIs DEF AlwaysInv, TakesUpdate
<1>3. r \in Neighbour /\ r.req \in Lsas
  BY DEF AlwaysInv, RecordInv, Neighbour
<1>4. l \in Lsas /\ \A k \in Key : l[k] = IF k \in Key \ met THEN r.req[k] ELSE 0
  BY <1>3, OnlyIs
<1>5. left = [r EXCEPT !.req = l]
  BY DEF Left
<1>6. \A k \in Key : l[k] = IF k \in taken /\ r.state # "Full" /\ p.lsas[k] >= r.req[k]
                              THEN 0 ELSE r.req[k]
  BY <1>4
<1> HIDE DEF l, met
<1>7. /\ left \in Neighbour /\ left.state = r.state /\ left.isMaster = r.isMaster /\ left.seq = r.seq
      /\ left.more = r.more /\ left.last = r.last /\ left.summary = r.summary /\ left.req = l
  BY <1>3, <1>4, <1>5 DEF Neighbour
<1>8. ASSUME NEW q \in Neighbour, NEW packets,
             q.state = left.state \/ (q.state = "Full" /\ left.state = "Loading" /\ Keys(q.req) = {}),
             q.isMaster = left.isMaster, q.seq = left.seq, q.more = left.more, q.last = left.last,
             q.summary = left.summary, q.req = left.req,
             packets \in Seq(AnyPacket), \A j \in DOMAIN packets : IsRequest(packets[j], q)
      PROVE  Installs(n, p, taken, q, packets)
  BY <1>2, <1>6, <1>7, <1>8 DEF Installs
<1> DEFINE none == << >>
<1>9. none \in Seq(AnyPacket) /\ DOMAIN none = {} /\ none = << >>
  BY NoPacket
<1> HIDE DEF none
<1>10. \A q : \A j \in DOMAIN none : IsRequest(none[j], q)
  BY <1>9
<1>11. CASE /\ Keys(left.req) = {} /\ nbr' = [nbr EXCEPT ![n] = Loaded(n, p.lsas, taken)]
            /\ Takes(n, << >>)
  <2> DEFINE loaded == Loaded(n, p.lsas, taken)
  <2>1. loaded = [left EXCEPT !.asked = FALSE, !.state = IF @ = "Loading" THEN "Full" ELSE @]
    BY DEF Loaded
  <2> HIDE DEF left, loaded
  <2>2. /\ loaded \in Neighbour /\ loaded.isMaster = left.isMaster /\ loaded.seq = left.seq
        /\ loaded.more = left.more /\ loaded.last = left.last /\ loaded.summary = left.summary
        /\ loaded.req = left.req
        /\ loaded.state = IF left.state = "Loading" THEN "Full" ELSE left.state
    BY <1>7, <2>1 DEF Neighbour, State, AtLeastExchange
  <2>3. Installs(n, p, taken, loaded, none)
    BY <1>8, <1>9, <1>10, <1>11, <2>2
  <2> QED BY <1>1, <1>9, <1>11, <2>3 DEF loaded, TakesUpdate
<1>12. CASE nbr' = [nbr EXCEPT ![n] = left] /\ Takes(n, << >>)
  <2>1. Installs(n, p, taken, left, none)
    BY <1>7, <1>8, <1>9, <1>10
  <2> QED BY <1>1, <1>9, <1>12, <2>1 DEF TakesUpdate
<1>13. CASE /\ Keys(left.req) # {} /\ nbr' = [nbr EXCEPT ![n] = [left EXCEPT !.asked = TRUE]]
            /\ Takes(n, <<RequestOf(left)>>)
  <2> DEFINE q == [left EXCEPT !.asked = TRUE]
             u == RequestOf(left)
  <2> HIDE DEF left
  <2>1. /\ q \in Neighbour /\ q.isMaster = left.isMaster /\ q.seq = left.seq
        /\ q.more = left.more /\ q.last = left.last /\ q.summary = left.summary
        /\ q.req = left.req /\ q.state = left.state
    BY <1>7 DEF Neighbour
  <2>2. u \in AnyPacket /\ IsRequest(u, left)
    BY <1>13, RequestIs
  <2>3. nbr' = [nbr EXCEPT ![n] = q] /\ Takes(n, <<u>>)
    BY <1>13
  <2> HIDE DEF q, u
  <2>4. IsRequest(u, q)
    BY <2>1, <2>2 DEF IsRequest
  <2>5. <<u>> \in Seq(AnyPacket) /\ DOMAIN <<u>> = {1} /\ <<u>>[1] = u
    BY <2>2, OnePacket
  <2>6. Installs(n, p, taken, q, <<u>>)
    BY <1>8, <2>1, <2>4, <2>5
  <2> QED BY <1>1, <2>3, <2>6 DEF TakesUpdate
<1> QED BY <1>11, <1>12, <1>13 DEF TakesUpdate

LEMMA ReceiveUpdateIs ==
    ASSUME Configured, AlwaysInv, NEW n \in Router, ReceiveUpdate(n)
    PROVE  LET p == Head(link[n]) IN
           /\ link[n] # << >> /\ p \in AnyPacket /\ p.type = "update" /\ p = link[n][1]
           /\ PacketOk(n, p, db)
           /\ UNCHANGED <<lost, delayed, out>>
           /\ \/ /\ nbr[n].state \notin AtLeastExchange /\ Takes(n, << >>)
                 /\ UNCHANGED <<nbr, db, rlsaDue, failed>>
              \/ /\ \E k \in Key : p.lsas[k] > 0 /\ db[n][k] = p.lsas[k] /\ nbr[n].req[k] > 0
                 /\ failed' = TRUE /\ Takes(n, << >>) /\ UNCHANGED <<nbr, db, rlsaDue>>
              \/ /\ failed' = failed
                 /\ \E taken, q, packets :
                      /\ Installs(n, p, taken, q, packets) /\ Takes(n, packets)
                      /\ nbr' = [nbr EXCEPT ![n] = q] /\ rlsaDue' \in [Router -> BOOLEAN]
<1> DEFINE p == Head(link[n])
           r == nbr[n]
           known == {k \in Keys(p.lsas) : db[n][k] > 0}
           equal == {k \in known : db[n][k] = p.lsas[k]}
<1>1. Arrives(n, "update") /\ link[n] \in Seq(AnyPacket)
  BY DEF ReceiveUpdate, AlwaysInv, LinkInv
<1>2. link[n] # << >> /\ p.type = "update" /\ p = link[n][1] /\ 1 \in DOMAIN link[n]
  BY <1>1, Pulled DEF Arrives
<1>3. PacketOk(n, p, db)
  BY <1>2 DEF AlwaysInv, LinkInv
<1>4. p \in AnyPacket
  BY <1>3 DEF PacketOk
<1>5. /\ UNCHANGED <<lost, delayed, out>>
      /\ \/ /\ r.state \notin AtLeastExchange /\ Takes(n, << >>) /\ UNCHANGED <<nbr, db, rlsaDue, failed>>
         \/ /\ equal \cap Keys(r.req) # {} /\ Takes(n, << >>) /\ failed' = TRUE /\ UNCHANGED <<nbr, db, rlsaDue>>
         \/ /\ r.state \in AtLeastExchange
            /\ \E early \in IF delayed THEN {{}} ELSE SUBSET ((known \ equal) \ {n}) :
                 TakesUpdate(n, p.lsas, (Keys(p.lsas) \ equal) \ early)
  BY DEF ReceiveUpdate, TakesUpdate, Took, Left, Loaded
<1>6. equal \subseteq Keys(p.lsas) /\ \A k \in Key : k \in equal => p.lsas[k] > 0 /\ db[n][k] = p.lsas[k]
  BY KeysIs
<1>7. \A k \in Key : k \in Keys(p.lsas) <=> p.lsas[k] > 0
  BY KeysIs
<1> HIDE DEF p, equal
<1>8. CASE r.state \notin AtLeastExchange /\ Takes(n, << >>) /\ UNCHANGED <<nbr, db, rlsaDue, failed>>
  BY <1>2, <1>3, <1>4, <1>5, <1>8 DEF p
<1>9. CASE equal \cap Keys(r.req) # {} /\ Takes(n, << >>) /\ failed' = TRUE /\ UNCHANGED <<nbr, db, rlsaDue>>
  <2>1. PICK k : k \in equal /\ k \in Keys(r.req)
    BY <1>9
  <2>2. k \in Key /\ r.req[k] > 0
    BY <2>1, KeysIs
  <2>3. \E x \in Key : p.lsas[x] > 0 /\ db[n][x] = p.lsas[x] /\ nbr[n].req[x] > 0
    BY <1>6, <2>1, <2>2
  <2> QED BY <1>2, <1>3, <1>4, <1>5, <1>9, <2>3 DEF p
<1>10. ASSUME r.state \in AtLeastExchange,
              NEW early \in IF delayed THEN {{}} ELSE SUBSET ((known \ equal) \ {n}),
              TakesUpdate(n, p.lsas, (Keys(p.lsas) \ equal) \ early)
       PROVE  /\ failed' = failed
              /\ \E taken, q, packets :
                   /\ Installs(n, p, taken, q, packets) /\ Takes(n, packets)
                   /\ nbr' = [nbr EXCEPT ![n] = q] /\ rlsaDue' \in [Router -> BOOLEAN]
  <2> DEFINE taken == (Keys(p.lsas) \ equal) \ early
  <2>1. taken \in SUBSET Keys(p.lsas)
    OBVIOUS
  <2>2. delayed => early = {}
    BY <1>10
  <2>3. delayed => \A k \in Key \ taken : p.lsas[k] > 0 => db[n][k] = p.lsas[k]
    BY <1>6, <1>7, <2>2
  <2>4. p.type = "update"
    BY <1>2
  <2>5. TakesUpdate(n, p.lsas, taken)
    BY <1>10
  <2> HIDE DEF taken
  <2> QED BY <1>3, <1>4, <1>10, <2>1, <2>3, <2>4, <2>5, TakesUpdateIs
<1>11. CASE /\ r.state \in AtLeastExchange
            /\ \E early \in IF delayed THEN {{}} ELSE SUBSET ((known \ equal) \ {n}) :
                 TakesUpdate(n, p.lsas, (Keys(p.lsas) \ equal) \ early)
  BY <1>2, <1>3, <1>4, <1>5, <1>10, <1>11 DEF p
<1> QED BY <1>5, <1>8, <1>9, <1>11

LEMMA InstallsOk ==
    ASSUME Configured, AlwaysInv, NEW n \in Router, NEW p, p \in AnyPacket, p.type = "update",
           PacketOk(n, p, db), NEW taken, NEW q, NEW packets, Installs(n, p, taken, q, packets)
    PROVE  /\ Grows(db, db') /\ RecordOk(n, q, db)
           /\ \A k \in taken : Owner(k) = Other(n)
           /\ \A j \in DOMAIN packets : PacketOk(Other(n), packets[j], db)
           /\ \A k \in Key : \A x \in Router : db'[x][k] <= db'[Owner(k)][k]
<1> DEFINE m == Other(n)
<1>1. m \in Router /\ m # n /\ \A x \in Router : x = n \/ x = m
  BY Routers
<1> HIDE DEF m
<1>2. /\ taken \in SUBSET Key /\ \A k \in taken : p.lsas[k] > 0
      /\ db' \in [Router -> Lsas] /\ \A x \in Router : x # n => db'[x] = db[x]
      /\ \A k \in Key : db'[n][k] = IF k \in taken THEN p.lsas[k] ELSE db[n][k]
  BY DEF Installs
<1>3. \A k \in Key : /\ p.lsas[k] <= db[Owner(k)][k]
                     /\ Owner(k) = n => p.lsas[k] = 0
                     /\ p.lsas[k] \in Nat /\ Owner(k) \in Router
                     /\ \A x \in Router : db[x][k] \in Nat /\ db'[x][k] \in Nat
                     /\ \A x \in Router : db[x][k] <= db[Owner(k)][k]
  <2>1. p.lsas \in Lsas /\ \A x \in Router : db[x] \in Lsas /\ db'[x] \in Lsas
    BY <1>2, Fields DEF AlwaysInv, DatabaseInv
  <2> QED BY <2>1, LsasAt, Owners DEF PacketOk, AlwaysInv, DatabaseInv
<1>4. \A k \in taken : Owner(k) = m
  BY <1>1, <1>2, <1>3
<1>5. \A k \in Key : db'[Owner(k)][k] = db[Owner(k)][k]
  BY <1>1, <1>2, <1>3, <1>4
<1>6. Grows(db, db')
  BY <1>2, <1>3, <1>5 DEF Grows, AlwaysInv, DatabaseInv
<1>7. \A k \in Key : \A x \in Router : db'[x][k] <= db'[Owner(k)][k]
  BY <1>1, <1>2, <1>3, <1>5
<1>8. RecordOk(n, nbr[n], db)
  BY DEF AlwaysInv, RecordInv
<1>9. /\ q \in Neighbour /\ q.summary = nbr[n].summary /\ q.isMaster = nbr[n].isMaster
      /\ nbr[n].state \in AtLeastExchange
      /\ \A k \in Key : q.req[k] = 0 \/ q.req[k] = nbr[n].req[k]
  BY DEF Installs
<1>10. \A k \in Key : /\ q.req[k] <= db[Owner(k)][k] /\ (Owner(k) = n => q.req[k] = 0)
                      /\ q.req[k] \in Nat
  <2>1. q.req \in Lsas
    BY <1>9 DEF Neighbour
  <2> QED BY <1>3, <1>8, <1>9, <2>1, LsasAt DEF RecordOk
<1>11. RecordOk(n, q, db)
  BY <1>8, <1>9, <1>10 DEF RecordOk
<1>12. ASSUME NEW u \in AnyPacket, IsRequest(u, q)
       PROVE  PacketOk(m, u, db)
  <2>1. u.type = "request" /\ \A k \in Key : k \in u.keys => q.req[k] > 0
    BY <1>12, KeysIs DEF IsRequest
  <2>2. u.keys \subseteq Key
    BY <2>1, Fields
  <2>3. \A k \in u.keys : Owner(k) = m /\ db[m][k] > 0
    BY <1>1, <1>3, <1>10, <2>1, <2>2
  <2> QED BY <2>1, <2>3 DEF PacketOk
<1>13. \A j \in DOMAIN packets : packets[j] \in AnyPacket /\ IsRequest(packets[j], q)
  BY DEF Installs
<1> QED BY <1>4, <1>6, <1>7, <1>11, <1>12, <1>13 DEF m

LEMMA ReceiveUpdateAlways ==
    ASSUME Configured, AlwaysInv, NEW n \in Router, ReceiveUpdate(n)
    PROVE  AlwaysInv'
<1> DEFINE p == Head(link[n])
<1>1. /\ link[n] # << >> /\ p \in AnyPacket /\ p.type = "update" /\ PacketOk(n, p, db)
      /\ UNCHANGED <<lost, delayed, out>>
      /\ \/ /\ Takes(n, << >>) /\ UNCHANGED <<nbr, db, rlsaDue>> /\ failed' \in BOOLEAN
         \/ /\ failed' = failed
            /\ \E taken, q, packets :
                 /\ Installs(n, p, taken, q, packets) /\ Takes(n, packets)
                 /\ nbr' = [nbr EXCEPT ![n] = q] /\ rlsaDue' \in [Router -> BOOLEAN]
  BY ReceiveUpdateIs DEF AlwaysInv, SwitchInv
<1> HIDE DEF p
<1> USE DEF AlwaysInv
<1>2. CASE Takes(n, << >>) /\ UNCHANGED <<nbr, db, rlsaDue>> /\ failed' \in BOOLEAN
  <2>1. Grows(db, db')
    BY <1>2, SameDatabase
  <2>2. LinkInv' /\ RecordInv'
    BY <1>1, <1>2, <2>1, DropsOne, SameRecords
  <2> QED BY <1>1, <1>2, <2>2 DEF DatabaseInv, SwitchInv
<1>3. ASSUME failed' = failed, NEW taken, NEW q, NEW packets,
             Installs(n, p, taken, q, packets), Takes(n, packets),
             nbr' = [nbr EXCEPT ![n] = q], rlsaDue' \in [Router -> BOOLEAN]
      PROVE  AlwaysInv'
  <2>1. /\ Grows(db, db') /\ RecordOk(n, q, db)
        /\ \A j \in DOMAIN packets : PacketOk(Other(n), packets[j], db)
        /\ \A k \in Key : \A x \in Router : db'[x][k] <= db'[Owner(k)][k]
    BY <1>1, <1>3, InstallsOk
  <2>2. RecordOk(n, q, db') /\ \A j \in DOMAIN packets : PacketOk(Other(n), packets[j], db')
    BY <2>1, RecordGrows, PacketGrows, Routers
  <2>3. packets \in Seq(AnyPacket) /\ db' \in [Router -> Lsas]
    BY <1>3 DEF Installs
  <2>4. LinkInv' /\ RecordInv'
    BY <1>1, <1>3, <2>1, <2>2, <2>3, LinkAfterTakes, RecordAfter
  <2>5. \A k \in Key : \A x \in Router :
           out[x][k] \in Nat /\ db[Owner(k)][k] \in Nat /\ db'[Owner(k)][k] \in Nat
    <3>1. \A x \in Router : out[x] \in Lsas /\ db[x] \in Lsas /\ db'[x] \in Lsas
      BY <2>3 DEF DatabaseInv
    <3> QED BY <3>1, LsasAt, Owners
  <2>6. DatabaseInv'
    BY <1>1, <2>1, <2>3, <2>5 DEF DatabaseInv, Grows
  <2> QED BY <1>1, <1>3, <2>4, <2>6 DEF SwitchInv
<1> QED BY <1>1, <1>2, <1>3

LEMMA FloodedIs ==
    ASSUME Configured, DatabaseInv, NEW n \in Router, NEW k \in Key, Owner(k) = n, Flooded(n, k)
    PROVE  /\ db' \in [Router -> Lsas] /\ out' \in [Router -> Lsas]
           /\ db'[n][k] = db[n][k] + 1
           /\ \A x \in Router : \A y \in Key : x # n \/ y # k => db'[x][y] = db[x][y] /\ out'[x][y] = out[x][y]
           /\ out'[n][k] = IF nbr[n].state \in AtLeastExchange THEN db[n][k] + 1 ELSE out[n][k]
           /\ Grows(db, db') /\ DatabaseInv'
<1> DEFINE d == [db[n] EXCEPT ![k] = @ + 1]
           e == [out[n] EXCEPT ![k] = db[n][k] + 1]
<1>1. db \in [Router -> Lsas] /\ out \in [Router -> Lsas]
  BY DEF DatabaseInv
<1>2. \A x \in Router : \A y \in Key : db[x][y] \in 0 .. MaxInstance /\ db[x][y] \in Nat /\ out[x][y] \in Nat
  BY <1>1, LsasAt
<1>3. db[n][k] + 1 \in 0 .. MaxInstance
  BY <1>2 DEF Flooded, Configured
<1>4. d \in Lsas /\ e \in Lsas
  BY <1>1, <1>3 DEF Lsas
<1>5. /\ d[k] = db[n][k] + 1 /\ e[k] = db[n][k] + 1
      /\ \A y \in Key : y # k => d[y] = db[n][y] /\ e[y] = out[n][y]
  BY <1>1 DEF Lsas
<1>6. db' = [db EXCEPT ![n] = d]
  BY <1>1 DEF Flooded
<1>7. out' = IF nbr[n].state \in AtLeastExchange THEN [out EXCEPT ![n] = e] ELSE out
  BY <1>1 DEF Flooded
<1> HIDE DEF d, e
<1>8. db' \in [Router -> Lsas] /\ db'[n] = d /\ \A x \in Router : x # n => db'[x] = db[x]
  BY <1>1, <1>4, <1>6
<1>9. /\ out' \in [Router -> Lsas] /\ \A x \in Router : x # n => out'[x] = out[x]
      /\ out'[n] = IF nbr[n].state \in AtLeastExchange THEN e ELSE out[n]
  BY <1>1, <1>4, <1>7
<1>10. /\ db'[n][k] = db[n][k] + 1
       /\ \A x \in Router : \A y \in Key : x # n \/ y # k => db'[x][y] = db[x][y] /\ out'[x][y] = out[x][y]
       /\ out'[n][k] = IF nbr[n].state \in AtLeastExchange THEN db[n][k] + 1 ELSE out[n][k]
  BY <1>5, <1>8, <1>9
<1>11. \A y \in Key : Owner(y) \in Router
  BY Owners
<1>12. Grows(db, db')
  BY <1>1, <1>2, <1>8, <1>10, <1>11 DEF Grows
<1>13. \A x \in Router : \A y \in Key :
          /\ db[x][y] <= db[Owner(y)][y] /\ out[x][y] <= db[Owner(y)][y]
          /\ Owner(y) # x => out[x][y] = 0
  BY DEF DatabaseInv
<1>14. \A x \in Router : \A y \in Key :
          /\ db'[x][y] <= db'[Owner(y)][y] /\ out'[x][y] <= db'[Owner(y)][y]
          /\ Owner(y) # x => out'[x][y] = 0
  BY <1>2, <1>10, <1>11, <1>13
<1> QED BY <1>8, <1>9, <1>10, <1>12, <1>14 DEF DatabaseInv

LEMMA FloodedAlways ==
    ASSUME Configured, AlwaysInv, NEW n \in Router, NEW k \in Key, Owner(k) = n, Flooded(n, k),
           rlsaDue' \in [Router -> BOOLEAN], UNCHANGED <<lost, delayed, nbr, link, failed>>
    PROVE  AlwaysInv'
<1> USE DEF AlwaysInv
<1>1. DatabaseInv' /\ Grows(db, db')
  BY FloodedIs
<1>2. RecordInv'
  BY <1>1, SameRecords
<1>3. LinkInv'
  BY <1>1, PacketGrows DEF LinkInv
<1> QED BY <1>1, <1>2, <1>3 DEF SwitchInv

LEMMA LoseAlways ==
    ASSUME Configured, AlwaysInv, NEW n \in Router, Lose(n)
    PROVE  AlwaysInv'
<1> USE DEF AlwaysInv
<1>1. /\ link[n] # << >> /\ Takes(n, << >>) /\ lost' = lost + 1 /\ lost < MaxLost
      /\ UNCHANGED <<delayed, nbr, db, out, rlsaDue, failed>>
  BY DEF Lose
<1>2. Grows(db, db')
  BY <1>1, SameDatabase
<1>3. LinkInv' /\ RecordInv'
  BY <1>1, <1>2, DropsOne, SameRecords
<1>4. lost' \in 0 .. MaxLost
  BY <1>1 DEF SwitchInv, Configured
<1> QED BY <1>1, <1>3, <1>4 DEF DatabaseInv, SwitchInv

LEMMA InitAlways ==
    ASSUME Configured, Init
    PROVE  AlwaysInv
<1> DEFINE r == [state |-> "DOWN", isMaster |-> FALSE, seq |-> 0, more |-> FALSE, rxmt |-> FALSE,
                 last |-> NoDD, summary |-> NoLsa, req |-> NoLsa, asked |-> FALSE]
<1>1. /\ nbr = [n \in Router |-> r] /\ db = [n \in Router |-> NoLsa] /\ out = [n \in Router |-> NoLsa]
      /\ rlsaDue = [n \in Router |-> TRUE] /\ link = [n \in Router |-> << >>]
      /\ lost = 0 /\ delayed \in BOOLEAN /\ failed = FALSE
  BY DEF Init
<1>2. r \in Neighbour /\ r.state = "DOWN" /\ r.summary = NoLsa /\ r.req = NoLsa
  BY NoLsaIs DEF Neighbour, State
<1> HIDE DEF r
<1>3. \A k \in Key : NoLsa[k] = 0 /\ Owner(k) \in Router
  BY NoLsaIs, Owners
<1>4. DatabaseInv
  BY <1>1, <1>3, NoLsaIs DEF DatabaseInv
<1>5. RecordInv
  BY <1>1, <1>2, <1>3, NoLsaIs DEF RecordInv, RecordOk, AtLeastExchange
<1>6. LinkInv
  <2> DEFINE none == << >>
  <2>1. none \in Seq(AnyPacket) /\ DOMAIN none = {} /\ link = [n \in Router |-> none]
    BY <1>1, NoPacket
  <2> HIDE DEF none
  <2> QED BY <2>1 DEF LinkInv
<1>7. SwitchInv
  <2>1. lost \in 0 .. MaxLost
    BY <1>1 DEF Configured
  <2>2. rlsaDue \in [Router -> BOOLEAN] /\ failed \in BOOLEAN
    BY <1>1
  <2> QED BY <1>1, <2>1, <2>2, Zenon DEF SwitchInv
<1> QED BY <1>4, <1>5, <1>6, <1>7 DEF AlwaysInv

LEMMA StepAlways ==
    ASSUME Configured, AlwaysInv, [Next]_vars
    PROVE  AlwaysInv'
<1>1. CASE UNCHANGED vars
  BY <1>1 DEF vars, AlwaysInv, RecordInv, DatabaseInv, LinkInv, SwitchInv
<1>2. ASSUME NEW n \in Router,
             \/ HelloTimer(n) \/ ExStartTimer(n) \/ RequestTimer(n) \/ FloodTimer(n)
             \/ OriginateRouterLSA(n) \/ Receive(n) \/ Lose(n)
      PROVE  AlwaysInv'
  <2>1. CASE OriginateRouterLSA(n)
    <3>1. n \in Key /\ Owner(n) = n
      BY Routers
    <3>2. Flooded(n, n) /\ UNCHANGED <<lost, delayed, nbr, link, failed>>
      BY <2>1 DEF OriginateRouterLSA
    <3>3. rlsaDue' \in [Router -> BOOLEAN]
      BY <2>1 DEF OriginateRouterLSA, AlwaysInv, SwitchInv
    <3> QED BY <3>1, <3>2, <3>3, FloodedAlways
  <2> QED BY <1>2, <2>1, HelloTimerAlways, ExStartTimerAlways, RequestTimerAlways, FloodTimerAlways,
             ReceiveHelloAlways, ReceiveDDAlways, ReceiveRequestAlways, ReceiveUpdateAlways,
             LoseAlways DEF Receive
<1>3. ASSUME NEW k \in External, Hear(k)
      PROVE  AlwaysInv'
  <2>1. k \in Key /\ Owner(k) = Hears[k] /\ Hears[k] \in Router
    BY Owners DEF Key, Configured
  <2>2. Flooded(Hears[k], k) /\ UNCHANGED <<lost, delayed, nbr, rlsaDue, link, failed>>
    BY <1>3 DEF Hear
  <2>3. rlsaDue' \in [Router -> BOOLEAN]
    BY <2>2 DEF AlwaysInv, SwitchInv
  <2> QED BY <2>1, <2>2, <2>3, FloodedAlways
<1> QED BY <1>1, <1>2, <1>3 DEF Next

LEMMA AlwaysHolds ==
    ASSUME Configured
    PROVE  Spec => []AlwaysInv
<1>1. Init => AlwaysInv
  BY InitAlways
<1>2. AlwaysInv /\ [Next]_vars => AlwaysInv'
  BY StepAlways
<1> QED BY <1>1, <1>2, PTL DEF Spec

-----------------------------------------------------------------------------
(* The exchange of descriptions on a link that loses nothing.              *)

Quiet(s) == \A i \in DOMAIN s : s[i].type # "dd"

\* The first description of a router says nothing.
IsFirst(p) == p.init /\ p.more /\ p.master /\ \A k \in Key : p.lsas[k] = 0

\* All descriptions of s are first ones; p is the only one; p is the last one
\* and the others are first ones.
AllFirst(s) == \A i \in DOMAIN s : s[i].type = "dd" => IsFirst(s[i])
OnlyDD(s, p) ==
    \E i \in DOMAIN s : /\ s[i] = p /\ p.type = "dd"
                        /\ \A j \in DOMAIN s : s[j].type = "dd" => j = i
LastDD(s, p) ==
    \E i \in DOMAIN s : /\ s[i] = p /\ p.type = "dd"
                        /\ \A j \in DOMAIN s : s[j].type = "dd" /\ j # i => j < i /\ IsFirst(s[j])

\* A description of the master h, and the answer of the slave l.
Asks(p, h) == ~p.init /\ p.master /\ p.seq = h.seq /\ p.more = h.more
Answers(p, l) ==
    /\ ~p.init /\ ~p.master /\ p.seq = l.seq
    /\ ~p.more => \A k \in Key : l.summary[k] = 0

Early == {"DOWN", "Init"}

\* h and l are what High and Low keep, sl and sh what is on the way to Low and
\* to High.  High has not begun.
Waiting(h, l, sh, sl) ==
    /\ h.state \in Early /\ l.state \in Early \cup {"ExStart"}
    /\ l.state = "ExStart" => h.state = "Init"
    /\ Quiet(sl) /\ AllFirst(sh)
    /\ ~Quiet(sh) => l.state = "ExStart"
    /\ l.last = NoDD

\* High has, Low does not know yet.
Opening(h, l, sh, sl) ==
    /\ h.state = "ExStart" /\ h.more
    /\ l.state \in {"Init", "ExStart"} /\ l.last = NoDD
    /\ AllFirst(sh)
    /\ \E p \in Range(sl) : OnlyDD(sl, p) /\ IsFirst(p) /\ p.seq = h.seq

\* Low has become the slave, High does not know yet.
Accepted(h, l, sh, sl) ==
    /\ h.state = "ExStart" /\ h.more
    /\ l.state = "Exchange" /\ l.seq = h.seq /\ l.last # NoDD /\ l.last.seq = l.seq
    /\ Quiet(sl)
    /\ \E p \in Range(sh) : LastDD(sh, p) /\ Answers(p, l)

MasterLists(h) ==
    /\ h.state = "Exchange" /\ h.last # NoDD /\ h.last.seq + 1 = h.seq
    /\ ~h.more => \A k \in Key : h.summary[k] = 0

\* The slave has a description to answer, ...
Asked(h, l, sh, sl) ==
    /\ MasterLists(h)
    /\ l.state = "Exchange" /\ l.last # NoDD /\ l.last.seq = l.seq /\ l.seq + 1 = h.seq
    /\ Quiet(sh)
    /\ \E p \in Range(sl) : OnlyDD(sl, p) /\ Asks(p, h)

\* ... or the master an answer.
Answered(h, l, sh, sl) ==
    /\ MasterLists(h)
    /\ l.state \in AtLeastExchange /\ l.last # NoDD /\ l.last.seq = l.seq /\ l.seq = h.seq
    /\ Quiet(sl)
    /\ \E p \in Range(sh) : /\ OnlyDD(sh, p) /\ Answers(p, l)
                            /\ l.state # "Exchange" <=> ~h.more /\ ~p.more

\* Both have told everything.
Told(h, l, sh, sl) ==
    /\ h.state \in {"Loading", "Full"} /\ l.state \in {"Loading", "Full"}
    /\ Quiet(sh) /\ Quiet(sl)
    /\ \A k \in Key : h.summary[k] = 0 /\ l.summary[k] = 0

Phase(h, l, sh, sl) ==
    \/ Waiting(h, l, sh, sl) \/ Opening(h, l, sh, sl) \/ Accepted(h, l, sh, sl)
    \/ Asked(h, l, sh, sl) \/ Answered(h, l, sh, sl) \/ Told(h, l, sh, sl)

ExchangeInv == Phase(nbr[High], nbr[Low], link[High], link[Low])

\* A hello that lists its receiver.
HelloInv ==
    \A n \in Router : \A i \in DOMAIN link[n] :
        link[n][i].type = "hello" /\ link[n][i].listed => nbr[Other(n)].state # "DOWN"

\* Nothing is requested or queued outside of an exchange, ...
AloneInv ==
    \A n \in Router : \A k \in Key :
        /\ nbr[n].req[k] > 0 => nbr[n].state \in {"Exchange", "Loading"}
        /\ out[n][k] > 0 => nbr[n].state \in AtLeastExchange

\* ... and updates come after the description that begins it.
InOrder(s) ==
    \A i \in DOMAIN s : s[i].type = "update" =>
        \E j \in DOMAIN s : j < i /\ s[j].type = "dd" /\ ~s[j].init

UpdateInv == \A n \in Router : nbr[n].state \notin AtLeastExchange => InOrder(link[n])

-----------------------------------------------------------------------------
(* An LSA k: st and sum are the state of its owner and what is left in the *)
(* summaries, ou what is queued and own its instance; has and req are what *)
(* the other router has and requests; s is on the way to the other router, *)
(* t to the owner.                                                         *)

Describes(p, k) == p.type = "dd" /\ p.lsas[k] > 0
Updates(p, k) == p.type = "update" /\ p.lsas[k] > 0
Wanted(t, k) == \E i \in DOMAIN t : t[i].type = "request" /\ k \in t[i].keys

\* k is not described yet, or the description not read.
Untold(k, st, sum, s) ==
    st \notin AtLeastExchange \/ sum > 0 \/ \E i \in DOMAIN s : Describes(s[i], k)

\* It is described once, and asked for after that.
OnceOk(k, st, sum, has, req, s, t) ==
    /\ \A i \in DOMAIN s : Describes(s[i], k) => st \in AtLeastExchange /\ sum = 0
    /\ req > 0 => ~Untold(k, st, sum, s) /\ has < req
    /\ Wanted(t, k) => ~Untold(k, st, sum, s)

\* Updates arrive in the order of the instances, ...
OrderOk(k, ou, has, s) ==
    /\ ou > 0 => has <= ou
    /\ \A i \in DOMAIN s : Updates(s[i], k) =>
         /\ has <= s[i].lsas[k]
         /\ ou > 0 => s[i].lsas[k] <= ou
         /\ \A j \in DOMAIN s : i < j /\ Updates(s[j], k) => s[i].lsas[k] <= s[j].lsas[k]

\* ... and none comes twice before the one that was asked for.
Met(req, v) == req > 0 /\ req <= v

FreshOk(k, st, sum, ou, has, req, s) ==
    Untold(k, st, sum, s) \/ req > 0 =>
      /\ ou > 0 => has < ou
      /\ \A i \in DOMAIN s : Updates(s[i], k) =>
           /\ has < s[i].lsas[k]
           /\ ou > 0 => s[i].lsas[k] < ou \/ Met(req, s[i].lsas[k])
           /\ \A j \in DOMAIN s : i < j /\ Updates(s[j], k) =>
                s[i].lsas[k] < s[j].lsas[k] \/ Met(req, s[i].lsas[k])

\* What the other router lacks is on its way to it.
OnItsWay(k, st, sum, ou, own, has, req, s) ==
    has < own =>
      \/ st \notin AtLeastExchange
      \/ ou = own \/ sum = own \/ req = own
      \/ \E i \in DOMAIN s : s[i].type \in {"dd", "update"} /\ s[i].lsas[k] = own

KeyOk(k, st, sum, ou, own, has, req, s, t) ==
    /\ OnceOk(k, st, sum, has, req, s, t)
    /\ OrderOk(k, ou, has, s)
    /\ FreshOk(k, st, sum, ou, has, req, s)
    /\ delayed => OnItsWay(k, st, sum, ou, own, has, req, s)

KeyInv(k) ==
    LET o == Owner(k)
        m == Other(o)
    IN  KeyOk(k, nbr[o].state, nbr[o].summary[k], out[o][k], db[o][k], db[m][k], nbr[m].req[k],
              link[m], link[o])

LosslessInv ==
    lost = 0 => /\ ~failed
                /\ ExchangeInv /\ HelloInv /\ AloneInv /\ UpdateInv
                /\ \A k \in Key : KeyInv(k)

-----------------------------------------------------------------------------
(* What becomes of an LSA when packets come and go.                        *)

Bounded(k, sum, ou, own, has, req, s) ==
    /\ sum \in Nat /\ ou \in Nat /\ own \in Nat /\ has \in Nat /\ req \in Nat
    /\ sum <= own /\ ou <= own /\ has <= own /\ req <= own
    /\ s \in Seq(AnyPacket)
    /\ \A i \in DOMAIN s : s[i].type \in {"dd", "update"} => s[i].lsas[k] \in Nat /\ s[i].lsas[k] <= own

Matters(p, k) == Describes(p, k) \/ Updates(p, k)

\* s2 holds what s does of k, maybe one place further to the front.
SameFor(k, s, s2) ==
    \E c \in {0, 1} :
        /\ \A i \in DOMAIN s2 : Matters(s2[i], k) => i + c \in DOMAIN s /\ s2[i] = s[i + c]
        /\ \A i \in DOMAIN s : Matters(s[i], k) => i - c \in DOMAIN s2 /\ s2[i - c] = s[i]

LEMMA Positions ==
    ASSUME NEW s \in Seq(AnyPacket)
    PROVE  DOMAIN s \subseteq Nat \ {0}
<1>1. DOMAIN s = 1 .. Len(s) /\ Len(s) \in Nat
  BY LenProperties
<1> QED BY <1>1

LEMMA SameAfterPull ==
    ASSUME NEW k, NEW s \in Seq(AnyPacket), NEW s2, Pulls(s, s2), ~Matters(s[1], k)
    PROVE  SameFor(k, s, s2)
<1>1. \A i \in DOMAIN s : i \in Nat \ {0}
  BY Positions
<1>2. \A i \in DOMAIN s : Matters(s[i], k) => i > 1
  BY <1>1
<1> QED BY <1>2 DEF Pulls, SameFor

LEMMA SameAfterPut ==
    ASSUME NEW k, NEW s \in Seq(AnyPacket), NEW s2, NEW packets, Puts(s, s2, packets),
           \A j \in DOMAIN packets : ~Matters(packets[j], k)
    PROVE  SameFor(k, s, s2)
<1>1. (\A i \in DOMAIN s : i \in Nat) /\ (\A i \in DOMAIN s2 : i \in Nat)
  BY Positions DEF Puts
<1>2. \A i \in DOMAIN s2 : Matters(s2[i], k) => i \in DOMAIN s /\ s2[i] = s[i]
  BY DEF Puts
<1>3. \A i \in DOMAIN s : i \in DOMAIN s2 /\ s2[i] = s[i]
  BY DEF Puts
<1>4. /\ \A i \in DOMAIN s2 : Matters(s2[i], k) => i + 0 \in DOMAIN s /\ s2[i] = s[i + 0]
      /\ \A i \in DOMAIN s : Matters(s[i], k) => i - 0 \in DOMAIN s2 /\ s2[i - 0] = s[i]
  BY <1>1, <1>2, <1>3
<1> QED BY <1>4 DEF SameFor

LEMMA SameAsItWas ==
    ASSUME NEW k, NEW s \in Seq(AnyPacket)
    PROVE  SameFor(k, s, s)
<1>1. \A i \in DOMAIN s : i \in Nat
  BY Positions
<1>2. /\ \A i \in DOMAIN s : Matters(s[i], k) => i + 0 \in DOMAIN s /\ s[i] = s[i + 0]
      /\ \A i \in DOMAIN s : Matters(s[i], k) => i - 0 \in DOMAIN s /\ s[i - 0] = s[i]
  BY <1>1
<1> QED BY <1>2 DEF SameFor

\* PacketTypes that say nothing of k.
LEMMA KeySame ==
    ASSUME NEW k, NEW st, NEW sum, NEW ou, NEW own, NEW has, NEW req, NEW s, NEW t,
           NEW st2, NEW s2, NEW t2,
           Bounded(k, sum, ou, own, has, req, s), KeyOk(k, st, sum, ou, own, has, req, s, t),
           st2 \in AtLeastExchange <=> st \in AtLeastExchange,
           s2 \in Seq(AnyPacket), SameFor(k, s, s2), Wanted(t2, k) => Wanted(t, k) \/ req > 0
    PROVE  KeyOk(k, st2, sum, ou, own, has, req, s2, t2)
<1>1. (\A i \in DOMAIN s : i \in Nat) /\ (\A i \in DOMAIN s2 : i \in Nat)
  BY Positions DEF Bounded
<1>2. PICK c \in {0, 1} :
        /\ \A i \in DOMAIN s2 : Matters(s2[i], k) => i + c \in DOMAIN s /\ s2[i] = s[i + c]
        /\ \A i \in DOMAIN s : Matters(s[i], k) => i - c \in DOMAIN s2 /\ s2[i - c] = s[i]
  BY DEF SameFor
<1>3. Untold(k, st2, sum, s2) <=> Untold(k, st, sum, s)
  BY <1>2 DEF Untold, Matters
<1>4. OnceOk(k, st2, sum, has, req, s2, t2)
  <2>1. \A i \in DOMAIN s2 : Describes(s2[i], k) => st \in AtLeastExchange /\ sum = 0
    BY <1>2 DEF Matters, KeyOk, OnceOk
  <2> QED BY <1>3, <2>1 DEF KeyOk, OnceOk
<1>5. ASSUME NEW i \in DOMAIN s2, NEW j \in DOMAIN s2, i < j, Updates(s2[i], k), Updates(s2[j], k)
      PROVE  i + c \in DOMAIN s /\ j + c \in DOMAIN s /\ i + c < j + c /\ s2[i] = s[i + c] /\ s2[j] = s[j + c]
  <2>1. i \in Nat /\ j \in Nat /\ c \in Nat
    BY <1>1
  <2>2. i + c \in DOMAIN s /\ j + c \in DOMAIN s /\ s2[i] = s[i + c] /\ s2[j] = s[j + c]
    BY <1>2, <1>5 DEF Matters
  <2> QED BY <1>5, <2>1, <2>2
<1>6. \A i \in DOMAIN s2 : Updates(s2[i], k) => i + c \in DOMAIN s /\ s2[i] = s[i + c]
  BY <1>2 DEF Matters
<1>7. OrderOk(k, ou, has, s2)
  BY <1>5, <1>6 DEF KeyOk, OrderOk
<1>8. FreshOk(k, st2, sum, ou, has, req, s2)
  BY <1>3, <1>5, <1>6 DEF KeyOk, FreshOk
<1>9. ASSUME delayed
      PROVE  OnItsWay(k, st2, sum, ou, own, has, req, s2)
  <2>1. \A i \in DOMAIN s : s[i].type \in {"dd", "update"} /\ s[i].lsas[k] = own /\ has < own
           => Matters(s[i], k)
    BY DEF Matters, Describes, Updates, Bounded
  <2> QED BY <1>2, <1>9, <2>1 DEF KeyOk, OnItsWay
<1> QED BY <1>4, <1>7, <1>8, <1>9 DEF KeyOk

\* The owner begins the exchange or tells the next part of the summaries: b is
\* what was left to tell of k.
LEMMA KeyTold ==
    ASSUME NEW k, NEW st, NEW sum, NEW ou, NEW own, NEW has, NEW req, NEW s, NEW t,
           NEW st2, NEW sum2, NEW s2, NEW t2, NEW b, NEW packets,
           Bounded(k, sum, ou, own, has, req, s), KeyOk(k, st, sum, ou, own, has, req, s, t),
           st2 \in AtLeastExchange, b \in Nat, b <= own, sum2 \in Nat,
           b = IF st \in AtLeastExchange THEN sum ELSE own,
           sum2 = b \/ (sum2 = 0 /\ \E j \in DOMAIN packets : packets[j].type = "dd" /\ packets[j].lsas[k] = b),
           Puts(s, s2, packets), Wanted(t2, k) => Wanted(t, k),
           \A j \in DOMAIN packets :
               /\ packets[j].type # "update"
               /\ packets[j].type = "dd" => packets[j].lsas[k] = 0 \/ (packets[j].lsas[k] = b /\ sum2 = 0)
    PROVE  KeyOk(k, st2, sum2, ou, own, has, req, s2, t2)
<1>1. /\ \A i \in DOMAIN s : i \in DOMAIN s2 /\ s2[i] = s[i]
      /\ \A i \in DOMAIN s2 : i \notin DOMAIN s => \E j \in DOMAIN packets : s2[i] = packets[j]
      /\ \A j \in DOMAIN packets : \E i \in DOMAIN s2 : s2[i] = packets[j]
  BY DEF Puts
<1>2. \A i \in DOMAIN s2 : Updates(s2[i], k) => i \in DOMAIN s /\ s2[i] = s[i]
  BY <1>1 DEF Updates
<1>3. \A i \in DOMAIN s2 : Describes(s2[i], k) => i \in DOMAIN s \/ (sum2 = 0 /\ s2[i].lsas[k] = b)
  BY <1>1 DEF Describes
<1>4. ~Untold(k, st, sum, s) => ~Untold(k, st2, sum2, s2)
  BY <1>1, <1>3 DEF Untold, Describes, Bounded
<1>5. OnceOk(k, st2, sum2, has, req, s2, t2)
  <2>1. ASSUME NEW i \in DOMAIN s2, Describes(s2[i], k)
        PROVE  sum2 = 0
    <3>1. CASE i \in DOMAIN s
      <4>1. st \in AtLeastExchange /\ sum = 0
        BY <1>1, <2>1, <3>1 DEF KeyOk, OnceOk
      <4> QED BY <4>1
    <3> QED BY <1>3, <2>1, <3>1
  <2> QED BY <1>4, <2>1 DEF KeyOk, OnceOk
<1>6. OrderOk(k, ou, has, s2)
  BY <1>1, <1>2 DEF KeyOk, OrderOk
<1>7. FreshOk(k, st2, sum2, ou, has, req, s2)
  BY <1>1, <1>2, <1>4 DEF KeyOk, FreshOk
<1>8. ASSUME delayed
      PROVE  OnItsWay(k, st2, sum2, ou, own, has, req, s2)
  <2>1. b = own => sum2 = own \/ \E i \in DOMAIN s2 : s2[i].type = "dd" /\ s2[i].lsas[k] = own
    BY <1>1
  <2>2. OnItsWay(k, st, sum, ou, own, has, req, s)
    BY <1>8 DEF KeyOk
  <2> QED BY <1>1, <2>1, <2>2 DEF OnItsWay
<1> QED BY <1>5, <1>6, <1>7, <1>8 DEF KeyOk

\* The other router reads a description.
LEMMA KeyRead ==
    ASSUME NEW k, NEW st, NEW sum, NEW ou, NEW own, NEW has, NEW req, NEW s, NEW t,
           NEW req2, NEW s2, NEW t2,
           Bounded(k, sum, ou, own, has, req, s), KeyOk(k, st, sum, ou, own, has, req, s, t),
           1 \in DOMAIN s, s[1].type = "dd", Pulls(s, s2), Quiet(s2),
           req2 = IF s[1].lsas[k] > has /\ req = 0 THEN s[1].lsas[k] ELSE req,
           Wanted(t2, k) => Wanted(t, k) \/ req2 > 0
    PROVE  KeyOk(k, st, sum, ou, own, has, req2, s2, t2)
<1>1. /\ \A i \in DOMAIN s : i \in Nat \ {0}
      /\ \A i \in DOMAIN s2 : i \in Nat \ {0} /\ i + 1 \in DOMAIN s /\ s2[i] = s[i + 1]
      /\ \A i \in DOMAIN s : i # 1 => i - 1 \in DOMAIN s2 /\ s2[i - 1] = s[i]
  <2>1. (\A i \in DOMAIN s : i \in Nat \ {0}) /\ (\A i \in DOMAIN s2 : i \in Nat \ {0})
    BY Positions DEF Pulls, Bounded
  <2> QED BY <2>1 DEF Pulls
<1>2. CASE s[1].lsas[k] = 0
  <2>1. ~Matters(s[1], k) /\ req2 = req /\ s \in Seq(AnyPacket) /\ s2 \in Seq(AnyPacket)
    BY <1>2 DEF Matters, Describes, Updates, Bounded, Pulls
  <2>2. SameFor(k, s, s2)
    BY <2>1, SameAfterPull
  <2> QED BY <2>1, <2>2, KeySame
<1>3. CASE s[1].lsas[k] > 0
  <2>1. Describes(s[1], k)
    BY <1>3 DEF Describes
  <2>2. st \in AtLeastExchange /\ sum = 0 /\ Untold(k, st, sum, s)
    BY <2>1 DEF KeyOk, OnceOk, Untold
  <2>3. ~Untold(k, st, sum, s2)
    BY <2>2 DEF Untold, Quiet, Describes
  <2>4. req = 0 /\ has \in Nat /\ own \in Nat /\ s[1].lsas[k] \in Nat
    BY <2>2 DEF KeyOk, OnceOk, Bounded
  <2>5. OnceOk(k, st, sum, has, req2, s2, t2)
    BY <2>3, <2>4 DEF OnceOk, Untold
  <2>6. ASSUME NEW i \in DOMAIN s2, NEW j \in DOMAIN s2, i < j
        PROVE  i + 1 < j + 1
    BY <1>1, <2>6
  <2>7. OrderOk(k, ou, has, s2)
    BY <1>1, <2>6 DEF KeyOk, OrderOk
  <2>8. FreshOk(k, st, sum, ou, has, req2, s2)
    BY <1>1, <2>2, <2>4, <2>6 DEF KeyOk, FreshOk, Met
  <2>9. ASSUME delayed
        PROVE  OnItsWay(k, st, sum, ou, own, has, req2, s2)
    <3>1. OnItsWay(k, st, sum, ou, own, has, req, s)
      BY <2>9 DEF KeyOk
    <3>2. ASSUME has < own, NEW i \in DOMAIN s, s[i].type \in {"dd", "update"}, s[i].lsas[k] = own
          PROVE  req2 = own \/ \E j \in DOMAIN s2 : s2[j].type \in {"dd", "update"} /\ s2[j].lsas[k] = own
      <4>1. CASE i = 1
        BY <2>4, <3>2, <4>1
      <4>2. CASE i # 1
        BY <1>1, <3>2, <4>2
      <4> QED BY <4>1, <4>2
    <3> QED BY <2>4, <3>1, <3>2 DEF OnItsWay
  <2> QED BY <2>5, <2>7, <2>8, <2>9 DEF KeyOk
<1>4. s[1].lsas[k] \in Nat
  BY DEF Bounded
<1> QED BY <1>2, <1>3, <1>4

\* The other router takes an update, or has it already, or has had an older
\* instance of it a moment ago.
LEMMA KeyUpdated ==
    ASSUME NEW k, NEW st, NEW sum, NEW ou, NEW own, NEW has, NEW req, NEW s, NEW t,
           NEW taken, NEW has2, NEW req2, NEW s2, NEW t2,
           Bounded(k, sum, ou, own, has, req, s), KeyOk(k, st, sum, ou, own, has, req, s, t),
           1 \in DOMAIN s, s[1].type = "update", Pulls(s, s2),
           k \in taken => s[1].lsas[k] > 0,
           delayed /\ k \notin taken /\ s[1].lsas[k] > 0 => has = s[1].lsas[k],
           has2 = IF k \in taken THEN s[1].lsas[k] ELSE has,
           req2 = IF k \in taken /\ s[1].lsas[k] >= req THEN 0 ELSE req,
           Wanted(t2, k) => Wanted(t, k) \/ req2 > 0
    PROVE  KeyOk(k, st, sum, ou, own, has2, req2, s2, t2)
<1>1. /\ \A i \in DOMAIN s : i \in Nat \ {0}
      /\ \A i \in DOMAIN s2 : i \in Nat \ {0} /\ i + 1 \in DOMAIN s /\ s2[i] = s[i + 1]
      /\ \A i \in DOMAIN s : i # 1 => i - 1 \in DOMAIN s2 /\ s2[i - 1] = s[i]
  <2>1. (\A i \in DOMAIN s : i \in Nat \ {0}) /\ (\A i \in DOMAIN s2 : i \in Nat \ {0})
    BY Positions DEF Pulls, Bounded
  <2> QED BY <2>1 DEF Pulls
<1> DEFINE v == s[1].lsas[k]
<1>2. /\ v \in Nat /\ v <= own /\ has \in Nat /\ req \in Nat /\ own \in Nat /\ sum \in Nat /\ ou \in Nat
      /\ \A i \in DOMAIN s : s[i].type \in {"dd", "update"} => s[i].lsas[k] \in Nat /\ s[i].lsas[k] <= own
  BY DEF Bounded
<1>3. Untold(k, st, sum, s2) <=> Untold(k, st, sum, s)
  <2>1. ~Describes(s[1], k)
    BY DEF Describes
  <2> QED BY <1>1, <2>1 DEF Untold
<1>4. v > 0 => Updates(s[1], k)
  BY DEF Updates
<1>5. \A i \in DOMAIN s2 : Updates(s2[i], k) => /\ Updates(s[i + 1], k) /\ 1 < i + 1
                                              /\ s2[i].type = "update"
  BY <1>1 DEF Updates
<1> HIDE DEF v
<1>6. OnceOk(k, st, sum, has2, req2, s2, t2)
  <2>1. \A i \in DOMAIN s2 : Describes(s2[i], k) => st \in AtLeastExchange /\ sum = 0
    BY <1>1 DEF KeyOk, OnceOk
  <2>2. req2 > 0 => ~Untold(k, st, sum, s) /\ has2 < req2
    BY <1>2 DEF KeyOk, OnceOk, v
  <2>3. Wanted(t, k) => ~Untold(k, st, sum, s)
    BY DEF KeyOk, OnceOk
  <2> QED BY <1>3, <2>1, <2>2, <2>3 DEF OnceOk
<1>7. OrderOk(k, ou, has2, s2)
  <2>1. ou > 0 => has2 <= ou
    BY <1>2, <1>4 DEF KeyOk, OrderOk, v
  <2>2. ASSUME NEW i \in DOMAIN s2, Updates(s2[i], k)
        PROVE  /\ has2 <= s2[i].lsas[k]
               /\ ou > 0 => s2[i].lsas[k] <= ou
               /\ \A j \in DOMAIN s2 : i < j /\ Updates(s2[j], k) => s2[i].lsas[k] <= s2[j].lsas[k]
    <3>1. has2 <= s2[i].lsas[k]
      BY <1>1, <1>2, <1>4, <1>5, <2>2 DEF KeyOk, OrderOk, v
    <3>2. ou > 0 => s2[i].lsas[k] <= ou
      BY <1>1, <1>5, <2>2 DEF KeyOk, OrderOk
    <3>3. ASSUME NEW j \in DOMAIN s2, i < j, Updates(s2[j], k)
          PROVE  s2[i].lsas[k] <= s2[j].lsas[k]
      <4>1. i + 1 < j + 1 /\ i + 1 \in DOMAIN s /\ j + 1 \in DOMAIN s /\ s2[i] = s[i + 1] /\ s2[j] = s[j + 1]
        BY <1>1, <3>3
      <4> QED BY <1>5, <2>2, <3>3, <4>1 DEF KeyOk, OrderOk
    <3> QED BY <3>1, <3>2, <3>3
  <2> QED BY <2>1, <2>2 DEF OrderOk
<1>8. FreshOk(k, st, sum, ou, has2, req2, s2)
  <2> SUFFICES ASSUME Untold(k, st, sum, s2) \/ req2 > 0
               PROVE  /\ ou > 0 => has2 < ou
                      /\ \A i \in DOMAIN s2 : Updates(s2[i], k) =>
                           /\ has2 < s2[i].lsas[k]
                           /\ ou > 0 => s2[i].lsas[k] < ou \/ Met(req2, s2[i].lsas[k])
                           /\ \A j \in DOMAIN s2 : i < j /\ Updates(s2[j], k) =>
                                s2[i].lsas[k] < s2[j].lsas[k] \/ Met(req2, s2[i].lsas[k])
    BY DEF FreshOk
  <2>1. /\ ou > 0 => has < ou
        /\ \A i \in DOMAIN s : Updates(s[i], k) =>
             /\ has < s[i].lsas[k]
             /\ ou > 0 => s[i].lsas[k] < ou \/ Met(req, s[i].lsas[k])
             /\ \A j \in DOMAIN s : i < j /\ Updates(s[j], k) =>
                  s[i].lsas[k] < s[j].lsas[k] \/ Met(req, s[i].lsas[k])
    BY <1>2, <1>3 DEF KeyOk, FreshOk
  <2>2. req > 0 => ~Untold(k, st, sum, s)
    BY DEF KeyOk, OnceOk
  <2>3. req2 = req
    BY <1>2, <1>3, <2>2
  <2>4. k \in taken => ~Met(req, v)
    BY <1>2, <2>3 DEF Met, v
  <2>5. ou > 0 => has2 < ou
    BY <1>2, <1>4, <2>1, <2>4 DEF v
  <2>6. ASSUME NEW i \in DOMAIN s2, Updates(s2[i], k)
        PROVE  /\ has2 < s2[i].lsas[k]
               /\ ou > 0 => s2[i].lsas[k] < ou \/ Met(req2, s2[i].lsas[k])
               /\ \A j \in DOMAIN s2 : i < j /\ Updates(s2[j], k) =>
                    s2[i].lsas[k] < s2[j].lsas[k] \/ Met(req2, s2[i].lsas[k])
    <3>1. has2 < s2[i].lsas[k]
      <4>1. i + 1 \in DOMAIN s /\ s2[i] = s[i + 1] /\ Updates(s[i + 1], k) /\ 1 < i + 1
        BY <1>1, <1>5, <2>6
      <4>2. has < s[i + 1].lsas[k]
        BY <2>1, <4>1
      <4>3. k \in taken => v < s[i + 1].lsas[k]
        BY <1>4, <2>1, <2>4, <4>1 DEF v
      <4> QED BY <4>1, <4>2, <4>3 DEF v
    <3>2. ou > 0 => s2[i].lsas[k] < ou \/ Met(req2, s2[i].lsas[k])
      BY <1>1, <1>5, <2>1, <2>3, <2>6
    <3>3. ASSUME NEW j \in DOMAIN s2, i < j, Updates(s2[j], k)
          PROVE  s2[i].lsas[k] < s2[j].lsas[k] \/ Met(req2, s2[i].lsas[k])
      <4>1. i + 1 < j + 1 /\ i + 1 \in DOMAIN s /\ j + 1 \in DOMAIN s /\ s2[i] = s[i + 1] /\ s2[j] = s[j + 1]
        BY <1>1, <3>3
      <4> QED BY <1>5, <2>1, <2>3, <2>6, <3>3, <4>1
    <3> QED BY <3>1, <3>2, <3>3
  <2> QED BY <2>5, <2>6
<1>9. ASSUME delayed
      PROVE  OnItsWay(k, st, sum, ou, own, has2, req2, s2)
  <2>1. OnItsWay(k, st, sum, ou, own, has, req, s)
    BY <1>9 DEF KeyOk
  <2>2. has2 < own => has < own
    BY <1>2, <1>4 DEF KeyOk, OrderOk, v
  <2>3. has2 < own /\ req = own => req2 = own
    BY <1>2 DEF v
  <2>4. ASSUME has2 < own, NEW i \in DOMAIN s, s[i].type \in {"dd", "update"}, s[i].lsas[k] = own
        PROVE  \E j \in DOMAIN s2 : s2[j].type \in {"dd", "update"} /\ s2[j].lsas[k] = own
    <3>1. i # 1
      <4> SUFFICES ASSUME i = 1 PROVE FALSE
        OBVIOUS
      <4>1. v = own /\ v > 0
        BY <1>2, <2>2, <2>4 DEF v
      <4>2. has2 = own
        BY <1>9, <4>1 DEF v
      <4> QED BY <1>2, <2>4, <4>2
    <3> QED BY <1>1, <2>4, <3>1
  <2> QED BY <2>1, <2>2, <2>3, <2>4 DEF OnItsWay
<1> QED BY <1>6, <1>7, <1>8, <1>9 DEF KeyOk

\* The owner queues what it is asked for.
LEMMA KeyQueued ==
    ASSUME NEW k, NEW st, NEW sum, NEW ou, NEW own, NEW has, NEW req, NEW s, NEW t,
           Bounded(k, sum, ou, own, has, req, s), KeyOk(k, st, sum, ou, own, has, req, s, t),
           Wanted(t, k), own > 0
    PROVE  KeyOk(k, st, sum, own, own, has, req, s, t)
<1>1. ~Untold(k, st, sum, s) /\ (req > 0 => has < req)
  BY DEF KeyOk, OnceOk
<1>2. \A i \in DOMAIN s : Updates(s[i], k) => s[i].lsas[k] \in Nat /\ s[i].lsas[k] <= own
  BY DEF Bounded, Updates
<1>3. OrderOk(k, own, has, s)
  BY <1>2 DEF KeyOk, OrderOk, Bounded
<1>4. FreshOk(k, st, sum, own, has, req, s)
  BY <1>1, <1>2 DEF KeyOk, FreshOk, Bounded, Met
<1> QED BY <1>3, <1>4 DEF KeyOk, OnItsWay

\* The owner sends what is queued.
LEMMA KeySent ==
    ASSUME NEW k, NEW st, NEW sum, NEW ou, NEW own, NEW has, NEW req, NEW s, NEW t,
           NEW s2, NEW t2, NEW packets,
           Bounded(k, sum, ou, own, has, req, s), KeyOk(k, st, sum, ou, own, has, req, s, t),
           Puts(s, s2, packets), DOMAIN packets = {1}, packets[1].type = "update",
           packets[1].lsas[k] = ou, Wanted(t2, k) => Wanted(t, k)
    PROVE  KeyOk(k, st, sum, 0, own, has, req, s2, t2)
<1>1. /\ \A i \in DOMAIN s : i \in Nat /\ i \in DOMAIN s2 /\ s2[i] = s[i]
      /\ \A i \in DOMAIN s2 : i \in Nat
      /\ \A i \in DOMAIN s2 : i \notin DOMAIN s => s2[i] = packets[1] /\ i = Len(s) + 1
      /\ \A i \in DOMAIN s2 : i \notin DOMAIN s => \A j \in DOMAIN s : j < i
      /\ \E i \in DOMAIN s2 : s2[i] = packets[1]
  <2>1. (\A i \in DOMAIN s : i \in Nat) /\ (\A i \in DOMAIN s2 : i \in Nat)
    BY Positions DEF Puts, Bounded
  <2> QED BY <2>1 DEF Puts
<1>2. \A i \in DOMAIN s2 : Describes(s2[i], k) => i \in DOMAIN s
  BY <1>1 DEF Describes
<1>3. Untold(k, st, sum, s2) <=> Untold(k, st, sum, s)
  BY <1>1, <1>2 DEF Untold
<1>4. OnceOk(k, st, sum, has, req, s2, t2)
  BY <1>1, <1>2, <1>3 DEF KeyOk, OnceOk
<1>5. \A i \in DOMAIN s2 : Updates(s2[i], k) => i \in DOMAIN s \/ (s2[i].lsas[k] = ou /\ ou > 0)
  BY <1>1 DEF Updates
<1>6. ASSUME NEW i \in DOMAIN s2, NEW j \in DOMAIN s2, i < j
      PROVE  i \in DOMAIN s
  <2> SUFFICES ASSUME i \notin DOMAIN s PROVE FALSE
    OBVIOUS
  <2>1. j \notin DOMAIN s
    BY <1>1, <1>6
  <2> QED BY <1>1, <1>6, <2>1
<1>7. OrderOk(k, 0, has, s2)
  BY <1>1, <1>5, <1>6 DEF KeyOk, OrderOk
<1>8. FreshOk(k, st, sum, 0, has, req, s2)
  BY <1>1, <1>3, <1>5, <1>6 DEF KeyOk, FreshOk
<1>9. ASSUME delayed
      PROVE  OnItsWay(k, st, sum, 0, own, has, req, s2)
  BY <1>1, <1>9 DEF KeyOk, OnItsWay
<1> QED BY <1>4, <1>7, <1>8, <1>9 DEF KeyOk

\* The owner has a newer instance.
LEMMA KeyFlooded ==
    ASSUME NEW k, NEW st, NEW sum, NEW ou, NEW own, NEW has, NEW req, NEW s, NEW t, NEW ou2,
           Bounded(k, sum, ou, own, has, req, s), KeyOk(k, st, sum, ou, own, has, req, s, t),
           st \notin AtLeastExchange => ou = 0,
           ou2 = IF st \in AtLeastExchange THEN own + 1 ELSE ou
    PROVE  KeyOk(k, st, sum, ou2, own + 1, has, req, s, t)
<1>1. \A i \in DOMAIN s : Updates(s[i], k) => s[i].lsas[k] \in Nat /\ s[i].lsas[k] <= own
  BY DEF Bounded, Updates
<1>2. own \in Nat /\ has \in Nat /\ has <= own
  BY DEF Bounded
<1>3. OrderOk(k, ou2, has, s)
  BY <1>1, <1>2 DEF KeyOk, OrderOk
<1>4. FreshOk(k, st, sum, ou2, has, req, s)
  BY <1>1, <1>2 DEF KeyOk, FreshOk
<1>5. OnItsWay(k, st, sum, ou2, own + 1, has, req, s)
  BY DEF OnItsWay
<1> QED BY <1>3, <1>4, <1>5 DEF KeyOk

-----------------------------------------------------------------------------
(* What becomes of the descriptions when packets come and go.              *)

KeepsDDs(s, s2) ==
    /\ Quiet(s) <=> Quiet(s2)
    /\ AllFirst(s) => AllFirst(s2)
    /\ \A p : (OnlyDD(s, p) => OnlyDD(s2, p)) /\ (LastDD(s, p) => LastDD(s2, p))

LEMMA AfterPull ==
    ASSUME NEW s \in Seq(AnyPacket), NEW s2, Pulls(s, s2), 1 \in DOMAIN s
    PROVE  /\ s[1].type # "dd" => KeepsDDs(s, s2)
           /\ \A k : Wanted(s2, k) => Wanted(s, k)
           /\ \A i \in DOMAIN s2 : \E j \in DOMAIN s : s2[i] = s[j]
           /\ InOrder(s) /\ (s[1].type # "dd" \/ s[1].init) => InOrder(s2)
           /\ \A k : ~Matters(s[1], k) => SameFor(k, s, s2)
<1>1. /\ \A i \in DOMAIN s : i \in Nat \ {0}
      /\ \A i \in DOMAIN s2 : i \in Nat \ {0} /\ i + 1 \in DOMAIN s /\ s2[i] = s[i + 1]
      /\ \A i \in DOMAIN s : i # 1 => i - 1 \in DOMAIN s2 /\ s2[i - 1] = s[i]
  <2>1. (\A i \in DOMAIN s : i \in Nat \ {0}) /\ (\A i \in DOMAIN s2 : i \in Nat \ {0})
    BY Positions DEF Pulls
  <2> QED BY <2>1 DEF Pulls
<1>2. ASSUME s[1].type # "dd"
      PROVE  KeepsDDs(s, s2)
  <2>1. Quiet(s) <=> Quiet(s2)
    BY <1>1, <1>2 DEF Quiet
  <2>2. AllFirst(s) => AllFirst(s2)
    BY <1>1 DEF AllFirst
  <2>3. ASSUME NEW p, OnlyDD(s, p)
        PROVE  OnlyDD(s2, p)
    <3>1. PICK i \in DOMAIN s : /\ s[i] = p /\ p.type = "dd"
                                /\ \A j \in DOMAIN s : s[j].type = "dd" => j = i
      BY <2>3 DEF OnlyDD
    <3>2. i # 1 /\ i - 1 \in DOMAIN s2 /\ s2[i - 1] = p
      BY <1>1, <1>2, <3>1
    <3>3. \A j \in DOMAIN s2 : s2[j].type = "dd" => j = i - 1
      BY <1>1, <3>1
    <3> QED BY <3>1, <3>2, <3>3 DEF OnlyDD
  <2>4. ASSUME NEW p, LastDD(s, p)
        PROVE  LastDD(s2, p)
    <3>1. PICK i \in DOMAIN s : /\ s[i] = p /\ p.type = "dd"
                                /\ \A j \in DOMAIN s : s[j].type = "dd" /\ j # i => j < i /\ IsFirst(s[j])
      BY <2>4 DEF LastDD
    <3>2. i # 1 /\ i - 1 \in DOMAIN s2 /\ s2[i - 1] = p /\ i \in Nat
      BY <1>1, <1>2, <3>1
    <3>3. ASSUME NEW j \in DOMAIN s2, s2[j].type = "dd", j # i - 1
          PROVE  j < i - 1 /\ IsFirst(s2[j])
      <4>1. j \in Nat /\ j + 1 \in DOMAIN s /\ s[j + 1] = s2[j] /\ j + 1 # i
        BY <1>1, <3>2, <3>3
      <4>2. j + 1 < i /\ IsFirst(s2[j])
        BY <3>1, <3>3, <4>1
      <4>3. j < i - 1
        BY <3>2, <4>1, <4>2
      <4> QED BY <4>2, <4>3
    <3> QED BY <3>1, <3>2, <3>3 DEF LastDD
  <2> QED BY <2>1, <2>2, <2>3, <2>4 DEF KeepsDDs
<1>3. \A k : Wanted(s2, k) => Wanted(s, k)
  BY <1>1 DEF Wanted
<1>4. \A i \in DOMAIN s2 : \E j \in DOMAIN s : s2[i] = s[j]
  BY <1>1
<1>5. ASSUME InOrder(s), s[1].type # "dd" \/ s[1].init
      PROVE  InOrder(s2)
  <2>1. ASSUME NEW i \in DOMAIN s2, s2[i].type = "update"
        PROVE  \E j \in DOMAIN s2 : j < i /\ s2[j].type = "dd" /\ ~s2[j].init
    <3>1. i + 1 \in DOMAIN s /\ s[i + 1].type = "update" /\ i \in Nat
      BY <1>1, <2>1
    <3>2. PICK j \in DOMAIN s : j < i + 1 /\ s[j].type = "dd" /\ ~s[j].init
      BY <1>5, <3>1 DEF InOrder
    <3>3. j # 1 /\ j \in Nat \ {0}
      BY <1>1, <1>5, <3>2
    <3>4. j - 1 \in DOMAIN s2 /\ s2[j - 1] = s[j] /\ j - 1 < i
      BY <1>1, <3>1, <3>2, <3>3
    <3> QED BY <3>2, <3>4
  <2> QED BY <2>1 DEF InOrder
<1>6. ASSUME NEW k, ~Matters(s[1], k)
      PROVE  SameFor(k, s, s2)
  BY <1>6, SameAfterPull
<1> QED BY <1>2, <1>3, <1>4, <1>5, <1>6

LEMMA DDPulled ==
    ASSUME NEW s \in Seq(AnyPacket), NEW s2, Pulls(s, s2), 1 \in DOMAIN s, s[1].type = "dd"
    PROVE  /\ ~Quiet(s)
           /\ AllFirst(s) => IsFirst(s[1]) /\ AllFirst(s2)
           /\ \A p : OnlyDD(s, p) => p = s[1] /\ Quiet(s2)
           /\ \A p : LastDD(s, p) => (p = s[1] /\ Quiet(s2)) \/ (IsFirst(s[1]) /\ LastDD(s2, p))
<1>1. /\ \A i \in DOMAIN s : i \in Nat \ {0}
      /\ \A i \in DOMAIN s2 : i \in Nat \ {0} /\ i + 1 \in DOMAIN s /\ s2[i] = s[i + 1]
      /\ \A i \in DOMAIN s : i # 1 => i - 1 \in DOMAIN s2 /\ s2[i - 1] = s[i]
  <2>1. (\A i \in DOMAIN s : i \in Nat \ {0}) /\ (\A i \in DOMAIN s2 : i \in Nat \ {0})
    BY Positions DEF Pulls
  <2> QED BY <2>1 DEF Pulls
<1>2. ~Quiet(s) /\ (AllFirst(s) => IsFirst(s[1]) /\ AllFirst(s2))
  BY <1>1 DEF Quiet, AllFirst
<1>3. ASSUME NEW p, OnlyDD(s, p)
      PROVE  p = s[1] /\ Quiet(s2)
  <2>1. PICK i \in DOMAIN s : /\ s[i] = p /\ p.type = "dd"
                              /\ \A j \in DOMAIN s : s[j].type = "dd" => j = i
    BY <1>3 DEF OnlyDD
  <2>2. i = 1
    BY <2>1
  <2>3. ASSUME NEW j \in DOMAIN s2
        PROVE  s2[j].type # "dd"
    <3>1. j + 1 \in DOMAIN s /\ s2[j] = s[j + 1] /\ j + 1 # 1
      BY <1>1, <2>3
    <3> QED BY <2>1, <2>2, <3>1
  <2> QED BY <2>1, <2>2, <2>3 DEF Quiet
<1>4. ASSUME NEW p, LastDD(s, p)
      PROVE  (p = s[1] /\ Quiet(s2)) \/ (IsFirst(s[1]) /\ LastDD(s2, p))
  <2>1. PICK i \in DOMAIN s : /\ s[i] = p /\ p.type = "dd"
                              /\ \A j \in DOMAIN s : s[j].type = "dd" /\ j # i => j < i /\ IsFirst(s[j])
    BY <1>4 DEF LastDD
  <2>2. CASE i = 1
    <3>1. ASSUME NEW j \in DOMAIN s2
          PROVE  s2[j].type # "dd"
      <4>1. j + 1 \in DOMAIN s /\ s2[j] = s[j + 1] /\ j + 1 # 1 /\ ~(j + 1 < 1)
        BY <1>1, <3>1
      <4> QED BY <2>1, <2>2, <4>1
    <3> QED BY <2>1, <2>2, <3>1 DEF Quiet
  <2>3. CASE i # 1
    <3>1. i - 1 \in DOMAIN s2 /\ s2[i - 1] = p /\ i \in Nat
      BY <1>1, <2>1, <2>3
    <3>2. ASSUME NEW j \in DOMAIN s2, s2[j].type = "dd", j # i - 1
          PROVE  j < i - 1 /\ IsFirst(s2[j])
      <4>1. j \in Nat /\ j + 1 \in DOMAIN s /\ s[j + 1] = s2[j] /\ j + 1 # i
        BY <1>1, <3>1, <3>2
      <4>2. j + 1 < i /\ IsFirst(s2[j])
        BY <2>1, <3>2, <4>1
      <4>3. j < i - 1
        BY <3>1, <4>1, <4>2
      <4> QED BY <4>2, <4>3
    <3>3. IsFirst(s[1])
      BY <2>1, <2>3
    <3> QED BY <2>1, <3>1, <3>2, <3>3 DEF LastDD
  <2> QED BY <2>2, <2>3
<1> QED BY <1>2, <1>3, <1>4

LEMMA AfterPut ==
    ASSUME NEW s \in Seq(AnyPacket), NEW s2, NEW packets, Puts(s, s2, packets)
    PROVE  /\ (\A j \in DOMAIN packets : packets[j].type # "dd") => KeepsDDs(s, s2)
           /\ \A k : Wanted(s2, k) => Wanted(s, k) \/ Wanted(packets, k)
           /\ \A i \in DOMAIN s2 : \/ \E j \in DOMAIN s : s2[i] = s[j]
                                   \/ \E j \in DOMAIN packets : s2[i] = packets[j]
           /\ InOrder(s) /\ (\A j \in DOMAIN packets : packets[j].type # "update") => InOrder(s2)
           /\ \A k : (\A j \in DOMAIN packets : ~Matters(packets[j], k)) => SameFor(k, s, s2)
<1>1. /\ \A i \in DOMAIN s : i \in DOMAIN s2 /\ s2[i] = s[i]
      /\ \A i \in DOMAIN s2 : i \notin DOMAIN s => \E j \in DOMAIN packets : s2[i] = packets[j]
  BY DEF Puts
<1>2. ASSUME \A j \in DOMAIN packets : packets[j].type # "dd"
      PROVE  KeepsDDs(s, s2)
  <2>1. \A i \in DOMAIN s2 : s2[i].type = "dd" => i \in DOMAIN s
    BY <1>1, <1>2
  <2>2. (Quiet(s) <=> Quiet(s2)) /\ (AllFirst(s) => AllFirst(s2))
    BY <1>1, <2>1 DEF Quiet, AllFirst
  <2>3. \A p : OnlyDD(s, p) => OnlyDD(s2, p)
    BY <1>1, <2>1 DEF OnlyDD
  <2>4. \A p : LastDD(s, p) => LastDD(s2, p)
    BY <1>1, <2>1 DEF LastDD
  <2> QED BY <2>2, <2>3, <2>4 DEF KeepsDDs
<1>3. \A k : Wanted(s2, k) => Wanted(s, k) \/ Wanted(packets, k)
  BY <1>1 DEF Wanted
<1>4. \A i \in DOMAIN s2 : \/ \E j \in DOMAIN s : s2[i] = s[j]
                           \/ \E j \in DOMAIN packets : s2[i] = packets[j]
  BY <1>1
<1>5. InOrder(s) /\ (\A j \in DOMAIN packets : packets[j].type # "update") => InOrder(s2)
  BY <1>1 DEF InOrder
<1>6. ASSUME NEW k, \A j \in DOMAIN packets : ~Matters(packets[j], k)
      PROVE  SameFor(k, s, s2)
  BY <1>6, SameAfterPut
<1> QED BY <1>2, <1>3, <1>4, <1>5, <1>6

LEMMA DDPut ==
    ASSUME NEW s \in Seq(AnyPacket), NEW s2, NEW packets \in Seq(AnyPacket), Puts(s, s2, packets)
    PROVE  /\ \A p : Quiet(s) /\ OnlyDD(packets, p) => OnlyDD(s2, p)
           /\ \A p : AllFirst(s) /\ LastDD(packets, p) => LastDD(s2, p)
           /\ AllFirst(s) /\ AllFirst(packets) => AllFirst(s2)
<1>1. /\ \A i \in DOMAIN s : i \in DOMAIN s2 /\ s2[i] = s[i]
      /\ \A i \in DOMAIN s2 : i \notin DOMAIN s =>
            \E j \in DOMAIN packets : i = Len(s) + j /\ s2[i] = packets[j]
      /\ \A j \in DOMAIN packets : Len(s) + j \in DOMAIN s2 /\ s2[Len(s) + j] = packets[j]
  BY DEF Puts
<1>2. /\ DOMAIN s = 1 .. Len(s) /\ DOMAIN packets = 1 .. Len(packets)
      /\ Len(s) \in Nat /\ Len(packets) \in Nat
  BY LenProperties
<1>3. \A j \in DOMAIN packets : \A i \in DOMAIN s : i < Len(s) + j
  BY <1>2
<1>4. \A j, c \in DOMAIN packets : (Len(s) + c < Len(s) + j <=> c < j)
  BY <1>2
<1>5. ASSUME NEW p, Quiet(s), OnlyDD(packets, p)
      PROVE  OnlyDD(s2, p)
  BY <1>1, <1>5 DEF OnlyDD, Quiet
<1>6. ASSUME NEW p, AllFirst(s), LastDD(packets, p)
      PROVE  LastDD(s2, p)
  <2>1. PICK a \in DOMAIN packets :
          /\ packets[a] = p /\ p.type = "dd"
          /\ \A j \in DOMAIN packets : packets[j].type = "dd" /\ j # a => j < a /\ IsFirst(packets[j])
    BY <1>6 DEF LastDD
  <2>2. Len(s) + a \in DOMAIN s2 /\ s2[Len(s) + a] = p
    BY <1>1, <2>1
  <2>3. ASSUME NEW i \in DOMAIN s2, s2[i].type = "dd", i # Len(s) + a
        PROVE  i < Len(s) + a /\ IsFirst(s2[i])
    <3>1. CASE i \in DOMAIN s
      BY <1>1, <1>3, <1>6, <2>3, <3>1 DEF AllFirst
    <3>2. CASE i \notin DOMAIN s
      <4>1. PICK j \in DOMAIN packets : i = Len(s) + j /\ s2[i] = packets[j]
        BY <1>1, <3>2
      <4>2. j < a /\ IsFirst(packets[j])
        BY <2>1, <2>3, <4>1
      <4> QED BY <1>4, <4>1, <4>2
    <3> QED BY <3>1, <3>2
  <2> QED BY <2>1, <2>2, <2>3 DEF LastDD
<1>7. AllFirst(s) /\ AllFirst(packets) => AllFirst(s2)
  BY <1>1 DEF AllFirst
<1> QED BY <1>5, <1>6, <1>7

LEMMA DDsStay ==
    ASSUME NEW s
    PROVE  KeepsDDs(s, s)
  BY DEF KeepsDDs

LEMMA InRange ==
    ASSUME NEW s, NEW p, OnlyDD(s, p) \/ LastDD(s, p)
    PROVE  p \in Range(s)
  BY DEF OnlyDD, LastDD, Range

\* Records that do not differ in what the phase of the exchange is about.
Alike(r, r2) ==
    /\ r2.seq = r.seq /\ r2.more = r.more /\ r2.last = r.last /\ r2.summary = r.summary
    /\ \/ r2.state = r.state
       \/ r.state = "Loading" /\ r2.state = "Full"
       \/ r.state = "DOWN" /\ r2.state = "Init"

LEMMA PhaseKept ==
    ASSUME NEW h, NEW l, NEW sh, NEW sl, NEW h2, NEW l2, NEW sh2, NEW sl2,
           Phase(h, l, sh, sl), Alike(h, h2), Alike(l, l2), KeepsDDs(sh, sh2), KeepsDDs(sl, sl2)
    PROVE  Phase(h2, l2, sh2, sl2)
<1> USE DEF Alike
<1>1. CASE Waiting(h, l, sh, sl)
  <2>1. Waiting(h2, l2, sh2, sl2)
    BY <1>1 DEF Waiting, Early, KeepsDDs
  <2> QED BY <2>1 DEF Phase
<1>2. CASE Opening(h, l, sh, sl)
  <2>1. Opening(h2, l2, sh2, sl2)
    BY <1>2, InRange DEF Opening, KeepsDDs
  <2> QED BY <2>1 DEF Phase
<1>3. CASE Accepted(h, l, sh, sl)
  <2>1. Accepted(h2, l2, sh2, sl2)
    BY <1>3, InRange DEF Accepted, Answers, KeepsDDs
  <2> QED BY <2>1 DEF Phase
<1>4. CASE Asked(h, l, sh, sl)
  <2>1. Asked(h2, l2, sh2, sl2)
    BY <1>4, InRange DEF Asked, MasterLists, Asks, KeepsDDs
  <2> QED BY <2>1 DEF Phase
<1>5. CASE Answered(h, l, sh, sl)
  <2>1. l2.state \in AtLeastExchange /\ (l2.state # "Exchange" <=> l.state # "Exchange")
    BY <1>5 DEF Answered, AtLeastExchange
  <2>2. Answered(h2, l2, sh2, sl2)
    BY <1>5, <2>1, InRange DEF Answered, MasterLists, Answers, KeepsDDs
  <2> QED BY <2>2 DEF Phase
<1>6. CASE Told(h, l, sh, sl)
  <2>1. Told(h2, l2, sh2, sl2)
    BY <1>6 DEF Told, KeepsDDs
  <2> QED BY <2>1 DEF Phase
<1> QED BY <1>1, <1>2, <1>3, <1>4, <1>5, <1>6 DEF Phase

-----------------------------------------------------------------------------
(* Every action keeps what holds on a link that loses nothing.             *)

CoreInv ==
    /\ ~failed
    /\ ExchangeInv /\ HelloInv /\ AloneInv /\ UpdateInv
    /\ \A k \in Key : KeyInv(k)

LEMMA KeyBounds ==
    ASSUME Configured, AlwaysInv, NEW k \in Key
    PROVE  LET o == Owner(k)
               m == Other(o)
           IN  /\ o \in Router /\ m \in Router /\ m # o /\ Other(m) = o /\ \A x \in Router : x = o \/ x = m
               /\ Bounded(k, nbr[o].summary[k], out[o][k], db[o][k], db[m][k], nbr[m].req[k], link[m])
               /\ link[o] \in Seq(AnyPacket)
<1> DEFINE o == Owner(k)
           m == Other(o)
<1>1. o \in Router /\ m \in Router /\ m # o /\ Other(m) = o /\ \A x \in Router : x = o \/ x = m
  BY Owners, Routers
<1> HIDE DEF m
<1>2. /\ nbr[o].summary \in Lsas /\ nbr[m].req \in Lsas /\ out[o] \in Lsas /\ db[o] \in Lsas /\ db[m] \in Lsas
      /\ link[m] \in Seq(AnyPacket) /\ link[o] \in Seq(AnyPacket)
  BY <1>1 DEF AlwaysInv, RecordInv, DatabaseInv, LinkInv, Neighbour
<1>3. /\ nbr[o].summary[k] <= db[o][k] /\ nbr[m].req[k] <= db[o][k]
      /\ out[o][k] <= db[o][k] /\ db[m][k] <= db[o][k]
  BY <1>1 DEF AlwaysInv, RecordInv, RecordOk, DatabaseInv
<1>4. ASSUME NEW i \in DOMAIN link[m], link[m][i].type \in {"dd", "update"}
      PROVE  link[m][i].lsas[k] \in Nat /\ link[m][i].lsas[k] <= db[o][k]
  <2>1. PacketOk(m, link[m][i], db)
    BY <1>1 DEF AlwaysInv, LinkInv
  <2>2. link[m][i].lsas \in Lsas
    BY <1>4, <2>1, Fields DEF PacketOk
  <2> QED BY <1>4, <2>1, <2>2, LsasAt DEF PacketOk
<1> QED BY <1>1, <1>2, <1>3, <1>4, LsasAt DEF Bounded, m

LEMMA KeyPrimed ==
    ASSUME NEW k, delayed' = delayed,
           LET o == Owner(k)
               m == Other(o)
           IN  KeyOk(k, nbr'[o].state, nbr'[o].summary[k], out'[o][k], db'[o][k], db'[m][k],
                     nbr'[m].req[k], link'[m], link'[o])
    PROVE  KeyInv(k)'
  BY DEF KeyInv, KeyOk, OnceOk, OrderOk, FreshOk, OnItsWay, Owner, Other, Router

\* A step after which nothing is different for any LSA.
LEMMA KeysSame ==
    ASSUME Configured, AlwaysInv, NEW k \in Key, KeyInv(k), LinkInv',
           UNCHANGED <<delayed, db, out>>,
           \A x \in Router : /\ nbr'[x].state \in AtLeastExchange <=> nbr[x].state \in AtLeastExchange
                             /\ nbr'[x].summary = nbr[x].summary /\ nbr'[x].req = nbr[x].req
                             /\ SameFor(k, link[x], link'[x])
                             /\ Wanted(link'[x], k) => Wanted(link[x], k) \/ nbr[Other(x)].req[k] > 0
    PROVE  KeyInv(k)'
<1> DEFINE o == Owner(k)
           m == Other(o)
<1>1. /\ o \in Router /\ m \in Router /\ Other(o) = m
      /\ Bounded(k, nbr[o].summary[k], out[o][k], db[o][k], db[m][k], nbr[m].req[k], link[m])
      /\ link'[m] \in Seq(AnyPacket)
  BY KeyBounds DEF LinkInv
<1>2. KeyOk(k, nbr[o].state, nbr[o].summary[k], out[o][k], db[o][k], db[m][k], nbr[m].req[k],
            link[m], link[o])
  BY DEF KeyInv
<1> HIDE DEF o, m
<1>3. KeyOk(k, nbr'[o].state, nbr[o].summary[k], out[o][k], db[o][k], db[m][k], nbr[m].req[k],
            link'[m], link'[o])
  BY <1>1, <1>2, KeySame
<1>4. KeyOk(k, nbr'[o].state, nbr'[o].summary[k], out'[o][k], db'[o][k], db'[m][k], nbr'[m].req[k],
            link'[m], link'[o])
  BY <1>1, <1>3
<1> QED BY <1>4, KeyPrimed DEF o, m

\* Nothing that matters comes or goes on the way to x.
PlainLink(x) ==
    /\ \A k \in Key : /\ SameFor(k, link[x], link'[x])
                      /\ Wanted(link'[x], k) => Wanted(link[x], k) \/ nbr[Other(x)].req[k] > 0
    /\ InOrder(link[x]) => InOrder(link'[x])
    /\ \A i \in DOMAIN link'[x] : link'[x][i].type = "hello" =>
          \/ \E j \in DOMAIN link[x] : link'[x][i] = link[x][j]
          \/ link'[x][i].listed => nbr[Other(x)].state # "DOWN"

LEMMA PlainPull ==
    ASSUME NEW x, link[x] \in Seq(AnyPacket), 1 \in DOMAIN link[x], Pulls(link[x], link'[x]),
           \A k \in Key : ~Matters(link[x][1], k),
           link[x][1].type # "dd" \/ link[x][1].init
    PROVE  PlainLink(x)
<1>1. /\ \A k : Wanted(link'[x], k) => Wanted(link[x], k)
      /\ \A i \in DOMAIN link'[x] : \E j \in DOMAIN link[x] : link'[x][i] = link[x][j]
      /\ InOrder(link[x]) => InOrder(link'[x])
      /\ \A k \in Key : SameFor(k, link[x], link'[x])
  BY AfterPull
<1> QED BY <1>1 DEF PlainLink

LEMMA PlainPut ==
    ASSUME NEW x, link[x] \in Seq(AnyPacket), NEW packets, Puts(link[x], link'[x], packets),
           \A j \in DOMAIN packets :
              /\ packets[j].type # "update" /\ \A k \in Key : ~Matters(packets[j], k)
              /\ packets[j].type = "hello" /\ packets[j].listed => nbr[Other(x)].state # "DOWN"
              /\ packets[j].type = "request" =>
                   \A k \in Key : k \in packets[j].keys => nbr[Other(x)].req[k] > 0
    PROVE  PlainLink(x)
<1>1. /\ \A k : Wanted(link'[x], k) => Wanted(link[x], k) \/ Wanted(packets, k)
      /\ \A i \in DOMAIN link'[x] : \/ \E j \in DOMAIN link[x] : link'[x][i] = link[x][j]
                                    \/ \E j \in DOMAIN packets : link'[x][i] = packets[j]
      /\ InOrder(link[x]) => InOrder(link'[x])
      /\ \A k \in Key : SameFor(k, link[x], link'[x])
  BY AfterPut
<1>2. \A k \in Key : Wanted(packets, k) => nbr[Other(x)].req[k] > 0
  BY DEF Wanted
<1> QED BY <1>1, <1>2 DEF PlainLink

LEMMA PlainStay ==
    ASSUME NEW x, link[x] \in Seq(AnyPacket), link'[x] = link[x]
    PROVE  PlainLink(x)
  BY SameAsItWas DEF PlainLink

LEMMA HelloKept ==
    ASSUME Configured, HelloInv,
           \A x \in Router : /\ nbr[x].state # "DOWN" => nbr'[x].state # "DOWN"
                             /\ \A i \in DOMAIN link'[x] : link'[x][i].type = "hello" =>
                                  \/ \E j \in DOMAIN link[x] : link'[x][i] = link[x][j]
                                  \/ link'[x][i].listed => nbr[Other(x)].state # "DOWN"
    PROVE  HelloInv'
<1>1. \A x \in Router : Other(x) \in Router
  BY Routers
<1> QED BY <1>1 DEF HelloInv

LEMMA UpdateKept ==
    ASSUME UpdateInv,
           \A x \in Router : nbr'[x].state \notin AtLeastExchange =>
               nbr[x].state \notin AtLeastExchange /\ (InOrder(link[x]) => InOrder(link'[x]))
    PROVE  UpdateInv'
  BY DEF UpdateInv, InOrder, AtLeastExchange

LEMMA PlainStep ==
    ASSUME Configured, AlwaysInv, CoreInv, LinkInv', UNCHANGED <<delayed, db, out, failed>>,
           \A x \in Router :
              /\ \/ nbr'[x].state = nbr[x].state
                 \/ nbr[x].state \in {"DOWN", "Init", "ExStart"} /\ nbr'[x].state \in {"Init", "ExStart"}
              /\ nbr'[x].summary = nbr[x].summary /\ nbr'[x].req = nbr[x].req
              /\ PlainLink(x),
           ExchangeInv'
    PROVE  CoreInv'
<1>1. \A x \in Router :
         /\ nbr'[x].state \in AtLeastExchange <=> nbr[x].state \in AtLeastExchange
         /\ nbr'[x].state \in {"Exchange", "Loading"} <=> nbr[x].state \in {"Exchange", "Loading"}
         /\ nbr[x].state # "DOWN" => nbr'[x].state # "DOWN"
  BY DEF AtLeastExchange
<1>2. HelloInv'
  BY <1>1, HelloKept DEF CoreInv, PlainLink
<1>3. UpdateInv'
  BY <1>1, UpdateKept DEF CoreInv, PlainLink
<1>4. AloneInv'
  BY <1>1 DEF CoreInv, AloneInv
<1>5. ASSUME NEW k \in Key
      PROVE  KeyInv(k)'
  BY <1>1, KeysSame DEF CoreInv, PlainLink
<1>6. ~failed'
  BY DEF CoreInv
<1> QED BY <1>2, <1>3, <1>4, <1>5, <1>6 DEF CoreInv

LEMMA PhasePrimed ==
    ASSUME Phase(nbr'[High], nbr'[Low], link'[High], link'[Low])
    PROVE  ExchangeInv'
  BY DEF ExchangeInv, Phase, Waiting, Opening, Accepted, Asked, Answered, Told, MasterLists, Asks,
         Answers, OnlyDD, LastDD, Quiet, AllFirst, IsFirst, Range, Early, AtLeastExchange, NoDD

LEMMA ExchangeKept ==
    ASSUME Configured, ExchangeInv,
           \A x \in Router : Alike(nbr[x], nbr'[x]) /\ KeepsDDs(link[x], link'[x])
    PROVE  ExchangeInv'
<1>1. High \in Router /\ Low \in Router
  BY DEF Router
<1>2. Phase(nbr'[High], nbr'[Low], link'[High], link'[Low])
  BY <1>1, PhaseKept DEF ExchangeInv
<1> QED BY <1>2, PhasePrimed

LEMMA HelloTimerCore ==
    ASSUME Configured, AlwaysInv, CoreInv, NEW n \in Router, HelloTimer(n), AlwaysInv'
    PROVE  CoreInv'
<1> DEFINE p == [type |-> "hello", listed |-> nbr[n].state # "DOWN"]
           m == Other(n)
<1>1. Sends(n, <<p>>) /\ UNCHANGED <<lost, delayed, nbr, db, out, rlsaDue, failed>>
  BY DEF HelloTimer
<1>2. p \in AnyPacket /\ p.type = "hello" /\ (p.listed => nbr[n].state # "DOWN")
  BY DEF AnyPacket, Hello
<1>3. m \in Router /\ Other(m) = n /\ \A x \in Router : x = n \/ x = m
  BY Routers
<1> HIDE DEF p, m
<1>4. <<p>> \in Seq(AnyPacket) /\ DOMAIN <<p>> = {1} /\ <<p>>[1] = p
  BY <1>2, OnePacket
<1>5. link'[n] = link[n] /\ Puts(link[m], link'[m], <<p>>)
  BY <1>1, <1>4, SendsIs DEF AlwaysInv, m
<1>6. link[n] \in Seq(AnyPacket) /\ link[m] \in Seq(AnyPacket)
  BY <1>3 DEF AlwaysInv, LinkInv
<1>7. PlainLink(n) /\ KeepsDDs(link[n], link'[n])
  BY <1>5, <1>6, PlainStay, DDsStay
<1>8. PlainLink(m)
  BY <1>2, <1>3, <1>4, <1>5, <1>6, PlainPut DEF Matters, Describes, Updates
<1>9. KeepsDDs(link[m], link'[m])
  BY <1>2, <1>4, <1>5, <1>6, AfterPut
<1>10. ExchangeInv'
  BY <1>1, <1>3, <1>7, <1>9, ExchangeKept DEF CoreInv, Alike
<1> QED BY <1>1, <1>3, <1>7, <1>8, <1>10, PlainStep DEF AlwaysInv

LEMMA RequestTimerCore ==
    ASSUME Configured, AlwaysInv, CoreInv, NEW n \in Router, RequestTimer(n), AlwaysInv'
    PROVE  CoreInv'
<1> DEFINE p == RequestOf(nbr[n])
           m == Other(n)
<1>1. /\ p \in AnyPacket /\ IsRequest(p, nbr[n])
      /\ <<p>> \in Seq(AnyPacket) /\ DOMAIN <<p>> = {1} /\ <<p>>[1] = p
      /\ Sends(n, <<p>>) /\ UNCHANGED <<lost, delayed, nbr, db, out, rlsaDue, failed>>
  BY RequestTimerIs
<1>2. m \in Router /\ Other(m) = n /\ \A x \in Router : x = n \/ x = m
  BY Routers
<1> HIDE DEF p, m
<1>3. p.type = "request" /\ \A k \in Key : k \in p.keys => nbr[n].req[k] > 0
  BY <1>1, KeysIs DEF IsRequest
<1>5. link'[n] = link[n] /\ Puts(link[m], link'[m], <<p>>)
  BY <1>1, SendsIs DEF AlwaysInv, m
<1>6. link[n] \in Seq(AnyPacket) /\ link[m] \in Seq(AnyPacket)
  BY <1>2 DEF AlwaysInv, LinkInv
<1>7. PlainLink(n) /\ KeepsDDs(link[n], link'[n])
  BY <1>5, <1>6, PlainStay, DDsStay
<1>8. PlainLink(m)
  BY <1>1, <1>2, <1>3, <1>5, <1>6, PlainPut DEF Matters, Describes, Updates
<1>9. KeepsDDs(link[m], link'[m])
  BY <1>1, <1>3, <1>5, <1>6, AfterPut
<1>10. ExchangeInv'
  BY <1>1, <1>2, <1>7, <1>9, ExchangeKept DEF CoreInv, Alike
<1> QED BY <1>1, <1>2, <1>7, <1>8, <1>10, PlainStep DEF AlwaysInv

LEMMA Pair ==
    ASSUME Configured
    PROVE  /\ Low \in Router /\ High \in Router /\ Low # High /\ Other(Low) = High /\ Other(High) = Low
           /\ \A x \in Router : x = Low \/ x = High
  BY DEF Configured, Router, Other

\* A first description, alone.
LEMMA FirstAlone ==
    ASSUME NEW p \in AnyPacket, p.type = "dd", IsFirst(p)
    PROVE  /\ <<p>> \in Seq(AnyPacket) /\ DOMAIN <<p>> = {1} /\ <<p>>[1] = p
           /\ OnlyDD(<<p>>, p) /\ AllFirst(<<p>>) /\ \A k \in Key : ~Matters(p, k)
<1> DEFINE s == <<p>>
<1>1. s \in Seq(AnyPacket) /\ DOMAIN s = {1} /\ s[1] = p
  BY OnePacket
<1> HIDE DEF s
<1>2. OnlyDD(s, p) /\ AllFirst(s)
  BY <1>1 DEF OnlyDD, AllFirst
<1>3. \A k \in Key : ~Matters(p, k)
  BY DEF Matters, Describes, Updates, IsFirst
<1> QED BY <1>1, <1>2, <1>3 DEF s

LEMMA NothingPut ==
    ASSUME NEW s \in Seq(AnyPacket), NEW s2, Puts(s, s2, << >>)
    PROVE  /\ KeepsDDs(s, s2) /\ (InOrder(s) => InOrder(s2))
           /\ \A k : SameFor(k, s, s2) /\ (Wanted(s2, k) => Wanted(s, k))
           /\ \A i \in DOMAIN s2 : \E j \in DOMAIN s : s2[i] = s[j]
<1> DEFINE none == << >>
<1>1. DOMAIN none = {} /\ Puts(s, s2, none)
  BY NoPacket
<1> HIDE DEF none
<1>2. \A k : ~Wanted(none, k)
  BY <1>1 DEF Wanted
<1> QED BY <1>1, <1>2, AfterPut

LEMMA PlainNothing ==
    ASSUME NEW x, link[x] \in Seq(AnyPacket), Puts(link[x], link'[x], << >>)
    PROVE  PlainLink(x)
  BY NothingPut DEF PlainLink

LEMMA ReceiveHelloCore ==
    ASSUME Configured, AlwaysInv, CoreInv, NEW n \in Router, ReceiveHello(n), AlwaysInv'
    PROVE  CoreInv'
<1> DEFINE r == Heard(n)
           p == ExStartDD(r)
           ps == IF TwoWay(n) THEN <<p>> ELSE << >>
           m == Other(n)
<1>1. /\ Arrives(n, "hello") /\ r \in Neighbour /\ nbr' = [nbr EXCEPT ![n] = r] /\ Takes(n, ps)
      /\ UNCHANGED <<lost, delayed, db, out, rlsaDue, failed>>
      /\ r.summary = nbr[n].summary /\ r.req = nbr[n].req /\ r.last = nbr[n].last
      /\ ~TwoWay(n) => /\ r.state = IF nbr[n].state = "DOWN" THEN "Init" ELSE nbr[n].state
                       /\ r.isMaster = nbr[n].isMaster /\ r.seq = nbr[n].seq /\ r.more = nbr[n].more
      /\ TwoWay(n) => r.state = "ExStart" /\ r.seq = FirstSeq(n) /\ r.more
  BY HeardIs DEF AlwaysInv
<1>2. p \in AnyPacket /\ p.type = "dd" /\ IsFirst(p) /\ p.seq = r.seq
  BY <1>1, FirstIs DEF AlwaysInv, IsFirst
<1>3. m \in Router /\ m # n /\ Other(m) = n /\ \A x \in Router : x = n \/ x = m
  BY Routers
<1>4. nbr \in [Router -> Neighbour] /\ link[n] \in Seq(AnyPacket) /\ link[m] \in Seq(AnyPacket)
  BY <1>3 DEF AlwaysInv, RecordInv, LinkInv
<1> HIDE DEF r, m
<1>5. nbr'[n] = r /\ nbr'[m] = nbr[m] /\ nbr[n].state \in State
  BY <1>1, <1>3, <1>4 DEF Neighbour
<1> HIDE DEF p
<1>6. /\ <<p>> \in Seq(AnyPacket) /\ DOMAIN <<p>> = {1} /\ <<p>>[1] = p
      /\ OnlyDD(<<p>>, p) /\ AllFirst(<<p>>) /\ \A k \in Key : ~Matters(p, k)
  BY <1>2, FirstAlone
<1>7. ps \in Seq(AnyPacket)
  BY <1>6, NoPacket
<1>8. link[n] # << >> /\ Head(link[n]).type = "hello"
  BY <1>1 DEF Arrives
<1>9. /\ 1 \in DOMAIN link[n] /\ Head(link[n]) = link[n][1]
      /\ Pulls(link[n], link'[n]) /\ Puts(link[m], link'[m], ps)
  BY <1>1, <1>7, <1>8, TakesIs DEF AlwaysInv, m
<1>10. PlainLink(n) /\ KeepsDDs(link[n], link'[n])
  <2>1. link[n][1].type # "dd" /\ \A k \in Key : ~Matters(link[n][1], k)
    BY <1>8, <1>9 DEF Matters, Describes, Updates
  <2> QED BY <1>4, <1>9, <2>1, PlainPull, AfterPull
<1>11. PlainLink(m)
  <2>1. CASE TwoWay(n)
    <3>1. Puts(link[m], link'[m], <<p>>)
      BY <1>9, <2>1
    <3> QED BY <1>2, <1>4, <1>6, <3>1, PlainPut
  <2>2. CASE ~TwoWay(n)
    BY <1>4, <1>9, <2>2, PlainNothing
  <2> QED BY <2>1, <2>2
<1>12. ExchangeInv'
  <2>1. CASE ~TwoWay(n)
    <3>1. KeepsDDs(link[m], link'[m])
      BY <1>4, <1>9, <2>1, NothingPut
    <3>2. Alike(nbr[n], nbr'[n]) /\ Alike(nbr[m], nbr'[m])
      BY <1>1, <1>5, <2>1 DEF Alike
    <3> QED BY <1>3, <1>10, <3>1, <3>2, ExchangeKept DEF CoreInv
  <2>2. CASE TwoWay(n)
    <3>1. Puts(link[m], link'[m], <<p>>)
      BY <1>9, <2>2
    <3>2. /\ nbr[n].state \in {"DOWN", "Init"} /\ nbr[m].state # "DOWN"
          /\ r.state = "ExStart" /\ r.more /\ r.last = nbr[n].last
      BY <1>1, <1>3, <1>8, <1>9, <2>2 DEF TwoWay, CoreInv, HelloInv, m
    <3>3. /\ AllFirst(link[m]) => AllFirst(link'[m])
          /\ Quiet(link[m]) => OnlyDD(link'[m], p)
      BY <1>4, <1>6, <3>1, DDPut
    <3>4. CASE n = Low
      <4>1. m = High /\ nbr'[High] = nbr[High] /\ nbr'[Low] = r
        BY <1>5, <3>4, Pair DEF m
      <4>2. \/ Waiting(nbr[High], nbr[Low], link[High], link[Low])
            \/ Opening(nbr[High], nbr[Low], link[High], link[Low])
        BY <3>2, <3>4 DEF CoreInv, ExchangeInv, Phase, Accepted, Asked, Answered, Told, AtLeastExchange
      <4>3. CASE Waiting(nbr[High], nbr[Low], link[High], link[Low])
        <5>1. Waiting(nbr'[High], nbr'[Low], link'[High], link'[Low])
          BY <1>10, <3>2, <3>3, <3>4, <4>1, <4>3 DEF Waiting, Early, KeepsDDs
        <5> QED BY <5>1, PhasePrimed DEF Phase
      <4>4. CASE Opening(nbr[High], nbr[Low], link[High], link[Low])
        <5>1. Opening(nbr'[High], nbr'[Low], link'[High], link'[Low])
          BY <1>10, <3>2, <3>3, <3>4, <4>1, <4>4, InRange DEF Opening, KeepsDDs
        <5> QED BY <5>1, PhasePrimed DEF Phase
      <4> QED BY <4>2, <4>3, <4>4
    <3>5. CASE n = High
      <4>1. m = Low /\ nbr'[High] = r /\ nbr'[Low] = nbr[Low]
        BY <1>5, <3>5, Pair DEF m
      <4>2. Waiting(nbr[High], nbr[Low], link[High], link[Low])
        BY <3>2, <3>5 DEF CoreInv, ExchangeInv, Phase, Opening, Accepted, MasterLists, Asked, Answered, Told
      <4>3. Opening(nbr'[High], nbr'[Low], link'[High], link'[Low])
        BY <1>2, <1>10, <3>2, <3>3, <3>5, <4>1, <4>2, InRange DEF Waiting, Opening, Early, KeepsDDs
      <4> QED BY <4>3, PhasePrimed DEF Phase
    <3> QED BY <3>4, <3>5, Pair
  <2> QED BY <2>1, <2>2
<1>13. \/ r.state = nbr[n].state
       \/ nbr[n].state \in {"DOWN", "Init", "ExStart"} /\ r.state \in {"Init", "ExStart"}
  BY <1>1 DEF TwoWay
<1> QED BY <1>1, <1>3, <1>5, <1>10, <1>11, <1>12, <1>13, PlainStep DEF AlwaysInv

LEMMA ExStartTimerCore ==
    ASSUME Configured, AlwaysInv, CoreInv, NEW n \in Router, ExStartTimer(n), AlwaysInv'
    PROVE  CoreInv'
<1> DEFINE m == Other(n)
<1>1. UNCHANGED <<lost, delayed, db, out, rlsaDue, failed>> /\ \A x \in Router : ~InFlight(x, "dd")
  BY DEF ExStartTimer
<1>2. m \in Router /\ m # n /\ Other(m) = n /\ \A x \in Router : x = n \/ x = m
  BY Routers
<1> HIDE DEF m
<1>3. /\ nbr \in [Router -> Neighbour] /\ nbr[n] \in Neighbour
      /\ link[n] \in Seq(AnyPacket) /\ link[m] \in Seq(AnyPacket)
  BY <1>2 DEF AlwaysInv, RecordInv, LinkInv
<1>4. CASE nbr[n].state = "ExStart"
  <2> DEFINE p == ExStartDD(nbr[n])
  <2>1. Sends(n, <<p>>) /\ nbr' = nbr
    BY <1>4 DEF ExStartTimer
  <2>2. p \in AnyPacket /\ p.type = "dd" /\ IsFirst(p)
    BY <1>3, FirstIs DEF AlwaysInv, IsFirst
  <2> HIDE DEF p
  <2>3. /\ <<p>> \in Seq(AnyPacket) /\ DOMAIN <<p>> = {1} /\ <<p>>[1] = p
        /\ AllFirst(<<p>>) /\ \A k \in Key : ~Matters(p, k)
    BY <2>2, FirstAlone
  <2>4. link'[n] = link[n] /\ Puts(link[m], link'[m], <<p>>)
    BY <2>1, <2>3, SendsIs DEF AlwaysInv, m
  <2>5. PlainLink(n) /\ PlainLink(m)
    BY <1>3, <2>2, <2>3, <2>4, PlainStay, PlainPut
  <2>6. Quiet(link[High]) /\ Quiet(link[Low])
    BY <1>1, Pair DEF InFlight, Quiet
  <2>7. Waiting(nbr[High], nbr[Low], link[High], link[Low])
    <3>1. \A p2 : \A x \in Router : ~OnlyDD(link[x], p2) /\ ~LastDD(link[x], p2)
      BY <1>1 DEF OnlyDD, LastDD, InFlight
    <3>2. ~Told(nbr[High], nbr[Low], link[High], link[Low])
      BY <1>4, Pair DEF Told
    <3> QED BY <3>1, <3>2, Pair DEF CoreInv, ExchangeInv, Phase, Opening, Accepted, Asked, Answered
  <2>8. n = Low
    BY <1>4, <2>7, Pair DEF Waiting, Early
  <2>9. AllFirst(link[m]) => AllFirst(link'[m])
    BY <1>3, <2>3, <2>4, DDPut
  <2>10. Waiting(nbr'[High], nbr'[Low], link'[High], link'[Low])
    BY <1>4, <2>1, <2>4, <2>7, <2>8, <2>9, Pair DEF Waiting, m
  <2>11. ExchangeInv'
    BY <2>10, PhasePrimed DEF Phase
  <2> QED BY <1>1, <1>2, <2>1, <2>5, <2>11, PlainStep DEF AlwaysInv
<1>5. CASE nbr[n].state # "ExStart"
  <2> DEFINE r == [nbr[n] EXCEPT !.rxmt = FALSE]
  <2>1. nbr' = [nbr EXCEPT ![n] = r] /\ link' = link
    BY <1>5 DEF ExStartTimer
  <2>2. r.summary = nbr[n].summary /\ r.req = nbr[n].req /\ r.state = nbr[n].state
        /\ r.seq = nbr[n].seq /\ r.more = nbr[n].more /\ r.last = nbr[n].last
    BY <1>3 DEF Neighbour
  <2> HIDE DEF r
  <2>3. nbr'[n] = r /\ nbr'[m] = nbr[m]
    BY <1>2, <1>3, <2>1
  <2>4. \A x \in Router : PlainLink(x) /\ KeepsDDs(link[x], link'[x])
    BY <1>2, <1>3, <2>1, PlainStay, DDsStay
  <2>5. ExchangeInv'
    BY <1>2, <2>2, <2>3, <2>4, ExchangeKept DEF CoreInv, Alike
  <2> QED BY <1>1, <1>2, <2>2, <2>3, <2>4, <2>5, PlainStep DEF AlwaysInv
<1> QED BY <1>4, <1>5

\* A router that exchanges has said so before it sends updates.
LEMMA BeforeUpdates ==
    ASSUME Configured, CoreInv, NEW n \in Router, nbr[n].state \in AtLeastExchange,
           nbr[Other(n)].state \notin AtLeastExchange
    PROVE  \E i \in DOMAIN link[Other(n)] : link[Other(n)][i].type = "dd" /\ ~link[Other(n)][i].init
<1>1. n = Low /\ Other(n) = High /\ Accepted(nbr[High], nbr[Low], link[High], link[Low])
  BY Pair DEF CoreInv, ExchangeInv, Phase, Waiting, Opening, Accepted, Asked, Answered, Told,
              MasterLists, AtLeastExchange, Early
<1>2. PICK p \in Range(link[High]) : LastDD(link[High], p) /\ Answers(p, nbr[Low])
  BY <1>1 DEF Accepted
<1>3. \E i \in DOMAIN link[High] : link[High][i].type = "dd" /\ ~link[High][i].init
  BY <1>2 DEF LastDD, Answers
<1> QED BY <1>1, <1>3

LEMMA InOrderPut ==
    ASSUME NEW s \in Seq(AnyPacket), NEW s2, NEW packets, Puts(s, s2, packets), InOrder(s),
           \E i \in DOMAIN s : s[i].type = "dd" /\ ~s[i].init
    PROVE  InOrder(s2)
<1>1. /\ \A i \in DOMAIN s : i \in DOMAIN s2 /\ s2[i] = s[i]
      /\ \A i \in DOMAIN s2 : i \notin DOMAIN s => \A j \in DOMAIN s : j < i
  BY DEF Puts
<1> QED BY <1>1 DEF InOrder

\* n sends an update of what it has queued.
LEMMA UpdatesInOrder ==
    ASSUME Configured, AlwaysInv, CoreInv, NEW n \in Router, nbr' = nbr,
           nbr[n].state \in AtLeastExchange,
           NEW packets, Puts(link[Other(n)], link'[Other(n)], packets)
    PROVE  UpdateInv'
<1> DEFINE m == Other(n)
<1>1. m \in Router /\ \A x \in Router : x = n \/ x = m
  BY Routers
<1>2. link[m] \in Seq(AnyPacket)
  BY <1>1 DEF AlwaysInv, LinkInv
<1>3. ASSUME nbr[m].state \notin AtLeastExchange
      PROVE  InOrder(link[m]) /\ InOrder(link'[m])
  <2>1. InOrder(link[m])
    BY <1>1, <1>3 DEF CoreInv, UpdateInv
  <2> QED BY <1>2, <1>3, <2>1, BeforeUpdates, InOrderPut
<1> HIDE DEF m
<1>4. \A x \in Router : nbr'[x].state \notin AtLeastExchange =>
               nbr[x].state \notin AtLeastExchange /\ (InOrder(link[x]) => InOrder(link'[x]))
  BY <1>1, <1>3
<1> QED BY <1>4, UpdateKept DEF CoreInv

LEMMA FloodedCore ==
    ASSUME Configured, AlwaysInv, CoreInv, NEW n \in Router, NEW y \in Key, Owner(y) = n, Flooded(n, y),
           UNCHANGED <<lost, delayed, nbr, link, failed>>
    PROVE  CoreInv'
<1>1. /\ db'[n][y] = db[n][y] + 1
      /\ \A x \in Router : \A k \in Key : x # n \/ k # y => db'[x][k] = db[x][k] /\ out'[x][k] = out[x][k]
      /\ out'[n][y] = IF nbr[n].state \in AtLeastExchange THEN db[n][y] + 1 ELSE out[n][y]
  BY FloodedIs DEF AlwaysInv
<1>2. ExchangeInv' /\ HelloInv' /\ UpdateInv' /\ ~failed'
  <2>1. Phase(nbr'[High], nbr'[Low], link'[High], link'[Low])
    BY DEF CoreInv, ExchangeInv
  <2>2. ExchangeInv'
    BY <2>1, PhasePrimed
  <2> QED BY <2>2 DEF CoreInv, HelloInv, UpdateInv, InOrder, Other
<1>3. AloneInv'
  BY <1>1 DEF CoreInv, AloneInv
<1>4. ASSUME NEW k \in Key
      PROVE  KeyInv(k)'
  <2> DEFINE o == Owner(k)
             m == Other(o)
  <2>1. /\ o \in Router /\ m \in Router /\ m # o
        /\ Bounded(k, nbr[o].summary[k], out[o][k], db[o][k], db[m][k], nbr[m].req[k], link[m])
    BY KeyBounds
  <2>2. KeyOk(k, nbr[o].state, nbr[o].summary[k], out[o][k], db[o][k], db[m][k], nbr[m].req[k],
              link[m], link[o])
    BY <1>4 DEF CoreInv, KeyInv
  <2>3. k = y => o = n
    OBVIOUS
  <2> HIDE DEF o, m
  <2>4. CASE k = y
    <3>1. o = n /\ db'[o][k] = db[o][k] + 1 /\ db'[m][k] = db[m][k]
          /\ out'[o][k] = IF nbr[o].state \in AtLeastExchange THEN db[o][k] + 1 ELSE out[o][k]
      BY <1>1, <2>1, <2>3, <2>4
    <3>2. nbr[o].state \notin AtLeastExchange => out[o][k] = 0
      <4>1. out[o][k] \in Nat
        BY <2>1 DEF Bounded
      <4> QED BY <2>1, <4>1 DEF CoreInv, AloneInv
    <3> DEFINE ou2 == out'[o][k]
    <3>3. ou2 = IF nbr[o].state \in AtLeastExchange THEN db[o][k] + 1 ELSE out[o][k]
      BY <3>1
    <3> HIDE DEF ou2
    <3>4. KeyOk(k, nbr[o].state, nbr[o].summary[k], ou2, db[o][k] + 1, db[m][k], nbr[m].req[k],
                link[m], link[o])
      BY <2>1, <2>2, <3>2, <3>3, KeyFlooded
    <3>5. KeyOk(k, nbr'[o].state, nbr'[o].summary[k], out'[o][k], db'[o][k], db'[m][k], nbr'[m].req[k],
                link'[m], link'[o])
      BY <3>1, <3>4 DEF ou2
    <3> QED BY <3>5, KeyPrimed DEF o, m
  <2>5. CASE k # y
    <3>1. db'[o][k] = db[o][k] /\ db'[m][k] = db[m][k] /\ out'[o][k] = out[o][k]
      BY <1>1, <2>1, <2>5
    <3>2. KeyOk(k, nbr'[o].state, nbr'[o].summary[k], out'[o][k], db'[o][k], db'[m][k], nbr'[m].req[k],
                link'[m], link'[o])
      BY <2>2, <3>1
    <3> QED BY <3>2, KeyPrimed DEF o, m
  <2> QED BY <2>4, <2>5
<1> QED BY <1>2, <1>3, <1>4 DEF CoreInv

\* n sends the update p, and nothing stays queued.
LEMMA UpdateSent ==
    ASSUME Configured, AlwaysInv, CoreInv, AlwaysInv', NEW n \in Router,
           nbr[n].state \in AtLeastExchange,
           NEW p \in AnyPacket, p.type = "update", UNCHANGED <<delayed, nbr, db, failed>>,
           \A k \in Key : out'[n][k] = 0 /\ out'[Other(n)][k] = out[Other(n)][k],
           PlainLink(n), KeepsDDs(link[n], link'[n]), \A k \in Key : Wanted(link'[n], k) => Wanted(link[n], k),
           Puts(link[Other(n)], link'[Other(n)], <<p>>),
           \A k \in Key : Owner(k) = n =>
               /\ p.lsas[k] \in Nat /\ p.lsas[k] <= db[n][k]
               /\ KeyOk(k, nbr[n].state, nbr[n].summary[k], p.lsas[k], db[n][k], db[Other(n)][k],
                        nbr[Other(n)].req[k], link[Other(n)], link[n])
    PROVE  CoreInv'
<1> DEFINE m == Other(n)
           ps == <<p>>
<1>1. m \in Router /\ m # n /\ Other(m) = n /\ \A x \in Router : x = n \/ x = m
  BY Routers
<1>2. /\ link[n] \in Seq(AnyPacket) /\ link[m] \in Seq(AnyPacket)
      /\ link'[n] \in Seq(AnyPacket) /\ link'[m] \in Seq(AnyPacket)
  BY <1>1 DEF AlwaysInv, LinkInv
<1>3. ps \in Seq(AnyPacket) /\ DOMAIN ps = {1} /\ ps[1] = p /\ Puts(link[m], link'[m], ps)
  BY OnePacket
<1>4. UpdateInv'
  BY <1>3, UpdatesInOrder
<1> HIDE DEF m, ps
<1>5. /\ KeepsDDs(link[m], link'[m])
      /\ \A k : Wanted(link'[m], k) => Wanted(link[m], k) \/ Wanted(ps, k)
      /\ \A i \in DOMAIN link'[m] : \/ \E j \in DOMAIN link[m] : link'[m][i] = link[m][j]
                                    \/ link'[m][i] = p
  <2>1. \A j \in DOMAIN ps : ps[j] = p /\ ps[j].type # "dd"
    BY <1>3
  <2>2. Puts(link[m], link'[m], ps)
    BY <1>3
  <2> QED BY <1>2, <2>1, <2>2, AfterPut
<1>6. \A k : Wanted(link'[m], k) => Wanted(link[m], k)
  BY <1>3, <1>5 DEF Wanted
<1>7. ExchangeInv'
  BY <1>1, <1>5, ExchangeKept DEF CoreInv, Alike
<1>8. HelloInv'
  BY <1>1, <1>5, HelloKept DEF CoreInv, PlainLink
<1>9. AloneInv'
  BY <1>1 DEF CoreInv, AloneInv, m
<1>10. ASSUME NEW k \in Key, Owner(k) = n
       PROVE  KeyInv(k)'
  <2>1. Bounded(k, nbr[n].summary[k], out[n][k], db[n][k], db[m][k], nbr[m].req[k], link[m])
    BY <1>10, KeyBounds DEF m
  <2>2. Bounded(k, nbr[n].summary[k], p.lsas[k], db[n][k], db[m][k], nbr[m].req[k], link[m])
    BY <1>10, <2>1 DEF Bounded
  <2>3. KeyOk(k, nbr[n].state, nbr[n].summary[k], p.lsas[k], db[n][k], db[m][k], nbr[m].req[k], link[m], link[n])
    BY <1>10 DEF m
  <2>4. Wanted(link'[n], k) => Wanted(link[n], k)
    OBVIOUS
  <2>5. KeyOk(k, nbr[n].state, nbr[n].summary[k], 0, db[n][k], db[m][k], nbr[m].req[k], link'[m], link'[n])
    BY <1>3, <2>2, <2>3, <2>4, KeySent
  <2>6. KeyOk(k, nbr'[n].state, nbr'[n].summary[k], out'[n][k], db'[n][k], db'[m][k], nbr'[m].req[k],
              link'[m], link'[n])
    BY <2>5
  <2> QED BY <1>10, <2>6, KeyPrimed DEF m
<1>11. ASSUME NEW k \in Key, Owner(k) = m
       PROVE  KeyInv(k)'
  <2>1. Bounded(k, nbr[m].summary[k], out[m][k], db[m][k], db[n][k], nbr[n].req[k], link[n])
    BY <1>1, <1>11, KeyBounds
  <2>2. KeyOk(k, nbr[m].state, nbr[m].summary[k], out[m][k], db[m][k], db[n][k], nbr[n].req[k], link[n], link[m])
    BY <1>1, <1>11 DEF CoreInv, KeyInv
  <2>3. SameFor(k, link[n], link'[n])
    BY DEF PlainLink
  <2>4. KeyOk(k, nbr[m].state, nbr[m].summary[k], out[m][k], db[m][k], db[n][k], nbr[n].req[k], link'[n], link'[m])
    BY <1>2, <1>6, <2>1, <2>2, <2>3, KeySame
  <2>5. KeyOk(k, nbr'[m].state, nbr'[m].summary[k], out'[m][k], db'[m][k], db'[n][k], nbr'[n].req[k],
              link'[n], link'[m])
    BY <2>4 DEF m
  <2> QED BY <1>1, <1>11, <2>5, KeyPrimed
<1>12. \A k \in Key : KeyInv(k)'
  BY <1>1, <1>10, <1>11, Owners
<1> QED BY <1>4, <1>7, <1>8, <1>9, <1>12 DEF CoreInv

LEMMA FloodTimerCore ==
    ASSUME Configured, AlwaysInv, CoreInv, NEW n \in Router, FloodTimer(n), AlwaysInv'
    PROVE  CoreInv'
<1> DEFINE p == [type |-> "update", lsas |-> out[n]]
           m == Other(n)
<1>1. /\ p \in AnyPacket /\ p.type = "update" /\ p.lsas = out[n]
      /\ <<p>> \in Seq(AnyPacket) /\ DOMAIN <<p>> = {1} /\ <<p>>[1] = p
      /\ Sends(n, <<p>>) /\ UNCHANGED <<lost, delayed, nbr, db, rlsaDue, failed>>
      /\ out' = [out EXCEPT ![n] = NoLsa]
      /\ \E k \in Key : out[n][k] > 0
  BY FloodTimerIs
<1>2. m \in Router /\ m # n
  BY Routers
<1> HIDE DEF p
<1>3. nbr[n].state \in AtLeastExchange
  BY <1>1 DEF CoreInv, AloneInv
<1>4. \A k \in Key : out'[n][k] = 0 /\ out'[m][k] = out[m][k]
  BY <1>1, <1>2, NoLsaIs DEF AlwaysInv, DatabaseInv
<1>5. link'[n] = link[n] /\ Puts(link[m], link'[m], <<p>>)
  BY <1>1, SendsIs DEF AlwaysInv
<1>6. link[n] \in Seq(AnyPacket)
  BY DEF AlwaysInv, LinkInv
<1>7. PlainLink(n) /\ KeepsDDs(link[n], link'[n]) /\ \A k \in Key : Wanted(link'[n], k) => Wanted(link[n], k)
  BY <1>5, <1>6, PlainStay, DDsStay
<1>8. ASSUME NEW k \in Key, Owner(k) = n
      PROVE  /\ p.lsas[k] \in Nat /\ p.lsas[k] <= db[n][k]
             /\ KeyOk(k, nbr[n].state, nbr[n].summary[k], p.lsas[k], db[n][k], db[m][k],
                      nbr[m].req[k], link[m], link[n])
  <2>1. out[n][k] \in Nat /\ out[n][k] <= db[n][k]
    BY <1>8, KeyBounds DEF Bounded
  <2> QED BY <1>1, <1>8, <2>1 DEF CoreInv, KeyInv
<1> QED BY <1>1, <1>3, <1>4, <1>5, <1>7, <1>8, UpdateSent

LEMMA ReceiveRequestCore ==
    ASSUME Configured, AlwaysInv, CoreInv, NEW n \in Router, ReceiveRequest(n), AlwaysInv'
    PROVE  CoreInv'
<1> DEFINE p == Head(link[n])
           m == Other(n)
<1>1. /\ link[n] # << >> /\ p \in AnyPacket /\ p.type = "request" /\ p = link[n][1]
      /\ PacketOk(n, p, db)
      /\ UNCHANGED <<lost, delayed, nbr, db, rlsaDue, failed>>
      /\ \/ /\ nbr[n].state \notin AtLeastExchange /\ Takes(n, << >>) /\ out' = out
         \/ /\ nbr[n].state \in AtLeastExchange
            /\ \E l : /\ Queued(n, p, l)
                      /\ \/ /\ delayed /\ Takes(n, << >>) /\ out' = [out EXCEPT ![n] = l]
                         \/ /\ ~delayed /\ Takes(n, <<[type |-> "update", lsas |-> l]>>)
                            /\ out' = [out EXCEPT ![n] = NoLsa]
  BY ReceiveRequestIs
<1> HIDE DEF p
<1>2. m \in Router /\ m # n /\ Other(m) = n /\ \A x \in Router : x = n \/ x = m
  BY Routers
<1>3. link[n] \in Seq(AnyPacket) /\ link[m] \in Seq(AnyPacket) /\ out \in [Router -> Lsas]
  BY <1>2 DEF AlwaysInv, LinkInv, DatabaseInv
<1>4. 1 \in DOMAIN link[n]
  BY <1>1, <1>3, Pulled
<1>5. link[n][1].type = "request" /\ \A k \in Key : ~Matters(link[n][1], k)
  BY <1>1 DEF Matters, Describes, Updates
<1>6. ASSUME Pulls(link[n], link'[n])
      PROVE  /\ PlainLink(n) /\ KeepsDDs(link[n], link'[n])
             /\ \A k \in Key : Wanted(link'[n], k) => Wanted(link[n], k)
  BY <1>3, <1>4, <1>5, <1>6, PlainPull, AfterPull
<1>7. ASSUME Takes(n, << >>)
      PROVE  /\ Pulls(link[n], link'[n]) /\ PlainLink(m) /\ KeepsDDs(link[m], link'[m])
             /\ \A k \in Key : Wanted(link'[m], k) => Wanted(link[m], k)
  <2> DEFINE none == << >>
  <2>1. none \in Seq(AnyPacket) /\ Takes(n, none)
    BY <1>7, NoPacket
  <2> HIDE DEF none
  <2>2. Pulls(link[n], link'[n]) /\ Puts(link[m], link'[m], none)
    BY <1>1, <2>1, TakesIs DEF AlwaysInv
  <2>3. Puts(link[m], link'[m], << >>)
    BY <2>2 DEF none
  <2> QED BY <1>3, <2>2, <2>3, PlainNothing, NothingPut
<1>8. ExchangeInv' \/ ~Takes(n, << >>)
  BY <1>1, <1>2, <1>6, <1>7, ExchangeKept DEF CoreInv, Alike
<1>9. CASE Takes(n, << >>) /\ out' = out
  BY <1>1, <1>2, <1>6, <1>7, <1>8, <1>9, PlainStep DEF AlwaysInv
<1>10. ASSUME NEW k \in Key, Owner(k) = n, NEW l, Queued(n, p, l)
       PROVE  /\ l[k] \in Nat /\ l[k] <= db[n][k]
              /\ KeyOk(k, nbr[n].state, nbr[n].summary[k], l[k], db[n][k], db[m][k],
                       nbr[m].req[k], link[m], link[n])
  <2>1. Bounded(k, nbr[n].summary[k], out[n][k], db[n][k], db[m][k], nbr[m].req[k], link[m])
    BY <1>10, KeyBounds
  <2>2. KeyOk(k, nbr[n].state, nbr[n].summary[k], out[n][k], db[n][k], db[m][k],
                       nbr[m].req[k], link[m], link[n])
    BY <1>10 DEF CoreInv, KeyInv
  <2>3. CASE k \in p.keys
    <3>1. l[k] = db[n][k] /\ db[n][k] > 0 /\ db[n][k] \in Nat
      BY <1>1, <1>10, <2>1, <2>3 DEF Queued, PacketOk, Bounded
    <3>2. Wanted(link[n], k)
      BY <1>1, <1>4, <2>3 DEF Wanted
    <3> HIDE DEF m
    <3>3. KeyOk(k, nbr[n].state, nbr[n].summary[k], db[n][k], db[n][k], db[m][k],
                       nbr[m].req[k], link[m], link[n])
      BY <2>1, <2>2, <3>1, <3>2, KeyQueued
    <3>4. db[n][k] <= db[n][k]
      BY <3>1
    <3> QED BY <3>1, <3>3, <3>4
  <2>4. CASE k \notin p.keys
    <3>1. l[k] = out[n][k]
      BY <1>10, <2>4 DEF Queued
    <3> QED BY <2>1, <2>2, <3>1 DEF Bounded
  <2> QED BY <2>3, <2>4
<1>11. ASSUME nbr[n].state \in AtLeastExchange, NEW l, Queued(n, p, l),
              Takes(n, << >>), out' = [out EXCEPT ![n] = l]
       PROVE  CoreInv'
  <2> HIDE DEF m
  <2>1. out'[n] = l /\ out'[m] = out[m]
    BY <1>2, <1>3, <1>11 DEF Queued
  <2>2. /\ Pulls(link[n], link'[n]) /\ PlainLink(n) /\ PlainLink(m)
        /\ \A k \in Key : Wanted(link'[n], k) => Wanted(link[n], k)
        /\ \A k \in Key : Wanted(link'[m], k) => Wanted(link[m], k)
    BY <1>6, <1>7, <1>11
  <2>3. ExchangeInv' /\ HelloInv' /\ UpdateInv' /\ ~failed'
    <3>1. \A x \in Router : /\ nbr'[x] = nbr[x] /\ PlainLink(x)
      BY <1>1, <1>2, <2>2
    <3>2. HelloInv'
      BY <3>1, HelloKept DEF CoreInv, PlainLink
    <3>3. UpdateInv'
      BY <3>1, UpdateKept DEF CoreInv, PlainLink
    <3> QED BY <1>1, <1>8, <1>11, <3>2, <3>3 DEF CoreInv
  <2>4. AloneInv'
    BY <1>1, <1>2, <1>11, <2>1 DEF CoreInv, AloneInv
  <2>5. /\ link'[n] \in Seq(AnyPacket) /\ link'[m] \in Seq(AnyPacket)
    BY <1>2 DEF AlwaysInv, LinkInv
  <2>6. ASSUME NEW k \in Key, Owner(k) = n
        PROVE  KeyInv(k)'
    <3>1. Bounded(k, nbr[n].summary[k], out[n][k], db[n][k], db[m][k], nbr[m].req[k], link[m])
      BY <2>6, KeyBounds DEF m
    <3>2. /\ l[k] \in Nat /\ l[k] <= db[n][k]
          /\ KeyOk(k, nbr[n].state, nbr[n].summary[k], l[k], db[n][k], db[m][k],
                   nbr[m].req[k], link[m], link[n])
      BY <1>10, <1>11, <2>6
    <3>3. Bounded(k, nbr[n].summary[k], l[k], db[n][k], db[m][k], nbr[m].req[k], link[m])
      BY <3>1, <3>2 DEF Bounded
    <3>4. SameFor(k, link[m], link'[m]) /\ (Wanted(link'[n], k) => Wanted(link[n], k))
      BY <2>2 DEF PlainLink
    <3>5. KeyOk(k, nbr[n].state, nbr[n].summary[k], l[k], db[n][k], db[m][k],
                nbr[m].req[k], link'[m], link'[n])
      BY <2>5, <3>2, <3>3, <3>4, KeySame
    <3>6. KeyOk(k, nbr'[n].state, nbr'[n].summary[k], out'[n][k], db'[n][k], db'[m][k],
                nbr'[m].req[k], link'[m], link'[n])
      BY <1>1, <2>1, <3>5
    <3> QED BY <1>1, <2>6, <3>6, KeyPrimed DEF m
  <2>7. ASSUME NEW k \in Key, Owner(k) = m
        PROVE  KeyInv(k)'
    <3>1. Bounded(k, nbr[m].summary[k], out[m][k], db[m][k], db[n][k], nbr[n].req[k], link[n])
      BY <1>2, <2>7, KeyBounds
    <3>2. KeyOk(k, nbr[m].state, nbr[m].summary[k], out[m][k], db[m][k], db[n][k],
                   nbr[n].req[k], link[n], link[m])
      BY <1>2, <2>7 DEF CoreInv, KeyInv
    <3>3. SameFor(k, link[n], link'[n]) /\ (Wanted(link'[m], k) => Wanted(link[m], k))
      BY <2>2 DEF PlainLink
    <3>4. KeyOk(k, nbr[m].state, nbr[m].summary[k], out[m][k], db[m][k], db[n][k],
                   nbr[n].req[k], link'[n], link'[m])
      BY <2>5, <3>1, <3>2, <3>3, KeySame
    <3>5. KeyOk(k, nbr'[m].state, nbr'[m].summary[k], out'[m][k], db'[m][k], db'[n][k],
                nbr'[n].req[k], link'[n], link'[m])
      BY <1>1, <2>1, <3>4
    <3> QED BY <1>1, <1>2, <2>7, <3>5, KeyPrimed
  <2>8. \A k \in Key : KeyInv(k)'
    BY <1>2, <2>6, <2>7, Owners
  <2> QED BY <2>3, <2>4, <2>8 DEF CoreInv
<1>12. ASSUME nbr[n].state \in AtLeastExchange, NEW l, Queued(n, p, l),
              Takes(n, <<[type |-> "update", lsas |-> l]>>), out' = [out EXCEPT ![n] = NoLsa]
       PROVE  CoreInv'
  <2> DEFINE u == [type |-> "update", lsas |-> l]
  <2>1. l \in Lsas /\ \A k \in Key : l[k] <= db[Owner(k)][k] /\ (Owner(k) # n => l[k] = 0)
    BY <1>1, <1>12, QueuedIs DEF AlwaysInv
  <2>2. /\ u \in AnyPacket /\ u.type = "update" /\ u.lsas = l
        /\ <<u>> \in Seq(AnyPacket) /\ DOMAIN <<u>> = {1} /\ <<u>>[1] = u
    BY <2>1, UpdateIs DEF AlwaysInv
  <2>3. Takes(n, <<u>>)
    BY <1>12
  <2> HIDE DEF u
  <2>4. Pulls(link[n], link'[n]) /\ Puts(link[m], link'[m], <<u>>)
    BY <1>1, <2>2, <2>3, TakesIs DEF AlwaysInv
  <2>5. \A k \in Key : out'[n][k] = 0 /\ out'[m][k] = out[m][k]
    BY <1>2, <1>3, <1>12, NoLsaIs
  <2>6. /\ PlainLink(n) /\ KeepsDDs(link[n], link'[n])
        /\ \A k \in Key : Wanted(link'[n], k) => Wanted(link[n], k)
    BY <1>6, <2>4
  <2>7. ASSUME NEW k \in Key, Owner(k) = n
        PROVE  /\ u.lsas[k] \in Nat /\ u.lsas[k] <= db[n][k]
               /\ KeyOk(k, nbr[n].state, nbr[n].summary[k], u.lsas[k], db[n][k], db[m][k],
                        nbr[m].req[k], link[m], link[n])
    BY <1>10, <1>12, <2>2, <2>7
  <2> QED BY <1>1, <1>12, <2>2, <2>4, <2>5, <2>6, <2>7, UpdateSent
<1> QED BY <1>1, <1>9, <1>11, <1>12

\* The hellos of s2 were in s.
SameHellos(s, s2) ==
    \A i \in DOMAIN s2 : s2[i].type = "hello" => \E j \in DOMAIN s : s2[i] = s[j]

\* Requests of a router put at the end of s.
LEMMA RequestsPut ==
    ASSUME NEW s \in Seq(AnyPacket), NEW s2, NEW packets, NEW q, Puts(s, s2, packets),
           \A j \in DOMAIN packets : IsRequest(packets[j], q)
    PROVE  /\ KeepsDDs(s, s2) /\ (InOrder(s) => InOrder(s2))
           /\ \A k \in Key : /\ SameFor(k, s, s2)
                             /\ Wanted(s2, k) => Wanted(s, k) \/ q.req[k] > 0
           /\ SameHellos(s, s2)
<1>1. \A j \in DOMAIN packets : packets[j].type = "request" /\ packets[j].keys = Keys(q.req)
  BY DEF IsRequest
<1>2. \A k : \A j \in DOMAIN packets : ~Matters(packets[j], k)
  BY <1>1 DEF Matters, Describes, Updates
<1>3. \A k \in Key : Wanted(packets, k) => q.req[k] > 0
  BY <1>1, KeysIs DEF Wanted
<1>4. \A i \in DOMAIN s2 : \/ \E j \in DOMAIN s : s2[i] = s[j]
                           \/ \E j \in DOMAIN packets : s2[i] = packets[j]
  BY AfterPut
<1>5. SameHellos(s, s2)
  BY <1>1, <1>4 DEF SameHellos
<1>6. (\A j \in DOMAIN packets : packets[j].type # "dd") /\ (\A j \in DOMAIN packets : packets[j].type # "update")
  BY <1>1
<1>7. KeepsDDs(s, s2) /\ (InOrder(s) => InOrder(s2))
  BY <1>6, AfterPut
<1>8. \A k : SameFor(k, s, s2) /\ (Wanted(s2, k) => Wanted(s, k) \/ Wanted(packets, k))
  BY <1>2, AfterPut
<1> QED BY <1>3, <1>5, <1>7, <1>8

LEMMA ReceiveUpdateCore ==
    ASSUME Configured, AlwaysInv, CoreInv, NEW n \in Router, ReceiveUpdate(n), AlwaysInv'
    PROVE  CoreInv'
<1> DEFINE p == Head(link[n])
           m == Other(n)
<1>1. /\ link[n] # << >> /\ p \in AnyPacket /\ p.type = "update" /\ p = link[n][1]
      /\ PacketOk(n, p, db)
      /\ UNCHANGED <<lost, delayed, out>>
      /\ \/ nbr[n].state \notin AtLeastExchange
         \/ \E k \in Key : p.lsas[k] > 0 /\ db[n][k] = p.lsas[k] /\ nbr[n].req[k] > 0
         \/ /\ failed' = failed
            /\ \E taken, q, packets :
                 /\ Installs(n, p, taken, q, packets) /\ Takes(n, packets)
                 /\ nbr' = [nbr EXCEPT ![n] = q] /\ rlsaDue' \in [Router -> BOOLEAN]
  BY ReceiveUpdateIs
<1> HIDE DEF p
<1>2. m \in Router /\ m # n /\ Other(m) = n /\ \A x \in Router : x = n \/ x = m
  BY Routers
<1>3. /\ link[n] \in Seq(AnyPacket) /\ link[m] \in Seq(AnyPacket)
      /\ link'[n] \in Seq(AnyPacket) /\ link'[m] \in Seq(AnyPacket) /\ nbr \in [Router -> Neighbour]
  BY <1>2 DEF AlwaysInv, LinkInv, RecordInv
<1>4. 1 \in DOMAIN link[n] /\ \A i \in DOMAIN link[n] : i \in Nat \ {0}
  BY <1>1, <1>3, Pulled, Positions
<1>5. CASE nbr[n].state \notin AtLeastExchange
  <2>1. InOrder(link[n])
    BY <1>5 DEF CoreInv, UpdateInv
  <2>2. \E j \in DOMAIN link[n] : j < 1
    BY <1>1, <1>4, <2>1 DEF InOrder
  <2> QED BY <1>4, <2>2
<1>6. CASE \E k \in Key : p.lsas[k] > 0 /\ db[n][k] = p.lsas[k] /\ nbr[n].req[k] > 0
  <2>1. PICK k \in Key : p.lsas[k] > 0 /\ db[n][k] = p.lsas[k] /\ nbr[n].req[k] > 0
    BY <1>6
  <2>2. p.lsas[k] \in Nat
    BY <1>1, Fields, LsasAt
  <2>3. Owner(k) = m
    BY <1>1, <1>2, <2>1, <2>2, Owners DEF PacketOk
  <2>4. Updates(link[n][1], k)
    BY <1>1, <2>1 DEF Updates
  <2>5. KeyInv(k)
    BY DEF CoreInv
  <2>6. db[n][k] < link[n][1].lsas[k]
    BY <1>2, <1>4, <2>1, <2>3, <2>4, <2>5 DEF KeyInv, KeyOk, FreshOk
  <2> QED BY <1>1, <2>1, <2>2, <2>6
<1>7. ASSUME failed' = failed, NEW taken, NEW q, NEW packets, Installs(n, p, taken, q, packets),
             Takes(n, packets), nbr' = [nbr EXCEPT ![n] = q]
      PROVE  CoreInv'
  <2>1. /\ nbr[n].state \in AtLeastExchange /\ taken \in SUBSET Key
        /\ \A x \in Router : x # n => db'[x] = db[x]
        /\ packets \in Seq(AnyPacket) /\ \A j \in DOMAIN packets : IsRequest(packets[j], q)
        /\ q.state = nbr[n].state \/ (q.state = "Full" /\ nbr[n].state = "Loading" /\ Keys(q.req) = {})
        /\ \A k \in Key : q.req[k] =
             IF k \in taken /\ nbr[n].state # "Full" /\ p.lsas[k] >= nbr[n].req[k] THEN 0 ELSE nbr[n].req[k]
        /\ Alike(nbr[n], q)
    BY <1>7 DEF Installs, Alike
  <2>2. nbr'[n] = q /\ nbr'[m] = nbr[m] /\ db'[m] = db[m]
    BY <1>2, <1>3, <1>7, <2>1
  <2>3. Pulls(link[n], link'[n]) /\ Puts(link[m], link'[m], packets)
    BY <1>1, <1>7, <2>1, TakesIs DEF AlwaysInv
  <2>4. \A k \in taken : Owner(k) = m
    BY <1>1, <1>7, InstallsOk
  <2> HIDE DEF m
  <2>5. /\ KeepsDDs(link[m], link'[m]) /\ (InOrder(link[m]) => InOrder(link'[m]))
        /\ \A k \in Key : /\ SameFor(k, link[m], link'[m])
                          /\ Wanted(link'[m], k) => Wanted(link[m], k) \/ q.req[k] > 0
        /\ SameHellos(link[m], link'[m])
    <3> DEFINE s == link[m]
               s2 == link'[m]
    <3>1. \A j \in DOMAIN packets : IsRequest(packets[j], q)
      BY <2>1
    <3>2. s \in Seq(AnyPacket) /\ Puts(s, s2, packets)
      BY <1>3, <2>3
    <3> HIDE DEF s, s2
    <3>3. KeepsDDs(s, s2) /\ (InOrder(s) => InOrder(s2))
      BY <3>1, <3>2, RequestsPut
    <3>4. \A k \in Key : SameFor(k, s, s2) /\ (Wanted(s2, k) => Wanted(s, k) \/ q.req[k] > 0)
      BY <3>1, <3>2, RequestsPut
    <3>5. SameHellos(s, s2)
      BY <3>1, <3>2, RequestsPut
    <3> QED BY <3>3, <3>4, <3>5 DEF s, s2
  <2>6. /\ KeepsDDs(link[n], link'[n])
        /\ \A k : Wanted(link'[n], k) => Wanted(link[n], k)
        /\ \A i \in DOMAIN link'[n] : \E j \in DOMAIN link[n] : link'[n][i] = link[n][j]
    BY <1>1, <1>3, <1>4, <2>3, AfterPull
  <2>7. q.state \in AtLeastExchange
    BY <2>1 DEF AtLeastExchange
  <2>8. ExchangeInv'
    <3>1. Alike(nbr[m], nbr'[m])
      BY <2>2 DEF Alike
    <3> QED BY <1>2, <2>1, <2>2, <2>5, <2>6, <3>1, ExchangeKept DEF CoreInv
  <2>9. HelloInv'
    <3>1. q.state # "DOWN"
      BY <2>7 DEF AtLeastExchange
    <3> QED BY <1>2, <2>2, <2>5, <2>6, <3>1, HelloKept DEF CoreInv, SameHellos
  <2>10. UpdateInv'
    BY <1>2, <2>2, <2>5, <2>7, UpdateKept DEF CoreInv
  <2>11. AloneInv'
    <3>1. ASSUME NEW k \in Key
          PROVE  (q.req[k] > 0 => q.state \in {"Exchange", "Loading"}) /\ (out[n][k] > 0 => q.state \in AtLeastExchange)
      <4>1. q.req[k] > 0 => nbr[n].req[k] > 0
        BY <2>1
      <4>2. Keys(q.req) = {} => ~(q.req[k] > 0)
        BY KeysIs
      <4> QED BY <2>1, <2>7, <4>1, <4>2 DEF CoreInv, AloneInv
    <3> QED BY <1>1, <1>2, <2>2, <3>1 DEF CoreInv, AloneInv
  <2>12. ASSUME NEW k \in Key, Owner(k) = m
         PROVE  KeyInv(k)'
    <3> DEFINE has2 == db'[n][k]
               req2 == q.req[k]
    <3>1. Bounded(k, nbr[m].summary[k], out[m][k], db[m][k], db[n][k], nbr[n].req[k], link[n])
      BY <1>2, <2>12, KeyBounds
    <3>2. KeyOk(k, nbr[m].state, nbr[m].summary[k], out[m][k], db[m][k], db[n][k], nbr[n].req[k],
                link[n], link[m])
      BY <1>2, <2>12 DEF CoreInv, KeyInv
    <3>3. /\ k \in taken => p.lsas[k] > 0
          /\ delayed /\ k \notin taken /\ p.lsas[k] > 0 => db[n][k] = p.lsas[k]
          /\ has2 = IF k \in taken THEN p.lsas[k] ELSE db[n][k]
      BY <1>7 DEF Installs
    <3>4. req2 = IF k \in taken /\ p.lsas[k] >= nbr[n].req[k] THEN 0 ELSE nbr[n].req[k]
      <4>1. nbr[n].state = "Full" => nbr[n].req[k] = 0
        <5>1. nbr[n].req[k] \in Nat
          BY <3>1 DEF Bounded
        <5> QED BY <5>1 DEF CoreInv, AloneInv
      <4> QED BY <2>1, <4>1
    <3>5. Wanted(link'[m], k) => Wanted(link[m], k) \/ req2 > 0
      BY <2>5
    <3> HIDE DEF has2, req2
    <3>6. KeyOk(k, nbr[m].state, nbr[m].summary[k], out[m][k], db[m][k], has2, req2, link'[n], link'[m])
      <4>1. link[n][1].type = "update" /\ Pulls(link[n], link'[n])
        BY <1>1, <2>3
      <4> DEFINE s == link[n]
                 s2 == link'[n]
                 t == link[m]
                 t2 == link'[m]
                 st == nbr[m].state
                 sum == nbr[m].summary[k]
                 ou == out[m][k]
                 own == db[m][k]
                 has == db[n][k]
                 req == nbr[n].req[k]
      <4>2. 1 \in DOMAIN s /\ s[1].type = "update" /\ Pulls(s, s2)
        BY <1>4, <4>1
      <4>3. Bounded(k, sum, ou, own, has, req, s) /\ KeyOk(k, st, sum, ou, own, has, req, s, t)
        BY <3>1, <3>2
      <4>4. /\ k \in taken => s[1].lsas[k] > 0
            /\ delayed /\ k \notin taken /\ s[1].lsas[k] > 0 => has = s[1].lsas[k]
            /\ has2 = IF k \in taken THEN s[1].lsas[k] ELSE has
            /\ req2 = IF k \in taken /\ s[1].lsas[k] >= req THEN 0 ELSE req
        BY <1>1, <3>3, <3>4
      <4>5. Wanted(t2, k) => Wanted(t, k) \/ req2 > 0
        BY <3>5
      <4> HIDE DEF s, s2, t, t2, st, sum, ou, own, has, req
      <4>6. KeyOk(k, st, sum, ou, own, has2, req2, s2, t2)
        BY <4>2, <4>3, <4>4, <4>5, KeyUpdated
      <4> QED BY <4>6 DEF s2, t2, st, sum, ou, own
    <3>7. KeyOk(k, nbr'[m].state, nbr'[m].summary[k], out'[m][k], db'[m][k], db'[n][k], nbr'[n].req[k],
                link'[n], link'[m])
      BY <1>1, <2>2, <3>6 DEF has2, req2
    <3> QED BY <1>1, <1>2, <2>12, <3>7, KeyPrimed
  <2>13. ASSUME NEW k \in Key, Owner(k) = n
         PROVE  KeyInv(k)'
    <3>1. Bounded(k, nbr[n].summary[k], out[n][k], db[n][k], db[m][k], nbr[m].req[k], link[m])
      BY <2>13, KeyBounds DEF m
    <3>2. KeyOk(k, nbr[n].state, nbr[n].summary[k], out[n][k], db[n][k], db[m][k], nbr[m].req[k],
                link[m], link[n])
      BY <2>13 DEF CoreInv, KeyInv, m
    <3>3. k \notin taken
      BY <1>2, <2>4, <2>13
    <3>4. q.summary[k] = nbr[n].summary[k] /\ db'[n][k] = db[n][k]
      BY <1>7, <3>3 DEF Installs
    <3>5. SameFor(k, link[m], link'[m]) /\ (Wanted(link'[n], k) => Wanted(link[n], k))
      BY <2>5, <2>6
    <3>6. KeyOk(k, q.state, nbr[n].summary[k], out[n][k], db[n][k], db[m][k], nbr[m].req[k],
                link'[m], link'[n])
      BY <1>3, <2>1, <2>7, <3>1, <3>2, <3>5, KeySame
    <3>7. KeyOk(k, nbr'[n].state, nbr'[n].summary[k], out'[n][k], db'[n][k], db'[m][k], nbr'[m].req[k],
                link'[m], link'[n])
      BY <1>1, <2>2, <3>4, <3>6
    <3> QED BY <1>1, <2>13, <3>7, KeyPrimed DEF m
  <2>14. \A k \in Key : KeyInv(k)'
    BY <1>2, <2>12, <2>13, Owners
  <2> QED BY <1>7, <2>8, <2>9, <2>10, <2>11, <2>14 DEF CoreInv
<1> QED BY <1>1, <1>5, <1>6, <1>7

\* The packets hold the part S of the summaries of r, empty descriptions and
\* requests.
Packed(r, q, packets, S) ==
    /\ S \in SUBSET Key /\ Tells(r, q, S)
    /\ \A j \in DOMAIN packets :
          \/ IsRequest(packets[j], q)
          \/ /\ packets[j].type = "dd"
             /\ \A k \in Key : packets[j].lsas[k] = 0 \/ (k \in S /\ packets[j].lsas[k] = r.summary[k])
    /\ \A k \in S : \E j \in DOMAIN packets : packets[j].type = "dd" /\ packets[j].lsas[k] = r.summary[k]

LEMMA PackedIs ==
    ASSUME NEW n, NEW r, NEW dd, NEW q, NEW packets, Processed(n, r, dd, q, packets)
    PROVE  /\ q.state \in AtLeastExchange /\ \E S \in SUBSET Key : Packed(r, q, packets, S)
<1>1. CASE MasterEnds(r, dd, q, packets)
  <2>1. Packed(r, q, packets, {})
    BY <1>1 DEF MasterEnds, Packed
  <2> QED BY <1>1, <2>1 DEF MasterEnds, AtLeastExchange
<1>2. ASSUME q.state \in AtLeastExchange, 1 \in DOMAIN packets,
             \A j \in DOMAIN packets : j # 1 => IsRequest(packets[j], q),
             NEW S \in SUBSET Key, Tells(r, q, S), IsPart(packets[1], r, q, S)
      PROVE  Packed(r, q, packets, S)
  <2>1. packets[1].type = "dd" /\ \A k \in Key : packets[1].lsas[k] = IF k \in S THEN r.summary[k] ELSE 0
    BY <1>2 DEF IsPart
  <2> QED BY <1>2, <2>1 DEF Packed
<1>3. CASE MasterGoesOn(r, dd, q, packets)
  <2>1. /\ q.state \in AtLeastExchange /\ 1 \in DOMAIN packets
        /\ \A j \in DOMAIN packets : j # 1 => IsRequest(packets[j], q)
        /\ \E S \in SUBSET Key : Tells(r, q, S) /\ IsPart(packets[1], r, q, S)
    BY <1>3 DEF MasterGoesOn, AtLeastExchange
  <2> QED BY <1>2, <2>1
<1>4. CASE SlaveAnswers(r, dd, q, packets)
  <2>1. /\ q.state \in AtLeastExchange /\ 1 \in DOMAIN packets
        /\ \A j \in DOMAIN packets : j # 1 => IsRequest(packets[j], q)
        /\ \E S \in SUBSET Key : Tells(r, q, S) /\ IsPart(packets[1], r, q, S)
    BY <1>4 DEF SlaveAnswers
  <2> QED BY <1>2, <2>1
<1> QED BY <1>1, <1>3, <1>4 DEF Processed

\* First descriptions come before them.
LEMMA PackedAfter ==
    ASSUME NEW r, NEW q, NEW rest \in Seq(AnyPacket), NEW S, Packed(r, q, rest, S),
           NEW g \in Seq(AnyPacket), AllFirst(g), \A j \in DOMAIN g : g[j].type = "dd"
    PROVE  Packed(r, q, g \o rest, S)
<1> DEFINE packets == g \o rest
<1>1. Puts(g, packets, rest)
  BY Appended
<1> HIDE DEF packets
<1>2. /\ \A j \in DOMAIN packets : \/ \E i \in DOMAIN g : packets[j] = g[i]
                                   \/ \E i \in DOMAIN rest : packets[j] = rest[i]
      /\ \A i \in DOMAIN rest : \E j \in DOMAIN packets : packets[j] = rest[i]
  BY <1>1 DEF Puts
<1>3. \A i \in DOMAIN g : g[i].type = "dd" /\ \A k \in Key : g[i].lsas[k] = 0
  BY DEF AllFirst, IsFirst
<1>4. \A j \in DOMAIN packets :
          \/ IsRequest(packets[j], q)
          \/ /\ packets[j].type = "dd"
             /\ \A k \in Key : packets[j].lsas[k] = 0 \/ (k \in S /\ packets[j].lsas[k] = r.summary[k])
  BY <1>2, <1>3 DEF Packed
<1>5. \A k \in S : \E j \in DOMAIN packets : packets[j].type = "dd" /\ packets[j].lsas[k] = r.summary[k]
  <2>1. ASSUME NEW k \in S
        PROVE  \E j \in DOMAIN packets : packets[j].type = "dd" /\ packets[j].lsas[k] = r.summary[k]
    <3>1. PICK i \in DOMAIN rest : rest[i].type = "dd" /\ rest[i].lsas[k] = r.summary[k]
      BY <2>1 DEF Packed
    <3> QED BY <1>2, <3>1
  <2> QED BY <2>1
<1> QED BY <1>4, <1>5 DEF Packed, packets

\* n takes the description dd off the link and sends packets.
Received(n, dd, q, packets) ==
    /\ dd \in DD /\ link[n] \in Seq(AnyPacket) /\ link[Other(n)] \in Seq(AnyPacket)
    /\ 1 \in DOMAIN link[n] /\ dd = link[n][1]
    /\ Pulls(link[n], link'[n]) /\ Puts(link[Other(n)], link'[Other(n)], packets)
    /\ nbr'[n] = q /\ nbr'[Other(n)] = nbr[Other(n)]
    /\ UNCHANGED <<delayed, db, out, failed>>

\* It is read, and a part of the summaries is told.
LEMMA ProceedCore ==
    ASSUME Configured, AlwaysInv, CoreInv, AlwaysInv', NEW n \in Router, NEW dd, NEW q, NEW packets,
           Received(n, dd, q, packets), NEW r, NEW S, Packed(r, q, packets, S), Reads(n, r, q, dd),
           q.state \in AtLeastExchange, \A k \in Key : q.req[k] > 0 => q.state \in {"Exchange", "Loading"},
           r.req = nbr[n].req,
           \A k \in Key : Owner(k) = n =>
               r.summary[k] = IF nbr[n].state \in AtLeastExchange THEN nbr[n].summary[k] ELSE db[n][k],
           Quiet(link'[n]), ExchangeInv'
    PROVE  CoreInv'
<1> DEFINE m == Other(n)
<1>1. m \in Router /\ m # n /\ Other(m) = n /\ \A x \in Router : x = n \/ x = m
  BY Routers
<1>2. /\ dd \in DD /\ link[n] \in Seq(AnyPacket) /\ link[m] \in Seq(AnyPacket)
      /\ 1 \in DOMAIN link[n] /\ dd = link[n][1]
      /\ Pulls(link[n], link'[n]) /\ Puts(link[m], link'[m], packets)
      /\ nbr'[n] = q /\ nbr'[m] = nbr[m]
      /\ UNCHANGED <<delayed, db, out, failed>>
  BY DEF Received
<1> HIDE DEF m
<1>3. \A j \in DOMAIN packets : packets[j].type \in {"dd", "request"}
  BY DEF Packed, IsRequest
<1>4. /\ \A k : Wanted(link'[m], k) => Wanted(link[m], k) \/ Wanted(packets, k)
      /\ \A i \in DOMAIN link'[m] : \/ \E j \in DOMAIN link[m] : link'[m][i] = link[m][j]
                                    \/ \E j \in DOMAIN packets : link'[m][i] = packets[j]
  <2> DEFINE t == link[m]
             t2 == link'[m]
  <2>1. t \in Seq(AnyPacket) /\ Puts(t, t2, packets)
    BY <1>2
  <2> HIDE DEF t, t2
  <2>2. \A k : Wanted(t2, k) => Wanted(t, k) \/ Wanted(packets, k)
    BY <2>1, AfterPut
  <2>3. \A i \in DOMAIN t2 : (\E j \in DOMAIN t : t2[i] = t[j]) \/ \E j \in DOMAIN packets : t2[i] = packets[j]
    BY <2>1, AfterPut
  <2> QED BY <2>2, <2>3 DEF t, t2
<1>5. InOrder(link[m]) => InOrder(link'[m])
  <2>1. \A j \in DOMAIN packets : packets[j].type # "update"
    BY <1>3
  <2> QED BY <1>2, <2>1, AfterPut
<1>6. /\ \A k : Wanted(link'[n], k) => Wanted(link[n], k)
      /\ \A i \in DOMAIN link'[n] : \E j \in DOMAIN link[n] : link'[n][i] = link[n][j]
  BY <1>2, AfterPull
<1>7. q.state # "DOWN"
  BY DEF AtLeastExchange
<1>8. HelloInv'
  <2>1. \A i \in DOMAIN link'[m] : link'[m][i].type = "hello" => \E j \in DOMAIN link[m] : link'[m][i] = link[m][j]
    BY <1>3, <1>4
  <2> QED BY <1>1, <1>2, <1>6, <1>7, <2>1, HelloKept DEF CoreInv
<1>9. UpdateInv'
  BY <1>1, <1>2, <1>5, UpdateKept DEF CoreInv
<1>10. AloneInv'
  BY <1>1, <1>2 DEF CoreInv, AloneInv
<1>11. ASSUME NEW k \in Key, Owner(k) = n
       PROVE  KeyInv(k)'
  <2> DEFINE b == r.summary[k]
             sum2 == q.summary[k]
  <2>1. Bounded(k, nbr[n].summary[k], out[n][k], db[n][k], db[m][k], nbr[m].req[k], link[m])
    BY <1>11, KeyBounds DEF m
  <2>2. KeyOk(k, nbr[n].state, nbr[n].summary[k], out[n][k], db[n][k], db[m][k], nbr[m].req[k], link[m], link[n])
    BY <1>11 DEF CoreInv, KeyInv, m
  <2>3. b = IF nbr[n].state \in AtLeastExchange THEN nbr[n].summary[k] ELSE db[n][k]
    BY <1>11
  <2>4. b \in Nat /\ b <= db[n][k]
    BY <2>1, <2>3 DEF Bounded
  <2>5. sum2 = IF k \in S THEN 0 ELSE b
    BY DEF Packed, Tells
  <2>6. sum2 \in Nat
    BY <2>4, <2>5
  <2>7. k \in S => \E j \in DOMAIN packets : packets[j].type = "dd" /\ packets[j].lsas[k] = b
    BY DEF Packed
  <2>8. \A j \in DOMAIN packets :
               /\ packets[j].type # "update"
               /\ packets[j].type = "dd" => packets[j].lsas[k] = 0 \/ (packets[j].lsas[k] = b /\ k \in S)
    BY <1>3 DEF Packed, IsRequest
  <2> HIDE DEF b, sum2
  <2>9. \A j \in DOMAIN packets :
               /\ packets[j].type # "update"
               /\ packets[j].type = "dd" => packets[j].lsas[k] = 0 \/ (packets[j].lsas[k] = b /\ sum2 = 0)
    BY <2>5, <2>8
  <2>10. sum2 = b \/ (sum2 = 0 /\ \E j \in DOMAIN packets : packets[j].type = "dd" /\ packets[j].lsas[k] = b)
    BY <2>5, <2>7
  <2>11. Wanted(link'[n], k) => Wanted(link[n], k)
    BY <1>6
  <2>12. KeyOk(k, q.state, sum2, out[n][k], db[n][k], db[m][k], nbr[m].req[k], link'[m], link'[n])
    BY <1>2, <2>1, <2>2, <2>3, <2>4, <2>6, <2>9, <2>10, <2>11, KeyTold
  <2>13. KeyOk(k, nbr'[n].state, nbr'[n].summary[k], out'[n][k], db'[n][k], db'[m][k], nbr'[m].req[k],
               link'[m], link'[n])
    BY <1>2, <2>12 DEF sum2
  <2> QED BY <1>2, <1>11, <2>13, KeyPrimed DEF m
<1>12. ASSUME NEW k \in Key, Owner(k) = m
       PROVE  KeyInv(k)'
  <2> DEFINE req2 == q.req[k]
  <2>1. Bounded(k, nbr[m].summary[k], out[m][k], db[m][k], db[n][k], nbr[n].req[k], link[n])
    BY <1>1, <1>12, KeyBounds
  <2>2. KeyOk(k, nbr[m].state, nbr[m].summary[k], out[m][k], db[m][k], db[n][k], nbr[n].req[k], link[n], link[m])
    BY <1>1, <1>12 DEF CoreInv, KeyInv
  <2>3. link[n][1].type = "dd"
    BY <1>2 DEF DD
  <2>4. req2 = IF link[n][1].lsas[k] > db[n][k] /\ nbr[n].req[k] = 0 THEN link[n][1].lsas[k] ELSE nbr[n].req[k]
    BY <1>2 DEF Reads
  <2>5. Wanted(packets, k) => req2 > 0
    BY KeysIs DEF Wanted, Packed, IsRequest
  <2> HIDE DEF req2
  <2>6. Wanted(link'[m], k) => Wanted(link[m], k) \/ req2 > 0
    BY <1>4, <2>5
  <2>7. KeyOk(k, nbr[m].state, nbr[m].summary[k], out[m][k], db[m][k], db[n][k], req2, link'[n], link'[m])
    <3> DEFINE s == link[n]
               s2 == link'[n]
               t == link[m]
               t2 == link'[m]
               st == nbr[m].state
               sum == nbr[m].summary[k]
               ou == out[m][k]
               own == db[m][k]
               has == db[n][k]
               req == nbr[n].req[k]
    <3>1. 1 \in DOMAIN s /\ s[1].type = "dd" /\ Pulls(s, s2) /\ Quiet(s2)
      BY <1>2, <2>3
    <3>2. Bounded(k, sum, ou, own, has, req, s) /\ KeyOk(k, st, sum, ou, own, has, req, s, t)
      BY <2>1, <2>2
    <3>3. req2 = IF s[1].lsas[k] > has /\ req = 0 THEN s[1].lsas[k] ELSE req
      BY <2>4
    <3>4. Wanted(t2, k) => Wanted(t, k) \/ req2 > 0
      BY <2>6
    <3> HIDE DEF s, s2, t, t2, st, sum, ou, own, has, req
    <3>5. KeyOk(k, st, sum, ou, own, has, req2, s2, t2)
      BY <3>1, <3>2, <3>3, <3>4, KeyRead
    <3> QED BY <3>5 DEF s2, t2, st, sum, ou, own, has
  <2>8. KeyOk(k, nbr'[m].state, nbr'[m].summary[k], out'[m][k], db'[m][k], db'[n][k], nbr'[n].req[k],
              link'[n], link'[m])
    BY <1>2, <2>7 DEF req2
  <2> QED BY <1>1, <1>2, <1>12, <2>8, KeyPrimed
<1>13. \A k \in Key : KeyInv(k)'
  BY <1>1, <1>11, <1>12, Owners
<1> QED BY <1>2, <1>8, <1>9, <1>10, <1>13 DEF CoreInv

LEMMA GreetingIs ==
    ASSUME Configured, AlwaysInv, NEW n \in Router, NEW dd \in DD, nbr[n].state \in {"Init", "ExStart"}
    PROVE  LET g == Greeting(n, dd)
               p == ExStartDD(Opened(n, dd))
           IN  /\ g \in Seq(AnyPacket) /\ AllFirst(g) /\ \A j \in DOMAIN g : g[j].type = "dd"
               /\ nbr[n].state = "ExStart" => g = << >>
               /\ nbr[n].state = "Init" => OnlyDD(g, p) /\ IsFirst(p) /\ p.seq = Opened(n, dd).seq
<1> DEFINE R == Opened(n, dd)
           p == ExStartDD(R)
           g == Greeting(n, dd)
<1>1. R \in Neighbour /\ g \in Seq(AnyPacket) /\ g = IF nbr[n].state = "Init" THEN <<p>> ELSE << >>
  BY OpenedIs DEF AlwaysInv, Greeting
<1>2. p \in AnyPacket /\ p.type = "dd" /\ IsFirst(p) /\ p.seq = R.seq
  BY <1>1, FirstIs DEF AlwaysInv, IsFirst
<1> HIDE DEF g, p, R
<1>3. CASE nbr[n].state = "Init"
  <2>1. DOMAIN <<p>> = {1} /\ <<p>>[1] = p /\ OnlyDD(<<p>>, p) /\ AllFirst(<<p>>)
    BY <1>2, FirstAlone
  <2>2. g = <<p>>
    BY <1>1, <1>3
  <2>3. \A j \in DOMAIN g : g[j].type = "dd"
    BY <1>2, <2>1, <2>2
  <2> QED BY <1>1, <1>2, <1>3, <2>1, <2>2, <2>3 DEF g, p, R
<1>4. CASE nbr[n].state = "ExStart"
  <2>1. g = << >> /\ DOMAIN g = {}
    BY <1>1, <1>4
  <2>2. AllFirst(g) /\ \A j \in DOMAIN g : g[j].type = "dd"
    BY <2>1 DEF AllFirst
  <2> QED BY <1>1, <1>4, <2>1, <2>2 DEF g, p, R
<1> QED BY <1>3, <1>4

\* A first description decides nothing for High: it stays in, or comes to, ExStart.
LEMMA OpenCore ==
    ASSUME Configured, AlwaysInv, CoreInv, AlwaysInv', NEW n \in Router, NEW dd, NEW q, NEW packets,
           Received(n, dd, q, packets), StaysOpen(n, dd, q, packets), IsFirst(dd), ExchangeInv'
    PROVE  CoreInv'
<1> DEFINE m == Other(n)
<1>1. m \in Router /\ m # n /\ Other(m) = n /\ \A x \in Router : x = n \/ x = m
  BY Routers
<1>2. /\ dd \in DD /\ link[n] \in Seq(AnyPacket) /\ link[m] \in Seq(AnyPacket)
      /\ 1 \in DOMAIN link[n] /\ dd = link[n][1]
      /\ Pulls(link[n], link'[n]) /\ Puts(link[m], link'[m], packets)
      /\ nbr'[n] = q /\ nbr'[m] = nbr[m]
      /\ UNCHANGED <<delayed, db, out, failed>>
  BY DEF Received
<1> HIDE DEF m
<1>3. /\ nbr[n].state \in {"Init", "ExStart"} /\ q = Opened(n, dd) /\ packets = Greeting(n, dd)
  BY DEF StaysOpen
<1>4. q.state = "ExStart" /\ q.summary = nbr[n].summary /\ q.req = nbr[n].req
  BY <1>2, <1>3, OpenedIs DEF AlwaysInv
<1>5. /\ packets \in Seq(AnyPacket) /\ AllFirst(packets) /\ \A j \in DOMAIN packets : packets[j].type = "dd"
  BY <1>2, <1>3, GreetingIs
<1>6. PlainLink(n)
  <2>1. link[n][1].init /\ \A k \in Key : ~Matters(link[n][1], k)
    BY <1>2 DEF IsFirst, Matters, Describes, Updates, DD
  <2> QED BY <1>2, <2>1, PlainPull
<1>7. PlainLink(m)
  <2>1. \A j \in DOMAIN packets :
              /\ packets[j].type # "update" /\ \A k \in Key : ~Matters(packets[j], k)
              /\ packets[j].type = "hello" /\ packets[j].listed => nbr[Other(m)].state # "DOWN"
              /\ packets[j].type = "request" =>
                   \A k \in Key : k \in packets[j].keys => nbr[Other(m)].req[k] > 0
    BY <1>5 DEF AllFirst, IsFirst, Matters, Describes, Updates
  <2> QED BY <1>2, <2>1, PlainPut
<1> QED BY <1>1, <1>2, <1>3, <1>4, <1>6, <1>7, PlainStep DEF AlwaysInv

\* What a router in ExStart reads and tells when the exchange begins.
LEMMA BeginsCore ==
    ASSUME Configured, AlwaysInv, CoreInv, AlwaysInv', NEW n \in Router, NEW dd, NEW q, NEW packets,
           Received(n, dd, q, packets), Begins(n, dd, q, packets), Quiet(link'[n]), ExchangeInv'
    PROVE  CoreInv'
<1> DEFINE r == Joined(n, dd)
           g == Greeting(n, dd)
<1>1. /\ nbr[n].state \in {"Init", "ExStart"}
      /\ \E rest : Processed(n, r, dd, q, rest) /\ packets = g \o rest
  BY DEF Begins
<1>2. PICK rest : Processed(n, r, dd, q, rest) /\ packets = g \o rest
  BY <1>1
<1>3. dd \in DD
  BY DEF Received
<1>4. g \in Seq(AnyPacket) /\ AllFirst(g) /\ \A j \in DOMAIN g : g[j].type = "dd"
  BY <1>1, <1>3, GreetingIs
<1>5. /\ r.req = nbr[n].req
      /\ \A k \in Key : r.summary[k] = IF nbr[n].summary[k] > db[n][k] THEN nbr[n].summary[k]
                                                                       ELSE db[n][k]
  BY <1>1, <1>3, JoinedIs DEF AlwaysInv
<1> HIDE DEF r, g
<1>6. PICK S \in SUBSET Key : Packed(r, q, rest, S)
  BY <1>2, PackedIs
<1>7. rest \in Seq(AnyPacket) /\ Reads(n, r, q, dd) /\ \A k \in Key : q.req[k] > 0 => q.state \in {"Exchange", "Loading"}
  BY <1>2 DEF Processed
<1>8. Packed(r, q, packets, S)
  BY <1>2, <1>4, <1>6, <1>7, PackedAfter
<1>9. q.state \in AtLeastExchange
  BY <1>2, PackedIs
<1>10. ASSUME NEW k \in Key, Owner(k) = n
       PROVE  r.summary[k] = IF nbr[n].state \in AtLeastExchange THEN nbr[n].summary[k] ELSE db[n][k]
  <2>1. Bounded(k, nbr[n].summary[k], out[n][k], db[n][k], db[Other(n)][k], nbr[Other(n)].req[k], link[Other(n)])
    BY <1>10, KeyBounds
  <2> QED BY <1>1, <1>5, <2>1 DEF Bounded, AtLeastExchange
<1> QED BY <1>5, <1>7, <1>8, <1>9, <1>10, ProceedCore

LEMMA GoesOnCore ==
    ASSUME Configured, AlwaysInv, CoreInv, AlwaysInv', NEW n \in Router, NEW dd, NEW q, NEW packets,
           Received(n, dd, q, packets), GoesOn(n, dd, q, packets), Quiet(link'[n]), ExchangeInv'
    PROVE  CoreInv'
<1> DEFINE r == [nbr[n] EXCEPT !.last = dd]
<1>1. nbr[n].state = "Exchange" /\ Processed(n, r, dd, q, packets)
  BY DEF GoesOn
<1>2. r.summary = nbr[n].summary /\ r.req = nbr[n].req
  BY DEF AlwaysInv, RecordInv, Neighbour
<1> HIDE DEF r
<1>3. PICK S \in SUBSET Key : Packed(r, q, packets, S)
  BY <1>1, PackedIs
<1>4. Reads(n, r, q, dd) /\ \A k \in Key : q.req[k] > 0 => q.state \in {"Exchange", "Loading"}
  BY <1>1 DEF Processed
<1>5. q.state \in AtLeastExchange /\ nbr[n].state \in AtLeastExchange
  BY <1>1, PackedIs DEF AtLeastExchange
<1> QED BY <1>2, <1>3, <1>4, <1>5, ProceedCore

\* What the slave sends, alone or after its first description.
LEMMA SlaveSays ==
    ASSUME NEW n, NEW r, NEW dd, NEW q, NEW rest, Processed(n, r, dd, q, rest), ~r.isMaster
    PROVE  /\ q.state \in AtLeastExchange /\ q.seq = dd.seq /\ q.last = r.last
           /\ q.state # "Exchange" <=> ~q.more /\ ~dd.more
           /\ rest \in Seq(AnyPacket) /\ OnlyDD(rest, rest[1]) /\ Answers(rest[1], q) /\ rest[1].more = q.more
           /\ q.state = "Exchange" => LastDD(rest, rest[1])
<1>1. SlaveAnswers(r, dd, q, rest) /\ q.last = r.last /\ rest \in Seq(AnyPacket)
  BY DEF Processed, MasterEnds, MasterGoesOn
<1>2. /\ q.state \in AtLeastExchange /\ q.seq = dd.seq
      /\ q.state # "Exchange" <=> ~q.more /\ ~dd.more
      /\ 1 \in DOMAIN rest
      /\ \A j \in DOMAIN rest : j # 1 => IsRequest(rest[j], q) /\ q.state # "Exchange"
      /\ \E S \in SUBSET Key : IsPart(rest[1], r, q, S)
  BY <1>1 DEF SlaveAnswers
<1>3. /\ rest[1].type = "dd" /\ ~rest[1].init /\ rest[1].master = r.isMaster /\ rest[1].seq = q.seq
      /\ rest[1].more = q.more /\ (~q.more => \A k \in Key : q.summary[k] = 0)
  BY <1>2 DEF IsPart
<1>4. \A j \in DOMAIN rest : rest[j].type = "dd" => j = 1
  BY <1>2 DEF IsRequest
<1>5. OnlyDD(rest, rest[1])
  BY <1>2, <1>3, <1>4 DEF OnlyDD
<1>6. LastDD(rest, rest[1])
  BY <1>2, <1>3, <1>4 DEF LastDD
<1>7. Answers(rest[1], q)
  BY <1>3 DEF Answers
<1> QED BY <1>1, <1>2, <1>3, <1>5, <1>6, <1>7

LEMMA MasterSays ==
    ASSUME NEW n, NEW r, NEW dd, NEW q, NEW rest, Processed(n, r, dd, q, rest), r.isMaster
    PROVE  /\ q.last = r.last /\ q.seq = r.seq + 1 /\ rest \in Seq(AnyPacket)
           /\ \/ /\ r.more \/ dd.more
                 /\ q.state = "Exchange" /\ OnlyDD(rest, rest[1]) /\ Asks(rest[1], q)
                 /\ ~q.more => \A k \in Key : q.summary[k] = 0
              \/ /\ ~r.more /\ ~dd.more /\ q.state \in {"Loading", "Full"} /\ Quiet(rest)
                 /\ \A k \in Key : q.summary[k] = r.summary[k]
<1>1. q.last = r.last /\ rest \in Seq(AnyPacket) /\ (MasterEnds(r, dd, q, rest) \/ MasterGoesOn(r, dd, q, rest))
  BY DEF Processed, SlaveAnswers
<1>2. CASE MasterEnds(r, dd, q, rest)
  <2>1. Quiet(rest)
    BY <1>2 DEF MasterEnds, Quiet, IsRequest
  <2> QED BY <1>1, <1>2, <2>1 DEF MasterEnds, Tells
<1>3. CASE MasterGoesOn(r, dd, q, rest)
  <2>1. /\ (r.more \/ dd.more) /\ q.state = "Exchange" /\ q.seq = r.seq + 1 /\ DOMAIN rest = {1}
        /\ \E S \in SUBSET Key : IsPart(rest[1], r, q, S)
    BY <1>3 DEF MasterGoesOn
  <2>2. /\ rest[1].type = "dd" /\ ~rest[1].init /\ rest[1].master = r.isMaster /\ rest[1].seq = q.seq
        /\ rest[1].more = q.more /\ (~q.more => \A k \in Key : q.summary[k] = 0)
    BY <2>1 DEF IsPart
  <2>3. OnlyDD(rest, rest[1]) /\ Asks(rest[1], q)
    BY <2>1, <2>2 DEF OnlyDD, Asks
  <2> QED BY <1>1, <2>1, <2>2, <2>3
<1> QED BY <1>1, <1>2, <1>3

\* What comes of a description, when one is out of place.
LEMMA Outcomes ==
    ASSUME NEW n, NEW dd, NEW q, NEW packets, Outcome(n, dd, q, packets) \/ OutOfPlace(n, dd)
    PROVE  /\ nbr[n].state \in {"Init", "ExStart"} =>
                \/ Decides(n, dd) /\ Begins(n, dd, q, packets)
                \/ ~Decides(n, dd) /\ StaysOpen(n, dd, q, packets)
           /\ nbr[n].state = "Exchange" /\ ~Duplicate(nbr[n], dd) /\ InSequence(nbr[n], dd) =>
                GoesOn(n, dd, q, packets)
  BY DEF Outcome, OutOfPlace, Drops, StaysOpen, Begins, GoesOn, Repeats, AtLeastExchange

\* The description under way to a router that exchanges is the one it waits for.
LEMMA LowExpects ==
    ASSUME Configured, AlwaysInv, NEW dd \in DD,
           Asked(nbr[High], nbr[Low], link[High], link[Low]), Asks(dd, nbr[High])
    PROVE  ~Duplicate(nbr[Low], dd) /\ InSequence(nbr[Low], dd)
<1>1. /\ nbr[Low].state = "Exchange" /\ nbr[Low].last # NoDD /\ nbr[Low].last.seq = nbr[Low].seq
      /\ nbr[Low].seq + 1 = nbr[High].seq
  BY DEF Asked
<1>2. nbr[Low] \in Neighbour /\ ~nbr[Low].isMaster /\ nbr[Low].seq \in Nat
  BY <1>1, Pair DEF AlwaysInv, RecordInv, RecordOk, AtLeastExchange, Neighbour
<1>3. dd.seq = nbr[Low].seq + 1 /\ dd.seq # nbr[Low].last.seq /\ ~dd.init /\ dd.master
  BY <1>1, <1>2 DEF Asks
<1>4. ~Duplicate(nbr[Low], dd)
  BY <1>3, Zenon DEF Duplicate
<1>5. dd.master # nbr[Low].isMaster
  BY <1>2, <1>3, Zenon
<1>6. InSequence(nbr[Low], dd)
  BY <1>2, <1>3, <1>5 DEF InSequence
<1> QED BY <1>4, <1>6

LEMMA HighExpects ==
    ASSUME Configured, AlwaysInv, NEW dd \in DD,
           Answered(nbr[High], nbr[Low], link[High], link[Low]), Answers(dd, nbr[Low])
    PROVE  ~Duplicate(nbr[High], dd) /\ InSequence(nbr[High], dd)
<1>1. /\ nbr[High].state = "Exchange" /\ nbr[High].last # NoDD /\ nbr[High].last.seq + 1 = nbr[High].seq
      /\ nbr[Low].seq = nbr[High].seq
  BY DEF Answered, MasterLists
<1>2. nbr[High] \in Neighbour /\ nbr[High].isMaster /\ nbr[High].seq \in Nat /\ nbr[High].last.seq \in Nat
  BY <1>1, Pair DEF AlwaysInv, RecordInv, RecordOk, AtLeastExchange, Neighbour, DD
<1>3. dd.seq = nbr[High].seq /\ dd.seq # nbr[High].last.seq /\ ~dd.init /\ ~dd.master
  BY <1>1, <1>2 DEF Answers
<1>4. ~Duplicate(nbr[High], dd)
  BY <1>3, Zenon DEF Duplicate
<1>5. dd.master # nbr[High].isMaster
  BY <1>2, <1>3, Zenon
<1>6. InSequence(nbr[High], dd)
  BY <1>2, <1>3, <1>5 DEF InSequence
<1> QED BY <1>4, <1>6

\* Low takes the first description of High: it becomes the slave ...
LEMMA LowBegins ==
    ASSUME Configured, AlwaysInv, NEW dd, NEW q, NEW packets, Received(Low, dd, q, packets),
           Opening(nbr[High], nbr[Low], link[High], link[Low]),
           Outcome(Low, dd, q, packets) \/ OutOfPlace(Low, dd)
    PROVE  Begins(Low, dd, q, packets) /\ Quiet(link'[Low]) /\ ExchangeInv'
<1> DEFINE r == Joined(Low, dd)
           g == Greeting(Low, dd)
<1>1. /\ dd \in DD /\ link[Low] \in Seq(AnyPacket) /\ link[High] \in Seq(AnyPacket)
      /\ 1 \in DOMAIN link[Low] /\ dd = link[Low][1] /\ dd.type = "dd"
      /\ Pulls(link[Low], link'[Low]) /\ Puts(link[High], link'[High], packets)
      /\ nbr'[Low] = q /\ nbr'[High] = nbr[High]
  BY Pair DEF Received, DD
<1>2. /\ nbr[High].state = "ExStart" /\ nbr[High].more /\ nbr[Low].state \in {"Init", "ExStart"}
      /\ AllFirst(link[High])
      /\ \E p \in Range(link[Low]) : OnlyDD(link[Low], p) /\ IsFirst(p) /\ p.seq = nbr[High].seq
  BY DEF Opening
<1>3. IsFirst(dd) /\ dd.seq = nbr[High].seq /\ Quiet(link'[Low])
  BY <1>1, <1>2, DDPulled
<1>4. Decides(Low, dd)
  <2>1. Keys(dd.lsas) = {}
    BY <1>3 DEF IsFirst, Keys
  <2> QED BY <1>3, <2>1 DEF Decides, BecomesSlave, IsFirst
<1>5. Begins(Low, dd, q, packets)
  BY <1>2, <1>4, Outcomes
<1>6. PICK rest : Processed(Low, r, dd, q, rest) /\ packets = g \o rest
  BY <1>5 DEF Begins
<1>7. g \in Seq(AnyPacket) /\ AllFirst(g)
  BY <1>1, <1>2, Pair, GreetingIs
<1>8. ~r.isMaster /\ r.last = dd
  BY <1>1, <1>2, Pair, JoinedIs DEF AlwaysInv
<1> HIDE DEF r, g
<1>9. /\ q.seq = dd.seq /\ q.last = dd /\ q.state = "Exchange"
      /\ rest \in Seq(AnyPacket) /\ LastDD(rest, rest[1]) /\ Answers(rest[1], q)
  <2>1. dd.more
    BY <1>3 DEF IsFirst
  <2> QED BY <1>6, <1>8, <2>1, SlaveSays
<1>10. LastDD(packets, rest[1])
  BY <1>6, <1>7, <1>9, Appended, DDPut
<1>11. packets \in Seq(AnyPacket)
  BY <1>6, <1>7, <1>9, ConcatProperties
<1>12. LastDD(link'[High], rest[1])
  BY <1>1, <1>2, <1>10, <1>11, DDPut
<1>13. dd # NoDD
  BY <1>1 DEF NoDD, DD
<1>14. Accepted(nbr'[High], nbr'[Low], link'[High], link'[Low])
  BY <1>1, <1>2, <1>3, <1>9, <1>12, <1>13, InRange DEF Accepted
<1>15. ExchangeInv'
  BY <1>14, PhasePrimed DEF Phase
<1> QED BY <1>3, <1>5, <1>15

\* ... and answers the next ones.
LEMMA LowGoesOn ==
    ASSUME Configured, AlwaysInv, NEW dd, NEW q, NEW packets, Received(Low, dd, q, packets),
           Asked(nbr[High], nbr[Low], link[High], link[Low]),
           Outcome(Low, dd, q, packets) \/ OutOfPlace(Low, dd)
    PROVE  GoesOn(Low, dd, q, packets) /\ Quiet(link'[Low]) /\ ExchangeInv'
<1> DEFINE r == [nbr[Low] EXCEPT !.last = dd]
<1>1. /\ dd \in DD /\ link[Low] \in Seq(AnyPacket) /\ link[High] \in Seq(AnyPacket)
      /\ 1 \in DOMAIN link[Low] /\ dd = link[Low][1] /\ dd.type = "dd"
      /\ Pulls(link[Low], link'[Low]) /\ Puts(link[High], link'[High], packets)
      /\ nbr'[Low] = q /\ nbr'[High] = nbr[High]
  BY Pair DEF Received, DD
<1>2. /\ MasterLists(nbr[High])
      /\ nbr[Low].state = "Exchange" /\ nbr[Low].last # NoDD /\ nbr[Low].last.seq = nbr[Low].seq
      /\ nbr[Low].seq + 1 = nbr[High].seq /\ Quiet(link[High])
      /\ \E p \in Range(link[Low]) : OnlyDD(link[Low], p) /\ Asks(p, nbr[High])
  BY DEF Asked
<1>3. Asks(dd, nbr[High]) /\ Quiet(link'[Low])
  BY <1>1, <1>2, DDPulled
<1>4. nbr[Low] \in Neighbour /\ ~nbr[Low].isMaster /\ nbr[Low].seq \in Nat
  BY <1>2, Pair DEF AlwaysInv, RecordInv, RecordOk, AtLeastExchange, Neighbour
<1>5. ~Duplicate(nbr[Low], dd) /\ InSequence(nbr[Low], dd)
  BY <1>1, <1>3, LowExpects
<1>6. GoesOn(Low, dd, q, packets)
  BY <1>2, <1>5, Outcomes
<1>7. Processed(Low, r, dd, q, packets) /\ ~r.isMaster /\ r.last = dd
  BY <1>4, <1>6 DEF GoesOn, Neighbour
<1> HIDE DEF r
<1>8. /\ q.state \in AtLeastExchange /\ q.seq = dd.seq /\ q.last = dd
      /\ q.state # "Exchange" <=> ~q.more /\ ~dd.more
      /\ packets \in Seq(AnyPacket) /\ OnlyDD(packets, packets[1]) /\ Answers(packets[1], q)
      /\ packets[1].more = q.more
  BY <1>7, SlaveSays
<1>9. OnlyDD(link'[High], packets[1])
  BY <1>1, <1>2, <1>8, DDPut
<1>10. dd # NoDD
  BY <1>1 DEF NoDD, DD
<1>11. Answered(nbr'[High], nbr'[Low], link'[High], link'[Low])
  BY <1>1, <1>2, <1>3, <1>8, <1>9, <1>10, InRange DEF Answered, Asks
<1>12. ExchangeInv'
  BY <1>11, PhasePrimed DEF Phase
<1> QED BY <1>3, <1>6, <1>12

\* A first description of Low decides nothing.
LEMMA HighOpens ==
    ASSUME Configured, AlwaysInv, NEW dd, NEW q, NEW packets, Received(High, dd, q, packets),
           \/ Waiting(nbr[High], nbr[Low], link[High], link[Low])
           \/ Opening(nbr[High], nbr[Low], link[High], link[Low])
           \/ Accepted(nbr[High], nbr[Low], link[High], link[Low]) /\ ~Quiet(link'[High]),
           Outcome(High, dd, q, packets) \/ OutOfPlace(High, dd)
    PROVE  StaysOpen(High, dd, q, packets) /\ IsFirst(dd) /\ ExchangeInv'
<1> DEFINE R == Opened(High, dd)
           g == Greeting(High, dd)
           p == ExStartDD(R)
<1>1. /\ dd \in DD /\ link[Low] \in Seq(AnyPacket) /\ link[High] \in Seq(AnyPacket)
      /\ 1 \in DOMAIN link[High] /\ dd = link[High][1] /\ dd.type = "dd"
      /\ Pulls(link[High], link'[High]) /\ Puts(link[Low], link'[Low], packets)
      /\ nbr'[High] = q /\ nbr'[Low] = nbr[Low]
  BY Pair DEF Received, DD
<1>2. ~Quiet(link[High]) /\ (AllFirst(link[High]) => IsFirst(dd) /\ AllFirst(link'[High]))
  BY <1>1, DDPulled
<1>3. nbr[High].state \in {"Init", "ExStart"} /\ IsFirst(dd)
  <2>1. CASE Waiting(nbr[High], nbr[Low], link[High], link[Low])
    BY <1>2, <2>1 DEF Waiting
  <2>2. CASE Opening(nbr[High], nbr[Low], link[High], link[Low])
    BY <1>2, <2>2 DEF Opening
  <2>3. CASE Accepted(nbr[High], nbr[Low], link[High], link[Low]) /\ ~Quiet(link'[High])
    <3>1. PICK x \in Range(link[High]) : LastDD(link[High], x)
      BY <2>3 DEF Accepted
    <3>2. IsFirst(dd)
      BY <1>1, <2>3, <3>1, DDPulled
    <3> QED BY <2>3, <3>2 DEF Accepted
  <2> QED BY <2>1, <2>2, <2>3
<1>4. ~Decides(High, dd)
  <2>1. dd.init /\ High # Low
    BY <1>3, Pair DEF IsFirst
  <2> QED BY <2>1 DEF Decides, BecomesSlave, BecomesMaster
<1>5. StaysOpen(High, dd, q, packets) /\ q = R /\ packets = g
  BY <1>3, <1>4, Outcomes DEF StaysOpen
<1>6. /\ R.state = "ExStart"
      /\ nbr[High].state = "Init" => R.more
      /\ nbr[High].state = "ExStart" => R.seq = nbr[High].seq /\ R.more = nbr[High].more
  BY <1>1, <1>3, Pair, OpenedIs DEF AlwaysInv
<1>7. /\ g \in Seq(AnyPacket) /\ AllFirst(g)
      /\ nbr[High].state = "ExStart" => g = << >>
      /\ nbr[High].state = "Init" => OnlyDD(g, p) /\ IsFirst(p) /\ p.seq = R.seq
  BY <1>1, <1>3, Pair, GreetingIs
<1> HIDE DEF R, g, p
<1>8. nbr[High].state = "ExStart" => KeepsDDs(link[Low], link'[Low])
  BY <1>1, <1>5, <1>7, NothingPut
<1>9. ExchangeInv'
  <2>1. CASE Waiting(nbr[High], nbr[Low], link[High], link[Low])
    <3>1. /\ nbr[Low].state = "ExStart" /\ nbr[High].state = "Init" /\ nbr[Low].last = NoDD
          /\ Quiet(link[Low]) /\ AllFirst(link[High])
      BY <1>2, <2>1 DEF Waiting
    <3>2. OnlyDD(link'[Low], p)
      BY <1>1, <1>5, <1>7, <3>1, DDPut
    <3>3. Opening(nbr'[High], nbr'[Low], link'[High], link'[Low])
      BY <1>1, <1>2, <1>5, <1>6, <1>7, <3>1, <3>2, InRange DEF Opening
    <3> QED BY <3>3, PhasePrimed DEF Phase
  <2>2. CASE Opening(nbr[High], nbr[Low], link[High], link[Low])
    <3>1. Opening(nbr'[High], nbr'[Low], link'[High], link'[Low])
      BY <1>1, <1>2, <1>5, <1>6, <1>8, <2>2, InRange DEF Opening, KeepsDDs
    <3> QED BY <3>1, PhasePrimed DEF Phase
  <2>3. CASE Accepted(nbr[High], nbr[Low], link[High], link[Low]) /\ ~Quiet(link'[High])
    <3>1. PICK x \in Range(link[High]) : LastDD(link[High], x) /\ Answers(x, nbr[Low])
      BY <2>3 DEF Accepted
    <3>2. LastDD(link'[High], x)
      BY <1>1, <2>3, <3>1, DDPulled
    <3>3. Accepted(nbr'[High], nbr'[Low], link'[High], link'[Low])
      BY <1>1, <1>5, <1>6, <1>8, <2>3, <3>1, <3>2, InRange DEF Accepted, KeepsDDs
    <3> QED BY <3>3, PhasePrimed DEF Phase
  <2> QED BY <2>1, <2>2, <2>3
<1> QED BY <1>3, <1>5, <1>9

\* The answer of Low makes High the master ...
LEMMA HighBegins ==
    ASSUME Configured, AlwaysInv, NEW dd, NEW q, NEW packets, Received(High, dd, q, packets),
           Accepted(nbr[High], nbr[Low], link[High], link[Low]), Quiet(link'[High]),
           Outcome(High, dd, q, packets) \/ OutOfPlace(High, dd)
    PROVE  Begins(High, dd, q, packets) /\ ExchangeInv'
<1> DEFINE r == Joined(High, dd)
           g == Greeting(High, dd)
<1>1. /\ dd \in DD /\ link[Low] \in Seq(AnyPacket) /\ link[High] \in Seq(AnyPacket)
      /\ 1 \in DOMAIN link[High] /\ dd = link[High][1] /\ dd.type = "dd"
      /\ Pulls(link[High], link'[High]) /\ Puts(link[Low], link'[Low], packets)
      /\ nbr'[High] = q /\ nbr'[Low] = nbr[Low]
  BY Pair DEF Received, DD
<1>2. /\ nbr[High].state = "ExStart" /\ nbr[High].more
      /\ nbr[Low].state = "Exchange" /\ nbr[Low].seq = nbr[High].seq
      /\ nbr[Low].last # NoDD /\ nbr[Low].last.seq = nbr[Low].seq /\ Quiet(link[Low])
      /\ \E x \in Range(link[High]) : LastDD(link[High], x) /\ Answers(x, nbr[Low])
  BY DEF Accepted
<1>3. Answers(dd, nbr[Low])
  <2>1. PICK x \in Range(link[High]) : LastDD(link[High], x) /\ Answers(x, nbr[Low])
    BY <1>2
  <2>2. ~LastDD(link'[High], x)
    BY DEF LastDD, Quiet
  <2>3. x = dd
    BY <1>1, <2>1, <2>2, DDPulled
  <2> QED BY <2>1, <2>3
<1>4. /\ r.isMaster /\ r.last = dd /\ r.seq = dd.seq /\ r.more
      /\ Opened(High, dd).seq = nbr[High].seq
  BY <1>1, <1>2, Pair, JoinedIs, OpenedIs DEF AlwaysInv
<1>5. Decides(High, dd)
  BY <1>2, <1>3, <1>4 DEF Decides, BecomesMaster, Answers
<1>6. Begins(High, dd, q, packets)
  BY <1>2, <1>5, Outcomes
<1>7. PICK rest : Processed(High, r, dd, q, rest) /\ packets = g \o rest
  BY <1>6 DEF Begins
<1>8. g = << >>
  BY <1>1, <1>2, Pair, GreetingIs
<1> HIDE DEF r, g
<1>9. /\ q.last = dd /\ q.seq = dd.seq + 1 /\ rest \in Seq(AnyPacket)
      /\ q.state = "Exchange" /\ OnlyDD(rest, rest[1]) /\ Asks(rest[1], q)
      /\ ~q.more => \A k \in Key : q.summary[k] = 0
  BY <1>4, <1>7, MasterSays
<1>10. packets = rest
  BY <1>7, <1>8, <1>9, ConcatEmptySeq
<1>11. OnlyDD(link'[Low], rest[1])
  BY <1>1, <1>2, <1>9, <1>10, DDPut
<1>12. dd # NoDD
  BY <1>1 DEF NoDD, DD
<1>13. MasterLists(q)
  BY <1>9, <1>12 DEF MasterLists
<1>14. nbr[Low].seq + 1 = q.seq
  BY <1>2, <1>3, <1>9 DEF Answers
<1>15. Asked(nbr'[High], nbr'[Low], link'[High], link'[Low])
  BY <1>1, <1>2, <1>9, <1>11, <1>13, <1>14, InRange DEF Asked
<1>16. ExchangeInv'
  BY <1>15, PhasePrimed DEF Phase
<1> QED BY <1>6, <1>16

\* ... that asks on, or has everything.
LEMMA HighGoesOn ==
    ASSUME Configured, AlwaysInv, NEW dd, NEW q, NEW packets, Received(High, dd, q, packets),
           Answered(nbr[High], nbr[Low], link[High], link[Low]),
           Outcome(High, dd, q, packets) \/ OutOfPlace(High, dd)
    PROVE  GoesOn(High, dd, q, packets) /\ Quiet(link'[High]) /\ ExchangeInv'
<1> DEFINE r == [nbr[High] EXCEPT !.last = dd]
<1>1. /\ dd \in DD /\ link[Low] \in Seq(AnyPacket) /\ link[High] \in Seq(AnyPacket)
      /\ 1 \in DOMAIN link[High] /\ dd = link[High][1] /\ dd.type = "dd"
      /\ Pulls(link[High], link'[High]) /\ Puts(link[Low], link'[Low], packets)
      /\ nbr'[High] = q /\ nbr'[Low] = nbr[Low]
  BY Pair DEF Received, DD
<1>2. /\ MasterLists(nbr[High])
      /\ nbr[Low].state \in AtLeastExchange /\ nbr[Low].last # NoDD /\ nbr[Low].last.seq = nbr[Low].seq
      /\ nbr[Low].seq = nbr[High].seq /\ Quiet(link[Low])
      /\ \E p \in Range(link[High]) : /\ OnlyDD(link[High], p) /\ Answers(p, nbr[Low])
                                      /\ nbr[Low].state # "Exchange" <=> ~nbr[High].more /\ ~p.more
  BY DEF Answered
<1>3. /\ Answers(dd, nbr[Low]) /\ Quiet(link'[High])
      /\ nbr[Low].state # "Exchange" <=> ~nbr[High].more /\ ~dd.more
  BY <1>1, <1>2, DDPulled
<1>4. /\ nbr[High].state = "Exchange" /\ nbr[High].last # NoDD /\ nbr[High].last.seq + 1 = nbr[High].seq
      /\ ~nbr[High].more => \A k \in Key : nbr[High].summary[k] = 0
  BY <1>2 DEF MasterLists
<1>5. nbr[High] \in Neighbour /\ nbr[High].isMaster /\ nbr[High].seq \in Nat /\ nbr[High].last.seq \in Nat
  BY <1>4, Pair DEF AlwaysInv, RecordInv, RecordOk, AtLeastExchange, Neighbour, DD
<1>6. ~Duplicate(nbr[High], dd) /\ InSequence(nbr[High], dd)
  BY <1>1, <1>3, HighExpects
<1>7. GoesOn(High, dd, q, packets)
  BY <1>4, <1>6, Outcomes
<1>8. /\ Processed(High, r, dd, q, packets) /\ r.isMaster /\ r.last = dd /\ r.seq = nbr[High].seq
      /\ r.more = nbr[High].more /\ r.summary = nbr[High].summary
  BY <1>5, <1>7 DEF GoesOn, Neighbour
<1> HIDE DEF r
<1>9. /\ q.last = dd /\ q.seq = nbr[High].seq + 1 /\ packets \in Seq(AnyPacket)
      /\ \/ /\ nbr[High].more \/ dd.more
            /\ q.state = "Exchange" /\ OnlyDD(packets, packets[1]) /\ Asks(packets[1], q)
            /\ ~q.more => \A k \in Key : q.summary[k] = 0
         \/ /\ ~nbr[High].more /\ ~dd.more /\ q.state \in {"Loading", "Full"} /\ Quiet(packets)
            /\ \A k \in Key : q.summary[k] = nbr[High].summary[k]
  BY <1>8, MasterSays
<1>10. dd # NoDD
  BY <1>1 DEF NoDD, DD
<1>11. CASE /\ nbr[High].more \/ dd.more
            /\ q.state = "Exchange" /\ OnlyDD(packets, packets[1]) /\ Asks(packets[1], q)
            /\ ~q.more => \A k \in Key : q.summary[k] = 0
  <2>1. OnlyDD(link'[Low], packets[1])
    BY <1>1, <1>2, <1>9, <1>11, DDPut
  <2>2. MasterLists(q)
    BY <1>2, <1>3, <1>9, <1>10, <1>11 DEF MasterLists, Answers
  <2>3. nbr[Low].state = "Exchange"
    BY <1>3, <1>11
  <2>4. Asked(nbr'[High], nbr'[Low], link'[High], link'[Low])
    BY <1>1, <1>2, <1>3, <1>9, <1>11, <2>1, <2>2, <2>3, InRange DEF Asked
  <2> QED BY <1>3, <1>7, <2>4, PhasePrimed DEF Phase
<1>12. CASE /\ ~nbr[High].more /\ ~dd.more /\ q.state \in {"Loading", "Full"} /\ Quiet(packets)
            /\ \A k \in Key : q.summary[k] = nbr[High].summary[k]
  <2>1. Quiet(link'[Low])
    <3>1. \A j \in DOMAIN packets : packets[j].type # "dd"
      BY <1>12 DEF Quiet
    <3>2. KeepsDDs(link[Low], link'[Low])
      BY <1>1, <3>1, AfterPut
    <3> QED BY <1>2, <3>2 DEF KeepsDDs
  <2>2. nbr[Low].state \in {"Loading", "Full"} /\ \A k \in Key : nbr[Low].summary[k] = 0
    BY <1>2, <1>3, <1>12 DEF AtLeastExchange, Answers
  <2>3. \A k \in Key : q.summary[k] = 0
    BY <1>4, <1>12
  <2>4. Told(nbr'[High], nbr'[Low], link'[High], link'[Low])
    BY <1>1, <1>3, <1>12, <2>1, <2>2, <2>3 DEF Told
  <2> QED BY <1>3, <1>7, <2>4, PhasePrimed DEF Phase
<1> QED BY <1>9, <1>11, <1>12

\* No description is out of place.
LEMMA InPlace ==
    ASSUME Configured, AlwaysInv, ExchangeInv, NEW n \in Router, NEW dd \in DD,
           link[n] \in Seq(AnyPacket), 1 \in DOMAIN link[n], dd = link[n][1], Pulls(link[n], link'[n])
    PROVE  ~OutOfPlace(n, dd)
<1> DEFINE h == nbr[High]
           l == nbr[Low]
           sh == link[High]
           sl == link[Low]
<1>1. /\ ~Quiet(link[n])
      /\ \A p : OnlyDD(link[n], p) => p = dd
  <2>1. dd.type = "dd"
    BY DEF DD
  <2> QED BY <2>1, DDPulled
<1>2. n = High \/ n = Low
  BY Pair DEF Router
<1>3. CASE nbr[n].state \in {"DOWN", "Init", "ExStart"}
  BY <1>3 DEF OutOfPlace, AtLeastExchange
<1>4. CASE n = High /\ nbr[n].state \notin {"DOWN", "Init", "ExStart"}
  <2>1. Answered(h, l, sh, sl)
    BY <1>1, <1>4 DEF ExchangeInv, Phase, Waiting, Opening, Accepted, Asked, Told, Early
  <2>2. Answers(dd, l) /\ h.state = "Exchange"
    BY <1>1, <1>4, <2>1 DEF Answered, MasterLists
  <2> QED BY <1>4, <2>1, <2>2, HighExpects DEF OutOfPlace
<1>5. CASE n = Low /\ nbr[n].state \notin {"DOWN", "Init", "ExStart"}
  <2>1. Asked(h, l, sh, sl)
    BY <1>1, <1>5 DEF ExchangeInv, Phase, Waiting, Opening, Accepted, Answered, Told, Early
  <2>2. Asks(dd, h) /\ l.state = "Exchange"
    BY <1>1, <1>5, <2>1 DEF Asked
  <2> QED BY <1>5, <2>1, <2>2, LowExpects DEF OutOfPlace
<1> QED BY <1>2, <1>3, <1>4, <1>5

LEMMA ReceivedCore ==
    ASSUME Configured, AlwaysInv, CoreInv, AlwaysInv', NEW n \in Router, NEW dd, NEW q, NEW packets,
           Received(n, dd, q, packets), Outcome(n, dd, q, packets)
    PROVE  CoreInv'
<1>1. /\ dd \in DD /\ link[n] \in Seq(AnyPacket) /\ 1 \in DOMAIN link[n] /\ dd = link[n][1]
      /\ Pulls(link[n], link'[n]) /\ dd.type = "dd"
  BY DEF Received, DD
<1>2. ~Quiet(link[n])
  BY <1>1, DDPulled
<1>3. Phase(nbr[High], nbr[Low], link[High], link[Low])
  BY DEF CoreInv, ExchangeInv
<1>4. CASE n = Low
  <2>1. \/ Opening(nbr[High], nbr[Low], link[High], link[Low])
        \/ Asked(nbr[High], nbr[Low], link[High], link[Low])
    BY <1>2, <1>3, <1>4 DEF Phase, Waiting, Accepted, Answered, Told
  <2>2. CASE Opening(nbr[High], nbr[Low], link[High], link[Low])
    <3>1. Begins(Low, dd, q, packets) /\ Quiet(link'[Low]) /\ ExchangeInv'
      BY <1>4, <2>2, LowBegins
    <3> QED BY <1>4, <3>1, BeginsCore
  <2>3. CASE Asked(nbr[High], nbr[Low], link[High], link[Low])
    <3>1. GoesOn(Low, dd, q, packets) /\ Quiet(link'[Low]) /\ ExchangeInv'
      BY <1>4, <2>3, LowGoesOn
    <3> QED BY <1>4, <3>1, GoesOnCore
  <2> QED BY <2>1, <2>2, <2>3
<1>5. CASE n = High
  <2>1. \/ Waiting(nbr[High], nbr[Low], link[High], link[Low])
        \/ Opening(nbr[High], nbr[Low], link[High], link[Low])
        \/ Accepted(nbr[High], nbr[Low], link[High], link[Low])
        \/ Answered(nbr[High], nbr[Low], link[High], link[Low])
    BY <1>2, <1>3, <1>5 DEF Phase, Asked, Told
  <2>2. CASE \/ Waiting(nbr[High], nbr[Low], link[High], link[Low])
             \/ Opening(nbr[High], nbr[Low], link[High], link[Low])
             \/ Accepted(nbr[High], nbr[Low], link[High], link[Low]) /\ ~Quiet(link'[High])
    <3>1. StaysOpen(High, dd, q, packets) /\ IsFirst(dd) /\ ExchangeInv'
      BY <1>5, <2>2, HighOpens
    <3> QED BY <1>5, <3>1, OpenCore
  <2>3. CASE Accepted(nbr[High], nbr[Low], link[High], link[Low]) /\ Quiet(link'[High])
    <3>1. Begins(High, dd, q, packets) /\ ExchangeInv'
      BY <1>5, <2>3, HighBegins
    <3> QED BY <1>5, <2>3, <3>1, BeginsCore
  <2>4. CASE Answered(nbr[High], nbr[Low], link[High], link[Low])
    <3>1. GoesOn(High, dd, q, packets) /\ Quiet(link'[High]) /\ ExchangeInv'
      BY <1>5, <2>4, HighGoesOn
    <3> QED BY <1>5, <3>1, GoesOnCore
  <2> QED BY <2>1, <2>2, <2>3, <2>4
<1> QED BY <1>4, <1>5 DEF Router

LEMMA ReceiveDDCore ==
    ASSUME Configured, AlwaysInv, CoreInv, NEW n \in Router, ReceiveDD(n), AlwaysInv'
    PROVE  CoreInv'
<1> DEFINE dd == Head(link[n])
           m == Other(n)
<1>1. /\ link[n] # << >> /\ dd \in DD /\ dd = link[n][1] /\ PacketOk(n, dd, db)
      /\ UNCHANGED <<lost, delayed, db, out>>
      /\ \/ \E q, packets :
                   /\ Outcome(n, dd, q, packets) /\ nbr' = [nbr EXCEPT ![n] = q]
                   /\ rlsaDue' = DueAfter(n, q) /\ Takes(n, packets) /\ failed' = failed
         \/ /\ OutOfPlace(n, dd) /\ failed' = TRUE /\ Takes(n, << >>)
            /\ UNCHANGED <<nbr, rlsaDue>>
  BY ReceiveDDIs, Zenon
<1> HIDE DEF dd
<1>2. m \in Router /\ m # n /\ link \in [Router -> Seq(AnyPacket)] /\ nbr \in [Router -> Neighbour]
  BY Routers DEF AlwaysInv, LinkInv, RecordInv
<1> LinkInv /\ RecordInv /\ DatabaseInv
  BY DEF AlwaysInv
<1> HIDE DEF m
<1>3. ASSUME NEW q, NEW packets,
             /\ Outcome(n, dd, q, packets) /\ nbr' = [nbr EXCEPT ![n] = q]
             /\ rlsaDue' = DueAfter(n, q) /\ Takes(n, packets) /\ failed' = failed
      PROVE  CoreInv'
  <2>1. packets \in Seq(AnyPacket)
    BY <1>1, <1>3, OutcomeOk
  <2>2. /\ 1 \in DOMAIN link[n]
        /\ Pulls(link[n], link'[n]) /\ Puts(link[m], link'[m], packets)
    BY <1>1, <1>2, <1>3, <2>1, TakesIs, Pulled DEF m
  <2>3. nbr'[n] = q /\ nbr'[m] = nbr[m]
    BY <1>2, <1>3
  <2>4. Received(n, dd, q, packets)
    BY <1>1, <1>2, <1>3, <2>2, <2>3 DEF Received, m
  <2> QED BY <1>3, <2>4, ReceivedCore
<1>4. ASSUME OutOfPlace(n, dd), Takes(n, << >>)
      PROVE  FALSE
  <2> DEFINE none == << >>
  <2>1. none \in Seq(AnyPacket) /\ Takes(n, none)
    BY <1>4, NoPacket
  <2> HIDE DEF none
  <2>2. 1 \in DOMAIN link[n] /\ Pulls(link[n], link'[n])
    BY <1>1, <1>2, <2>1, TakesIs, Pulled DEF m
  <2> QED BY <1>1, <1>2, <1>4, <2>2, InPlace DEF CoreInv
<1> QED BY <1>1, <1>3, <1>4

-----------------------------------------------------------------------------
(* The first state and every step.                                         *)

LEMMA InitCore ==
    ASSUME Configured, Init
    PROVE  CoreInv
<1> DEFINE r == [state |-> "DOWN", isMaster |-> FALSE, seq |-> 0, more |-> FALSE, rxmt |-> FALSE,
                 last |-> NoDD, summary |-> NoLsa, req |-> NoLsa, asked |-> FALSE]
           none == << >>
<1>1. /\ nbr = [n \in Router |-> r] /\ db = [n \in Router |-> NoLsa] /\ out = [n \in Router |-> NoLsa]
      /\ link = [n \in Router |-> none] /\ failed = FALSE
  BY DEF Init
<1>2. r.state = "DOWN" /\ r.summary = NoLsa /\ r.req = NoLsa /\ r.last = NoDD
  OBVIOUS
<1>3. none \in Seq(AnyPacket) /\ DOMAIN none = {}
  BY NoPacket
<1> HIDE DEF r, none
<1>4. /\ \A n \in Router : /\ nbr[n] = r /\ db[n] = NoLsa /\ out[n] = NoLsa /\ link[n] = none
                           /\ Other(n) \in Router
      /\ High \in Router /\ Low \in Router
  BY <1>1, Routers, Pair
<1>5. \A k \in Key : NoLsa[k] = 0 /\ Owner(k) \in Router
  BY NoLsaIs, Owners
<1>6. ExchangeInv
  <2>1. Waiting(nbr[High], nbr[Low], link[High], link[Low])
    BY <1>2, <1>3, <1>4 DEF Waiting, Early, Quiet, AllFirst
  <2> QED BY <2>1 DEF ExchangeInv, Phase
<1>7. HelloInv /\ UpdateInv
  BY <1>3, <1>4 DEF HelloInv, UpdateInv, InOrder
<1>8. AloneInv
  BY <1>2, <1>4, <1>5 DEF AloneInv
<1>9. ASSUME NEW k \in Key
      PROVE  KeyInv(k)
  <2> DEFINE o == Owner(k)
             m == Other(o)
  <2>1. o \in Router /\ m \in Router
    BY <1>4, <1>5
  <2>2. /\ nbr[o].state = "DOWN" /\ nbr[o].summary[k] = 0 /\ out[o][k] = 0 /\ db[o][k] = 0 /\ db[m][k] = 0
        /\ nbr[m].req[k] = 0 /\ link[m] = none /\ link[o] = none
    BY <1>2, <1>4, <1>5, <2>1
  <2>3. KeyOk(k, "DOWN", 0, 0, 0, 0, 0, none, none)
    BY <1>3 DEF KeyOk, OnceOk, OrderOk, FreshOk, OnItsWay, Wanted
  <2> QED BY <2>2, <2>3, Zenon DEF KeyInv
<1> QED BY <1>1, <1>6, <1>7, <1>8, <1>9 DEF CoreInv

LEMMA CoreIs ==
    lost = 0 => (LosslessInv <=> CoreInv)
  BY DEF LosslessInv, CoreInv

LEMMA StepCore ==
    ASSUME Configured, AlwaysInv, AlwaysInv', CoreInv, [Next]_vars
    PROVE  CoreInv' \/ lost' > 0
<1>1. CASE UNCHANGED vars
  <2>1. UNCHANGED <<delayed, db, out, nbr, link, failed>>
    BY <1>1 DEF vars
  <2>2. ExchangeInv'
    BY <2>1, PhasePrimed DEF CoreInv, ExchangeInv
  <2>3. \A k \in Key : KeyInv(k)'
    BY <2>1, KeyPrimed DEF CoreInv, KeyInv
  <2>4. HelloInv' /\ AloneInv' /\ UpdateInv'
    BY <2>1 DEF CoreInv, HelloInv, AloneInv, UpdateInv, InOrder
  <2> QED BY <2>1, <2>2, <2>3, <2>4 DEF CoreInv
<1>2. ASSUME NEW n \in Router,
             \/ HelloTimer(n) \/ ExStartTimer(n) \/ RequestTimer(n) \/ FloodTimer(n)
             \/ OriginateRouterLSA(n) \/ Receive(n) \/ Lose(n)
      PROVE  CoreInv' \/ lost' > 0
  <2>1. CASE OriginateRouterLSA(n)
    <3>1. n \in Key /\ Owner(n) = n
      BY Routers
    <3>2. Flooded(n, n) /\ UNCHANGED <<lost, delayed, nbr, link, failed>>
      BY <2>1 DEF OriginateRouterLSA
    <3> QED BY <3>1, <3>2, FloodedCore
  <2>2. CASE Lose(n)
    BY <2>2 DEF Lose, AlwaysInv, SwitchInv
  <2> QED BY <1>2, <2>1, <2>2, HelloTimerCore, ExStartTimerCore, RequestTimerCore, FloodTimerCore,
             ReceiveHelloCore, ReceiveDDCore, ReceiveRequestCore, ReceiveUpdateCore DEF Receive
<1>3. ASSUME NEW k \in External, Hear(k)
      PROVE  CoreInv'
  <2>1. k \in Key /\ Owner(k) = Hears[k] /\ Hears[k] \in Router
    BY Owners DEF Key, Configured
  <2>2. Flooded(Hears[k], k) /\ UNCHANGED <<lost, delayed, nbr, link, failed>>
    BY <1>3 DEF Hear
  <2> QED BY <2>1, <2>2, FloodedCore
<1> QED BY <1>1, <1>2, <1>3 DEF Next

\* What has been lost stays lost.
LEMMA StepLost ==
    ASSUME Configured, AlwaysInv, [Next]_vars
    PROVE  lost' \in Nat /\ lost <= lost'
<1>1. lost \in Nat
  BY DEF AlwaysInv, SwitchInv, Configured
<1>2. lost' = lost \/ lost' = lost + 1
  BY DEF Next, vars, HelloTimer, ExStartTimer, RequestTimer, FloodTimer, OriginateRouterLSA, Receive,
         ReceiveHello, ReceiveDD, ReceiveRequest, ReceiveUpdate, Lose, Hear
<1> QED BY <1>1, <1>2

LEMMA StepLossless ==
    ASSUME Configured, AlwaysInv, AlwaysInv', LosslessInv, [Next]_vars
    PROVE  LosslessInv'
<1>1. lost' \in Nat /\ lost <= lost' /\ lost \in Nat
  BY StepLost DEF AlwaysInv, SwitchInv, Configured
<1>2. CASE lost' = 0
  <2>1. lost = 0
    BY <1>1, <1>2
  <2>2. CoreInv
    BY <2>1, CoreIs
  <2>3. CoreInv'
    BY <1>2, <2>2, StepCore
  <2> QED BY <2>3 DEF LosslessInv, CoreInv
<1>3. CASE lost' # 0
  BY <1>3 DEF LosslessInv
<1> QED BY <1>2, <1>3

LEMMA AllHolds ==
    ASSUME Configured
    PROVE  Spec => [](AlwaysInv /\ LosslessInv)
<1>1. Init => AlwaysInv /\ LosslessInv
  <2>1. Init => AlwaysInv /\ CoreInv
    BY InitAlways, InitCore
  <2> QED BY <2>1 DEF CoreInv, LosslessInv
<1>2. AlwaysInv /\ LosslessInv /\ [Next]_vars => (AlwaysInv /\ LosslessInv)'
  BY StepAlways, StepLossless
<1> QED BY <1>1, <1>2, PTL DEF Spec

\* What each invariant gives.
LEMMA TypesFollow ==
    ASSUME Configured, AlwaysInv
    PROVE  TypeOK
<1>1. \A n \in Router : \A i \in DOMAIN link[n] : link[n][i] \in Hello \cup DD \cup Request \cup Update
  BY DEF AlwaysInv, LinkInv, PacketOk, AnyPacket
<1> QED BY <1>1 DEF AlwaysInv, RecordInv, DatabaseInv, SwitchInv, TypeOK

LEMMA OneMasterFollows ==
    ASSUME Configured, AlwaysInv
    PROVE  OneMaster
<1>1. High \in Router /\ Low \in Router /\ High # Low
  BY Pair
<1> QED BY <1>1 DEF AlwaysInv, RecordInv, RecordOk, OneMaster

LEMMA SynchronisedFollows ==
    ASSUME Configured, AlwaysInv, LosslessInv
    PROVE  FullIsSynchronised
<1> SUFFICES ASSUME lost = 0, delayed, NEW n \in Router, nbr[n].state = "Full",
                    NEW k \in Newer(db[Other(n)], db[n])
             PROVE  \/ out[Other(n)][k] = db[Other(n)][k]
                    \/ \E i \in DOMAIN link[n] :
                         link[n][i].type = "update" /\ link[n][i].lsas[k] = db[Other(n)][k]
  BY DEF FullIsSynchronised
<1> DEFINE o == Other(n)
<1>1. CoreInv
  BY CoreIs
<1>2. k \in Key /\ db[o][k] > db[n][k]
  BY DEF Newer
<1>3. Owner(k) \in Router /\ n # o /\ Other(o) = n /\ o \in Router /\ \A x \in Router : x = n \/ x = o
  BY <1>2, Owners, Routers
<1> HIDE DEF o
<1>4. \A x \in Router : db[x][k] \in Nat
  BY <1>2, LsasAt DEF AlwaysInv, DatabaseInv
<1>5. Owner(k) = o
  <2>1. db[o][k] <= db[Owner(k)][k]
    BY <1>2, <1>3 DEF AlwaysInv, DatabaseInv
  <2>2. Owner(k) # n
    BY <1>2, <1>3, <1>4, <2>1
  <2> QED BY <1>3, <2>2
<1>6. OnItsWay(k, nbr[o].state, nbr[o].summary[k], out[o][k], db[o][k], db[n][k], nbr[n].req[k], link[n])
  BY <1>1, <1>2, <1>3, <1>5 DEF CoreInv, KeyInv, KeyOk
<1>7. /\ nbr[o].state \in AtLeastExchange /\ nbr[o].summary[k] = 0
      /\ \A i \in DOMAIN link[n] : link[n][i].type = "dd" => link[n][i].lsas[k] # db[o][k]
  <2>1. CASE n = High
    <3>1. o = Low
      BY <1>3, <2>1, Pair
    <3>2. Told(nbr[High], nbr[Low], link[High], link[Low])
      BY <1>1, <2>1 DEF CoreInv, ExchangeInv, Phase, Waiting, Opening, Accepted, Asked, Answered, MasterLists, Early
    <3> QED BY <1>2, <2>1, <3>1, <3>2 DEF Told, Quiet, AtLeastExchange
  <2>2. CASE n = Low
    <3>1. o = High
      BY <1>3, <2>2, Pair
    <3>2. \/ Told(nbr[High], nbr[Low], link[High], link[Low])
          \/ Answered(nbr[High], nbr[Low], link[High], link[Low])
      BY <1>1, <2>2 DEF CoreInv, ExchangeInv, Phase, Waiting, Opening, Accepted, Asked, MasterLists, Early
    <3>3. CASE Told(nbr[High], nbr[Low], link[High], link[Low])
      BY <1>2, <2>2, <3>1, <3>3 DEF Told, Quiet, AtLeastExchange
    <3>4. CASE Answered(nbr[High], nbr[Low], link[High], link[Low])
      BY <1>2, <2>2, <3>1, <3>4 DEF Answered, MasterLists, Quiet, AtLeastExchange
    <3> QED BY <3>2, <3>3, <3>4
  <2> QED BY <2>1, <2>2 DEF Router
<1>8. nbr[n].req[k] = 0
  <2>1. ~(nbr[n].req[k] > 0)
    BY <1>1, <1>2 DEF CoreInv, AloneInv
  <2>2. nbr[n].req[k] \in Nat
    BY <1>2, LsasAt DEF AlwaysInv, RecordInv, Neighbour
  <2> QED BY <2>1, <2>2
<1>9. db[o][k] # 0
  BY <1>2, <1>3, <1>4
<1>10. \/ out[o][k] = db[o][k]
       \/ \E i \in DOMAIN link[n] : link[n][i].type = "update" /\ link[n][i].lsas[k] = db[o][k]
  BY <1>2, <1>6, <1>7, <1>8, <1>9 DEF OnItsWay
<1> QED BY <1>10 DEF o

-----------------------------------------------------------------------------
\* The types of what the routers keep and of the packets on the link, whatever
\* it loses.
THEOREM TypesHold ==
    ASSUME Configured
    PROVE  Spec => []TypeOK
<1>1. AlwaysInv => TypeOK
  BY TypesFollow
<1>2. Spec => []AlwaysInv
  BY AlwaysHolds
<1> QED BY <1>1, <1>2, PTL

\* Two routers that exchange descriptions agree on which of them is the master,
\* in whatever order their first packets cross and whatever is lost (OSPF_DD.c,
\* ospf_process_dd_in_exstart_state).
THEOREM OneMasterHolds ==
    ASSUME Configured
    PROVE  Spec => []OneMaster
<1>1. AlwaysInv => OneMaster
  BY OneMasterFollows
<1>2. Spec => []AlwaysInv
  BY AlwaysHolds
<1> QED BY <1>1, <1>2, PTL

\* On a link that loses nothing the events that have no handler are never
\* raised (OSPF_DD.c, OSPF_LSREQ.c:334, OSPF_LSUPDATE.c:291).
THEOREM NoMismatchHolds ==
    ASSUME Configured
    PROVE  Spec => []NoMismatch
<1>1. LosslessInv => NoMismatch
  BY DEF LosslessInv, NoMismatch
<1>2. Spec => [](AlwaysInv /\ LosslessInv)
  BY AllHolds
<1> QED BY <1>1, <1>2, PTL

\* On a link that loses nothing, a router whose neighbour is Full lacks nothing
\* that is not queued for it or on its way (ospf_neighbor_create_DBSummaryList,
\* ospf_lsa_flood).
THEOREM FullIsSynchronisedHolds ==
    ASSUME Configured
    PROVE  Spec => []FullIsSynchronised
<1>1. AlwaysInv /\ LosslessInv => FullIsSynchronised
  BY SynchronisedFollows
<1>2. Spec => [](AlwaysInv /\ LosslessInv)
  BY AllHolds
<1> QED BY <1>1, <1>2, PTL
=============================================================================
