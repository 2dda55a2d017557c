----------------------------- MODULE MCLinkProofs -----------------------------
(***************************************************************************)
(* What holds of ARP on every LAN and of the switch tables in every        *)
(* Ethernet of the scenarios of MCLink, of whatever hosts, switches and    *)
(* links.                                                                  *)
(***************************************************************************)
EXTENDS MCLink, TLAPS

-----------------------------------------------------------------------------
(* ARP: bags of messages.                                                  *)

LEMMA Removed ==
    ASSUME NEW B, NEW m \in BagToSet(B)
    PROVE  /\ BagToSet(BagRemove(B, m)) \subseteq BagToSet(B)
           /\ BagToSet(B) \ {m} \subseteq BagToSet(BagRemove(B, m))
BY DEF BagRemove, BagToSet

LEMMA Added ==
    ASSUME NEW B, NEW m
    PROVE  BagToSet(BagAdd(B, m)) = BagToSet(B) \cup {m}
BY DEF BagAdd, BagToSet

LEMMA Joined ==
    ASSUME NEW B, NEW S
    PROVE  BagToSet(B (+) SetToBag(S)) = BagToSet(B) \cup S
BY DEF BagToSet, SetToBag, (+)

-----------------------------------------------------------------------------
(* ARP: the invariant.                                                     *)

Asking(h, n) == \E q \in Packet : Src[q] = h /\ NextHop[q] = n /\ request[q] = "generate"

\* Where a request flag is set or a packet waits, a request is under way or its
\* answer is.
WaitInv ==
    ~lossy => \A h, n \in Host :
        flag[h][n] = 1 \/ (\E p \in buffer[h] : NextHop[p] = n) => InFlight(h, n) \/ Asking(h, n)

ArpInv == TypeOK /\ FlagHasRequest /\ WaitInv

\* The messages in flight for h about n.
About(m, h, n) ==
    \/ m.type = "request" /\ m.from = h /\ m.to = n /\ m.target = n
    \/ m.type = "reply" /\ m.from = n /\ m.to = h

LEMMA InFlightIs ==
    ASSUME NEW h, NEW n
    PROVE  InFlight(h, n) <=> \E m \in BagToSet(net) : About(m, h, n)
BY DEF InFlight, About

LEMMA ReadTableKeeps ==
    ASSUME ArpInv, NEW p \in Packet, ReadTable(p)
    PROVE  ArpInv'
<1> DEFINE k == Src[p]
           d == NextHop[p]
<1>1. k \in Host /\ d \in Host /\ fate[p] = "new" /\ UNCHANGED <<lossy, table, retry, net, crashed>>
  BY ArpAssumption DEF ReadTable
<1>2. p \notin buffer[k]
  BY <1>1 DEF ArpInv, TypeOK
<1>3. \A h, n \in Host : InFlight(h, n)' = InFlight(h, n)
  BY <1>1 DEF InFlight
<1>4. CASE Forward(p)
  <2>1. fate' = [fate EXCEPT ![p] = "forwarded"] /\ UNCHANGED <<buffer, flag, request>>
    BY <1>4 DEF Forward
  <2>2. \A h \in Host : p \notin buffer[h]
    BY <1>1 DEF ArpInv, TypeOK
  <2>3. TypeOK'
    BY <1>1, <2>1, <2>2 DEF ArpInv, TypeOK
  <2>4. FlagHasRequest'
    BY <2>1 DEF ArpInv, FlagHasRequest
  <2>5. WaitInv'
    BY <1>1, <1>3, <2>1 DEF ArpInv, WaitInv, Asking
  <2> QED BY <2>3, <2>4, <2>5 DEF ArpInv
<1>5. ASSUME Buffer(p)
      PROVE  /\ \A h \in Host : buffer'[h] = IF h = k THEN buffer[h] \cup {p} ELSE buffer[h]
             /\ \A h \in Host : buffer'[h] \subseteq {q \in Packet : Src[q] = h /\ fate'[q] = "buffered"}
             /\ fate' \in [Packet -> {"new", "buffered", "forwarded", "dropped"}]
  <2>1. fate' = [fate EXCEPT ![p] = "buffered"] /\ buffer' = [buffer EXCEPT ![k] = @ \cup {p}]
    BY <1>5 DEF Buffer
  <2>2. \A h \in Host : buffer'[h] = IF h = k THEN buffer[h] \cup {p} ELSE buffer[h]
    BY <1>1, <2>1 DEF ArpInv, TypeOK
  <2>3. \A q \in Packet : fate'[q] = IF q = p THEN "buffered" ELSE fate[q]
    BY <2>1 DEF ArpInv, TypeOK
  <2>4. ASSUME NEW h \in Host, NEW q \in buffer'[h]
        PROVE  q \in Packet /\ Src[q] = h /\ fate'[q] = "buffered"
    <3>1. q \in buffer[h] \/ (h = k /\ q = p)
      BY <2>2
    <3>2. CASE q \in buffer[h]
      BY <2>3, <3>2 DEF ArpInv, TypeOK
    <3>3. CASE h = k /\ q = p
      BY <2>3, <3>3
    <3> QED BY <3>1, <3>2, <3>3
  <2>5. fate' \in [Packet -> {"new", "buffered", "forwarded", "dropped"}]
    BY <2>1 DEF ArpInv, TypeOK
  <2> QED BY <2>2, <2>4, <2>5
<1>6. CASE BufferAndRequest(p)
  <2>1. /\ fate' = [fate EXCEPT ![p] = "buffered"] /\ buffer' = [buffer EXCEPT ![k] = @ \cup {p}]
        /\ request' = [request EXCEPT ![p] = "generate"]
        /\ flag' = [flag EXCEPT ![k][d] = 1]
    BY <1>6 DEF BufferAndRequest, Buffer
  <2>2. TypeOK'
    <3>1. flag' \in [Host -> [Device -> 0 .. 1]]
      <4>1. d \in Device
        BY <1>1 DEF Device
      <4> QED BY <1>1, <2>1, <4>1 DEF ArpInv, TypeOK
    <3>2. request' \in [Packet -> {"none", "generate", "timer"}]
      BY <2>1 DEF ArpInv, TypeOK
    <3>3. buffer' \in [Host -> SUBSET Packet]
      BY <1>1, <2>1 DEF ArpInv, TypeOK
    <3> QED BY <1>1, <1>6, <1>5, <3>1, <3>2, <3>3 DEF ArpInv, TypeOK, BufferAndRequest, Message
  <2>3. \A h, n \in Host : flag'[h][n] = IF h = k /\ n = d THEN 1 ELSE flag[h][n]
    BY <1>1, <2>1 DEF ArpInv, TypeOK, Device
  <2>4. \A q \in Packet : request'[q] = IF q = p THEN "generate" ELSE request[q]
    BY <2>1 DEF ArpInv, TypeOK
  <2>5. FlagHasRequest'
    BY <2>3, <2>4 DEF ArpInv, FlagHasRequest
  <2>6. \A h, n \in Host : (Asking(h, n) => Asking(h, n)') /\ Asking(k, d)'
    BY <2>4 DEF Asking
  <2>7. \A h \in Host : buffer'[h] = IF h = k THEN buffer[h] \cup {p} ELSE buffer[h]
    BY <1>6, <1>5 DEF BufferAndRequest
  <2>8. ASSUME NEW h \in Host, NEW n \in Host, ~lossy',
               flag'[h][n] = 1 \/ (\E q \in buffer'[h] : NextHop[q] = n)
        PROVE  InFlight(h, n)' \/ Asking(h, n)'
    <3>1. CASE h = k /\ n = d
      BY <2>6, <3>1
    <3>2. CASE ~(h = k /\ n = d)
      <4>1. \A q \in buffer'[h] : NextHop[q] = n => q \in buffer[h]
        BY <2>7, <3>2
      <4>2. flag'[h][n] = flag[h][n]
        BY <2>3, <3>2
      <4>3. flag[h][n] = 1 \/ (\E q \in buffer[h] : NextHop[q] = n)
        BY <2>8, <4>1, <4>2
      <4>4. InFlight(h, n) \/ Asking(h, n)
        BY <1>1, <2>8, <4>3 DEF ArpInv, WaitInv
      <4> QED BY <1>3, <2>6, <4>4
    <3> QED BY <3>1, <3>2
  <2>9. WaitInv'
    BY <2>8 DEF WaitInv
  <2> QED BY <2>2, <2>5, <2>9 DEF ArpInv
<1>7. CASE BufferOnly(p)
  <2>1. /\ fate' = [fate EXCEPT ![p] = "buffered"] /\ buffer' = [buffer EXCEPT ![k] = @ \cup {p}]
        /\ flag[k][d] = 1 /\ UNCHANGED <<request, flag>>
    BY <1>7 DEF BufferOnly, Buffer
  <2>2. TypeOK'
    <3>1. buffer' \in [Host -> SUBSET Packet]
      BY <1>1, <2>1 DEF ArpInv, TypeOK
    <3> QED BY <1>1, <1>7, <1>5, <2>1, <3>1 DEF ArpInv, TypeOK, BufferOnly, Message
  <2>3. FlagHasRequest'
    BY <2>1 DEF ArpInv, FlagHasRequest
  <2>4. ASSUME NEW h \in Host, NEW n \in Host, ~lossy',
               flag'[h][n] = 1 \/ (\E q \in buffer'[h] : NextHop[q] = n)
        PROVE  InFlight(h, n)' \/ Asking(h, n)'
    <3>1. flag[h][n] = 1 \/ (\E q \in buffer[h] : NextHop[q] = n)
      BY <1>1, <1>7, <1>5, <2>1, <2>4 DEF BufferOnly
    <3>2. InFlight(h, n) \/ Asking(h, n)
      BY <1>1, <2>4, <3>1 DEF ArpInv, WaitInv
    <3> QED BY <1>3, <2>1, <3>2 DEF Asking
  <2>5. WaitInv'
    BY <2>4 DEF WaitInv
  <2> QED BY <2>2, <2>3, <2>5 DEF ArpInv
<1> QED BY <1>4, <1>6, <1>7 DEF ReadTable

LEMMA GenerateKeeps ==
    ASSUME ArpInv, NEW p \in Packet, GenerateRequest(p)
    PROVE  ArpInv'
<1> DEFINE k == Src[p]
           d == NextHop[p]
           Copy(n) == [type |-> "request", from |-> k, to |-> n, target |-> d]
           copies == {Copy(n) : n \in Host \ {k}}
<1>1. /\ k \in Host /\ d \in Host \ {k} /\ Dst[p] \in Device /\ (Dst[p] \in Host => Dst[p] = d)
      /\ request[p] = "generate" /\ UNCHANGED <<lossy, table, buffer, fate, crashed>>
      /\ request' = [request EXCEPT ![p] = "timer"]
      /\ flag' = [flag EXCEPT ![k][Dst[p]] = 1]
      /\ retry' = [retry EXCEPT ![k][Dst[p]] = @ + 1]
      /\ net' = net (+) SetToBag(copies)
  BY ArpAssumption DEF GenerateRequest, Device
<1>2. BagToSet(net') = BagToSet(net) \cup copies
  BY <1>1, Joined
<1>3. copies \subseteq Message /\ Copy(d) \in copies
  BY <1>1 DEF Message
<1>4. About(Copy(d), k, d)
  BY DEF About
<1> HIDE DEF Copy, copies
<1>5. \A h, n \in Host : (InFlight(h, n) => InFlight(h, n)') /\ InFlight(k, d)'
  BY <1>2, <1>3, <1>4 DEF InFlight, About
<1>6. TypeOK'
  <2>1. retry' \in [Host -> [Device -> Nat]]
    BY <1>1 DEF ArpInv, TypeOK
  <2>2. flag' \in [Host -> [Device -> 0 .. 1]]
    BY <1>1 DEF ArpInv, TypeOK
  <2>3. request' \in [Packet -> {"none", "generate", "timer"}]
    BY <1>1 DEF ArpInv, TypeOK
  <2> QED BY <1>1, <1>2, <1>3, <2>1, <2>2, <2>3 DEF ArpInv, TypeOK
<1>7. \A h, n \in Host : flag'[h][n] = 1 => flag[h][n] = 1 \/ (h = k /\ n = d)
  BY <1>1 DEF ArpInv, TypeOK, Device
<1>8. \A q \in Packet : request'[q] = IF q = p THEN "timer" ELSE request[q]
  BY <1>1 DEF ArpInv, TypeOK
<1>9. FlagHasRequest'
  BY <1>1, <1>7, <1>8 DEF ArpInv, FlagHasRequest
<1>10. \A h, n \in Host : Asking(h, n) => Asking(h, n)' \/ (h = k /\ n = d)
  BY <1>8 DEF Asking
<1>11. WaitInv'
  BY <1>1, <1>5, <1>7, <1>10 DEF ArpInv, WaitInv
<1> QED BY <1>6, <1>9, <1>11 DEF ArpInv

LEMMA ReceiveRequestKeeps ==
    ASSUME ArpInv, NEW m \in BagToSet(net), ReceiveRequest(m)
    PROVE  ArpInv'
<1> DEFINE answer == [type |-> "reply", from |-> m.to, to |-> m.from]
           left == BagRemove(net, m)
<1>1. /\ m.type = "request" /\ m \in Message
      /\ table' = [table EXCEPT ![m.to] = @ \cup {m.from}]
      /\ net' = IF m.target = m.to THEN BagAdd(left, answer) ELSE left
      /\ UNCHANGED <<lossy, buffer, flag, retry, request, fate, crashed>>
  BY DEF ReceiveRequest, ArpInv, TypeOK
<1>2. m.from \in Host /\ m.to \in Host
  BY <1>1 DEF Message
<1>3. /\ BagToSet(net) \ {m} \subseteq BagToSet(net')
      /\ BagToSet(net') \subseteq BagToSet(net) \cup {answer}
      /\ m.target = m.to => answer \in BagToSet(net')
  BY <1>1, Removed, Added
<1>4. answer \in Message /\ (\A h, n : m.target = m.to /\ About(m, h, n) => About(answer, h, n))
  BY <1>1, <1>2 DEF Message, About
<1> HIDE DEF answer, left
<1>5. ASSUME NEW h \in Host, NEW n \in Host, InFlight(h, n)
      PROVE  InFlight(h, n)'
  <2>1. PICK x \in BagToSet(net) : About(x, h, n)
    BY <1>5, InFlightIs
  <2>2. CASE x = m
    <3>1. m.target = m.to
      BY <1>1, <2>1, <2>2 DEF About
    <3> QED BY <1>3, <1>4, <2>1, <2>2, <3>1 DEF InFlight, About
  <2>3. CASE x # m
    BY <1>3, <2>1, <2>3 DEF InFlight, About
  <2> QED BY <2>2, <2>3
<1>6. TypeOK'
  <2>1. table' \in [Host -> SUBSET Host]
    BY <1>1, <1>2 DEF ArpInv, TypeOK
  <2>2. BagToSet(net') \subseteq Message
    BY <1>3, <1>4 DEF ArpInv, TypeOK
  <2> QED BY <1>1, <2>1, <2>2 DEF ArpInv, TypeOK, Message
<1>7. FlagHasRequest'
  BY <1>1 DEF ArpInv, FlagHasRequest
<1>8. WaitInv'
  BY <1>1, <1>5 DEF ArpInv, WaitInv, Asking
<1> QED BY <1>6, <1>7, <1>8 DEF ArpInv

\* The packets W leave the buffer of k.
LEMMA PacketsLeave ==
    ASSUME ArpInv, NEW k \in Host, NEW W,
           NEW s \in {"forwarded", "dropped"}, W \subseteq buffer[k],
           buffer' = [buffer EXCEPT ![k] = @ \ W],
           fate' = [p \in Packet |-> IF p \in W THEN s ELSE fate[p]]
    PROVE  /\ \A h \in Host : buffer'[h] = IF h = k THEN buffer[h] \ W ELSE buffer[h]
           /\ buffer' \in [Host -> SUBSET Packet]
           /\ fate' \in [Packet -> {"new", "buffered", "forwarded", "dropped"}]
           /\ \A h \in Host : buffer'[h] \subseteq {p \in Packet : Src[p] = h /\ fate'[p] = "buffered"}
<1>1. \A h \in Host : buffer'[h] = IF h = k THEN buffer[h] \ W ELSE buffer[h]
  BY DEF ArpInv, TypeOK
<1>2. buffer' \in [Host -> SUBSET Packet] /\ fate' \in [Packet -> {"new", "buffered", "forwarded", "dropped"}]
  BY DEF ArpInv, TypeOK
<1>3. ASSUME NEW h \in Host, NEW p \in buffer'[h]
      PROVE  p \in Packet /\ Src[p] = h /\ fate'[p] = "buffered"
  <2>1. p \in buffer[h] /\ (h = k => p \notin W)
    BY <1>1
  <2>2. p \in Packet /\ Src[p] = h /\ fate[p] = "buffered"
    BY <2>1 DEF ArpInv, TypeOK
  <2>3. p \notin W
    BY <2>1, <2>2 DEF ArpInv, TypeOK
  <2> QED BY <2>2, <2>3
<1> QED BY <1>1, <1>2, <1>3

LEMMA ReceiveReplyKeeps ==
    ASSUME ArpInv, NEW m \in BagToSet(net), ReceiveReply(m)
    PROVE  ArpInv'
<1> DEFINE k == m.to
           d == m.from
           W == WaitingFor(k, d)
<1>1. /\ m.type = "reply" /\ m \in Message
      /\ \E t \in TableAfterReply(table[k], d) : table' = [table EXCEPT ![k] = t]
      /\ buffer' = [buffer EXCEPT ![k] = @ \ W]
      /\ fate' = [p \in Packet |-> IF p \in W THEN "forwarded" ELSE fate[p]]
      /\ flag' = [flag EXCEPT ![k][d] = 0]
      /\ net' = BagRemove(net, m)
      /\ UNCHANGED <<lossy, retry, request, crashed>>
  BY DEF ReceiveReply, ArpInv, TypeOK
<1>2. k \in Host /\ d \in Host
  BY <1>1 DEF Message
<1>3. W = {p \in buffer[k] : NextHop[p] = d}
  BY DEF WaitingFor
<1> HIDE DEF k, d, W
<1>4. /\ \A h \in Host : buffer'[h] = IF h = k THEN buffer[h] \ W ELSE buffer[h]
      /\ buffer' \in [Host -> SUBSET Packet]
      /\ fate' \in [Packet -> {"new", "buffered", "forwarded", "dropped"}]
      /\ \A h \in Host : buffer'[h] \subseteq {p \in Packet : Src[p] = h /\ fate'[p] = "buffered"}
  <2>1. W \subseteq buffer[k]
    BY <1>3
  <2> QED BY <1>1, <1>2, <2>1, PacketsLeave, Zenon
<1>5. d \in Device
  BY <1>2 DEF Device
<1>6. flag' \in [Host -> [Device -> 0 .. 1]]
  BY <1>1, <1>2, <1>5 DEF ArpInv, TypeOK
<1>7. \A h, n \in Host : flag'[h][n] = IF h = k /\ n = d THEN 0 ELSE flag[h][n]
  BY <1>1, <1>2, <1>5 DEF ArpInv, TypeOK, Device
<1>8. BagToSet(net) \ {m} \subseteq BagToSet(net') /\ BagToSet(net') \subseteq BagToSet(net)
  BY <1>1, Removed
<1>9. TypeOK'
  <2>1. table' \in [Host -> SUBSET Host]
    BY <1>1, <1>2 DEF ArpInv, TypeOK, TableAfterReply
  <2> QED BY <1>1, <1>4, <1>6, <1>8, <2>1 DEF ArpInv, TypeOK, Message
<1>10. FlagHasRequest'
  BY <1>1, <1>7 DEF ArpInv, FlagHasRequest
<1>11. ASSUME NEW h \in Host, NEW n \in Host, InFlight(h, n), ~(h = k /\ n = d)
       PROVE  InFlight(h, n)'
  <2>1. PICK x \in BagToSet(net) : About(x, h, n)
    BY <1>11, InFlightIs
  <2>2. x # m
    BY <1>1, <1>11, <2>1 DEF About, k, d
  <2> QED BY <1>8, <2>1, <2>2 DEF InFlight, About
<1>12. ASSUME NEW h \in Host, NEW n \in Host, ~lossy',
              flag'[h][n] = 1 \/ (\E q \in buffer'[h] : NextHop[q] = n)
       PROVE  InFlight(h, n)' \/ Asking(h, n)'
  <2>1. ~(h = k /\ n = d)
    BY <1>3, <1>4, <1>7, <1>12
  <2>2. flag[h][n] = 1 \/ (\E q \in buffer[h] : NextHop[q] = n)
    BY <1>4, <1>7, <1>12, <2>1
  <2>3. InFlight(h, n) \/ Asking(h, n)
    BY <1>1, <1>12, <2>2 DEF ArpInv, WaitInv
  <2> QED BY <1>1, <1>11, <2>1, <2>3 DEF Asking
<1>13. WaitInv'
  BY <1>12 DEF WaitInv
<1> QED BY <1>9, <1>10, <1>13 DEF ArpInv

LEMMA RequestTimeoutKeeps ==
    ASSUME ArpInv, NEW p \in Packet, RequestTimeout(p)
    PROVE  ArpInv'
<1> DEFINE k == Src[p]
           d == NextHop[p]
           W == WaitingFor(k, d)
<1>1. /\ k \in Host /\ d \in Host /\ request[p] = "timer" /\ UNCHANGED <<lossy, table, net>>
      /\ flag' = [flag EXCEPT ![k][d] = 0] /\ request' = [request EXCEPT ![p] = "none"]
  BY ArpAssumption DEF RequestTimeout
<1>2. Answered(p) \/ Retry(p) \/ GiveUp(p)
  BY DEF RequestTimeout
<1>3. W = {q \in buffer[k] : NextHop[q] = d}
  BY DEF WaitingFor
<1>4. d \in Device
  BY <1>1 DEF Device
<1>5. /\ buffer' \in [Host -> SUBSET Packet]
      /\ fate' \in [Packet -> {"new", "buffered", "forwarded", "dropped"}]
      /\ \A h \in Host : /\ buffer'[h] \subseteq buffer[h]
                         /\ buffer'[h] \subseteq {q \in Packet : Src[q] = h /\ fate'[q] = "buffered"}
  <2>1. CASE Answered(p) \/ Retry(p)
    <3>1. UNCHANGED <<buffer, fate>>
      BY <2>1 DEF Answered, Retry
    <3> QED BY <3>1 DEF ArpInv, TypeOK
  <2>2. CASE GiveUp(p)
    <3>1. /\ buffer' = [buffer EXCEPT ![k] = @ \ W]
          /\ fate' = [q \in Packet |-> IF q \in W THEN "dropped" ELSE fate[q]]
      BY <2>2 DEF GiveUp
    <3>2. W \subseteq buffer[k]
      BY <1>3
    <3>3. /\ \A h \in Host : buffer'[h] = IF h = k THEN buffer[h] \ W ELSE buffer[h]
          /\ buffer' \in [Host -> SUBSET Packet]
          /\ fate' \in [Packet -> {"new", "buffered", "forwarded", "dropped"}]
          /\ \A h \in Host : buffer'[h] \subseteq {q \in Packet : Src[q] = h /\ fate'[q] = "buffered"}
      <4> HIDE DEF k, d, W
      <4> QED BY <1>1, <3>1, <3>2, PacketsLeave, Zenon
    <3> HIDE DEF k, d, W
    <3> QED BY <3>3
  <2> QED BY <1>2, <2>1, <2>2
<1>6. retry' \in [Host -> [Device -> Nat]] /\ crashed' \in BOOLEAN
  <2>1. CASE Retry(p)
    BY <2>1 DEF Retry, ArpInv, TypeOK
  <2>2. CASE Answered(p)
    <3>1. retry' = [retry EXCEPT ![k][d] = 0] /\ crashed' = crashed
      BY <2>2 DEF Answered
    <3> QED BY <1>1, <1>4, <3>1 DEF ArpInv, TypeOK
  <2>3. CASE GiveUp(p)
    <3>1. retry' = [retry EXCEPT ![k][d] = 0] /\ crashed' \in BOOLEAN
      BY <2>3 DEF GiveUp
    <3> QED BY <1>1, <1>4, <3>1 DEF ArpInv, TypeOK
  <2> QED BY <1>2, <2>1, <2>2, <2>3
<1>7. flag' \in [Host -> [Device -> 0 .. 1]] /\ request' \in [Packet -> {"none", "generate", "timer"}]
  BY <1>1, <1>4 DEF ArpInv, TypeOK
<1>8. \A h, n \in Host : flag'[h][n] = IF h = k /\ n = d THEN 0 ELSE flag[h][n]
  BY <1>1, <1>4 DEF ArpInv, TypeOK, Device
<1>9. \A q \in Packet : request'[q] = IF q = p THEN "none" ELSE request[q]
  BY <1>1 DEF ArpInv, TypeOK
<1>10. TypeOK'
  BY <1>1, <1>5, <1>6, <1>7 DEF ArpInv, TypeOK, Message
<1>11. FlagHasRequest'
  BY <1>8, <1>9 DEF ArpInv, FlagHasRequest
<1>12. \A h, n \in Host : InFlight(h, n)' = InFlight(h, n) /\ (Asking(h, n) => Asking(h, n)')
  BY <1>1, <1>9 DEF InFlight, Asking
<1>13. WaitInv'
  BY <1>1, <1>5, <1>8, <1>12 DEF ArpInv, WaitInv
<1> QED BY <1>10, <1>11, <1>13 DEF ArpInv

LEMMA LoseKeeps ==
    ASSUME ArpInv, NEW m \in BagToSet(net), Lose(m)
    PROVE  ArpInv'
<1>1. lossy /\ net' = BagRemove(net, m)
      /\ UNCHANGED <<lossy, table, buffer, flag, retry, request, fate, crashed>>
  BY DEF Lose
<1>2. BagToSet(net') \subseteq BagToSet(net)
  BY <1>1, Removed
<1>3. TypeOK'
  BY <1>1, <1>2 DEF ArpInv, TypeOK, Message
<1>4. FlagHasRequest'
  BY <1>1 DEF ArpInv, FlagHasRequest
<1>5. WaitInv'
  BY <1>1 DEF WaitInv
<1> QED BY <1>3, <1>4, <1>5 DEF ArpInv

LEMMA ArpInvInit == Init => ArpInv
<1> SUFFICES ASSUME Init PROVE ArpInv
  OBVIOUS
<1>1. BagToSet(net) = {}
  BY DEF Init, EmptyBag, BagToSet, SetToBag
<1>2. TypeOK
  <2>1. table \in [Host -> SUBSET Host] /\ buffer \in [Host -> SUBSET Packet]
    BY DEF Init
  <2>2. flag \in [Host -> [Device -> 0 .. 1]] /\ retry \in [Host -> [Device -> Nat]]
    BY DEF Init
  <2>3. \A h \in Host : buffer[h] = {}
    BY DEF Init
  <2>4. lossy \in BOOLEAN /\ crashed \in BOOLEAN
    BY DEF Init
  <2> QED BY <1>1, <2>1, <2>2, <2>3, <2>4 DEF Init, TypeOK
<1>3. \A h, n \in Host : flag[h][n] = 0 /\ buffer[h] = {}
  BY DEF Init, Device
<1> QED BY <1>2, <1>3 DEF ArpInv, FlagHasRequest, WaitInv

LEMMA ArpInvNext == ArpInv /\ [Next]_vars => ArpInv'
<1> SUFFICES ASSUME ArpInv, [Next]_vars PROVE ArpInv'
  OBVIOUS
<1>1. CASE Next
  BY <1>1, ReadTableKeeps, GenerateKeeps, RequestTimeoutKeeps, ReceiveRequestKeeps,
     ReceiveReplyKeeps, LoseKeeps DEF Next, Deliver
<1>2. CASE UNCHANGED vars
  <2>1. TypeOK'
    BY <1>2 DEF ArpInv, TypeOK, vars, Message
  <2> QED BY <1>2, <2>1 DEF ArpInv, FlagHasRequest, WaitInv, InFlight, Asking, vars
<1> QED BY <1>1, <1>2

\* ARP: the invariant, of the module and in the scenarios.
THEOREM ArpInvariance == Spec => []ArpInv
BY ArpInvInit, ArpInvNext, PTL DEF Spec

\* The scenarios run ARP and nothing but ARP on its state.
LEMMA SuiteRunsArp == SuiteSpec => Spec
<1>1. SuiteInit => Init
  BY DEF SuiteInit
<1>2. [SuiteNext]_suite => [Next]_vars
  BY DEF SuiteNext, InArp, InStp, InDcf, suite, vars
<1> QED BY <1>1, <1>2, PTL DEF SuiteSpec, Spec

\* The types of the state of ARP: what waits in a buffer is a packet of that host
\* that is not served yet, and no flag leaves its two values.
THEOREM ArpTypes == SuiteSpec => []TypeOK
<1>1. ArpInv => TypeOK
  BY DEF ArpInv
<1> QED BY <1>1, SuiteRunsArp, ArpInvariance, PTL

\* A request flag that is set has a request behind it, and on a medium that loses
\* nothing a packet that waits has a request or its answer under way.
THEOREM ArpWaits == SuiteSpec => []WaitsForAnswer
<1>1. ArpInv => WaitsForAnswer
  <2> SUFFICES ASSUME ArpInv PROVE WaitsForAnswer
    OBVIOUS
  <2>1. ASSUME ~lossy, NEW h \in Host, NEW p \in buffer[h]
        PROVE  InFlight(h, NextHop[p]) \/ Asking(h, NextHop[p])
    <3>1. p \in Packet /\ NextHop[p] \in Host
      BY ArpAssumption DEF ArpInv, TypeOK
    <3> QED BY <2>1, <3>1 DEF ArpInv, WaitInv
  <2> QED BY <2>1 DEF ArpInv, WaitsForAnswer, Asking
<1> QED BY <1>1, SuiteRunsArp, ArpInvariance, PTL

-----------------------------------------------------------------------------
(* Ethernet: the switch tables.                                            *)

Port == StpSwitch \cup StpStation

Frame == [src : StpStation, dst : StpStation \cup {everyone}, from : Port, to : Port]

\* What a frame that is under way says of where it came from.
FrameInv ==
    \A f \in stpFrames : f.from # f.to /\ (f.from \in StpSwitch => Stp!Knows(f.from, f.src))

\* What an entry says: a port that leads to another device, which knows the station
\* too if it is a switch.
EntryInv ==
    \A s \in StpSwitch : \A e \in stpTables[s] :
        e[2] # s /\ (e[2] \in StpSwitch => Stp!Knows(e[2], e[1]))

StpTypes ==
    /\ lan \in StpLan /\ stpUnsent \subseteq lan.flow
    /\ stpFrames \subseteq Frame
    /\ stpTables \in [StpSwitch -> SUBSET (StpStation \X Port)]

StpInv == StpTypes /\ FrameInv /\ EntryInv /\ Stp!TablesLeadToStation

LEMMA StpInvInit == Stp!Init => StpInv
BY DEF Stp!Init, StpInv, StpTypes, FrameInv, EntryInv, Stp!TablesLeadToStation, Stp!Knows

\* The steps that leave the tables alone and add no frame.
LEMMA StpKeeps ==
    ASSUME StpInv, UNCHANGED <<lan, stpTables>>, stpUnsent' \subseteq stpUnsent,
           stpFrames' \subseteq stpFrames
    PROVE  StpInv'
BY DEF StpInv, StpTypes, FrameInv, EntryInv, Stp!TablesLeadToStation, Stp!Knows

LEMMA SendKeeps ==
    ASSUME StpInv, NEW w \in stpUnsent, Stp!Send(w)
    PROVE  StpInv'
<1> DEFINE f == [src |-> w[1], dst |-> w[2], from |-> w[1], to |-> StpAt[w[1]]]
<1>1. /\ stpFrames' = stpFrames \cup {f} /\ stpUnsent' = stpUnsent \ {w}
      /\ UNCHANGED <<lan, stpTables>>
  BY DEF Stp!Send
<1>2. w \in StpStation \X (StpStation \cup {everyone})
  BY StpAssumption DEF StpInv, StpTypes
<1>3. w[1] \in StpStation /\ w[2] \in StpStation \cup {everyone} /\ StpAt[w[1]] \in StpSwitch
  BY <1>2, StpAssumption
<1>4. f \in Frame /\ f.from # f.to /\ f.from \notin StpSwitch
  BY <1>3, StpAssumption DEF Frame, Port
<1> HIDE DEF f
<1>5. StpTypes'
  BY <1>1, <1>4 DEF StpInv, StpTypes, Frame, Port
<1>6. FrameInv'
  BY <1>1, <1>4 DEF StpInv, FrameInv, Stp!Knows
<1>7. EntryInv' /\ (Stp!TablesLeadToStation)'
  BY <1>1 DEF StpInv, EntryInv, Stp!TablesLeadToStation, Stp!Knows
<1> QED BY <1>5, <1>6, <1>7 DEF StpInv

LEMMA ForwardKeeps ==
    ASSUME StpInv, NEW f \in stpFrames, Stp!Forward(f)
    PROVE  StpInv'
<1> DEFINE s == f.to
           h == f.src
           port == f.from
           T == Stp!Learn(s, h, port)
           new == {[f EXCEPT !.from = s, !.to = t] : t \in Stp!OutPorts(s, f, T)}
<1>1. /\ s \in StpSwitch /\ f \in Frame
      /\ stpTables' = [stpTables EXCEPT ![s] = T]
      /\ stpFrames' = (stpFrames \ {f}) \cup new
      /\ UNCHANGED <<lan, stpUnsent>>
  BY DEF Stp!Forward, StpInv, StpTypes
<1>2. h \in StpStation /\ port \in Port /\ port # s /\ (port \in StpSwitch => Stp!Knows(port, h))
  BY <1>1 DEF Frame, StpInv, FrameInv
<1>3. T = IF Stp!Knows(s, h) THEN stpTables[s] ELSE stpTables[s] \cup {<<h, port>>}
  BY DEF Stp!Learn
<1>4. stpTables' \in [StpSwitch -> SUBSET (StpStation \X Port)]
  <2>1. <<h, port>> \in StpStation \X Port
    BY <1>2
  <2>2. stpTables[s] \subseteq StpStation \X Port
    BY <1>1 DEF StpInv, StpTypes
  <2>3. T \in SUBSET (StpStation \X Port)
    BY <1>3, <2>1, <2>2
  <2> HIDE DEF T, s
  <2> QED BY <1>1, <2>3 DEF StpInv, StpTypes
<1>5. \A t \in StpSwitch : stpTables'[t] = IF t = s THEN T ELSE stpTables[t]
  BY <1>1 DEF StpInv, StpTypes
<1>6. \A t \in StpSwitch : \A g : Stp!Knows(t, g) => Stp!Knows(t, g)'
  BY <1>3, <1>5 DEF Stp!Knows
<1>7. Stp!Knows(s, h)'
  <2>1. CASE Stp!Knows(s, h)
    BY <1>1, <1>6, <2>1
  <2>2. CASE ~Stp!Knows(s, h)
    <3>1. <<h, port>> \in stpTables'[s] /\ <<h, port>>[1] = h
      BY <1>1, <1>3, <1>5, <2>2
    <3> QED BY <3>1 DEF Stp!Knows
  <2> QED BY <2>1, <2>2
<1>8. ASSUME NEW t \in Stp!OutPorts(s, f, T)
      PROVE  t \in Port /\ t # s
  <2>1. PICK known : known = {e[2] : e \in {d \in T : d[1] = f.dst}}
    OBVIOUS
  <2>2. ASSUME NEW e \in T
        PROVE  e[2] \in Port /\ e[2] # s
    <3>1. CASE e \in stpTables[s]
      <4>1. e \in StpStation \X Port
        BY <1>1, <3>1 DEF StpInv, StpTypes
      <4>2. e[2] # s
        BY <1>1, <3>1 DEF StpInv, EntryInv
      <4> QED BY <4>1, <4>2
    <3>2. CASE e \notin stpTables[s]
      <4>1. e = <<h, port>>
        BY <1>3, <3>2
      <4> QED BY <1>2, <4>1
    <3> QED BY <3>1, <3>2
  <2>3. \A n \in Stp!Neighbours(s) : n \in StpSwitch /\ n # s
    BY DEF Stp!Neighbours, Stp!Ports
  <2>4. t \in known \/ t \in Stp!FloodPorts(s, port)
    BY <2>1, <1>8 DEF Stp!OutPorts
  <2>5. CASE t \in known
    BY <2>1, <2>2, <2>5
  <2>6. CASE t \in Stp!FloodPorts(s, port)
    BY <1>1, <2>3, <2>6, StpAssumption DEF Stp!FloodPorts, Port
  <2> QED BY <2>4, <2>5, <2>6
<1>9. ASSUME NEW g \in new
      PROVE  g \in Frame /\ g.from = s /\ g.from # g.to /\ g.src = h
  <2>1. PICK t \in Stp!OutPorts(s, f, T) : g = [f EXCEPT !.from = s, !.to = t]
    BY <1>9
  <2>2. t \in Port /\ t # s
    BY <1>8
  <2> QED BY <1>1, <2>1, <2>2 DEF Frame, Port
<1> HIDE DEF s, h, port, T, new
<1>10. StpTypes'
  <2>1. stpFrames' \subseteq Frame
    BY <1>1, <1>9 DEF StpInv, StpTypes
  <2> QED BY <1>1, <1>4, <2>1 DEF StpInv, StpTypes, Frame, Port
<1>11. FrameInv'
  BY <1>1, <1>6, <1>7, <1>9 DEF StpInv, FrameInv
<1>12. EntryInv'
  <2> SUFFICES ASSUME NEW t \in StpSwitch, NEW e \in stpTables'[t]
               PROVE  e[2] # t /\ (e[2] \in StpSwitch => Stp!Knows(e[2], e[1])')
    BY DEF EntryInv, Stp!Knows
  <2>1. CASE e \in stpTables[t]
    BY <1>6, <2>1 DEF StpInv, EntryInv
  <2>2. CASE e \notin stpTables[t]
    <3>1. t = s /\ e = <<h, port>>
      BY <1>3, <1>5, <2>2
    <3>2. e[1] = h /\ e[2] = port
      BY <3>1
    <3> QED BY <1>2, <1>6, <3>1, <3>2
  <2> QED BY <2>1, <2>2
<1>13. ASSUME NEW g \in StpStation, NEW S \in (SUBSET StpSwitch) \ {{}},
              \A t \in S : Stp!Knows(t, g)'
       PROVE  \E e \in UNION {stpTables'[t] : t \in S} : e[1] = g /\ e[2] \notin S
  <2>1. ASSUME NEW R \in SUBSET S, R # {}, \A t \in R : Stp!Knows(t, g)
        PROVE  \E t \in R : \E e \in stpTables[t] : e[1] = g /\ e[2] \notin R
    BY <2>1 DEF StpInv, Stp!TablesLeadToStation
  <2>2. CASE \A t \in S : Stp!Knows(t, g)
    <3>1. PICK t \in S : \E e \in stpTables[t] : e[1] = g /\ e[2] \notin S
      BY <2>1, <2>2
    <3>2. stpTables[t] \subseteq stpTables'[t]
      BY <1>3, <1>5, <3>1
    <3> QED BY <3>1, <3>2
  <2>3. CASE ~(\A t \in S : Stp!Knows(t, g))
    <3>1. s \in S /\ g = h /\ ~Stp!Knows(s, h) /\ (\A t \in S \ {s} : Stp!Knows(t, h))
      BY <1>3, <1>5, <1>13, <2>3 DEF Stp!Knows
    <3>2. <<h, port>> \in stpTables'[s] /\ <<h, port>>[1] = h /\ <<h, port>>[2] = port
      BY <1>1, <1>3, <1>5, <3>1
    <3>3. CASE port \notin S
      BY <3>1, <3>2, <3>3
    <3>4. CASE port \in S
      <4>1. PICK t \in S \ {s} : \E e \in stpTables[t] : e[1] = g /\ e[2] \notin S \ {s}
        BY <1>2, <2>1, <3>1, <3>4
      <4>2. PICK e \in stpTables[t] : e[1] = g /\ e[2] \notin S \ {s}
        BY <4>1
      <4>3. e[2] # s
        BY <1>1, <3>1, <4>2 DEF StpInv, EntryInv
      <4>4. e \in stpTables'[t]
        BY <1>5, <4>1
      <4> QED BY <4>2, <4>3, <4>4
    <3> QED BY <3>3, <3>4
  <2> QED BY <2>2, <2>3
<1>14. (Stp!TablesLeadToStation)'
  BY <1>13 DEF Stp!TablesLeadToStation, Stp!Knows
<1> QED BY <1>10, <1>11, <1>12, <1>14 DEF StpInv

LEMMA StpInvNext == StpInv /\ [Stp!Next]_stp => StpInv'
<1> SUFFICES ASSUME StpInv, [Stp!Next]_stp PROVE StpInv'
  OBVIOUS
<1>1. CASE \E p \in Stp!Ports : Stp!ProcessBpdu(p[1], p[2])
  BY <1>1, StpKeeps DEF Stp!ProcessBpdu
<1>2. CASE \E f \in stpFrames : Stp!MoveUp(f)
  BY <1>2, StpKeeps DEF Stp!MoveUp
<1>3. CASE \E w \in stpUnsent : Stp!Send(w)
  BY <1>3, SendKeeps
<1>4. CASE \E f \in stpFrames : Stp!Forward(f)
  BY <1>4, ForwardKeeps
<1>5. CASE UNCHANGED stp
  BY <1>5, StpKeeps DEF stp
<1> QED BY <1>1, <1>2, <1>3, <1>4, <1>5 DEF Stp!Next

\* The switch tables lead to their stations and not in a circle, in every Ethernet
\* of switches and however the spanning tree changes under the frames.
THEOREM SwitchTablesLead == SuiteSpec => []TablesLeadToStation
<1>1. SuiteInit => StpInv
  BY StpInvInit DEF SuiteInit
<1>2. StpInv /\ [SuiteNext]_suite => StpInv'
  <2>1. [SuiteNext]_suite => [Stp!Next]_stp
    BY DEF SuiteNext, InArp, InStp, InDcf, suite, stp
  <2> QED BY <2>1, StpInvNext
<1>3. StpInv => TablesLeadToStation
  BY DEF StpInv, TablesLeadToStation
<1> QED BY <1>1, <1>2, <1>3, PTL DEF SuiteSpec
=============================================================================
