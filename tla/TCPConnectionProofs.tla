------------------------- MODULE TCPConnectionProofs -------------------------
(***************************************************************************)
(* For every number of packets, segment length, window, retry limit and    *)
(* mode of the network: the types, that every byte in flight stays queued, *)
(* that a connection in TIME_WAIT has the timers it needs to end, and that *)
(* no handler takes SND.UNA, SND.NXT or RCV.NXT back.                      *)
(***************************************************************************)
EXTENDS TCPConnection, SequenceTheorems, TLAPS

-----------------------------------------------------------------------------
(* The inductive invariant. *)

\* Every byte from SND.UNA to SND.NXT is in a queued segment.
Covered(t) ==
    \A b \in t.una..(t.nxt - 1) : \E g \in t.rtx : g.seq <= b /\ b < g.seq + get_seg_len(g)

\* The flag swallows one expiry: a second timer is pending when it is set.
TimersOf(t) ==
    /\ t.state = "TIME_WAIT" => t.timers >= 1
    /\ t.restarted => t.timers >= 2

Handshake == {"SYN_SENT", "SYN_RECEIVED"}

\* Until the handshake is over nothing is acknowledged, no data is sent and
\* the application is not asked for any: resend_syn resets what has not moved.
HandshakeOf(t, w) ==
    /\ t.state \in Handshake => t.una = t.iss /\ t.nxt = t.iss + 1 /\ ~w
    /\ t.state = "SYN_SENT" => t.rcvNxt = 0

GoodTcb(t, w) == t \in Tcb /\ Covered(t) /\ TimersOf(t) /\ HandshakeOf(t, w)

TypeInv ==
    /\ sock \in [Host -> BOOLEAN]
    /\ app \in [Host -> [buf : Nat, sent : Nat, wait : BOOLEAN]]
    /\ dlv \in [Host -> Seq(Nat)]
    /\ orphan \in [Host -> BOOLEAN]
    /\ made \in Nat
    /\ net \subseteq Segment
    /\ fault \in Fault

TcbInv ==
    /\ DOMAIN tcb = Host /\ tcb = [h \in Host |-> tcb[h]]
    /\ \A h \in Host : tcb[h] = NoTcb \/ GoodTcb(tcb[h], app[h].wait)

\* A host without a socket has no TCB, and its application is not asked for data.
SockInv == \A h \in Host : ~sock[h] => tcb[h] = NoTcb /\ ~app[h].wait

IInv == TypeInv /\ TcbInv /\ SockInv

\* TCB u does not go back behind t.
Advances(t, u) == u.una >= t.una /\ u.nxt >= t.nxt /\ u.rcvNxt >= t.rcvNxt

\* What a step shows: the invariant, and that no TCB goes back.
Forward == \A h \in Host : Open(h) /\ tcb'[h] # NoTcb => Advances(tcb[h], tcb'[h])

-----------------------------------------------------------------------------
(* Segments. *)

LEMMA SegmentFields ==
    ASSUME NEW m \in Segment
    PROVE  /\ m.from \in Host /\ m.flags \in SUBSET Flag
           /\ m.seq \in Nat /\ m.ackno \in Nat /\ m.pkt \in Nat
  BY DEF Segment

LEMMA SegmentMade ==
    ASSUME NEW h \in Host, NEW f \in SUBSET Flag, NEW s \in Nat, NEW a \in Nat, NEW p \in Nat
    PROVE  [from |-> h, flags |-> f, seq |-> s, ackno |-> a, pkt |-> p] \in Segment
  BY DEF Segment

LEMMA SegLen ==
    ASSUME NEW m
    PROVE  get_seg_len(m) \in Nat
  BY DataLenAssumption DEF get_seg_len

LEMMA ControlSegments ==
    ASSUME NEW h \in Host, NEW s \in Nat, NEW a \in Nat
    PROVE  /\ create_syn(h, s) \in Segment
           /\ create_synAck(h, s, a) \in Segment
           /\ create_ack(h, s, a) \in Segment
           /\ fin_ack(h, s, a) \in Segment
  <1>1. /\ {"SYN"} \in SUBSET Flag /\ {"SYN", "ACK"} \in SUBSET Flag
        /\ {"ACK"} \in SUBSET Flag /\ {"ACK", "FIN"} \in SUBSET Flag
    BY DEF Flag
  <1> QED BY <1>1, SegmentMade DEF create_syn, create_synAck, create_ack, fin_ack

LEMMA FinSegment ==
    ASSUME NEW h \in Host, NEW i \in Nat, NEW n \in Nat
    PROVE  create_fin(h, i, n) \in Segment
  <1>1. {"FIN"} \in SUBSET Flag
    BY DEF Flag
  <1>2. (IF i + 1 = n THEN n + 1 ELSE n) \in Nat
    OBVIOUS
  <1> QED BY <1>1, <1>2, SegmentMade DEF create_fin

LEMMA RstSegment ==
    ASSUME NEW h \in Host, NEW m \in Segment, NEW c
    PROVE  create_rst(h, m, c) \in Segment
  <1>1. {"RST"} \in SUBSET Flag /\ {"RST", "ACK"} \in SUBSET Flag
    BY DEF Flag
  <1>2. m.ackno \in Nat /\ m.seq + HdrLength \in Nat
    BY SegmentFields, HdrLengthAssumption
  <1> QED BY <1>1, <1>2, SegmentMade DEF create_rst

\* Segments of DataLen bytes side by side.
LEMMA Multiple ==
    ASSUME NEW k \in Nat
    PROVE  k * DataLen \in Nat
  BY DataLenAssumption

LEMMA DivisionBound ==
    ASSUME NEW b \in Nat, NEW k \in Nat, b < k * DataLen
    PROVE  \E i \in 1..k : (i - 1) * DataLen <= b /\ b < (i - 1) * DataLen + DataLen
  <1> DEFINE q == b \div DataLen
  <1>1. q \in Nat /\ q * DataLen <= b /\ b < q * DataLen + DataLen
    BY DataLenAssumption, SMTT(30)
  <1> HIDE DEF q
  <1>2. q * DataLen < k * DataLen
    BY <1>1, DataLenAssumption
  <1>3. q < k
    BY <1>1, <1>2, DataLenAssumption, SMTT(30)
  <1>4. q + 1 \in 1..k /\ (q + 1) - 1 = q
    BY <1>1, <1>3
  <1> QED BY <1>1, <1>4

LEMMA SentDataIsSegment ==
    ASSUME NEW h \in Host, NEW t \in Tcb, NEW a, a.sent \in Nat, NEW k \in Nat
    PROVE  SentData(h, t, a, k) \subseteq Segment
  <1>1. SUFFICES ASSUME NEW i \in 1..k
                 PROVE  data_segment(h, t.nxt + (i - 1) * DataLen, a.sent + i) \in Segment
    BY <1>1 DEF SentData
  <1>2. t.nxt \in Nat /\ i - 1 \in Nat /\ a.sent + i \in Nat
    BY DEF Tcb
  <1>3. (i - 1) * DataLen \in Nat
    BY <1>2, Multiple
  <1>4. {} \in SUBSET Flag /\ t.nxt + (i - 1) * DataLen \in Nat
    BY <1>2, <1>3
  <1> QED BY <1>2, <1>4, SegmentMade DEF data_segment

LEMMA SentDataCovers ==
    ASSUME NEW h \in Host, NEW t \in Tcb, NEW a, a.sent \in Nat, NEW k \in Nat,
           NEW b \in Nat, t.nxt <= b, b < t.nxt + k * DataLen
    PROVE  \E g \in SentData(h, t, a, k) : g.seq <= b /\ b < g.seq + get_seg_len(g)
  <1>1. t.nxt \in Nat /\ k * DataLen \in Nat
    BY Multiple DEF Tcb
  <1>2. b - t.nxt \in Nat /\ b - t.nxt < k * DataLen
    BY <1>1
  <1>3. PICK i \in 1..k : (i - 1) * DataLen <= b - t.nxt /\ b - t.nxt < (i - 1) * DataLen + DataLen
    BY <1>2, DivisionBound
  <1> DEFINE g == data_segment(h, t.nxt + (i - 1) * DataLen, a.sent + i)
  <1>4. g \in SentData(h, t, a, k)
    BY DEF SentData
  <1>5. g.seq = t.nxt + (i - 1) * DataLen /\ g.flags = {} /\ g.pkt = a.sent + i
    BY DEF data_segment
  <1>6. get_seg_len(g) = DataLen
    BY <1>5 DEF get_seg_len
  <1>7. (i - 1) * DataLen \in Nat /\ DataLen \in Nat
    BY Multiple, DataLenAssumption
  <1> HIDE DEF g
  <1>8. g.seq <= b /\ b < g.seq + get_seg_len(g)
    BY <1>1, <1>2, <1>3, <1>5, <1>6, <1>7
  <1> QED BY <1>4, <1>8

-----------------------------------------------------------------------------
(* The handlers on a TCB. *)

LEMMA TcbFields ==
    ASSUME NEW t \in Tcb
    PROVE  /\ t.state \in State
           /\ t.iss \in Nat /\ t.una \in Nat /\ t.nxt \in Nat /\ t.irs \in Nat /\ t.rcvNxt \in Nat
           /\ t.rtx \in SUBSET Segment /\ t.freed \in BOOLEAN
           /\ t.ooo \in Seq(Segment) /\ t.got \in SUBSET Nat
           /\ t.synRetries \in Nat /\ t.timers \in Nat
           /\ t.ackSent \in BOOLEAN /\ t.timersOff \in BOOLEAN /\ t.restarted \in BOOLEAN
           /\ t # NoTcb
  BY DEF Tcb, NoTcb, State

LEMMA FlightKept ==
    ASSUME NEW t, NEW u, Covered(t), u.una = t.una, u.nxt = t.nxt, u.rtx = t.rtx
    PROVE  Covered(u)
  BY DEF Covered

LEMMA NoHandshake ==
    ASSUME NEW t, t.state \notin Handshake, NEW w
    PROVE  HandshakeOf(t, w)
  BY DEF HandshakeOf, Handshake

LEMMA AdvancesItself ==
    ASSUME NEW t \in Tcb, NEW u, u.una = t.una, u.nxt = t.nxt, u.rcvNxt = t.rcvNxt
    PROVE  Advances(t, u)
  BY TcbFields DEF Advances

\* send_segment.
LEMMA SentTcbFields ==
    ASSUME NEW h \in Host, NEW t \in Tcb, NEW a, a.sent \in Nat, NEW k \in Nat
    PROVE  /\ SentTcb(h, t, a, k) \in Tcb
           /\ SentTcb(h, t, a, k).una = t.una
           /\ SentTcb(h, t, a, k).nxt = t.nxt + k * DataLen
           /\ SentTcb(h, t, a, k).rcvNxt = t.rcvNxt
           /\ SentTcb(h, t, a, k).rtx = t.rtx \cup SentData(h, t, a, k)
           /\ SentTcb(h, t, a, k).timers = t.timers
           /\ SentTcb(h, t, a, k).restarted = t.restarted
           /\ SentTcb(h, t, a, k).state \in {t.state, "FIN_WAIT_1"}
  <1> DEFINE d == SentData(h, t, a, k)
             n == t.nxt + k * DataLen
             s == IF ClosesApp(h, a, k) THEN "FIN_WAIT_1" ELSE t.state
  <1>1. d \in SUBSET Segment
    BY SentDataIsSegment
  <1>2. n \in Nat
    <2>1. t.nxt \in Nat /\ k * DataLen \in Nat
      BY Multiple, TcbFields
    <2> QED BY <2>1
  <1>3. s \in State /\ s \in {t.state, "FIN_WAIT_1"}
    BY TcbFields DEF State
  <1>4. SentTcb(h, t, a, k) = [t EXCEPT !.nxt = n, !.rtx = @ \cup d, !.state = s]
    BY DEF SentTcb
  <1> HIDE DEF d, n, s
  <1>5. [t EXCEPT !.nxt = n, !.rtx = @ \cup d, !.state = s] \in Tcb
    BY <1>1, <1>2, <1>3 DEF Tcb
  <1>6. /\ SentTcb(h, t, a, k).nxt = n
        /\ SentTcb(h, t, a, k).rtx = t.rtx \cup d
        /\ SentTcb(h, t, a, k).state = s
    BY <1>4 DEF Tcb
  <1>7. /\ SentTcb(h, t, a, k).una = t.una
        /\ SentTcb(h, t, a, k).rcvNxt = t.rcvNxt
        /\ SentTcb(h, t, a, k).timers = t.timers
        /\ SentTcb(h, t, a, k).restarted = t.restarted
    BY <1>4 DEF Tcb
  <1> QED BY <1>3, <1>4, <1>5, <1>6, <1>7 DEF n, d

LEMMA SentIsGood ==
    ASSUME NEW h \in Host, NEW t \in Tcb, NEW a, a.sent \in Nat, NEW k \in Nat, NEW w,
           Covered(t), TimersOf(t), t.state \notin Handshake
    PROVE  GoodTcb(SentTcb(h, t, a, k), w) /\ Advances(t, SentTcb(h, t, a, k))
  <1> DEFINE u == SentTcb(h, t, a, k)
             d == SentData(h, t, a, k)
             n == t.nxt + k * DataLen
  <1>1. /\ u \in Tcb /\ u.una = t.una /\ u.nxt = n /\ u.rcvNxt = t.rcvNxt
        /\ u.rtx = t.rtx \cup d /\ u.timers = t.timers /\ u.restarted = t.restarted
        /\ u.state \in {t.state, "FIN_WAIT_1"}
    BY SentTcbFields
  <1>2. t.una \in Nat /\ t.nxt \in Nat /\ t.rcvNxt \in Nat /\ k * DataLen \in Nat
    BY TcbFields, Multiple
  <1>3. n \in Nat /\ n >= t.nxt
    BY <1>2
  <1>4. \A b \in t.nxt..(n - 1) : \E g \in d : g.seq <= b /\ b < g.seq + get_seg_len(g)
    <2>1. TAKE b \in t.nxt..(n - 1)
    <2>2. b \in Nat /\ t.nxt <= b /\ b < t.nxt + k * DataLen
      BY <1>2, <1>3
    <2> QED BY <2>2, SentDataCovers
  <1> HIDE DEF u, d, n
  <1>5. Covered(u)
    <2>1. SUFFICES ASSUME NEW b \in u.una..(u.nxt - 1)
                   PROVE  \E g \in u.rtx : g.seq <= b /\ b < g.seq + get_seg_len(g)
      BY <2>1 DEF Covered
    <2>2. b \in t.una..(t.nxt - 1) \/ b \in t.nxt..(n - 1)
      BY <1>1, <1>2, <1>3
    <2>3. CASE b \in t.una..(t.nxt - 1)
      BY <1>1, <2>3 DEF Covered
    <2>4. CASE b \in t.nxt..(n - 1)
      BY <1>1, <1>4, <2>4
    <2> QED BY <2>2, <2>3, <2>4
  <1>6. TimersOf(u)
    BY <1>1 DEF TimersOf
  <1>7. HandshakeOf(u, w)
    BY <1>1, NoHandshake DEF Handshake
  <1>8. Advances(t, u)
    BY <1>1, <1>2, <1>3 DEF Advances
  <1> QED BY <1>1, <1>5, <1>6, <1>7, <1>8 DEF GoodTcb, u

LEMMA SentSegmentsAreSegments ==
    ASSUME NEW h \in Host, NEW t \in Tcb, NEW a, a.sent \in Nat, NEW k \in Nat
    PROVE  SentSegments(h, t, a, k) \subseteq Segment
  <1>1. t.nxt \in Nat /\ k * DataLen \in Nat /\ t.iss \in Nat
    BY Multiple, TcbFields
  <1>2. t.nxt + k * DataLen \in Nat
    BY <1>1
  <1>3. create_fin(h, t.iss, t.nxt + k * DataLen) \in Segment
    BY <1>1, <1>2, FinSegment
  <1> QED BY <1>3, SentDataIsSegment DEF SentSegments

LEMMA SentAppFields ==
    ASSUME NEW a \in [buf : Nat, sent : Nat, wait : BOOLEAN], NEW k \in 0..a.buf
    PROVE  SentApp(a, k) \in [buf : Nat, sent : Nat, wait : BOOLEAN]
  <1>1. a.buf - k \in Nat /\ a.sent + k \in Nat /\ (a.wait \/ a.buf = 0) \in BOOLEAN
    OBVIOUS
  <1> QED BY <1>1 DEF SentApp

\* What delete_segment_from_queue leaves covers what is not acknowledged.
LEMMA AckedCovered ==
    ASSUME NEW t \in Tcb, Covered(t), NEW ack \in Nat, t.una <= ack, NEW b \in ack..(t.nxt - 1)
    PROVE  \E g \in delete_segment_from_queue(t.rtx, ack) :
               g.seq <= b /\ b < g.seq + get_seg_len(g)
  <1>1. t.una \in Nat /\ t.nxt \in Nat /\ t.rtx \in SUBSET Segment
    BY TcbFields
  <1>2. b \in t.una..(t.nxt - 1)
    BY <1>1
  <1>3. PICK g \in t.rtx : g.seq <= b /\ b < g.seq + get_seg_len(g)
    BY <1>2 DEF Covered
  <1>4. g.seq \in Nat /\ get_seg_len(g) \in Nat
    BY <1>1, SegmentFields, SegLen
  <1>5. g.seq + get_seg_len(g) > ack
    BY <1>1, <1>3, <1>4
  <1> QED BY <1>3, <1>5 DEF delete_segment_from_queue

\* start_timewait_timer on a connection that enters or restarts TIME_WAIT.
LEMMA StartTimeWaitFields ==
    ASSUME NEW t \in Tcb
    PROVE  /\ StartTimeWait(t) \in Tcb
           /\ StartTimeWait(t).timers = t.timers + 1
           /\ StartTimeWait(t).una = t.una /\ StartTimeWait(t).nxt = t.nxt
           /\ StartTimeWait(t).rtx = t.rtx /\ StartTimeWait(t).rcvNxt = t.rcvNxt
           /\ StartTimeWait(t).restarted = t.restarted /\ StartTimeWait(t).state = t.state
  <1>1. t.timers + 1 \in Nat
    BY TcbFields
  <1>2. StartTimeWait(t) = [t EXCEPT !.timersOff = TRUE, !.timers = t.timers + 1]
    BY DEF StartTimeWait
  <1>3. [t EXCEPT !.timersOff = TRUE, !.timers = t.timers + 1] \in Tcb
    BY <1>1 DEF Tcb
  <1>4. /\ StartTimeWait(t).timers = t.timers + 1
        /\ StartTimeWait(t).una = t.una /\ StartTimeWait(t).nxt = t.nxt
        /\ StartTimeWait(t).rtx = t.rtx /\ StartTimeWait(t).rcvNxt = t.rcvNxt
        /\ StartTimeWait(t).restarted = t.restarted /\ StartTimeWait(t).state = t.state
    BY <1>2 DEF Tcb
  <1> QED BY <1>2, <1>3, <1>4

LEMMA StateSet ==
    ASSUME NEW t \in Tcb, NEW s \in State
    PROVE  /\ [t EXCEPT !.state = s] \in Tcb
           /\ [t EXCEPT !.state = s].state = s
           /\ [t EXCEPT !.state = s].una = t.una /\ [t EXCEPT !.state = s].nxt = t.nxt
           /\ [t EXCEPT !.state = s].rtx = t.rtx /\ [t EXCEPT !.state = s].rcvNxt = t.rcvNxt
           /\ [t EXCEPT !.state = s].timers = t.timers
           /\ [t EXCEPT !.state = s].restarted = t.restarted
  BY DEF Tcb

LEMMA RestartedSet ==
    ASSUME NEW t \in Tcb, NEW b \in BOOLEAN
    PROVE  /\ [t EXCEPT !.restarted = b] \in Tcb
           /\ [t EXCEPT !.restarted = b].restarted = b
           /\ [t EXCEPT !.restarted = b].una = t.una /\ [t EXCEPT !.restarted = b].nxt = t.nxt
           /\ [t EXCEPT !.restarted = b].rtx = t.rtx /\ [t EXCEPT !.restarted = b].rcvNxt = t.rcvNxt
           /\ [t EXCEPT !.restarted = b].timers = t.timers
           /\ [t EXCEPT !.restarted = b].state = t.state
  BY DEF Tcb

\* process_ack_in_establishedState.
LEMMA AckedFields ==
    ASSUME NEW t \in Tcb, NEW m \in Segment, Covered(t)
    PROVE  /\ AckedTcb(t, m) \in Tcb
           /\ AckedTcb(t, m).una >= t.una /\ AckedTcb(t, m).nxt = t.nxt
           /\ AckedTcb(t, m).rcvNxt = t.rcvNxt /\ AckedTcb(t, m).state = t.state
           /\ AckedTcb(t, m).timers = t.timers /\ AckedTcb(t, m).restarted = t.restarted
           /\ Covered(AckedTcb(t, m))
  <1>1. t.una \in Nat /\ t.nxt \in Nat /\ m.ackno \in Nat /\ t.rtx \in SUBSET Segment
    BY TcbFields, SegmentFields
  <1>2. CASE NewAck(t, m)
    <2> DEFINE q == delete_segment_from_queue(t.rtx, m.ackno)
    <2>1. q \in SUBSET Segment
      BY <1>1 DEF delete_segment_from_queue
    <2>2. t.una <= m.ackno
      BY <1>1, <1>2 DEF NewAck
    <2>3. \A b \in m.ackno..(t.nxt - 1) : \E g \in q : g.seq <= b /\ b < g.seq + get_seg_len(g)
      BY <1>1, <2>2, AckedCovered
    <2>4. AckedTcb(t, m) = [t EXCEPT !.una = m.ackno, !.rtx = q]
      BY <1>2 DEF AckedTcb
    <2> HIDE DEF q
    <2>5. [t EXCEPT !.una = m.ackno, !.rtx = q] \in Tcb
      BY <1>1, <2>1 DEF Tcb
    <2>6. /\ AckedTcb(t, m).una = m.ackno /\ AckedTcb(t, m).nxt = t.nxt
          /\ AckedTcb(t, m).rtx = q
          /\ AckedTcb(t, m).rcvNxt = t.rcvNxt /\ AckedTcb(t, m).state = t.state
          /\ AckedTcb(t, m).timers = t.timers /\ AckedTcb(t, m).restarted = t.restarted
      BY <2>4 DEF Tcb
    <2>7. Covered(AckedTcb(t, m))
      BY <2>3, <2>6 DEF Covered
    <2>8. AckedTcb(t, m).una >= t.una
      BY <1>1, <2>2, <2>6
    <2>9. AckedTcb(t, m) \in Tcb
      BY <2>4, <2>5
    <2> QED BY <2>6, <2>7, <2>8, <2>9
  <1>3. CASE ~NewAck(t, m)
    <2>1. AckedTcb(t, m) = t
      BY <1>3 DEF AckedTcb
    <2> QED BY <1>1, <2>1
  <1> QED BY <1>2, <1>3

\* process_ack_packet leaves the handshake, and has started the timer of TIME_WAIT.
LEMMA AfterAckIsSound ==
    ASSUME NEW t \in Tcb, NEW m \in Segment, Covered(t), TimersOf(t), t.state \in AckStates
    PROVE  /\ AfterAck(t, m) \in Tcb
           /\ Covered(AfterAck(t, m)) /\ TimersOf(AfterAck(t, m))
           /\ AfterAck(t, m).state \notin Handshake
           /\ Advances(t, AfterAck(t, m))
  <1> DEFINE v == AckedTcb(t, m)
             s == StateAfterAck(t, m)
             u == [v EXCEPT !.state = s]
             z == AfterAck(t, m)
  <1>1. /\ v \in Tcb /\ v.una >= t.una /\ v.nxt = t.nxt /\ v.rcvNxt = t.rcvNxt
        /\ v.timers = t.timers /\ v.restarted = t.restarted /\ Covered(v)
    BY AckedFields
  <1>2. s \in {"ESTABLISHED", "FIN_WAIT_1", "FIN_WAIT_2", "CLOSING", "TIME_WAIT"}
    BY DEF StateAfterAck, AckStates, Incoming, State
  <1>3. t.timers \in Nat /\ t.nxt \in Nat /\ t.rcvNxt \in Nat /\ v.una \in Nat
    BY <1>1, TcbFields
  <1>4. s \in State /\ s \notin Handshake
    BY <1>2 DEF State, Handshake
  <1>5. z = IF u.state = "TIME_WAIT" THEN StartTimeWait(u) ELSE u
    BY DEF AfterAck
  <1> HIDE DEF v, s, z
  <1>6. /\ u \in Tcb /\ u.state = s /\ u.una = v.una /\ u.nxt = v.nxt /\ u.rtx = v.rtx
        /\ u.rcvNxt = v.rcvNxt /\ u.timers = v.timers /\ u.restarted = v.restarted
    BY <1>1, <1>4, StateSet
  <1> HIDE DEF u
  <1>7. /\ z \in Tcb /\ z.state = s /\ z.una = v.una /\ z.nxt = v.nxt /\ z.rtx = v.rtx
        /\ z.rcvNxt = v.rcvNxt /\ z.restarted = v.restarted
        /\ z.timers = IF s = "TIME_WAIT" THEN t.timers + 1 ELSE t.timers
    BY <1>1, <1>5, <1>6, StartTimeWaitFields
  <1>8. Covered(z)
    BY <1>1, <1>7, FlightKept
  <1>9. TimersOf(z)
    <2>1. s = "TIME_WAIT" => z.timers >= 1
      BY <1>3, <1>7
    <2>2. t.restarted => z.timers >= 2
      BY <1>3, <1>7 DEF TimersOf
    <2> QED BY <1>1, <1>7, <2>1, <2>2 DEF TimersOf
  <1>10. Advances(t, z)
    BY <1>1, <1>3, <1>7 DEF Advances
  <1> QED BY <1>4, <1>7, <1>8, <1>9, <1>10 DEF z

\* process_fin_packet.
LEMMA AfterFinIsSound ==
    ASSUME NEW t \in Tcb, Covered(t), TimersOf(t), t.state \in Incoming
    PROVE  /\ AfterFin(t) \in Tcb
           /\ Covered(AfterFin(t)) /\ TimersOf(AfterFin(t))
           /\ AfterFin(t).state \notin Handshake
           /\ Advances(t, AfterFin(t))
  <1> DEFINE z == AfterFin(t)
             Kept(u) == u.una = t.una /\ u.nxt = t.nxt /\ u.rtx = t.rtx /\ u.rcvNxt = t.rcvNxt
  <1>1. t.timers \in Nat
    BY TcbFields
  <1>2. z \in Tcb /\ Kept(z) /\ z.state \notin Handshake /\ TimersOf(z)
    <2>1. CASE t.state \in {"SYN_RECEIVED", "ESTABLISHED"}
      <3>1. z = [t EXCEPT !.state = "LAST_ACK", !.timersOff = TRUE]
        BY <2>1 DEF AfterFin
      <3>2. z \in Tcb /\ z.state = "LAST_ACK" /\ z.timers = t.timers /\ z.restarted = t.restarted /\ Kept(z)
        BY <3>1 DEF Tcb, State
      <3> QED BY <3>2 DEF TimersOf, Handshake
    <2>2. CASE t.state = "FIN_WAIT_1"
      <3>1. z = [t EXCEPT !.state = "CLOSING"]
        BY <2>2 DEF AfterFin
      <3>2. z \in Tcb /\ z.state = "CLOSING" /\ z.timers = t.timers /\ z.restarted = t.restarted /\ Kept(z)
        BY <3>1 DEF Tcb, State
      <3> QED BY <3>2 DEF TimersOf, Handshake
    <2>3. CASE t.state = "FIN_WAIT_2"
      <3> DEFINE v == StartTimeWait(t)
      <3>1. z = [v EXCEPT !.state = "TIME_WAIT"]
        BY <2>3 DEF AfterFin
      <3>2. v \in Tcb /\ v.timers = t.timers + 1 /\ v.restarted = t.restarted /\ Kept(v)
        BY StartTimeWaitFields
      <3>3. "TIME_WAIT" \in State
        BY DEF State
      <3> HIDE DEF v, z
      <3>4. z \in Tcb /\ z.state = "TIME_WAIT" /\ z.timers = v.timers /\ z.restarted = v.restarted /\ Kept(z)
        BY <3>1, <3>2, <3>3, StateSet
      <3>5. z.timers >= 1 /\ (z.restarted => z.timers >= 2)
        BY <1>1, <3>2, <3>4 DEF TimersOf
      <3> QED BY <3>4, <3>5 DEF TimersOf, Handshake
    <2>4. CASE t.state = "TIME_WAIT"
      <3> DEFINE v == StartTimeWait(t)
      <3>1. z = [v EXCEPT !.restarted = TRUE]
        BY <2>4 DEF AfterFin
      <3>2. v \in Tcb /\ v.timers = t.timers + 1 /\ v.state = t.state /\ Kept(v)
        BY StartTimeWaitFields
      <3> HIDE DEF v, z
      <3>3. z \in Tcb /\ z.state = "TIME_WAIT" /\ z.timers = v.timers /\ Kept(z)
        BY <2>4, <3>1, <3>2, RestartedSet
      <3>4. z.timers >= 2
        BY <1>1, <2>4, <3>2, <3>3 DEF TimersOf
      <3>5. z.timers >= 1
        BY <1>1, <3>2, <3>3, <3>4
      <3> QED BY <3>3, <3>4, <3>5 DEF TimersOf, Handshake
    <2>5. CASE t.state \in {"CLOSING", "LAST_ACK"}
      <3>1. z = t
        BY <2>5 DEF AfterFin
      <3> QED BY <2>5, <3>1 DEF Handshake
    <2> QED BY <2>1, <2>2, <2>3, <2>4, <2>5 DEF Incoming, State
  <1> HIDE DEF z
  <1>3. Covered(z)
    BY <1>2, FlightKept
  <1>4. Advances(t, z)
    BY <1>2, AdvancesItself
  <1> QED BY <1>2, <1>3, <1>4 DEF z

-----------------------------------------------------------------------------
(* What the actions have in common. *)

LEMMA OpenIsGood ==
    ASSUME IInv, NEW h \in Host, Open(h)
    PROVE  /\ GoodTcb(tcb[h], app[h].wait) /\ tcb[h] \in Tcb /\ sock[h]
           /\ Covered(tcb[h]) /\ TimersOf(tcb[h]) /\ HandshakeOf(tcb[h], app[h].wait)
  BY DEF IInv, TcbInv, SockInv, Open, GoodTcb

LEMMA ArrivesOpen ==
    ASSUME IInv, NEW h \in Host, NEW m, NEW S \in SUBSET State, Arrives(h, m, S)
    PROVE  sock[h] /\ Open(h) /\ tcb[h].state \in S
  <1>1. NoTcb.state \notin State
    BY DEF NoTcb, State
  <1> QED BY <1>1 DEF Arrives, Open

LEMMA InboxIsSegment ==
    ASSUME IInv, NEW h \in Host, NEW m \in InboxOf(h)
    PROVE  m \in Segment
  BY DEF IInv, TypeInv, InboxOf

LEMMA Transmitted ==
    ASSUME IInv, NEW m, NEW out, out \subseteq Segment, Transmit(m, out)
    PROVE  net' \subseteq Segment
  BY DEF IInv, TypeInv, Transmit

LEMMA TcbsStay ==
    ASSUME IInv, UNCHANGED tcb, \A k \in Host : app'[k].wait = app[k].wait
    PROVE  TcbInv' /\ Forward
  <1>1. TcbInv'
    BY DEF IInv, TcbInv
  <1>2. ASSUME NEW k \in Host, Open(k) PROVE Advances(tcb[k], tcb'[k])
    BY <1>2, OpenIsGood, AdvancesItself
  <1> QED BY <1>1, <1>2 DEF Forward

LEMMA OneTcbChanges ==
    ASSUME IInv, NEW h \in Host, NEW u,
           u = NoTcb \/ GoodTcb(u, app'[h].wait),
           Open(h) /\ u # NoTcb => Advances(tcb[h], u),
           tcb' = [tcb EXCEPT ![h] = u],
           \A k \in Host : k # h => app'[k].wait = app[k].wait
    PROVE  TcbInv' /\ Forward
  <1>1. DOMAIN tcb = Host /\ tcb = [k \in Host |-> tcb[k]]
    BY DEF IInv, TcbInv
  <1>2. DOMAIN tcb' = Host /\ tcb'[h] = u /\ \A k \in Host : k # h => tcb'[k] = tcb[k]
    BY <1>1
  <1>3. tcb' = [k \in Host |-> tcb'[k]]
    BY <1>1
  <1>4. ASSUME NEW k \in Host PROVE tcb'[k] = NoTcb \/ GoodTcb(tcb'[k], app'[k].wait)
    <2>1. CASE k = h
      BY <1>2, <2>1
    <2>2. CASE k # h
      BY <1>2, <2>2 DEF IInv, TcbInv
    <2> QED BY <2>1, <2>2
  <1>5. ASSUME NEW k \in Host, Open(k), tcb'[k] # NoTcb PROVE Advances(tcb[k], tcb'[k])
    <2>1. CASE k = h
      BY <1>2, <1>5, <2>1
    <2>2. CASE k # h
      BY <1>2, <1>5, <2>2, OpenIsGood, AdvancesItself
    <2> QED BY <2>1, <2>2
  <1>6. TcbInv'
    BY <1>2, <1>3, <1>4 DEF TcbInv
  <1> QED BY <1>5, <1>6 DEF Forward

\* Nothing changes but the network.
LEMMA QuietStep ==
    ASSUME IInv, UNCHANGED <<sock, tcb, app, dlv, orphan, made>>, fault' \in Fault,
           net' \subseteq Segment
    PROVE  IInv' /\ Forward
  <1>1. TcbInv' /\ Forward
    BY TcbsStay
  <1>2. TypeInv' /\ SockInv'
    BY DEF IInv, TypeInv, SockInv
  <1> QED BY <1>1, <1>2 DEF IInv

LEMMA CrashStep ==
    ASSUME IInv, NEW r \in Fault, Crash(r)
    PROVE  IInv' /\ Forward
  <1>1. net \subseteq Segment
    BY DEF IInv, TypeInv
  <1>2. fault' \in Fault /\ UNCHANGED <<sock, tcb, app, dlv, orphan, made, net>>
    BY DEF Crash
  <1> QED BY <1>1, <1>2, QuietStep

\* A TCB and what a handler hands up and sends.
LEMMA TcbStep ==
    ASSUME IInv, NEW h \in Host, NEW u,
           u = NoTcb \/ GoodTcb(u, app[h].wait),
           Open(h) /\ u # NoTcb => Advances(tcb[h], u),
           sock[h] \/ u = NoTcb,
           tcb' = [tcb EXCEPT ![h] = u], UNCHANGED <<sock, app, made, fault>>,
           dlv' \in [Host -> Seq(Nat)], orphan' \in [Host -> BOOLEAN], net' \subseteq Segment
    PROVE  IInv' /\ Forward
  <1>1. TcbInv' /\ Forward
    BY OneTcbChanges
  <1>2. TypeInv'
    BY DEF IInv, TypeInv
  <1>3. SockInv'
    <2>1. ASSUME NEW k \in Host, ~sock[k] PROVE tcb'[k] = NoTcb /\ ~app[k].wait
      <3>1. tcb[k] = NoTcb /\ ~app[k].wait /\ DOMAIN tcb = Host
        BY <2>1 DEF IInv, SockInv, TcbInv
      <3> QED BY <2>1, <3>1
    <2> QED BY <2>1 DEF SockInv
  <1> QED BY <1>1, <1>2, <1>3 DEF IInv

LEMMA CloseSocketStep ==
    ASSUME IInv, NEW h \in Host, CloseSocket(h), net' \subseteq Segment
    PROVE  IInv' /\ Forward
  <1>1. /\ sock \in [Host -> BOOLEAN] /\ orphan \in [Host -> BOOLEAN]
        /\ app \in [Host -> [buf : Nat, sent : Nat, wait : BOOLEAN]]
    BY DEF IInv, TypeInv
  <1>2. /\ sock' = [sock EXCEPT ![h] = FALSE] /\ tcb' = [tcb EXCEPT ![h] = NoTcb]
        /\ app' = [app EXCEPT ![h].wait = FALSE]
        /\ UNCHANGED <<dlv, made, fault>>
    BY DEF CloseSocket
  <1>3. /\ app' \in [Host -> [buf : Nat, sent : Nat, wait : BOOLEAN]]
        /\ ~app'[h].wait /\ \A k \in Host : k # h => app'[k].wait = app[k].wait
    BY <1>1, <1>2
  <1>4. sock' \in [Host -> BOOLEAN] /\ orphan' \in [Host -> BOOLEAN]
    <2>1. (orphan[h] \/ tcb[h].timers > 0) \in BOOLEAN
      OBVIOUS
    <2> QED BY <1>1, <1>2, <2>1 DEF CloseSocket
  <1>5. TcbInv' /\ Forward
    BY <1>2, <1>3, OneTcbChanges
  <1>6. TypeInv'
    BY <1>2, <1>3, <1>4 DEF IInv, TypeInv
  <1>7. SockInv'
    <2>1. ASSUME NEW k \in Host, ~sock'[k] PROVE tcb'[k] = NoTcb /\ ~app'[k].wait
      <3>1. DOMAIN tcb = Host
        BY DEF IInv, TcbInv
      <3>2. CASE k = h
        BY <1>2, <1>3, <3>1, <3>2
      <3>3. CASE k # h
        <4>1. ~sock[k]
          BY <1>1, <1>2, <2>1, <3>3
        <4>2. tcb[k] = NoTcb /\ ~app[k].wait
          BY <4>1 DEF IInv, SockInv
        <4> QED BY <1>2, <1>3, <3>1, <3>3, <4>2
      <3> QED BY <3>2, <3>3
    <2> QED BY <2>1 DEF SockInv
  <1> QED BY <1>5, <1>6, <1>7 DEF IInv

-----------------------------------------------------------------------------
(* Segments that change no connection. *)

LEMMA FaultNames ==
    /\ "none" \in Fault /\ "resend_syn assertion" \in Fault /\ "NULL tcb" \in Fault
    /\ "NULL callback" \in Fault /\ "freed queue" \in Fault /\ "freed FIN" \in Fault
  BY DEF Fault

LEMMA QuietTransmit ==
    ASSUME IInv, NEW m, NEW out, out \subseteq Segment, Transmit(m, out),
           UNCHANGED <<sock, tcb, app, dlv, orphan, made, fault>>
    PROVE  IInv' /\ Forward
  <1>1. net' \subseteq Segment /\ fault' \in Fault
    BY Transmitted DEF IInv, TypeInv
  <1> QED BY <1>1, QuietStep

LEMMA DiscardNoConnectionStep ==
    ASSUME IInv, NEW h \in Host, NEW m \in InboxOf(h), DiscardNoConnection(h, m)
    PROVE  IInv' /\ Forward
  <1>1. {} \subseteq Segment
    OBVIOUS
  <1> QED BY <1>1, QuietTransmit DEF DiscardNoConnection

LEMMA RcvListenStep ==
    ASSUME IInv, NEW h \in Host, NEW m \in InboxOf(h), RcvListen(h, m)
    PROVE  IInv' /\ Forward
  <1>1. m \in Segment
    BY InboxIsSegment
  <1>2. ListenReply(h, tcb[h], m) \subseteq Segment
    BY <1>1, RstSegment DEF ListenReply
  <1> QED BY <1>2, QuietTransmit DEF RcvListen

LEMMA RcvSynSentBadAckStep ==
    ASSUME IInv, NEW h \in Host, NEW m \in InboxOf(h), RcvSynSentBadAck(h, m)
    PROVE  IInv' /\ Forward
  <1>1. m \in Segment
    BY InboxIsSegment
  <1>2. {create_rst(h, m, 0)} \subseteq Segment
    BY <1>1, RstSegment
  <1> QED BY <1>2, QuietTransmit DEF RcvSynSentBadAck

LEMMA RcvSynSentDiscardStep ==
    ASSUME IInv, NEW h \in Host, NEW m \in InboxOf(h), RcvSynSentDiscard(h, m)
    PROVE  IInv' /\ Forward
  <1>1. {} \subseteq Segment
    OBVIOUS
  <1> QED BY <1>1, QuietTransmit DEF RcvSynSentDiscard

LEMMA IncomingStates == Incoming \in SUBSET State /\ Receiving \in SUBSET State
  BY DEF Incoming, Receiving, State

LEMMA RcvUnacceptableStep ==
    ASSUME IInv, NEW h \in Host, NEW m \in InboxOf(h), RcvUnacceptable(h, m)
    PROVE  IInv' /\ Forward
  <1> DEFINE out == IF "RST" \in m.flags THEN {}
                    ELSE {create_ack(h, tcb[h].nxt, tcb[h].rcvNxt)}
  <1>1. Open(h)
    BY IncomingStates, ArrivesOpen DEF RcvUnacceptable
  <1>2. tcb[h].nxt \in Nat /\ tcb[h].rcvNxt \in Nat
    BY <1>1, OpenIsGood, TcbFields
  <1>3. out \subseteq Segment
    BY <1>2, ControlSegments
  <1>4. Transmit(m, out) /\ UNCHANGED <<sock, tcb, app, dlv, orphan, made, fault>>
    BY DEF RcvUnacceptable
  <1> QED BY <1>3, <1>4, QuietTransmit

LEMMA RcvBadAckStep ==
    ASSUME IInv, NEW h \in Host, NEW m \in InboxOf(h), RcvBadAck(h, m)
    PROVE  IInv' /\ Forward
  <1>1. m \in Segment
    BY InboxIsSegment
  <1>2. {create_rst(h, m, 1)} \subseteq Segment
    BY <1>1, RstSegment
  <1> QED BY <1>2, QuietTransmit DEF RcvBadAck

LEMMA RcvTextDiscardStep ==
    ASSUME IInv, NEW h \in Host, NEW m \in InboxOf(h), RcvTextDiscard(h, m)
    PROVE  IInv' /\ Forward
  <1>1. {} \subseteq Segment
    OBVIOUS
  <1> QED BY <1>1, QuietTransmit DEF RcvTextDiscard

LEMMA resend_segmentStep ==
    ASSUME IInv, NEW h \in Host, NEW g \in tcb[h].rtx, resend_segment(h, g)
    PROVE  IInv' /\ Forward
  <1>1. g \in Segment
    BY OpenIsGood, TcbFields DEF resend_segment, TimesOut
  <1>2. net' \subseteq Segment /\ fault' \in Fault
    BY <1>1 DEF resend_segment, IInv, TypeInv
  <1> QED BY <1>2, QuietStep DEF resend_segment

LEMMA LoseStep ==
    ASSUME IInv, NEW m \in net, Lose(m)
    PROVE  IInv' /\ Forward
  <1>1. net' \subseteq Segment /\ fault' \in Fault
    BY DEF Lose, IInv, TypeInv
  <1> QED BY <1>1, QuietStep DEF Lose

LEMMA Crashes ==
    ASSUME IInv, NEW h \in Host,
           \/ AppSendToClosed(h)
           \/ OrphanTimeout(h)
           \/ \E m \in InboxOf(h) : RcvListenCallback(h, m) \/ RcvReadsFreed(h, m)
           \/ \E g \in tcb[h].rtx : HandshakeTimerCrash(h, g)
    PROVE  IInv' /\ Forward
  <1>1. \E r \in Fault : Crash(r)
    BY FaultNames
       DEF AppSendToClosed, OrphanTimeout, RcvListenCallback, RcvReadsFreed, HandshakeTimerCrash
  <1> QED BY <1>1, CrashStep

-----------------------------------------------------------------------------
(* Resets and failed handshakes. *)

LEMMA SynFailsStep ==
    ASSUME IInv, NEW h \in Host, NEW g, SynFails(h, g)
    PROVE  IInv' /\ Forward
  <1>1. net' \subseteq Segment /\ CloseSocket(h)
    BY DEF SynFails, IInv, TypeInv
  <1> QED BY <1>1, CloseSocketStep

LEMMA RcvResetStep ==
    ASSUME IInv, NEW h \in Host, NEW m \in InboxOf(h), RcvReset(h, m)
    PROVE  IInv' /\ Forward
  <1>1. {} \subseteq Segment /\ Transmit(m, {}) /\ CloseSocket(h)
    BY DEF RcvReset
  <1>2. net' \subseteq Segment
    BY <1>1, Transmitted
  <1> QED BY <1>1, <1>2, CloseSocketStep

LEMMA RcvResetSynReceivedStep ==
    ASSUME IInv, NEW h \in Host, NEW m \in InboxOf(h), RcvResetSynReceived(h, m)
    PROVE  IInv' /\ Forward
  <1> DEFINE t == tcb[h]
             b == "RST" \in m.flags
             u == [t EXCEPT !.state = "LISTEN", !.freed = b]
  <1>1. "SYN_RECEIVED" \in State /\ "LISTEN" \in State
    BY DEF State
  <1>2. sock[h] /\ Open(h)
    BY <1>1, ArrivesOpen DEF RcvResetSynReceived, Acceptable
  <1>3. t \in Tcb /\ Covered(t) /\ TimersOf(t) /\ t # NoTcb
    BY <1>2, OpenIsGood, TcbFields
  <1>4. b \in BOOLEAN
    OBVIOUS
  <1>5. tcb' = [tcb EXCEPT ![h] = u]
    BY DEF RcvResetSynReceived
  <1> HIDE DEF b, t
  <1>6. /\ u \in Tcb /\ u.state = "LISTEN" /\ u.una = t.una /\ u.nxt = t.nxt
        /\ u.rtx = t.rtx /\ u.rcvNxt = t.rcvNxt /\ u.timers = t.timers
        /\ u.restarted = t.restarted
    BY <1>1, <1>3, <1>4 DEF Tcb
  <1> HIDE DEF u
  <1>7. Covered(u) /\ TimersOf(u) /\ Advances(t, u)
    BY <1>3, <1>6, FlightKept, AdvancesItself DEF TimersOf
  <1>8. HandshakeOf(u, app[h].wait)
    BY <1>6, NoHandshake DEF Handshake
  <1>9. GoodTcb(u, app[h].wait) /\ Advances(tcb[h], u)
    BY <1>6, <1>7, <1>8 DEF GoodTcb, t
  <1>10. /\ net' \subseteq Segment
         /\ dlv' \in [Host -> Seq(Nat)] /\ orphan' \in [Host -> BOOLEAN]
         /\ UNCHANGED <<sock, app, made, fault>>
    <2>1. {} \subseteq Segment /\ Transmit(m, {})
      BY DEF RcvResetSynReceived
    <2>2. net' \subseteq Segment
      BY <2>1, Transmitted
    <2> QED BY <2>2 DEF RcvResetSynReceived, IInv, TypeInv
  <1> QED BY <1>2, <1>5, <1>9, <1>10, TcbStep

-----------------------------------------------------------------------------
(* Acknowledgements. *)

LEMMA CopiesAreSegments ==
    ASSUME NEW t \in Tcb, NEW n, NEW copy \in SUBSET get_copy_segment_from_queue(t.rtx, n)
    PROVE  copy \subseteq Segment
  BY TcbFields DEF get_copy_segment_from_queue

LEMMA RestUnchanged ==
    ASSUME IInv, UNCHANGED <<dlv, orphan>>
    PROVE  dlv' \in [Host -> Seq(Nat)] /\ orphan' \in [Host -> BOOLEAN]
  BY DEF IInv, TypeInv

LEMMA GoodAckArrives ==
    ASSUME IInv, NEW h \in Host, NEW m \in InboxOf(h), GoodAck(h, m)
    PROVE  /\ m \in Segment /\ sock[h] /\ Open(h)
           /\ AfterAck(tcb[h], m) \in Tcb
           /\ Covered(AfterAck(tcb[h], m)) /\ TimersOf(AfterAck(tcb[h], m))
           /\ AfterAck(tcb[h], m).state \notin Handshake
           /\ Advances(tcb[h], AfterAck(tcb[h], m))
  <1>1. AckStates \in SUBSET State
    BY IncomingStates DEF AckStates
  <1>2. sock[h] /\ Open(h) /\ tcb[h].state \in AckStates
    BY <1>1, ArrivesOpen DEF GoodAck, Acceptable
  <1>3. tcb[h] \in Tcb /\ Covered(tcb[h]) /\ TimersOf(tcb[h])
    BY <1>2, OpenIsGood
  <1>4. m \in Segment
    BY InboxIsSegment
  <1> QED BY <1>2, <1>3, <1>4, AfterAckIsSound

LEMMA RcvOldAckStep ==
    ASSUME IInv, NEW h \in Host, NEW m \in InboxOf(h), RcvOldAck(h, m)
    PROVE  IInv' /\ Forward
  <1> DEFINE u == AfterAck(tcb[h], m)
  <1>1. /\ m \in Segment /\ sock[h] /\ Open(h) /\ u \in Tcb /\ Covered(u) /\ TimersOf(u)
        /\ u.state \notin Handshake /\ Advances(tcb[h], u)
    BY GoodAckArrives DEF RcvOldAck
  <1>2. tcb' = [tcb EXCEPT ![h] = u] /\ UNCHANGED <<sock, app, dlv, orphan, made, fault>>
    BY DEF RcvOldAck
  <1>3. PICK copy \in SUBSET get_copy_segment_from_queue(tcb[h].rtx, m.ackno) :
            Transmit(m, copy \cup AckReply(h, tcb[h], m))
    BY DEF RcvOldAck
  <1>4. copy \subseteq Segment
    BY <1>1, OpenIsGood, CopiesAreSegments
  <1>5. AckReply(h, tcb[h], m) \subseteq Segment
    BY <1>1, SegmentFields, ControlSegments DEF AckReply
  <1>6. net' \subseteq Segment
    BY <1>3, <1>4, <1>5, Transmitted
  <1> HIDE DEF u
  <1>7. GoodTcb(u, app[h].wait)
    BY <1>1, NoHandshake DEF GoodTcb
  <1>8. dlv' \in [Host -> Seq(Nat)] /\ orphan' \in [Host -> BOOLEAN]
    BY <1>2, RestUnchanged
  <1> QED BY <1>1, <1>2, <1>6, <1>7, <1>8, TcbStep

LEMMA RcvAckLastAckStep ==
    ASSUME IInv, NEW h \in Host, NEW m \in InboxOf(h), RcvAckLastAck(h, m)
    PROVE  IInv' /\ Forward
  <1>1. {} \subseteq Segment /\ Transmit(m, {})
    BY DEF RcvAckLastAck
  <1>2. net' \subseteq Segment
    BY <1>1, Transmitted
  <1>3. tcb' = [tcb EXCEPT ![h] = NoTcb] /\ UNCHANGED <<sock, app, dlv, orphan, made, fault>>
    BY DEF RcvAckLastAck
  <1>4. dlv' \in [Host -> Seq(Nat)] /\ orphan' \in [Host -> BOOLEAN]
    BY <1>3, RestUnchanged
  <1> QED BY <1>2, <1>3, <1>4, TcbStep

LEMMA RcvAckTimeWaitStep ==
    ASSUME IInv, NEW h \in Host, NEW m \in InboxOf(h), RcvAckTimeWait(h, m)
    PROVE  IInv' /\ Forward
  <1> DEFINE t == tcb[h]
             v == StartTimeWait(t)
             u == [v EXCEPT !.restarted = TRUE]
  <1>1. "TIME_WAIT" \in State
    BY DEF State
  <1>2. sock[h] /\ Open(h) /\ t.state = "TIME_WAIT"
    BY <1>1, ArrivesOpen DEF RcvAckTimeWait, Acceptable
  <1>3. t \in Tcb /\ Covered(t) /\ TimersOf(t) /\ t.timers \in Nat
    BY <1>2, OpenIsGood, TcbFields
  <1>4. tcb' = [tcb EXCEPT ![h] = u] /\ UNCHANGED <<sock, app, dlv, orphan, made, fault>>
    BY DEF RcvAckTimeWait
  <1>5. m \in Segment /\ Transmit(m, {fin_ack(h, m.seq, m.ackno)})
    BY InboxIsSegment DEF RcvAckTimeWait
  <1>6. net' \subseteq Segment
    <2>1. {fin_ack(h, m.seq, m.ackno)} \subseteq Segment
      BY <1>5, SegmentFields, ControlSegments
    <2> QED BY <1>5, <2>1, Transmitted
  <1>7. /\ v \in Tcb /\ v.timers = t.timers + 1 /\ v.state = t.state /\ v.una = t.una
        /\ v.nxt = t.nxt /\ v.rtx = t.rtx /\ v.rcvNxt = t.rcvNxt
    BY <1>3, StartTimeWaitFields
  <1> HIDE DEF v
  <1>8. /\ u \in Tcb /\ u.timers = v.timers /\ u.state = v.state /\ u.una = v.una
        /\ u.nxt = v.nxt /\ u.rtx = v.rtx /\ u.rcvNxt = v.rcvNxt
    BY <1>7, RestartedSet
  <1> HIDE DEF u
  <1>9. Covered(u) /\ Advances(t, u)
    BY <1>3, <1>7, <1>8, FlightKept, AdvancesItself
  <1>10. TimersOf(u)
    <2>1. u.timers >= 2 /\ u.timers >= 1
      BY <1>2, <1>3, <1>7, <1>8 DEF TimersOf
    <2> QED BY <2>1 DEF TimersOf
  <1>11. GoodTcb(u, app[h].wait)
    BY <1>2, <1>7, <1>8, <1>9, <1>10, NoHandshake DEF GoodTcb, Handshake
  <1>12. dlv' \in [Host -> Seq(Nat)] /\ orphan' \in [Host -> BOOLEAN]
    BY <1>4, RestUnchanged
  <1> QED BY <1>2, <1>4, <1>6, <1>9, <1>11, <1>12, TcbStep

-----------------------------------------------------------------------------
(* Timers. *)

LEMMA resend_synStep ==
    ASSUME IInv, NEW h \in Host, NEW g \in tcb[h].rtx, resend_syn(h, g)
    PROVE  IInv' /\ Forward
  <1> DEFINE t == tcb[h]
             u == [t EXCEPT !.una = t.iss, !.nxt = t.iss + 1, !.synRetries = @ + 1]
  <1>1. Open(h) /\ sock[h] /\ t.state \in Handshake
    BY DEF resend_syn, TimesOut, Handshake
  <1>2. t \in Tcb /\ GoodTcb(t, app[h].wait)
    BY <1>1, OpenIsGood
  <1>3. t.iss \in Nat /\ t.synRetries + 1 \in Nat /\ g \in Segment /\ t.nxt \in Nat
    BY <1>2, TcbFields
  <1>4. t.una = t.iss /\ t.nxt = t.iss + 1
    BY <1>1, <1>2 DEF GoodTcb, HandshakeOf
  <1>5. tcb' = [tcb EXCEPT ![h] = u]
    <2>1. DOMAIN tcb = Host /\ tcb = [k \in Host |-> tcb[k]]
      BY DEF IInv, TcbInv
    <2> QED BY <2>1 DEF resend_syn
  <1>6. UNCHANGED <<sock, app, dlv, orphan, made, fault>> /\ net' \subseteq Segment
    BY <1>3 DEF resend_syn, IInv, TypeInv
  <1> HIDE DEF t
  <1>7. /\ u \in Tcb /\ u.una = t.una /\ u.nxt = t.nxt /\ u.rtx = t.rtx
        /\ u.rcvNxt = t.rcvNxt /\ u.state = t.state /\ u.iss = t.iss
        /\ u.timers = t.timers /\ u.restarted = t.restarted
    BY <1>2, <1>3, <1>4 DEF Tcb
  <1> HIDE DEF u
  <1>8. Covered(u) /\ Advances(t, u)
    BY <1>2, <1>7, FlightKept, AdvancesItself DEF GoodTcb
  <1>9. TimersOf(u) /\ HandshakeOf(u, app[h].wait)
    BY <1>2, <1>7 DEF GoodTcb, TimersOf, HandshakeOf
  <1>10. GoodTcb(u, app[h].wait) /\ Advances(tcb[h], u)
    BY <1>7, <1>8, <1>9 DEF GoodTcb, t
  <1>11. dlv' \in [Host -> Seq(Nat)] /\ orphan' \in [Host -> BOOLEAN]
    BY <1>6, RestUnchanged
  <1> QED BY <1>1, <1>5, <1>6, <1>10, <1>11, TcbStep

LEMMA handle_time_wait_timeoutStep ==
    ASSUME IInv, NEW h \in Host, handle_time_wait_timeout(h)
    PROVE  IInv' /\ Forward
  <1> DEFINE t == tcb[h]
  <1>1. Open(h) /\ sock[h] /\ t \in Tcb /\ Covered(t) /\ TimersOf(t) /\ HandshakeOf(t, app[h].wait)
    BY OpenIsGood DEF handle_time_wait_timeout
  <1>2. UNCHANGED <<sock, app, dlv, made, fault>> /\ net' \subseteq Segment
    BY DEF handle_time_wait_timeout, IInv, TypeInv
  <1>3. dlv' \in [Host -> Seq(Nat)]
    BY <1>2 DEF IInv, TypeInv
  <1>4. CASE t.restarted
    <2> DEFINE n == t.timers - 1
               u == [t EXCEPT !.restarted = FALSE, !.timers = n]
    <2>1. t.timers \in Nat /\ t.timers >= 2
      BY <1>1, <1>4, TcbFields DEF TimersOf
    <2>2. n \in Nat /\ n >= 1
      BY <2>1
    <2>3. tcb' = [tcb EXCEPT ![h] = u] /\ UNCHANGED orphan
      <3>1. DOMAIN tcb = Host /\ tcb = [k \in Host |-> tcb[k]]
        BY DEF IInv, TcbInv
      <3> QED BY <1>4, <3>1 DEF handle_time_wait_timeout
    <2> HIDE DEF n, t
    <2>4. /\ u \in Tcb /\ u.una = t.una /\ u.nxt = t.nxt /\ u.rtx = t.rtx
          /\ u.rcvNxt = t.rcvNxt /\ u.state = t.state /\ u.iss = t.iss
          /\ u.timers = n /\ u.restarted = FALSE
      BY <1>1, <2>2 DEF Tcb
    <2> HIDE DEF u
    <2>5. Covered(u) /\ Advances(t, u) /\ TimersOf(u) /\ HandshakeOf(u, app[h].wait)
      BY <1>1, <2>2, <2>4, FlightKept, AdvancesItself DEF TimersOf, HandshakeOf
    <2>6. GoodTcb(u, app[h].wait) /\ Advances(tcb[h], u)
      BY <2>4, <2>5 DEF GoodTcb, t
    <2>7. orphan' \in [Host -> BOOLEAN]
      BY <2>3 DEF IInv, TypeInv
    <2> QED BY <1>1, <1>2, <1>3, <2>3, <2>6, <2>7, TcbStep
  <1>5. CASE ~t.restarted
    <2>1. tcb' = [tcb EXCEPT ![h] = NoTcb]
      BY <1>5 DEF handle_time_wait_timeout
    <2>2. orphan' \in [Host -> BOOLEAN]
      <3>1. (orphan[h] \/ tcb[h].timers > 1) \in BOOLEAN
        OBVIOUS
      <3> QED BY <1>5, <3>1 DEF handle_time_wait_timeout, IInv, TypeInv
    <2> QED BY <1>2, <1>3, <2>1, <2>2, TcbStep
  <1> QED BY <1>4, <1>5

-----------------------------------------------------------------------------
(* Data and FIN. *)

LEMMA InOrderFields ==
    ASSUME NEW t \in Tcb, NEW m \in Segment, m.seq = t.rcvNxt,
           NEW adv \in Nat, NEW j \in 0..Len(t.ooo)
    PROVE  /\ InOrderTcb(t, m, adv, j) \in Tcb
           /\ InOrderTcb(t, m, adv, j).rcvNxt = m.seq + get_seg_len(m) + adv * DataLen
           /\ InOrderTcb(t, m, adv, j).rcvNxt >= t.rcvNxt
           /\ InOrderTcb(t, m, adv, j).una = t.una /\ InOrderTcb(t, m, adv, j).nxt = t.nxt
           /\ InOrderTcb(t, m, adv, j).rtx = t.rtx
           /\ InOrderTcb(t, m, adv, j).state = t.state
           /\ InOrderTcb(t, m, adv, j).timers = t.timers
           /\ InOrderTcb(t, m, adv, j).restarted = t.restarted
  <1> DEFINE n == m.seq + get_seg_len(m) + adv * DataLen
             q == SubSeq(t.ooo, j + 1, Len(t.ooo))
             g == t.got \cup {t.ooo[i].seq : i \in 1..j}
                        \cup (IF m.pkt # 0 THEN {m.seq} ELSE {})
  <1>1. /\ m.seq \in Nat /\ get_seg_len(m) \in Nat /\ adv * DataLen \in Nat
        /\ t.ooo \in Seq(Segment) /\ t.got \in SUBSET Nat
    BY SegmentFields, SegLen, Multiple, TcbFields
  <1>2. n \in Nat /\ n >= t.rcvNxt
    BY <1>1
  <1>3. Len(t.ooo) \in Nat /\ \A i \in 1..Len(t.ooo) : t.ooo[i] \in Segment
    BY <1>1
  <1>4. q \in Seq(Segment)
    <2>1. \A i \in (j + 1)..Len(t.ooo) : t.ooo[i] \in Segment
      BY <1>3
    <2> QED BY <1>1, <1>3, <2>1, SubSeqProperties
  <1>5. g \in SUBSET Nat
    <2>1. \A i \in 1..j : t.ooo[i].seq \in Nat
      BY <1>3, SegmentFields
    <2> QED BY <1>1, <2>1
  <1>6. InOrderTcb(t, m, adv, j) = [t EXCEPT !.rcvNxt = n, !.ooo = q, !.got = g]
    BY DEF InOrderTcb
  <1> HIDE DEF n, q, g
  <1>7. [t EXCEPT !.rcvNxt = n, !.ooo = q, !.got = g] \in Tcb
    BY <1>2, <1>4, <1>5 DEF Tcb
  <1>8. /\ InOrderTcb(t, m, adv, j).rcvNxt = n
        /\ InOrderTcb(t, m, adv, j).una = t.una /\ InOrderTcb(t, m, adv, j).nxt = t.nxt
        /\ InOrderTcb(t, m, adv, j).rtx = t.rtx
        /\ InOrderTcb(t, m, adv, j).state = t.state
        /\ InOrderTcb(t, m, adv, j).timers = t.timers
        /\ InOrderTcb(t, m, adv, j).restarted = t.restarted
    BY <1>6 DEF Tcb
  <1> QED BY <1>2, <1>6, <1>7, <1>8 DEF n

LEMMA DeliveredUpIsPackets ==
    ASSUME NEW t \in Tcb, NEW m \in Segment, NEW j \in 0..Len(t.ooo)
    PROVE  DeliveredUp(t, m, j) \in Seq(Nat)
  <1>1. Len(t.ooo) \in Nat /\ \A i \in 1..Len(t.ooo) : t.ooo[i] \in Segment
    BY TcbFields
  <1>2. \A i \in 1..j : t.ooo[i].pkt \in Nat
    BY <1>1, SegmentFields
  <1> DEFINE f == [i \in 1..j |-> t.ooo[i].pkt]
             l == IF m.pkt # 0 THEN <<m.pkt>> ELSE <<>>
  <1>3. f \in Seq(Nat)
    BY <1>1, <1>2, IsASeq
  <1>4. l \in Seq(Nat)
    BY SegmentFields
  <1> HIDE DEF f, l
  <1>5. f \o l \in Seq(Nat)
    BY <1>3, <1>4
  <1> QED BY <1>5 DEF DeliveredUp, f, l

LEMMA OutOfOrderFields ==
    ASSUME NEW t \in Tcb, NEW m \in Segment
    PROVE  /\ OutOfOrderTcb(t, m) \in Tcb
           /\ OutOfOrderTcb(t, m).rcvNxt = t.rcvNxt
           /\ OutOfOrderTcb(t, m).una = t.una /\ OutOfOrderTcb(t, m).nxt = t.nxt
           /\ OutOfOrderTcb(t, m).rtx = t.rtx
           /\ OutOfOrderTcb(t, m).state = t.state
           /\ OutOfOrderTcb(t, m).timers = t.timers
           /\ OutOfOrderTcb(t, m).restarted = t.restarted
  <1>1. CASE m.seq < t.rcvNxt \/ isSegmentInQueue(t.ooo, m)
    BY <1>1 DEF OutOfOrderTcb
  <1>2. CASE ~(m.seq < t.rcvNxt \/ isSegmentInQueue(t.ooo, m))
    <2> DEFINE q == Append(t.ooo, m)
    <2>1. q \in Seq(Segment)
      BY TcbFields
    <2>2. OutOfOrderTcb(t, m) = [t EXCEPT !.ooo = q]
      BY <1>2 DEF OutOfOrderTcb
    <2> HIDE DEF q
    <2> QED BY <2>1, <2>2 DEF Tcb
  <1> QED BY <1>1, <1>2

LEMMA FinReplyIsSegments ==
    ASSUME NEW h \in Host, NEW t \in Tcb, NEW m \in Segment
    PROVE  FinReply(h, t, m) \subseteq Segment
  <1>1. t.nxt \in Nat /\ t.rcvNxt \in Nat /\ t.iss \in Nat /\ m.seq \in Nat
    BY TcbFields, SegmentFields
  <1>2. t.nxt + 1 \in Nat /\ m.seq + 1 \in Nat
    BY <1>1
  <1>3. /\ fin_ack(h, t.nxt, t.rcvNxt) \in Segment
        /\ create_fin(h, t.iss, t.nxt) \in Segment
        /\ create_ack(h, t.nxt + 1, m.seq + 1) \in Segment
    BY <1>1, <1>2, ControlSegments, FinSegment
  <1> QED BY <1>3 DEF FinReply

\* The TCB of a receiver, whatever the segment does to its receive side.
LEMMA ReceivedIsGood ==
    ASSUME NEW t \in Tcb, Covered(t), TimersOf(t),
           NEW u \in Tcb, u.una = t.una, u.nxt = t.nxt, u.rtx = t.rtx,
           u.rcvNxt >= t.rcvNxt, u.state = t.state, u.timers = t.timers,
           u.restarted = t.restarted
    PROVE  Covered(u) /\ TimersOf(u) /\ Advances(t, u)
  <1>1. Covered(u)
    BY FlightKept
  <1>2. TimersOf(u)
    BY DEF TimersOf
  <1>3. Advances(t, u)
    BY TcbFields DEF Advances
  <1> QED BY <1>1, <1>2, <1>3

LEMMA AdvancesFurther ==
    ASSUME NEW t \in Tcb, NEW u \in Tcb, NEW v \in Tcb, Advances(t, u), Advances(u, v)
    PROVE  Advances(t, v)
  BY TcbFields DEF Advances

LEMMA ReceiverArrives ==
    ASSUME IInv, NEW h \in Host, NEW m \in InboxOf(h), Acceptable(h, m, Receiving)
    PROVE  /\ m \in Segment /\ sock[h] /\ Open(h) /\ tcb[h] \in Tcb
           /\ Covered(tcb[h]) /\ TimersOf(tcb[h])
           /\ tcb[h].state \in Incoming /\ tcb[h].state \notin Handshake
           /\ tcb[h].nxt \in Nat /\ tcb[h].rcvNxt \in Nat
  <1>1. m \in Segment
    BY InboxIsSegment
  <1>2. sock[h] /\ Open(h) /\ tcb[h].state \in Receiving
    BY IncomingStates, ArrivesOpen DEF Acceptable
  <1>3. tcb[h] \in Tcb /\ Covered(tcb[h]) /\ TimersOf(tcb[h])
    BY <1>2, OpenIsGood
  <1>4. tcb[h].state \in Incoming /\ tcb[h].state \notin Handshake
    BY <1>2 DEF Receiving, Incoming, Handshake, State
  <1> QED BY <1>1, <1>2, <1>3, <1>4, TcbFields

LEMMA DeliveredStays ==
    ASSUME IInv, NEW h \in Host, NEW s \in Seq(Nat), dlv' = [dlv EXCEPT ![h] = @ \o s]
    PROVE  dlv' \in [Host -> Seq(Nat)]
  <1>1. dlv \in [Host -> Seq(Nat)]
    BY DEF IInv, TypeInv
  <1>2. dlv[h] \o s \in Seq(Nat)
    BY <1>1
  <1> QED BY <1>1, <1>2

LEMMA PassesAndHeads ==
    ASSUME NEW t \in Tcb, NEW n, NEW adv \in PassAdvance(t.ooo, n),
           NEW p, NEW j \in HeadsBelow(t.ooo, p)
    PROVE  adv \in Nat /\ j \in 0..Len(t.ooo)
  <1>1. Len(t.ooo) \in Nat
    BY TcbFields
  <1> QED BY <1>1 DEF PassAdvance, HeadsBelow

LEMMA RcvOutOfOrderStep ==
    ASSUME IInv, NEW h \in Host, NEW m \in InboxOf(h), RcvOutOfOrder(h, m)
    PROVE  IInv' /\ Forward
  <1> DEFINE t == tcb[h]
             u == OutOfOrderTcb(t, m)
  <1>1. /\ m \in Segment /\ sock[h] /\ Open(h) /\ t \in Tcb /\ Covered(t) /\ TimersOf(t)
        /\ t.state \notin Handshake /\ t.nxt \in Nat /\ t.rcvNxt \in Nat
    BY ReceiverArrives DEF RcvOutOfOrder, TextArrives
  <1>2. /\ tcb' = [tcb EXCEPT ![h] = u] /\ UNCHANGED <<sock, app, dlv, orphan, made, fault>>
        /\ Transmit(m, {create_ack(h, t.nxt, t.rcvNxt)})
    BY DEF RcvOutOfOrder
  <1>3. net' \subseteq Segment
    <2>1. {create_ack(h, t.nxt, t.rcvNxt)} \subseteq Segment
      BY <1>1, ControlSegments
    <2> QED BY <1>2, <2>1, Transmitted
  <1>4. /\ u \in Tcb /\ u.una = t.una /\ u.nxt = t.nxt /\ u.rtx = t.rtx
        /\ u.rcvNxt >= t.rcvNxt /\ u.state = t.state /\ u.timers = t.timers
        /\ u.restarted = t.restarted
    BY <1>1, OutOfOrderFields
  <1> HIDE DEF u
  <1>5. Covered(u) /\ TimersOf(u) /\ Advances(t, u)
    BY <1>1, <1>4, ReceivedIsGood
  <1>6. GoodTcb(u, app[h].wait)
    BY <1>1, <1>4, <1>5, NoHandshake DEF GoodTcb
  <1>7. dlv' \in [Host -> Seq(Nat)] /\ orphan' \in [Host -> BOOLEAN]
    BY <1>2, RestUnchanged
  <1> QED BY <1>1, <1>2, <1>3, <1>5, <1>6, <1>7, TcbStep

LEMMA RcvInOrderStep ==
    ASSUME IInv, NEW h \in Host, NEW m \in InboxOf(h), RcvInOrder(h, m)
    PROVE  IInv' /\ Forward
  <1> DEFINE t == tcb[h]
  <1>1. /\ m \in Segment /\ sock[h] /\ Open(h) /\ t \in Tcb /\ Covered(t) /\ TimersOf(t)
        /\ t.state \notin Handshake /\ t.nxt \in Nat /\ t.rcvNxt \in Nat
    BY ReceiverArrives DEF RcvInOrder, TextArrives
  <1>2. m.seq = t.rcvNxt /\ UNCHANGED <<sock, app, orphan, made, fault>>
    BY DEF RcvInOrder
  <1>3. PICK adv \in PassAdvance(t.ooo, m.seq + get_seg_len(m)), late \in BOOLEAN :
          \E j \in HeadsBelow(t.ooo, m.seq + get_seg_len(m) + adv * DataLen) :
            /\ tcb' = [tcb EXCEPT ![h] =
                          [InOrderTcb(t, m, adv, j) EXCEPT
                              !.ackSent = AckType = "Delayed" /\ ~SkipsAck(t, late)]]
            /\ dlv' = [dlv EXCEPT ![h] = @ \o DeliveredUp(t, m, j)]
            /\ Transmit(m, IF SkipsAck(t, late) THEN {}
                           ELSE {create_ack(h, t.nxt, m.seq + get_seg_len(m) + adv * DataLen)})
    BY DEF RcvInOrder
  <1> DEFINE n == m.seq + get_seg_len(m) + adv * DataLen
             b == AckType = "Delayed" /\ ~SkipsAck(t, late)
             out == IF SkipsAck(t, late) THEN {} ELSE {create_ack(h, t.nxt, n)}
  <1>4. PICK j \in HeadsBelow(t.ooo, n) :
            /\ tcb' = [tcb EXCEPT ![h] = [InOrderTcb(t, m, adv, j) EXCEPT !.ackSent = b]]
            /\ dlv' = [dlv EXCEPT ![h] = @ \o DeliveredUp(t, m, j)]
            /\ Transmit(m, out)
    BY <1>3
  <1> DEFINE v == InOrderTcb(t, m, adv, j)
             u == [v EXCEPT !.ackSent = b]
  <1>5. adv \in Nat /\ j \in 0..Len(t.ooo)
    BY <1>1, PassesAndHeads
  <1>6. /\ v \in Tcb /\ v.rcvNxt = n /\ v.rcvNxt >= t.rcvNxt /\ v.una = t.una /\ v.nxt = t.nxt
        /\ v.rtx = t.rtx /\ v.state = t.state /\ v.timers = t.timers
        /\ v.restarted = t.restarted
    BY <1>1, <1>2, <1>5, InOrderFields
  <1>7. b \in BOOLEAN /\ tcb' = [tcb EXCEPT ![h] = u] /\ Transmit(m, out)
    BY <1>4
  <1>8. dlv' \in [Host -> Seq(Nat)]
    <2>1. DeliveredUp(t, m, j) \in Seq(Nat)
      BY <1>1, <1>5, DeliveredUpIsPackets
    <2> QED BY <1>4, <2>1, DeliveredStays
  <1>9. net' \subseteq Segment
    <2>1. n \in Nat
      BY <1>6, TcbFields
    <2> HIDE DEF n
    <2>2. out \subseteq Segment
      BY <1>1, <2>1, ControlSegments
    <2> QED BY <1>7, <2>2, Transmitted
  <1> HIDE DEF n, v, b
  <1>10. /\ u \in Tcb /\ u.una = v.una /\ u.nxt = v.nxt /\ u.rtx = v.rtx
         /\ u.rcvNxt = v.rcvNxt /\ u.state = v.state /\ u.timers = v.timers
         /\ u.restarted = v.restarted
    BY <1>6, <1>7 DEF Tcb
  <1> HIDE DEF u
  <1>11. Covered(u) /\ TimersOf(u) /\ Advances(t, u)
    BY <1>1, <1>6, <1>10, ReceivedIsGood
  <1>12. GoodTcb(u, app[h].wait)
    BY <1>1, <1>6, <1>10, <1>11, NoHandshake DEF GoodTcb
  <1>13. orphan' \in [Host -> BOOLEAN]
    BY <1>2 DEF IInv, TypeInv
  <1> QED BY <1>1, <1>2, <1>7, <1>8, <1>9, <1>11, <1>12, <1>13, TcbStep

\* A FIN on the TCB u into which the receive side has turned t.
LEMMA FinStep ==
    ASSUME IInv, NEW h \in Host, NEW m \in Segment, sock[h], Open(h),
           NEW u \in Tcb, Covered(u), TimersOf(u), u.state \in Incoming, Advances(tcb[h], u),
           tcb' = [tcb EXCEPT ![h] = AfterFin(u)],
           NEW v \in Tcb, Transmit(m, FinReply(h, v, m)),
           dlv' \in [Host -> Seq(Nat)], UNCHANGED <<sock, app, orphan, made, fault>>
    PROVE  IInv' /\ Forward
  <1> DEFINE z == AfterFin(u)
  <1>1. z \in Tcb /\ Covered(z) /\ TimersOf(z) /\ z.state \notin Handshake /\ Advances(u, z)
    BY AfterFinIsSound
  <1>2. tcb' = [tcb EXCEPT ![h] = z] /\ tcb[h] \in Tcb
    BY OpenIsGood
  <1> HIDE DEF z
  <1>3. Advances(tcb[h], z)
    BY <1>1, <1>2, AdvancesFurther
  <1>4. GoodTcb(z, app[h].wait)
    BY <1>1, NoHandshake DEF GoodTcb
  <1>5. net' \subseteq Segment
    BY FinReplyIsSegments, Transmitted
  <1>6. orphan' \in [Host -> BOOLEAN]
    BY DEF IInv, TypeInv
  <1> QED BY <1>2, <1>3, <1>4, <1>5, <1>6, TcbStep

LEMMA RcvFinElsewhereStep ==
    ASSUME IInv, NEW h \in Host, NEW m \in InboxOf(h), RcvFinElsewhere(h, m)
    PROVE  IInv' /\ Forward
  <1> DEFINE t == tcb[h]
  <1>1. Incoming \ Receiving \in SUBSET State
    BY IncomingStates
  <1>2. m \in Segment /\ sock[h] /\ Open(h) /\ t.state \in Incoming
    BY <1>1, InboxIsSegment, ArrivesOpen DEF RcvFinElsewhere, FinArrives, Acceptable
  <1>3. t \in Tcb /\ Covered(t) /\ TimersOf(t) /\ Advances(t, t)
    BY <1>2, OpenIsGood, AdvancesItself
  <1>4. /\ tcb' = [tcb EXCEPT ![h] = AfterFin(t)] /\ Transmit(m, FinReply(h, t, m))
        /\ UNCHANGED <<sock, app, dlv, orphan, made, fault>>
    BY DEF RcvFinElsewhere
  <1>5. dlv' \in [Host -> Seq(Nat)]
    BY <1>4, RestUnchanged
  <1> QED BY <1>2, <1>3, <1>4, <1>5, FinStep

LEMMA RcvFinOutOfOrderStep ==
    ASSUME IInv, NEW h \in Host, NEW m \in InboxOf(h), RcvFinOutOfOrder(h, m)
    PROVE  IInv' /\ Forward
  <1> DEFINE t == tcb[h]
             u == OutOfOrderTcb(t, m)
  <1>1. /\ m \in Segment /\ sock[h] /\ Open(h) /\ t \in Tcb /\ Covered(t) /\ TimersOf(t)
        /\ t.state \in Incoming /\ t.rcvNxt \in Nat
    BY ReceiverArrives DEF RcvFinOutOfOrder, TextArrives
  <1>2. /\ tcb' = [tcb EXCEPT ![h] = AfterFin(u)] /\ Transmit(m, FinReply(h, t, m))
        /\ UNCHANGED <<sock, app, dlv, orphan, made, fault>>
    BY DEF RcvFinOutOfOrder
  <1>3. /\ u \in Tcb /\ u.una = t.una /\ u.nxt = t.nxt /\ u.rtx = t.rtx
        /\ u.rcvNxt >= t.rcvNxt /\ u.state = t.state /\ u.timers = t.timers
        /\ u.restarted = t.restarted
    BY <1>1, OutOfOrderFields
  <1> HIDE DEF u
  <1>4. Covered(u) /\ TimersOf(u) /\ Advances(t, u)
    BY <1>1, <1>3, ReceivedIsGood
  <1>5. u.state \in Incoming /\ dlv' \in [Host -> Seq(Nat)]
    BY <1>1, <1>2, <1>3, RestUnchanged
  <1> QED BY <1>1, <1>2, <1>3, <1>4, <1>5, FinStep

LEMMA RcvFinInOrderStep ==
    ASSUME IInv, NEW h \in Host, NEW m \in InboxOf(h), RcvFinInOrder(h, m)
    PROVE  IInv' /\ Forward
  <1> DEFINE t == tcb[h]
  <1>1. /\ m \in Segment /\ sock[h] /\ Open(h) /\ t \in Tcb /\ Covered(t) /\ TimersOf(t)
        /\ t.state \in Incoming
    BY ReceiverArrives DEF RcvFinInOrder, TextArrives
  <1>2. m.seq = t.rcvNxt /\ UNCHANGED <<sock, app, orphan, made, fault>>
    BY DEF RcvFinInOrder
  <1>3. PICK adv \in PassAdvance(t.ooo, m.seq) : \E j \in HeadsBelow(t.ooo, m.seq + adv * DataLen) :
          /\ tcb' = [tcb EXCEPT ![h] = AfterFin(InOrderTcb(t, m, adv, j))]
          /\ dlv' = [dlv EXCEPT ![h] = @ \o DeliveredUp(t, m, j)]
          /\ Transmit(m, FinReply(h, InOrderTcb(t, m, adv, j), m))
    BY DEF RcvFinInOrder
  <1>4. PICK j \in HeadsBelow(t.ooo, m.seq + adv * DataLen) :
          /\ tcb' = [tcb EXCEPT ![h] = AfterFin(InOrderTcb(t, m, adv, j))]
          /\ dlv' = [dlv EXCEPT ![h] = @ \o DeliveredUp(t, m, j)]
          /\ Transmit(m, FinReply(h, InOrderTcb(t, m, adv, j), m))
    BY <1>3
  <1> DEFINE u == InOrderTcb(t, m, adv, j)
  <1>5. adv \in Nat /\ j \in 0..Len(t.ooo)
    BY <1>1, PassesAndHeads
  <1>6. /\ u \in Tcb /\ u.rcvNxt >= t.rcvNxt /\ u.una = t.una /\ u.nxt = t.nxt
        /\ u.rtx = t.rtx /\ u.state = t.state /\ u.timers = t.timers
        /\ u.restarted = t.restarted
    BY <1>1, <1>2, <1>5, InOrderFields
  <1>7. tcb' = [tcb EXCEPT ![h] = AfterFin(u)] /\ Transmit(m, FinReply(h, u, m))
    BY <1>4
  <1>8. dlv' \in [Host -> Seq(Nat)]
    <2>1. DeliveredUp(t, m, j) \in Seq(Nat)
      BY <1>1, <1>5, DeliveredUpIsPackets
    <2> QED BY <1>4, <2>1, DeliveredStays
  <1> HIDE DEF u
  <1>9. Covered(u) /\ TimersOf(u) /\ Advances(t, u)
    BY <1>1, <1>6, ReceivedIsGood
  <1>10. u.state \in Incoming
    BY <1>1, <1>6
  <1> QED BY <1>1, <1>2, <1>6, <1>7, <1>8, <1>9, <1>10, FinStep

-----------------------------------------------------------------------------
(* The application. *)

\* A TCB and its socket interface.
LEMMA SendingStep ==
    ASSUME IInv, NEW h \in Host, NEW u, NEW a \in [buf : Nat, sent : Nat, wait : BOOLEAN],
           GoodTcb(u, a.wait), Open(h) => Advances(tcb[h], u),
           sock' = [sock EXCEPT ![h] = TRUE],
           tcb' = [tcb EXCEPT ![h] = u], app' = [app EXCEPT ![h] = a],
           made' \in Nat, net' \subseteq Segment, UNCHANGED <<dlv, orphan, fault>>
    PROVE  IInv' /\ Forward
  <1>1. /\ sock \in [Host -> BOOLEAN] /\ dlv \in [Host -> Seq(Nat)]
        /\ orphan \in [Host -> BOOLEAN] /\ fault \in Fault
        /\ app \in [Host -> [buf : Nat, sent : Nat, wait : BOOLEAN]]
    BY DEF IInv, TypeInv
  <1>2. app' \in [Host -> [buf : Nat, sent : Nat, wait : BOOLEAN]]
    BY <1>1
  <1>3. app'[h] = a /\ \A k \in Host : k # h => app'[k] = app[k]
    BY <1>1
  <1>4. sock' \in [Host -> BOOLEAN] /\ sock'[h] /\ \A k \in Host : k # h => sock'[k] = sock[k]
    BY <1>1
  <1>5. TcbInv' /\ Forward
    <2>1. GoodTcb(u, app'[h].wait) /\ \A k \in Host : k # h => app'[k].wait = app[k].wait
      BY <1>3
    <2> QED BY <2>1, OneTcbChanges
  <1>6. TypeInv'
    BY <1>1, <1>2, <1>4 DEF TypeInv
  <1>7. SockInv'
    <2>1. ASSUME NEW k \in Host, ~sock'[k] PROVE tcb'[k] = NoTcb /\ ~app'[k].wait
      <3>1. k # h /\ ~sock[k]
        BY <1>4, <2>1
      <3>2. tcb[k] = NoTcb /\ ~app[k].wait /\ DOMAIN tcb = Host
        BY <3>1 DEF IInv, SockInv, TcbInv
      <3> QED BY <1>3, <3>1, <3>2
    <2> QED BY <2>1 DEF SockInv
  <1> QED BY <1>5, <1>6, <1>7 DEF IInv

LEMMA AppFields ==
    ASSUME IInv, NEW h \in Host
    PROVE  /\ app[h] \in [buf : Nat, sent : Nat, wait : BOOLEAN]
           /\ app[h].buf \in Nat /\ app[h].sent \in Nat /\ app[h].wait \in BOOLEAN
  BY DEF IInv, TypeInv

LEMMA SocketStays ==
    ASSUME IInv, NEW h \in Host, sock[h], UNCHANGED <<sock, made>>
    PROVE  sock' = [sock EXCEPT ![h] = TRUE] /\ made' \in Nat
  BY DEF IInv, TypeInv

LEMMA AppQueueStep ==
    ASSUME IInv, NEW h \in Host, AppQueue(h)
    PROVE  IInv' /\ Forward
  <1>1. app \in [Host -> [buf : Nat, sent : Nat, wait : BOOLEAN]]
    BY DEF IInv, TypeInv
  <1>2. app' = [app EXCEPT ![h].buf = @ + 1] /\ UNCHANGED <<sock, tcb, dlv, orphan, made, net, fault>>
    BY DEF AppQueue
  <1>3. app[h].buf + 1 \in Nat
    BY <1>1
  <1>4. /\ app' \in [Host -> [buf : Nat, sent : Nat, wait : BOOLEAN]]
        /\ \A k \in Host : app'[k].wait = app[k].wait
    BY <1>1, <1>2, <1>3
  <1>5. TcbInv' /\ Forward
    BY <1>2, <1>4, TcbsStay
  <1>6. TypeInv' /\ SockInv'
    BY <1>2, <1>4 DEF IInv, TypeInv, SockInv
  <1> QED BY <1>5, <1>6 DEF IInv

LEMMA CountsAreNat ==
    ASSUME NEW t, NEW a, a.buf \in Nat, NEW k \in SendCounts(t, a)
    PROVE  k \in Nat /\ k \in 0..a.buf
  BY DEF SendCounts

LEMMA AppSendStep ==
    ASSUME IInv, NEW h \in Host, AppSend(h)
    PROVE  IInv' /\ Forward
  <1> DEFINE t == tcb[h]
             a == [app[h] EXCEPT !.buf = @ + 1]
  <1>1. sock[h] /\ Open(h) /\ app[h].wait /\ UNCHANGED <<sock, dlv, orphan, made, fault>>
    BY DEF AppSend
  <1>2. t \in Tcb /\ Covered(t) /\ TimersOf(t) /\ HandshakeOf(t, app[h].wait)
    BY <1>1, OpenIsGood
  <1>3. t.state \notin Handshake
    BY <1>1, <1>2 DEF HandshakeOf
  <1>4. a \in [buf : Nat, sent : Nat, wait : BOOLEAN] /\ a.buf \in Nat /\ a.sent \in Nat
    BY AppFields
  <1>5. PICK k \in SendCounts(t, a) :
            /\ tcb' = [tcb EXCEPT ![h] = SentTcb(h, t, a, k)]
            /\ app' = [app EXCEPT ![h] = [SentApp(a, k) EXCEPT !.wait = FALSE]]
            /\ net' = net \cup SentSegments(h, t, a, k)
    BY DEF AppSend
  <1> HIDE DEF a
  <1> DEFINE u == SentTcb(h, t, a, k)
             b == SentApp(a, k)
             c == [b EXCEPT !.wait = FALSE]
  <1>6. k \in Nat /\ k \in 0..a.buf
    BY <1>4, CountsAreNat
  <1>7. b \in [buf : Nat, sent : Nat, wait : BOOLEAN]
    BY <1>4, <1>6, SentAppFields
  <1>8. tcb' = [tcb EXCEPT ![h] = u] /\ app' = [app EXCEPT ![h] = c]
    BY <1>5
  <1> HIDE DEF b
  <1>9. c \in [buf : Nat, sent : Nat, wait : BOOLEAN]
    BY <1>7
  <1> HIDE DEF c
  <1>10. GoodTcb(u, c.wait) /\ Advances(t, u)
    BY <1>2, <1>3, <1>4, <1>6, SentIsGood
  <1>11. net' \subseteq Segment
    <2>1. SentSegments(h, t, a, k) \subseteq Segment
      BY <1>2, <1>4, <1>6, SentSegmentsAreSegments
    <2> QED BY <1>5, <2>1 DEF IInv, TypeInv
  <1> HIDE DEF u
  <1>12. sock' = [sock EXCEPT ![h] = TRUE] /\ made' \in Nat
    BY <1>1, SocketStays
  <1> QED BY <1>1, <1>8, <1>9, <1>10, <1>11, <1>12, SendingStep

LEMMA RcvNewAckStep ==
    ASSUME IInv, NEW h \in Host, NEW m \in InboxOf(h), RcvNewAck(h, m)
    PROVE  IInv' /\ Forward
  <1> DEFINE t == AfterAck(tcb[h], m)
             a == app[h]
  <1>1. /\ m \in Segment /\ sock[h] /\ Open(h) /\ t \in Tcb /\ Covered(t) /\ TimersOf(t)
        /\ t.state \notin Handshake /\ Advances(tcb[h], t)
    BY GoodAckArrives DEF RcvNewAck
  <1>2. UNCHANGED <<sock, dlv, orphan, made, fault>> /\ tcb[h] \in Tcb
    BY <1>1, OpenIsGood DEF RcvNewAck
  <1>3. a \in [buf : Nat, sent : Nat, wait : BOOLEAN] /\ a.buf \in Nat /\ a.sent \in Nat
    BY AppFields
  <1>4. PICK k \in SendCounts(t, a),
             copy \in SUBSET get_copy_segment_from_queue(tcb[h].rtx, m.ackno) :
            /\ tcb' = [tcb EXCEPT ![h] = SentTcb(h, t, a, k)]
            /\ app' = [app EXCEPT ![h] = SentApp(a, k)]
            /\ Transmit(m, copy \cup SentSegments(h, t, a, k))
    BY DEF RcvNewAck
  <1> HIDE DEF t, a
  <1> DEFINE u == SentTcb(h, t, a, k)
             b == SentApp(a, k)
  <1>5. k \in Nat /\ k \in 0..a.buf
    BY <1>3, CountsAreNat
  <1>6. b \in [buf : Nat, sent : Nat, wait : BOOLEAN]
    BY <1>3, <1>5, SentAppFields
  <1>7. tcb' = [tcb EXCEPT ![h] = u] /\ app' = [app EXCEPT ![h] = b]
    BY <1>4
  <1>8. GoodTcb(u, b.wait) /\ Advances(t, u) /\ u \in Tcb
    BY <1>1, <1>3, <1>5, SentIsGood DEF GoodTcb
  <1>9. net' \subseteq Segment
    <2>1. SentSegments(h, t, a, k) \subseteq Segment
      BY <1>1, <1>3, <1>5, SentSegmentsAreSegments
    <2>2. copy \subseteq Segment
      BY <1>2, CopiesAreSegments
    <2> QED BY <1>4, <2>1, <2>2, Transmitted
  <1> HIDE DEF u, b
  <1>10. Advances(tcb[h], u)
    BY <1>1, <1>2, <1>8, AdvancesFurther
  <1>11. sock' = [sock EXCEPT ![h] = TRUE] /\ made' \in Nat
    BY <1>1, <1>2, SocketStays
  <1> QED BY <1>2, <1>6, <1>7, <1>8, <1>9, <1>10, <1>11, SendingStep

LEMMA RcvSynAckStep ==
    ASSUME IInv, NEW h \in Host, NEW m \in InboxOf(h), RcvSynAck(h, m)
    PROVE  IInv' /\ Forward
  <1> DEFINE s == tcb[h]
             q == delete_segment_from_queue(s.rtx, m.ackno)
             r == m.seq + 1
             t == [s EXCEPT !.state = "ESTABLISHED", !.irs = m.seq, !.rcvNxt = r,
                            !.una = m.ackno, !.rtx = q]
             a == app[h]
  <1>1. m \in Segment /\ "SYN_SENT" \in State /\ "ESTABLISHED" \in State
    BY InboxIsSegment DEF State
  <1>2. sock[h] /\ Open(h) /\ s.state = "SYN_SENT"
    BY <1>1, ArrivesOpen DEF RcvSynAck
  <1>3. s \in Tcb /\ Covered(s) /\ TimersOf(s) /\ HandshakeOf(s, a.wait)
    BY <1>2, OpenIsGood
  <1>4. /\ s.una \in Nat /\ s.nxt \in Nat /\ s.rcvNxt \in Nat /\ s.rtx \in SUBSET Segment
        /\ m.ackno \in Nat /\ m.seq \in Nat /\ r \in Nat
    BY <1>1, <1>3, TcbFields, SegmentFields
  <1>5. s.una = s.iss /\ s.rcvNxt = 0
    BY <1>2, <1>3 DEF HandshakeOf, Handshake
  <1>6. s.una <= m.ackno
    BY <1>4, <1>5 DEF RcvSynAck, AckAcceptable
  <1>7. q \in SUBSET Segment
    BY <1>4 DEF delete_segment_from_queue
  <1>8. \A b \in m.ackno..(s.nxt - 1) : \E g \in q : g.seq <= b /\ b < g.seq + get_seg_len(g)
    BY <1>3, <1>4, <1>6, AckedCovered
  <1>9. a \in [buf : Nat, sent : Nat, wait : BOOLEAN] /\ a.buf \in Nat /\ a.sent \in Nat
    BY AppFields
  <1>10. PICK k \in SendCounts(t, a) :
            /\ tcb' = [tcb EXCEPT ![h] = SentTcb(h, t, a, k)]
            /\ app' = [app EXCEPT ![h] = SentApp(a, k)]
            /\ Transmit(m, {create_ack(h, t.nxt, t.rcvNxt)} \cup SentSegments(h, t, a, k))
    BY DEF RcvSynAck
  <1>11. UNCHANGED <<sock, dlv, orphan, made, fault>>
    BY DEF RcvSynAck
  <1> HIDE DEF q, r, a, s
  <1>12. /\ t \in Tcb /\ t.una = m.ackno /\ t.nxt = s.nxt /\ t.rtx = q /\ t.rcvNxt = r
         /\ t.state = "ESTABLISHED" /\ t.timers = s.timers /\ t.restarted = s.restarted
    BY <1>1, <1>3, <1>4, <1>7 DEF Tcb
  <1> HIDE DEF t
  <1>13. Covered(t)
    BY <1>8, <1>12 DEF Covered
  <1>14. TimersOf(t) /\ t.state \notin Handshake
    BY <1>3, <1>12 DEF TimersOf, Handshake
  <1>15. Advances(s, t)
    BY <1>4, <1>5, <1>6, <1>12 DEF Advances
  <1> DEFINE u == SentTcb(h, t, a, k)
             b == SentApp(a, k)
  <1>16. k \in Nat /\ k \in 0..a.buf
    BY <1>9, CountsAreNat
  <1>17. b \in [buf : Nat, sent : Nat, wait : BOOLEAN]
    BY <1>9, <1>16, SentAppFields
  <1>18. tcb' = [tcb EXCEPT ![h] = u] /\ app' = [app EXCEPT ![h] = b]
    BY <1>10
  <1>19. GoodTcb(u, b.wait) /\ Advances(t, u) /\ u \in Tcb
    BY <1>9, <1>12, <1>13, <1>14, <1>16, SentIsGood DEF GoodTcb
  <1>20. net' \subseteq Segment
    <2>1. SentSegments(h, t, a, k) \subseteq Segment
      BY <1>9, <1>12, <1>16, SentSegmentsAreSegments
    <2>2. create_ack(h, t.nxt, t.rcvNxt) \in Segment
      BY <1>4, <1>12, ControlSegments
    <2> QED BY <1>10, <2>1, <2>2, Transmitted
  <1> HIDE DEF u, b
  <1>21. Advances(tcb[h], u)
    BY <1>3, <1>12, <1>15, <1>19, AdvancesFurther DEF s
  <1>22. sock' = [sock EXCEPT ![h] = TRUE] /\ made' \in Nat
    BY <1>2, <1>11, SocketStays
  <1> QED BY <1>11, <1>17, <1>18, <1>19, <1>20, <1>21, <1>22, SendingStep

-----------------------------------------------------------------------------
(* The two opens. *)

LEMMA IssIsNat ==
    ASSUME NEW n \in Nat
    PROVE  calculate_initial_seq_num(n) \in Nat
  <1>1. n * IssStep \in Nat
    BY IssAssumption
  <1> QED BY <1>1 DEF calculate_initial_seq_num

LEMMA CreatedFields ==
    ASSUME NEW i \in Nat
    PROVE  /\ create_TCB(i) \in Tcb
           /\ create_TCB(i).iss = i /\ create_TCB(i).una = i /\ create_TCB(i).nxt = i + 1
           /\ create_TCB(i).rcvNxt = 0
           /\ create_TCB(i).timers = 0 /\ create_TCB(i).restarted = FALSE
  <1>1. /\ i + 1 \in Nat /\ {} \in SUBSET Nat /\ {} \in SUBSET Segment
        /\ <<>> \in Seq(Segment) /\ "LISTEN" \in State
    BY DEF State
  <1> QED BY <1>1 DEF create_TCB, Tcb

\* A new TCB has its SYN, or SYN-ACK, in the queue.
LEMMA NewTcbIsGood ==
    ASSUME NEW u \in Tcb, u.state \in Handshake, u.state = "SYN_SENT" => u.rcvNxt = 0,
           u.una = u.iss, u.nxt = u.iss + 1, u.timers = 0, ~u.restarted,
           NEW g \in Segment, g.seq = u.iss, "SYN" \in g.flags, u.rtx = {g}
    PROVE  GoodTcb(u, FALSE)
  <1>1. Covered(u)
    <2>1. get_seg_len(g) = 1
      BY DEF get_seg_len
    <2>2. SUFFICES ASSUME NEW b \in u.una..(u.nxt - 1)
                   PROVE  \E x \in u.rtx : x.seq <= b /\ b < x.seq + get_seg_len(x)
      BY <2>2 DEF Covered
    <2>3. u.iss \in Nat
      BY TcbFields
    <2>4. b = u.iss
      BY <2>2, <2>3
    <2> QED BY <2>1, <2>3, <2>4
  <1>2. TimersOf(u)
    BY DEF TimersOf, Handshake
  <1>3. HandshakeOf(u, FALSE)
    BY DEF HandshakeOf
  <1> QED BY <1>1, <1>2, <1>3 DEF GoodTcb

LEMMA tcp_active_openStep ==
    ASSUME IInv, NEW h \in Host, tcp_active_open(h)
    PROVE  IInv' /\ Forward
  <1> DEFINE i == calculate_initial_seq_num(made)
             syn == create_syn(h, i)
             t == create_TCB(i)
             u == [t EXCEPT !.state = "SYN_SENT", !.rtx = {syn}]
             a == [app[h] EXCEPT !.buf = @ + 1]
  <1>1. /\ ~sock[h] /\ tcb' = [tcb EXCEPT ![h] = u] /\ net' = net \cup {syn}
        /\ sock' = [sock EXCEPT ![h] = TRUE] /\ app' = [app EXCEPT ![h].buf = @ + 1]
        /\ made' = made + 1 /\ UNCHANGED <<dlv, orphan, fault>>
    BY DEF tcp_active_open
  <1>2. ~Open(h) /\ ~app[h].wait /\ made \in Nat /\ made + 1 \in Nat /\ net \subseteq Segment
    BY <1>1 DEF IInv, SockInv, TypeInv, Open
  <1>3. i \in Nat
    BY <1>2, IssIsNat
  <1> HIDE DEF i
  <1>4. syn \in Segment /\ syn.seq = i /\ "SYN" \in syn.flags
    BY <1>3, ControlSegments DEF create_syn
  <1> HIDE DEF syn
  <1>5. /\ t \in Tcb /\ t.iss = i /\ t.una = i /\ t.nxt = i + 1 /\ t.rcvNxt = 0
        /\ t.timers = 0 /\ t.restarted = FALSE
    BY <1>3, CreatedFields
  <1>6. "SYN_SENT" \in Handshake /\ "SYN_SENT" \in State
    BY DEF Handshake, State
  <1> HIDE DEF t
  <1>7. GoodTcb(u, FALSE)
    <2>1. /\ u \in Tcb /\ u.state = "SYN_SENT" /\ u.rtx = {syn} /\ u.iss = i /\ u.una = i
          /\ u.nxt = i + 1 /\ u.rcvNxt = 0 /\ u.timers = 0 /\ u.restarted = FALSE
      BY <1>4, <1>5, <1>6 DEF Tcb
    <2> HIDE DEF u
    <2> QED BY <1>4, <1>6, <2>1, NewTcbIsGood
  <1> HIDE DEF u
  <1>8. a \in [buf : Nat, sent : Nat, wait : BOOLEAN] /\ a.wait = FALSE
    BY <1>2, AppFields
  <1>9. app' = [app EXCEPT ![h] = a]
    BY <1>1 DEF IInv, TypeInv
  <1> HIDE DEF a
  <1>10. GoodTcb(u, a.wait) /\ net' \subseteq Segment
    BY <1>1, <1>2, <1>4, <1>5, <1>7, <1>8
  <1> QED BY <1>1, <1>2, <1>8, <1>9, <1>10, SendingStep

LEMMA tcp_acceptStep ==
    ASSUME IInv, NEW h \in Host, NEW m \in InboxOf(h), tcp_accept(h, m)
    PROVE  IInv' /\ Forward
  <1> DEFINE i == calculate_initial_seq_num(made)
             r == m.seq + 1
             g == create_synAck(h, i, r)
             t == create_TCB(i)
             u == [t EXCEPT !.state = "SYN_RECEIVED", !.irs = m.seq, !.rcvNxt = r, !.rtx = {g}]
             a == app[h]
  <1>1. /\ ~sock[h] /\ tcb' = [tcb EXCEPT ![h] = u] /\ Transmit(m, {g})
        /\ sock' = [sock EXCEPT ![h] = TRUE]
        /\ made' = made + 1 /\ UNCHANGED <<app, dlv, orphan, fault>>
    BY DEF tcp_accept
  <1>2. ~Open(h) /\ ~app[h].wait /\ made \in Nat /\ made + 1 \in Nat
    BY <1>1 DEF IInv, SockInv, TypeInv, Open
  <1>3. i \in Nat /\ m \in Segment /\ m.seq \in Nat /\ r \in Nat
    BY <1>2, IssIsNat, InboxIsSegment, SegmentFields
  <1> HIDE DEF i, r
  <1>4. g \in Segment /\ g.seq = i /\ "SYN" \in g.flags
    BY <1>3, ControlSegments DEF create_synAck
  <1> HIDE DEF g
  <1>5. /\ t \in Tcb /\ t.iss = i /\ t.una = i /\ t.nxt = i + 1
        /\ t.timers = 0 /\ t.restarted = FALSE
    BY <1>3, CreatedFields
  <1> HIDE DEF t
  <1>6. GoodTcb(u, FALSE)
    <2>1. "SYN_RECEIVED" \in Handshake /\ "SYN_RECEIVED" \in State
      BY DEF Handshake, State
    <2>2. /\ u \in Tcb /\ u.state = "SYN_RECEIVED" /\ u.rtx = {g} /\ u.iss = i /\ u.una = i
          /\ u.nxt = i + 1 /\ u.timers = 0 /\ u.restarted = FALSE
      BY <1>3, <1>4, <1>5, <2>1 DEF Tcb
    <2> HIDE DEF u
    <2> QED BY <1>4, <2>1, <2>2, NewTcbIsGood
  <1> HIDE DEF u
  <1>7. a \in [buf : Nat, sent : Nat, wait : BOOLEAN] /\ a.wait = FALSE
    BY <1>2, AppFields
  <1>8. app' = [app EXCEPT ![h] = a]
    BY <1>1 DEF IInv, TypeInv
  <1> HIDE DEF a
  <1>9. GoodTcb(u, a.wait)
    BY <1>6, <1>7
  <1>10. net' \subseteq Segment
    <2>1. {g} \subseteq Segment
      BY <1>4
    <2> QED BY <1>1, <2>1, Transmitted
  <1> QED BY <1>1, <1>2, <1>7, <1>8, <1>9, <1>10, SendingStep

-----------------------------------------------------------------------------
(* The invariant. *)

LEMMA InitHolds == Init => IInv
  <1> SUFFICES ASSUME Init PROVE IInv
    OBVIOUS
  <1>1. TypeInv
    <2>1. /\ sock \in [Host -> BOOLEAN] /\ orphan \in [Host -> BOOLEAN]
          /\ made \in Nat /\ net \subseteq Segment /\ fault \in Fault
      BY FaultNames DEF Init
    <2>2. app \in [Host -> [buf : Nat, sent : Nat, wait : BOOLEAN]]
      BY DEF Init
    <2>3. dlv \in [Host -> Seq(Nat)]
      <3>1. <<>> \in Seq(Nat)
        OBVIOUS
      <3> QED BY <3>1 DEF Init
    <2> QED BY <2>1, <2>2, <2>3 DEF TypeInv
  <1>2. TcbInv
    BY DEF Init, TcbInv
  <1>3. SockInv
    BY DEF Init, SockInv
  <1> QED BY <1>1, <1>2, <1>3 DEF IInv

LEMMA ApplicationStep ==
    ASSUME IInv, NEW h \in Host, Application(h)
    PROVE  IInv' /\ Forward
  <1>1. CASE tcp_active_open(h)
    BY <1>1, tcp_active_openStep
  <1>2. CASE AppSend(h)
    BY <1>2, AppSendStep
  <1>3. CASE AppSendToClosed(h)
    BY <1>3, Crashes
  <1>4. CASE AppQueue(h)
    BY <1>4, AppQueueStep
  <1> QED BY <1>1, <1>2, <1>3, <1>4 DEF Application

LEMMA ReceiveStep ==
    ASSUME IInv, NEW h \in Host, NEW m \in InboxOf(h), Receive(h, m)
    PROVE  IInv' /\ Forward
  <1>1. CASE DiscardNoConnection(h, m)
    BY <1>1, DiscardNoConnectionStep
  <1>2. CASE tcp_accept(h, m)
    BY <1>2, tcp_acceptStep
  <1>3. CASE RcvListen(h, m)
    BY <1>3, RcvListenStep
  <1>4. CASE RcvListenCallback(h, m) \/ RcvReadsFreed(h, m)
    BY <1>4, Crashes
  <1>5. CASE RcvSynSentBadAck(h, m)
    BY <1>5, RcvSynSentBadAckStep
  <1>6. CASE RcvSynSentDiscard(h, m)
    BY <1>6, RcvSynSentDiscardStep
  <1>7. CASE RcvSynAck(h, m)
    BY <1>7, RcvSynAckStep
  <1>8. CASE RcvUnacceptable(h, m)
    BY <1>8, RcvUnacceptableStep
  <1>9. CASE RcvResetSynReceived(h, m)
    BY <1>9, RcvResetSynReceivedStep
  <1>10. CASE RcvReset(h, m)
    BY <1>10, RcvResetStep
  <1>11. CASE RcvBadAck(h, m)
    BY <1>11, RcvBadAckStep
  <1>12. CASE RcvNewAck(h, m)
    BY <1>12, RcvNewAckStep
  <1>13. CASE RcvOldAck(h, m)
    BY <1>13, RcvOldAckStep
  <1>14. CASE RcvAckLastAck(h, m)
    BY <1>14, RcvAckLastAckStep
  <1>15. CASE RcvAckTimeWait(h, m)
    BY <1>15, RcvAckTimeWaitStep
  <1>16. CASE RcvInOrder(h, m)
    BY <1>16, RcvInOrderStep
  <1>17. CASE RcvOutOfOrder(h, m)
    BY <1>17, RcvOutOfOrderStep
  <1>18. CASE RcvTextDiscard(h, m)
    BY <1>18, RcvTextDiscardStep
  <1>19. CASE RcvFinInOrder(h, m)
    BY <1>19, RcvFinInOrderStep
  <1>20. CASE RcvFinOutOfOrder(h, m)
    BY <1>20, RcvFinOutOfOrderStep
  <1>21. CASE RcvFinElsewhere(h, m)
    BY <1>21, RcvFinElsewhereStep
  <1> QED BY <1>1, <1>2, <1>3, <1>4, <1>5, <1>6, <1>7, <1>8, <1>9, <1>10, <1>11, <1>12,
             <1>13, <1>14, <1>15, <1>16, <1>17, <1>18, <1>19, <1>20, <1>21 DEF Receive

LEMMA TimeoutStep ==
    ASSUME IInv, NEW h \in Host, NEW g \in tcb[h].rtx, Timeout(h, g)
    PROVE  IInv' /\ Forward
  <1>1. CASE resend_syn(h, g)
    BY <1>1, resend_synStep
  <1>2. CASE SynFails(h, g)
    BY <1>2, SynFailsStep
  <1>3. CASE HandshakeTimerCrash(h, g)
    BY <1>3, Crashes
  <1>4. CASE resend_segment(h, g)
    BY <1>4, resend_segmentStep
  <1> QED BY <1>1, <1>2, <1>3, <1>4 DEF Timeout

LEMMA NextStep == IInv /\ Next => IInv' /\ Forward
  <1> SUFFICES ASSUME IInv, Next PROVE IInv' /\ Forward
    OBVIOUS
  <1>1. ASSUME NEW h \in Host, Application(h) PROVE IInv' /\ Forward
    BY <1>1, ApplicationStep
  <1>2. ASSUME NEW h \in Host, NEW m \in InboxOf(h), Receive(h, m) PROVE IInv' /\ Forward
    BY <1>2, ReceiveStep
  <1>3. ASSUME NEW h \in Host, NEW g \in tcb[h].rtx, Timeout(h, g) PROVE IInv' /\ Forward
    BY <1>3, TimeoutStep
  <1>4. ASSUME NEW h \in Host, handle_time_wait_timeout(h) PROVE IInv' /\ Forward
    BY <1>4, handle_time_wait_timeoutStep
  <1>5. ASSUME NEW h \in Host, OrphanTimeout(h) PROVE IInv' /\ Forward
    BY <1>5, Crashes
  <1>6. ASSUME NEW m \in net, Lose(m) PROVE IInv' /\ Forward
    BY <1>6, LoseStep
  <1> QED BY <1>1, <1>2, <1>3, <1>4, <1>5, <1>6 DEF Next

LEMMA Invariance == Spec => []IInv
  <1>1. IInv /\ UNCHANGED vars => IInv'
    <2> SUFFICES ASSUME IInv, UNCHANGED vars PROVE IInv'
      OBVIOUS
    <2>1. /\ UNCHANGED <<sock, tcb, app, dlv, orphan, made>>
          /\ fault' \in Fault /\ net' \subseteq Segment
      BY DEF vars, IInv, TypeInv
    <2> QED BY <2>1, QuietStep
  <1> QED BY InitHolds, NextStep, <1>1, PTL DEF Spec

-----------------------------------------------------------------------------
(* The theorems. *)

\* Every handler keeps the types of the sockets, the TCBs, the interface and the
\* segments on the network: in particular no sequence number goes below zero
\* and no TIME_WAIT timer is counted off twice.
THEOREM TypeCorrect == Spec => []TypeOK
  <1>1. IInv => TypeOK
    <2> SUFFICES ASSUME IInv PROVE TypeOK
      OBVIOUS
    <2>1. tcb \in [Host -> Tcb \cup {NoTcb}]
      BY DEF IInv, TcbInv, GoodTcb
    <2> QED BY <2>1 DEF IInv, TypeInv, TypeOK
  <1> QED BY <1>1, Invariance, PTL

\* Every byte that was sent and is not acknowledged is in a segment of the
\* retransmission queue: send_segment queues what it sends, and
\* delete_segment_from_queue, whatever acknowledgement it is given, keeps the
\* segments that reach beyond it.
THEOREM NothingForgotten == Spec => []InFlightIsQueued
  <1>1. IInv => InFlightIsQueued
    BY DEF IInv, TcbInv, GoodTcb, Covered, InFlightIsQueued, Open
  <1> QED BY <1>1, Invariance, PTL

\* A connection in TIME_WAIT has a timer pending that deletes its TCB, and a
\* second one whenever handle_time_wait_timeout will swallow an expiry: neither
\* the FINs nor the acknowledgements that restart TIME_WAIT can strand it.
THEOREM TimeWaitEnds == Spec => []TimeWaitWillExpire
  <1>1. IInv => TimeWaitWillExpire
    <2> SUFFICES ASSUME IInv, NEW h \in Host, Open(h), tcb[h].state = "TIME_WAIT"
                 PROVE  tcb[h].timers >= IF tcb[h].restarted THEN 2 ELSE 1
      BY DEF TimeWaitWillExpire
    <2>1. TimersOf(tcb[h])
      BY OpenIsGood
    <2> QED BY <2>1 DEF TimersOf
  <1> QED BY <1>1, Invariance, PTL

\* While a TCB lives no handler takes SND.UNA, SND.NXT or RCV.NXT back; the one
\* that assigns them smaller values in general, resend_syn, runs only while
\* nothing has been sent or acknowledged.
THEOREM NeverGoesBack == Spec => NeverRetreats
  <1> DEFINE Ahead ==
               \A h \in Host :
                   Open(h) /\ tcb'[h] # NoTcb /\ tcb'[h].iss = tcb[h].iss =>
                       /\ tcb'[h].una >= tcb[h].una
                       /\ tcb'[h].nxt >= tcb[h].nxt
                       /\ tcb'[h].rcvNxt >= tcb[h].rcvNxt
  <1>1. IInv /\ [Next]_vars => [Ahead]_vars
    <2>1. IInv /\ Next => Ahead
      BY NextStep DEF Forward, Advances
    <2> QED BY <2>1
  <1>2. NeverRetreats <=> [][Ahead]_vars
    BY PTL DEF NeverRetreats
  <1> QED BY <1>1, <1>2, Invariance, PTL DEF Spec
=============================================================================
