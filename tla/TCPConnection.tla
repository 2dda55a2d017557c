---------------------------- MODULE TCPConnection ----------------------------
(***************************************************************************)
(* One TCP connection of NetSim between two hosts: TCP_Connection.c,       *)
(* TCP_Incoming.c, TCP_Outgoing.c, RTO.c, DelayedAck.c, TCB.c,             *)
(* TCP_Socket.c, TCP_ApplicationInterface.c, TCP_NetworkInterface.c and    *)
(* the TIME_WAIT timer of TCP.c.                                           *)
(*                                                                         *)
(* The Client's application opens the connection with its first packet.    *)
(* The Server accepts it through the listening socket that tcp_init leaves *)
(* on every device, and its application may answer on the accepted socket. *)
(* The network below is IP: it reorders, may lose and may duplicate.       *)
(*                                                                         *)
(* The congestion window is abstracted: send_segment transmits any number  *)
(* of waiting packets, at least one when nothing is in flight (what the    *)
(* assertion SND.WND > MSS of TCP_Outgoing.c:35 stands for), and the       *)
(* congestion algorithm may retransmit SEG.ACK on any acknowledgement.     *)
(* The algorithms themselves are the subject of TCPCongestion.             *)
(***************************************************************************)
EXTENDS TCPSegments, FiniteSets

CONSTANTS
    Client, Server,
    Packets,        \* Packets[h]: packets the application of h hands over
    Ending,         \* hosts whose last packet carries nAppEndFlag
    RcvWnd,         \* RCV.WND: the initial cwnd, never changed
    MaxSynRetries,  \* MaxSynRetries[h]: configured per device
    AckType,        \* "Undelayed" or "Delayed"
    IssStep,        \* distance between the ISS of two TCBs (time/4 in the code)
    Duplicating,    \* TRUE: the network may deliver a segment again
    Lossy,          \* TRUE: the network may lose a segment
    MaxTcbs,        \* bound: TCBs ever created
    MaxTimeWait     \* bound: TIME_WAIT timers pending for one TCB

ASSUME HostAssumption == Host = {Client, Server} /\ Client # Server
ASSUME PacketsAssumption == Packets \in [Host -> Nat] /\ Ending \subseteq Host
ASSUME WindowAssumption == RcvWnd \in Nat
ASSUME BoundAssumption ==
    MaxSynRetries \in [Host -> Nat] /\ MaxTcbs \in Nat /\ MaxTimeWait \in Nat
\* A TCB is replaced no sooner than one RTO (at least 0.5 s, 125000 steps of the
\* ISS clock) after it was made, and RCV.WND is 16 bits wide.
ASSUME IssAssumption == IssStep \in Nat /\ IssStep > RcvWnd /\ IssStep > HdrLength
ASSUME ModeAssumption ==
    AckType \in {"Undelayed", "Delayed"} /\ Duplicating \in BOOLEAN /\ Lossy \in BOOLEAN

VARIABLES
    sock,     \* sock[h]: a socket of the connection is in the list of h
    tcb,      \* tcb[h]: its TCB, NoTcb when s->tcb is NULL
    app,      \* app[h]: the socket interface: packets waiting and taken, waitFromApp
    dlv,      \* dlv[h]: the packets passed up to the application of h, in order
    orphan,   \* orphan[h]: a TIME_WAIT timer of h outlived the TCB it points to
    made,     \* number of TCBs created
    net,      \* segments in the network
    fault     \* the undefined behaviour or failed assertion that ended the run

vars == <<sock, tcb, app, dlv, orphan, made, net, fault>>

Running == fault = "none"

Other(h) == IF h = Client THEN Server ELSE Client

State == {"LISTEN", "SYN_SENT", "SYN_RECEIVED", "ESTABLISHED", "FIN_WAIT_1",
          "FIN_WAIT_2", "CLOSING", "LAST_ACK", "TIME_WAIT"}

Tcb == [state : State, iss : Nat, una : Nat, nxt : Nat, irs : Nat, rcvNxt : Nat,
        rtx : SUBSET Segment,       \* retransmissionQueue
        freed : BOOLEAN,            \* ... freed by process_rst_packet, head kept
        ooo : Seq(Segment),         \* outOfOrderSegment
        got : SUBSET Nat,           \* sequence numbers passed to the application
        synRetries : Nat,
        ackSent : BOOLEAN,          \* isAckSentLastTime
        timersOff : BOOLEAN,        \* isOtherTimerCancel
        restarted : BOOLEAN,        \* istimewaittimerrestarted
        timers : Nat]               \* TIME_WAIT timers pending

NoTcb == [state |-> "NULL"]

Open(h) == tcb[h] # NoTcb

Fault == {"none", "resend_syn assertion", "NULL tcb", "NULL callback",
          "freed queue", "freed FIN"}

-----------------------------------------------------------------------------
(* Handlers on a TCB. *)

Receiving == {"ESTABLISHED", "FIN_WAIT_1", "FIN_WAIT_2"}
Incoming  == State \ {"LISTEN", "SYN_SENT"}    \* packet_arrives_at_incoming_tcp

calculate_initial_seq_num(n) == 1 + n * IssStep

create_TCB(iss) ==
    [state |-> "LISTEN", iss |-> iss, una |-> iss, nxt |-> iss + 1, irs |-> 0,
     rcvNxt |-> 0, rtx |-> {}, freed |-> FALSE, ooo |-> <<>>, got |-> {},
     synRetries |-> 1, ackSent |-> FALSE, timersOff |-> FALSE, restarted |-> FALSE,
     timers |-> 0]

\* Validate_segment: the acceptability test of RFC 793.
Validate_segment(t, m) ==
    LET len == get_seg_len(m)
        InWindow(s) == t.rcvNxt <= s /\ s < t.rcvNxt + RcvWnd
    IN  IF RcvWnd = 0
        THEN len = 0 /\ m.seq = t.rcvNxt
        ELSE InWindow(m.seq) \/ (len > 0 /\ InWindow(m.seq + len - 1))

\* What send_segment may transmit of the a.buf waiting packets.
SendCounts(t, a) == {k \in 0..a.buf : k = 0 => a.buf = 0 \/ t.una # t.nxt}

SentData(h, t, a, k) ==
    {data_segment(h, t.nxt + (i - 1) * DataLen, a.sent + i) : i \in 1..k}

\* The last packet carries nAppEndFlag: send_segment ends with tcp_close.
ClosesApp(h, a, k) == h \in Ending /\ k > 0 /\ a.sent + k = Packets[h]

\* send_segment(s) transmitting k packets: the TCB, the interface, the output.
SentTcb(h, t, a, k) ==
    [t EXCEPT !.nxt = @ + k * DataLen,
              !.rtx = @ \cup SentData(h, t, a, k),
              !.state = IF ClosesApp(h, a, k) THEN "FIN_WAIT_1" ELSE @]

SentApp(a, k) ==
    [a EXCEPT !.buf = @ - k, !.sent = @ + k, !.wait = @ \/ a.buf = 0]

SentSegments(h, t, a, k) ==
    SentData(h, t, a, k) \cup
        IF ClosesApp(h, a, k) THEN {create_fin(h, t.iss, t.nxt + k * DataLen)} ELSE {}

\* Mutant of NewAck: an acknowledgement older than SND.UNA counts as new.
NewAckBackwards(t, m) == m.ackno <= t.nxt

\* process_ack_in_establishedState.
NewAck(t, m) == t.una < m.ackno /\ m.ackno <= t.nxt

AckedTcb(t, m) ==
    IF NewAck(t, m)
    THEN [t EXCEPT !.una = m.ackno, !.rtx = delete_segment_from_queue(@, m.ackno)]
    ELSE t

AckReply(h, t, m) ==
    IF m.ackno > t.nxt THEN {create_ack(h, m.seq, m.ackno)} ELSE {}

\* Mutants of StateAfterAck: CLOSING ends in a state without handler, is taken
\* for FIN_WAIT_1, or FIN_WAIT_1 is taken for CLOSING.
ClosingToClosed(t, m) ==
    CASE t.state = "SYN_RECEIVED" -> "ESTABLISHED"
      [] t.state = "FIN_WAIT_1" /\ "FIN" \in m.flags -> "FIN_WAIT_2"
      [] t.state = "CLOSING" /\ "FIN" \in m.flags -> "CLOSED"
      [] OTHER -> t.state
\* Where an acknowledgement leaves the connection.
StateAfterAck(t, m) ==
    CASE t.state = "SYN_RECEIVED" -> "ESTABLISHED"
      [] t.state = "FIN_WAIT_1" /\ "FIN" \in m.flags -> "FIN_WAIT_2"
      [] t.state = "CLOSING" /\ "FIN" \in m.flags -> "TIME_WAIT"
      [] OTHER -> t.state

\* Mutant of StartTimeWait: no timer is added.
NoTimer(t) == [t EXCEPT !.timersOff = TRUE]

\* start_timewait_timer.
StartTimeWait(t) == [t EXCEPT !.timersOff = TRUE, !.timers = @ + 1]

-----------------------------------------------------------------------------
(* The network. *)

\* m has been consumed and the segments out have been sent.
Transmit(m, out) == net' = (IF Duplicating THEN net ELSE net \ {m}) \cup out

InboxOf(h) == {m \in net : m.from = Other(h)}

\* The segment reaches a socket of h whose TCB is in one of the states S.
Arrives(h, m, S) == Running /\ sock[h] /\ tcb[h].state \in S

Crash(reason) ==
    fault' = reason /\ UNCHANGED <<sock, tcb, app, dlv, orphan, made, net>>

\* tcp_close_socket: the socket leaves the list and is freed with its TCB.
CloseSocket(h) ==
    /\ sock' = [sock EXCEPT ![h] = FALSE]
    /\ tcb' = [tcb EXCEPT ![h] = NoTcb]
    /\ orphan' = [orphan EXCEPT ![h] = @ \/ tcb[h].timers > 0]
    /\ app' = [app EXCEPT ![h].wait = FALSE]
    /\ UNCHANGED <<dlv, made, fault>>

-----------------------------------------------------------------------------
(* The application: packet_arrive_from_application_layer. *)

MoreFromApp(h) == Running /\ app[h].buf + app[h].sent < Packets[h]

\* No socket: tcp_create_socket, tcp_connect, tcp_active_open, send_syn.
tcp_active_open(h) ==
    /\ h = Client /\ MoreFromApp(h) /\ ~sock[h] /\ made < MaxTcbs
    /\ LET iss == calculate_initial_seq_num(made)
           syn == create_syn(h, iss)
       IN  /\ tcb' = [tcb EXCEPT ![h] =
                         [create_TCB(iss) EXCEPT !.state = "SYN_SENT", !.rtx = {syn}]]
           /\ net' = net \cup {syn}
    /\ sock' = [sock EXCEPT ![h] = TRUE]
    /\ app' = [app EXCEPT ![h].buf = @ + 1]
    /\ made' = made + 1
    /\ UNCHANGED <<dlv, orphan, fault>>

\* TCP waits for the application: the packet is sent at once, whatever the state.
AppSend(h) ==
    /\ MoreFromApp(h) /\ sock[h] /\ app[h].wait /\ Open(h)
    /\ LET t == tcb[h]
           a == [app[h] EXCEPT !.buf = @ + 1]
       IN  \E k \in SendCounts(t, a) :
               /\ tcb' = [tcb EXCEPT ![h] = SentTcb(h, t, a, k)]
               /\ app' = [app EXCEPT ![h] = [SentApp(a, k) EXCEPT !.wait = FALSE]]
               /\ net' = net \cup SentSegments(h, t, a, k)
    /\ UNCHANGED <<sock, dlv, orphan, made, fault>>

\* send_segment dereferences the NULL TCB of a closed connection.
AppSendToClosed(h) ==
    /\ MoreFromApp(h) /\ sock[h] /\ app[h].wait /\ ~Open(h)
    /\ Crash("NULL tcb")

\* "Wait for TCP to complete previous operation."
AppQueue(h) ==
    /\ MoreFromApp(h) /\ sock[h] /\ ~app[h].wait
    /\ app' = [app EXCEPT ![h].buf = @ + 1]
    /\ UNCHANGED <<sock, tcb, dlv, orphan, made, net, fault>>

-----------------------------------------------------------------------------
(* Segments that meet no connection, and the passive open. *)

\* No socket, or a socket whose TCB was deleted.
DiscardNoConnection(h, m) ==
    /\ Running /\ ~Open(h)
    /\ sock[h] \/ ~isSynPacket(m)
    /\ Transmit(m, {})
    /\ UNCHANGED <<sock, tcb, app, dlv, orphan, made, fault>>

\* A SYN that matches no socket reaches the listening socket: process_syn,
\* tcp_accept, tcp_passive_open and rcv_SYN on a new socket.
tcp_accept(h, m) ==
    /\ Running /\ ~sock[h] /\ isSynPacket(m) /\ made < MaxTcbs
    /\ LET iss == calculate_initial_seq_num(made)
           synAck == create_synAck(h, iss, m.seq + 1)
       IN  /\ tcb' = [tcb EXCEPT ![h] =
                         [create_TCB(iss) EXCEPT !.state = "SYN_RECEIVED",
                              !.irs = m.seq, !.rcvNxt = m.seq + 1, !.rtx = {synAck}]]
           /\ Transmit(m, {synAck})
    /\ sock' = [sock EXCEPT ![h] = TRUE]
    /\ made' = made + 1
    /\ UNCHANGED <<app, dlv, orphan, fault>>

-----------------------------------------------------------------------------
(* packets_arrives_at_listen_state, on a child socket that fell back to    *)
(* LISTEN.                                                                 *)

KnownSyn(t, m) == (t.irs # 0 => t.irs = m.seq) /\ (t.rcvNxt # 0 => t.rcvNxt = m.seq + 1)

ListenReply(h, t, m) ==
    IF "RST" \in m.flags THEN {}
    ELSE IF "ACK" \in m.flags THEN {create_rst(h, m, 0)}
    ELSE IF "SYN" \in m.flags THEN {create_rst(h, m, 2)}
    ELSE {}

RcvListen(h, m) ==
    /\ Arrives(h, m, {"LISTEN"})
    /\ ~(isSynPacket(m) /\ KnownSyn(tcb[h], m))
    /\ Transmit(m, ListenReply(h, tcb[h], m))
    /\ UNCHANGED <<sock, tcb, app, dlv, orphan, made, fault>>

\* process_syn calls the listen_callback of the child, which was never set.
RcvListenCallback(h, m) ==
    /\ Arrives(h, m, {"LISTEN"})
    /\ isSynPacket(m) /\ KnownSyn(tcb[h], m)
    /\ Crash("NULL callback")

-----------------------------------------------------------------------------
(* packets_arrives_at_synsent_state.  Its RST branch, which deletes the TCB  *)
(* and then changes its state, is no disjunct: a listening socket answers    *)
(* every SYN here, and only a refusal carries an acceptable RST.             *)

AckAcceptable(t, m) == "ACK" \in m.flags /\ t.iss < m.ackno /\ m.ackno <= t.nxt

RcvSynSentBadAck(h, m) ==
    /\ Arrives(h, m, {"SYN_SENT"})
    /\ "ACK" \in m.flags /\ ~AckAcceptable(tcb[h], m)
    /\ Transmit(m, {create_rst(h, m, 0)})
    /\ UNCHANGED <<sock, tcb, app, dlv, orphan, made, fault>>

RcvSynSentDiscard(h, m) ==
    /\ Arrives(h, m, {"SYN_SENT"})
    /\ "ACK" \in m.flags =>
           AckAcceptable(tcb[h], m) /\ m.flags \cap {"SYN", "RST"} = {}
    /\ Transmit(m, {})
    /\ UNCHANGED <<sock, tcb, app, dlv, orphan, made, fault>>

RcvSynAck(h, m) ==
    /\ Arrives(h, m, {"SYN_SENT"})
    /\ AckAcceptable(tcb[h], m) /\ "SYN" \in m.flags /\ "RST" \notin m.flags
    /\ LET t == [tcb[h] EXCEPT !.state = "ESTABLISHED", !.irs = m.seq,
                     !.rcvNxt = m.seq + 1, !.una = m.ackno,
                     !.rtx = delete_segment_from_queue(@, m.ackno)]
           a == app[h]
       IN  \E k \in SendCounts(t, a) :
               /\ tcb' = [tcb EXCEPT ![h] = SentTcb(h, t, a, k)]
               /\ app' = [app EXCEPT ![h] = SentApp(a, k)]
               /\ Transmit(m, {create_ack(h, t.nxt, t.rcvNxt)} \cup SentSegments(h, t, a, k))
    /\ UNCHANGED <<sock, dlv, orphan, made, fault>>

-----------------------------------------------------------------------------
(* packets_arrives_at_incoming_tcp. *)

\* An acceptable segment for a connection in one of the states S.
Acceptable(h, m, S) == Arrives(h, m, S) /\ Validate_segment(tcb[h], m)

\* Mutant of RcvUnacceptable: an unacceptable segment is not answered.
DropsUnacceptable(h, m) ==
    /\ Arrives(h, m, Incoming) /\ ~Validate_segment(tcb[h], m)
    /\ Transmit(m, {})
    /\ UNCHANGED <<sock, tcb, app, dlv, orphan, made, fault>>

RcvUnacceptable(h, m) ==
    /\ Arrives(h, m, Incoming) /\ ~Validate_segment(tcb[h], m)
    /\ Transmit(m, IF "RST" \in m.flags THEN {}
                   ELSE {create_ack(h, tcb[h].nxt, tcb[h].rcvNxt)})
    /\ UNCHANGED <<sock, tcb, app, dlv, orphan, made, fault>>

\* process_rst_packet and process_syn_packet on SYN_RECEIVED, which is only
\* entered by a passive open: the child returns to LISTEN.  A RST also frees its
\* retransmission queue, in place.
RcvResetSynReceived(h, m) ==
    /\ Acceptable(h, m, {"SYN_RECEIVED"}) /\ m.flags \cap {"RST", "SYN"} # {}
    /\ tcb' = [tcb EXCEPT ![h].state = "LISTEN", ![h].freed = "RST" \in m.flags]
    /\ Transmit(m, {})
    /\ UNCHANGED <<sock, app, dlv, orphan, made, fault>>

\* process_rst_packet and process_syn_packet: connection reset.
RcvReset(h, m) ==
    /\ Acceptable(h, m, Incoming \ {"SYN_RECEIVED"})
    /\ m.flags \cap {"RST", "SYN"} # {}
    /\ CloseSocket(h)
    /\ Transmit(m, {})

IsAck(m) == "ACK" \in m.flags /\ m.flags \cap {"RST", "SYN"} = {}

AckStates == Incoming \ {"LAST_ACK", "TIME_WAIT"}

\* process_ack_packet, SYN_RECEIVED with an unacceptable acknowledgement.
RcvBadAck(h, m) ==
    /\ Acceptable(h, m, {"SYN_RECEIVED"}) /\ IsAck(m)
    /\ ~(tcb[h].una <= m.ackno /\ m.ackno <= tcb[h].nxt)
    /\ Transmit(m, {create_rst(h, m, 1)})
    /\ UNCHANGED <<sock, tcb, app, dlv, orphan, made, fault>>

GoodAck(h, m) ==
    /\ Acceptable(h, m, AckStates) /\ IsAck(m)
    /\ tcb[h].state = "SYN_RECEIVED" =>
           tcb[h].una <= m.ackno /\ m.ackno <= tcb[h].nxt
    /\ StateAfterAck(tcb[h], m) = "TIME_WAIT" => tcb[h].timers < MaxTimeWait

\* The connection after the acknowledgement, TIME_WAIT timer included.
AfterAck(t, m) ==
    LET u == [AckedTcb(t, m) EXCEPT !.state = StateAfterAck(t, m)]
    IN  IF u.state = "TIME_WAIT" THEN StartTimeWait(u) ELSE u

\* process_ack_packet with news: the window slides and send_segment runs.
RcvNewAck(h, m) ==
    /\ GoodAck(h, m) /\ NewAck(tcb[h], m)
    /\ LET t == AfterAck(tcb[h], m)
           a == app[h]
       IN  \E k \in SendCounts(t, a),
              copy \in SUBSET get_copy_segment_from_queue(tcb[h].rtx, m.ackno) :
               /\ tcb' = [tcb EXCEPT ![h] = SentTcb(h, t, a, k)]
               /\ app' = [app EXCEPT ![h] = SentApp(a, k)]
               /\ Transmit(m, copy \cup SentSegments(h, t, a, k))
    /\ UNCHANGED <<sock, dlv, orphan, made, fault>>

\* A duplicate acknowledgement (it may trigger a fast retransmit), or one
\* beyond SND.NXT.
RcvOldAck(h, m) ==
    /\ GoodAck(h, m) /\ ~NewAck(tcb[h], m)
    /\ tcb' = [tcb EXCEPT ![h] = AfterAck(@, m)]
    /\ \E copy \in SUBSET get_copy_segment_from_queue(tcb[h].rtx, m.ackno) :
           Transmit(m, copy \cup AckReply(h, tcb[h], m))
    /\ UNCHANGED <<sock, app, dlv, orphan, made, fault>>

\* Any acknowledgement closes a connection in LAST_ACK; the socket stays.
RcvAckLastAck(h, m) ==
    /\ Acceptable(h, m, {"LAST_ACK"}) /\ IsAck(m)
    /\ tcb' = [tcb EXCEPT ![h] = NoTcb]
    /\ Transmit(m, {})
    /\ UNCHANGED <<sock, app, dlv, orphan, made, fault>>

\* In TIME_WAIT the acknowledgement is echoed and the timer restarted.
RcvAckTimeWait(h, m) ==
    /\ Acceptable(h, m, {"TIME_WAIT"}) /\ IsAck(m)
    /\ tcb[h].timers < MaxTimeWait
    /\ tcb' = [tcb EXCEPT ![h] = [StartTimeWait(@) EXCEPT !.restarted = TRUE]]
    /\ Transmit(m, {fin_ack(h, m.seq, m.ackno)})
    /\ UNCHANGED <<sock, app, dlv, orphan, made, fault>>

-----------------------------------------------------------------------------
(* process_segment_text and process_fin_packet. *)

\* process_fin_packet frees the FIN that check_segment may just have queued;
\* a connection that receives again (tcp_close from LAST_ACK) would read it.
FreedFin(t) == \E i \in DOMAIN t.ooo : t.ooo[i].pkt = 0

\* A segment without SYN, ACK or RST reaches check_segment.
TextArrives(h, m) ==
    /\ Acceptable(h, m, Receiving)
    /\ m.flags \subseteq {"FIN"} /\ ~FreedFin(tcb[h])

RcvReadsFreed(h, m) ==
    /\ Acceptable(h, m, Receiving)
    /\ m.flags \subseteq {"FIN"} /\ FreedFin(tcb[h])
    /\ Crash("freed FIN")

\* check_segment on a segment in order, then send_to_application: adv queued
\* segments are passed over and the j at the head of the queue delivered
\* BEFORE the segment that has just arrived.
InOrderTcb(t, m, adv, j) ==
    [t EXCEPT !.rcvNxt = m.seq + get_seg_len(m) + adv * DataLen,
              !.ooo = SubSeq(@, j + 1, Len(@)),
              !.got = @ \cup {t.ooo[i].seq : i \in 1..j}
                        \cup (IF m.pkt # 0 THEN {m.seq} ELSE {})]

DeliveredUp(t, m, j) ==
    [i \in 1..j |-> t.ooo[i].pkt] \o (IF m.pkt # 0 THEN <<m.pkt>> ELSE <<>>)

\* check_segment on a segment ahead of RCV.NXT (an older one is not acceptable
\* or a duplicate): it is queued once.
OutOfOrderTcb(t, m) ==
    IF m.seq < t.rcvNxt \/ isSegmentInQueue(t.ooo, m)
    THEN t
    ELSE [t EXCEPT !.ooo = Append(@, m)]

\* send_ack_or_not: a delayed acknowledgement skips every second segment that
\* comes within delayedAckTime; late tells that the time has passed.
SkipsAck(t, late) == AckType = "Delayed" /\ ~late /\ t.ackSent

RcvInOrder(h, m) ==
    /\ TextArrives(h, m) /\ m.flags = {} /\ m.seq = tcb[h].rcvNxt
    /\ LET t == tcb[h]
       IN  \E adv \in PassAdvance(t.ooo, m.seq + get_seg_len(m)), late \in BOOLEAN :
           LET n == m.seq + get_seg_len(m) + adv * DataLen
           IN  \E j \in HeadsBelow(t.ooo, n) :
               /\ tcb' = [tcb EXCEPT ![h] =
                             [InOrderTcb(t, m, adv, j) EXCEPT
                                 !.ackSent = AckType = "Delayed" /\ ~SkipsAck(t, late)]]
               /\ dlv' = [dlv EXCEPT ![h] = @ \o DeliveredUp(t, m, j)]
               /\ Transmit(m, IF SkipsAck(t, late) THEN {} ELSE {create_ack(h, t.nxt, n)})
    /\ UNCHANGED <<sock, app, orphan, made, fault>>

\* Mutant of RcvOutOfOrder: the segment beyond the hole is acknowledged.
AcksBeyondHole(h, m) ==
    /\ TextArrives(h, m) /\ m.flags = {} /\ m.seq # tcb[h].rcvNxt
    /\ tcb' = [tcb EXCEPT ![h] = OutOfOrderTcb(@, m)]
    /\ Transmit(m, {create_ack(h, tcb[h].nxt, m.seq + DataLen)})
    /\ UNCHANGED <<sock, app, dlv, orphan, made, fault>>

RcvOutOfOrder(h, m) ==
    /\ TextArrives(h, m) /\ m.flags = {} /\ m.seq # tcb[h].rcvNxt
    /\ tcb' = [tcb EXCEPT ![h] = OutOfOrderTcb(@, m)]
    /\ Transmit(m, {create_ack(h, tcb[h].nxt, tcb[h].rcvNxt)})
    /\ UNCHANGED <<sock, app, dlv, orphan, made, fault>>

\* Data for a connection that no longer, or does not yet, receive it.
RcvTextDiscard(h, m) ==
    /\ Acceptable(h, m, Incoming \ Receiving) /\ m.flags = {}
    /\ Transmit(m, {})
    /\ UNCHANGED <<sock, tcb, app, dlv, orphan, made, fault>>

\* process_fin_packet on a TCB.
AfterFin(t) ==
    CASE t.state \in {"SYN_RECEIVED", "ESTABLISHED"} ->
             [t EXCEPT !.state = "LAST_ACK", !.timersOff = TRUE]
      [] t.state = "FIN_WAIT_1" -> [t EXCEPT !.state = "CLOSING"]
      [] t.state = "FIN_WAIT_2" -> [StartTimeWait(t) EXCEPT !.state = "TIME_WAIT"]
      [] t.state = "TIME_WAIT" -> [StartTimeWait(t) EXCEPT !.restarted = TRUE]
      [] OTHER -> t

FinReply(h, t, m) ==
    CASE t.state \in {"SYN_RECEIVED", "ESTABLISHED"} ->
             {fin_ack(h, t.nxt, t.rcvNxt), create_fin(h, t.iss, t.nxt)}
      [] t.state = "FIN_WAIT_1" -> {fin_ack(h, t.nxt, t.rcvNxt)}
      [] t.state = "FIN_WAIT_2" -> {create_ack(h, t.nxt + 1, m.seq + 1)}
      [] OTHER -> {}

FinArrives(h, m, S) ==
    /\ Acceptable(h, m, S) /\ m.flags = {"FIN"}
    /\ tcb[h].state \in {"FIN_WAIT_2", "TIME_WAIT"} => tcb[h].timers < MaxTimeWait

\* A FIN that arrives before data it follows is queued, and closes all the same.
RcvFinInOrder(h, m) ==
    /\ TextArrives(h, m) /\ FinArrives(h, m, Receiving) /\ m.seq = tcb[h].rcvNxt
    /\ LET t == tcb[h]
       IN  \E adv \in PassAdvance(t.ooo, m.seq) :
           \E j \in HeadsBelow(t.ooo, m.seq + adv * DataLen) :
               LET u == InOrderTcb(t, m, adv, j)
               IN  /\ tcb' = [tcb EXCEPT ![h] = AfterFin(u)]
                   /\ dlv' = [dlv EXCEPT ![h] = @ \o DeliveredUp(t, m, j)]
                   /\ Transmit(m, FinReply(h, u, m))
    /\ UNCHANGED <<sock, app, orphan, made, fault>>

RcvFinOutOfOrder(h, m) ==
    /\ TextArrives(h, m) /\ FinArrives(h, m, Receiving) /\ m.seq # tcb[h].rcvNxt
    /\ tcb' = [tcb EXCEPT ![h] = AfterFin(OutOfOrderTcb(@, m))]
    /\ Transmit(m, FinReply(h, tcb[h], m))
    /\ UNCHANGED <<sock, app, dlv, orphan, made, fault>>

RcvFinElsewhere(h, m) ==
    /\ FinArrives(h, m, Incoming \ Receiving)
    /\ tcb' = [tcb EXCEPT ![h] = AfterFin(@)]
    /\ Transmit(m, FinReply(h, tcb[h], m))
    /\ UNCHANGED <<sock, app, dlv, orphan, made, fault>>

-----------------------------------------------------------------------------
(* Timers.  Every queued segment has one RTO event pending (add_timeout_event *)
(* is called exactly when a segment is queued); the event of a segment that   *)
(* is no longer queued does nothing.                                          *)

TimesOut(h, g) ==
    /\ Running /\ sock[h]
    /\ Open(h) /\ ~tcb[h].timersOff /\ g \in tcb[h].rtx

\* resend_syn, retries left.
resend_syn(h, g) ==
    /\ TimesOut(h, g) /\ ~tcb[h].freed /\ "SYN" \in g.flags
    /\ tcb[h].state \in {"SYN_SENT", "SYN_RECEIVED"}
    /\ tcb[h].synRetries < MaxSynRetries[h]
    /\ tcb' = [tcb EXCEPT ![h].una = tcb[h].iss, ![h].nxt = tcb[h].iss + 1,
                          ![h].synRetries = @ + 1]
    /\ net' = net \cup {g}
    /\ UNCHANGED <<sock, app, dlv, orphan, made, fault>>

\* resend_syn, retries exhausted: the connection fails.
SynFails(h, g) ==
    /\ TimesOut(h, g) /\ ~tcb[h].freed /\ "SYN" \in g.flags
    /\ tcb[h].state \in {"SYN_SENT", "SYN_RECEIVED"}
    /\ tcb[h].synRetries >= MaxSynRetries[h]
    /\ CloseSocket(h)
    /\ UNCHANGED net

\* The handshake timer of a child that fell back to LISTEN: isSegmentInQueue
\* walks the queue that process_rst_packet freed; had a SYN taken the child
\* there, resend_syn would assert.
HandshakeTimerCrash(h, g) ==
    /\ TimesOut(h, g)
    /\ \/ tcb[h].freed
       \/ "SYN" \in g.flags /\ tcb[h].state \notin {"SYN_SENT", "SYN_RECEIVED"}
    /\ Crash(IF tcb[h].freed THEN "freed queue" ELSE "resend_syn assertion")

\* rto_expired (TCPCongestion) and resend_segment.
resend_segment(h, g) ==
    /\ TimesOut(h, g) /\ ~tcb[h].freed /\ "SYN" \notin g.flags
    /\ net' = net \cup {g}
    /\ UNCHANGED <<sock, tcb, app, dlv, orphan, made, fault>>

\* handle_time_wait_timeout: one flag serves all the restarts, so a second
\* restart makes an earlier timer delete the TCB under a later one.
handle_time_wait_timeout(h) ==
    /\ Running /\ Open(h) /\ tcb[h].timers > 0
    /\ IF tcb[h].restarted
       THEN /\ tcb' = [tcb EXCEPT ![h].restarted = FALSE, ![h].timers = @ - 1]
            /\ UNCHANGED orphan
       ELSE /\ tcb' = [tcb EXCEPT ![h] = NoTcb]
            /\ orphan' = [orphan EXCEPT ![h] = @ \/ tcb[h].timers > 1]
    /\ UNCHANGED <<sock, app, dlv, made, net, fault>>

\* A TIME_WAIT timer reads the TCB that an earlier one deleted.
OrphanTimeout(h) ==
    /\ Running /\ orphan[h]
    /\ Crash("NULL tcb")

Lose(m) ==
    /\ Running /\ Lossy
    /\ net' = net \ {m}
    /\ UNCHANGED <<sock, tcb, app, dlv, orphan, made, fault>>

-----------------------------------------------------------------------------

Init ==
    /\ sock = [h \in Host |-> FALSE]
    /\ tcb = [h \in Host |-> NoTcb]
    /\ app = [h \in Host |-> [buf |-> 0, sent |-> 0, wait |-> FALSE]]
    /\ dlv = [h \in Host |-> <<>>]
    /\ orphan = [h \in Host |-> FALSE]
    /\ made = 0
    /\ net = {}
    /\ fault = "none"

Application(h) == tcp_active_open(h) \/ AppSend(h) \/ AppSendToClosed(h) \/ AppQueue(h)

Receive(h, m) ==
    \/ DiscardNoConnection(h, m) \/ tcp_accept(h, m)
    \/ RcvListen(h, m) \/ RcvListenCallback(h, m)
    \/ RcvSynSentBadAck(h, m) \/ RcvSynSentDiscard(h, m) \/ RcvSynAck(h, m)
    \/ RcvUnacceptable(h, m) \/ RcvResetSynReceived(h, m)
    \/ RcvReset(h, m) \/ RcvBadAck(h, m) \/ RcvNewAck(h, m) \/ RcvOldAck(h, m)
    \/ RcvAckLastAck(h, m) \/ RcvAckTimeWait(h, m)
    \/ RcvReadsFreed(h, m) \/ RcvInOrder(h, m) \/ RcvOutOfOrder(h, m) \/ RcvTextDiscard(h, m)
    \/ RcvFinInOrder(h, m) \/ RcvFinOutOfOrder(h, m) \/ RcvFinElsewhere(h, m)

Timeout(h, g) ==
    \/ resend_syn(h, g) \/ SynFails(h, g) \/ HandshakeTimerCrash(h, g)
    \/ resend_segment(h, g)

Next ==
    \/ \E h \in Host : Application(h)
    \/ \E h \in Host : \E m \in InboxOf(h) : Receive(h, m)
    \/ \E h \in Host : Open(h) /\ \E g \in tcb[h].rtx : Timeout(h, g)
    \/ \E h \in Host : handle_time_wait_timeout(h) \/ OrphanTimeout(h)
    \/ \E m \in net : Lose(m)

Spec == Init /\ [][Next]_vars

\* What the scheduling of a simulation justifies.  The kernel serves the events
\* of its list in time order: the application keeps sending, a pending timer is
\* served, and a segment sent again and again arrives at last.  (Fairness is per
\* class of segment, acceptable ones only: the weakest form the runs need.)
DeliverText(n) ==
    \E h \in Host : \E m \in InboxOf(h) : m.pkt = n /\ Receive(h, m)

DeliverControl(h, F) ==
    \E m \in InboxOf(h) :
        m.flags = F /\ Open(h) /\ Validate_segment(tcb[h], m) /\ Receive(h, m)

TextTimeout(n) ==
    \E h \in Host : Open(h) /\ \E g \in tcb[h].rtx : g.pkt = n /\ Timeout(h, g)

FairSpec ==
    /\ Spec
    /\ WF_vars(\E h \in Host : Application(h))
    /\ \A n \in 1..Packets[Client] : SF_vars(DeliverText(n)) /\ WF_vars(TextTimeout(n))
    /\ \A h \in Host : SF_vars(DeliverControl(h, {"ACK"}))

\* ... and for closing, the FIN exchange and its timer.
FairCloseSpec ==
    /\ FairSpec
    /\ \A h \in Host :
           SF_vars(DeliverControl(h, {"FIN"})) /\ SF_vars(DeliverControl(h, {"ACK", "FIN"}))
    /\ WF_vars(\E h \in Host : handle_time_wait_timeout(h))

-----------------------------------------------------------------------------
(* Safety. *)

\* Every variable keeps its type.
TypeOK ==
    /\ sock \in [Host -> BOOLEAN]
    /\ tcb \in [Host -> Tcb \cup {NoTcb}]
    /\ app \in [Host -> [buf : Nat, sent : Nat, wait : BOOLEAN]]
    /\ dlv \in [Host -> Seq(Nat)]
    /\ orphan \in [Host -> BOOLEAN]
    /\ made \in Nat
    /\ net \subseteq Segment
    /\ fault \in Fault

\* Nothing in flight is ever forgotten: every byte that is sent and not
\* acknowledged is in a segment of the retransmission queue, whatever mix of
\* partial and duplicate acknowledgements, retransmissions and sends led here
\* (send_segment and add_timeout_event against delete_segment_from_queue).
InFlightIsQueued ==
    \A h \in Host : Open(h) =>
        \A b \in tcb[h].una..(tcb[h].nxt - 1) :
            \E g \in tcb[h].rtx : g.seq <= b /\ b < g.seq + get_seg_len(g)

\* The two TCBs belong to the same connection.
Paired(h) ==
    /\ Open(h) /\ Open(Other(h))
    /\ tcb[h].irs = tcb[Other(h)].iss /\ tcb[Other(h)].irs = tcb[h].iss

\* A sender forgets only what the receiver has taken: SND.UNA never passes the
\* RCV.NXT of the other end, which never passes SND.NXT, with segments of the two
\* directions lost, reordered and duplicated, and with handshakes, acknowledgements
\* and data of earlier connections still in the network.  An end that has gone from
\* FIN_WAIT_2 to TIME_WAIT is left out: process_fin_packet has acknowledged
\* SEG.SEQ + 1, whether or not data was missing below it.
SequenceAgreement ==
    \A h \in Host : Paired(h) =>
        /\ tcb[Other(h)].state # "TIME_WAIT" => tcb[h].una <= tcb[Other(h)].rcvNxt
        /\ tcb[Other(h)].rcvNxt <= tcb[h].nxt

\* The faults that a run can end in.  resend_syn asserts that the handshake goes on
\* (TCP_Connection.c:66): its timer never meets a connection past it, though the
\* answer, duplicates and the segments of earlier connections race with it; and a
\* connection reads the FIN that process_fin_packet freed only when both
\* applications end.  What remains: a TIME_WAIT timer, or the application, finds
\* the TCB deleted, and a child that an old RST or SYN took back to LISTEN has a
\* freed queue and no callback.
OnlyKnownFaults ==
    \/ Running
    \/ fault = "NULL tcb" /\ \E h \in Host : orphan[h] \/ (sock[h] /\ ~Open(h))
    \/ /\ fault \in {"freed queue", "NULL callback"}
       /\ \E h \in Host : Open(h) /\ tcb[h].state = "LISTEN"
    \/ fault = "freed FIN" /\ Ending = Host

\* A TIME_WAIT that ends: the connection always has a timer pending that will
\* delete its TCB, and when the flag will swallow one expiry, a second timer.
TimeWaitWillExpire ==
    \A h \in Host : Open(h) /\ tcb[h].state = "TIME_WAIT" =>
        tcb[h].timers >= IF tcb[h].restarted THEN 2 ELSE 1

\* The receiver passes every packet up once (RFC 793): violated, see README.
DeliveredOnce ==
    \A h \in Host : \A i, j \in DOMAIN dlv[h] : dlv[h][i] = dlv[h][j] => i = j

\* A receiver that has taken the FIN has all the data before it (RFC 793).
EndedStreamIsComplete ==
    \A h \in Host : Open(h) /\ tcb[h].state = "LAST_ACK" =>
        \A n \in 1..app[Other(h)].sent : \E i \in DOMAIN dlv[h] : dlv[h][i] = n

-----------------------------------------------------------------------------
(* What a step may never do. *)

\* While a TCB lives, SND.UNA, SND.NXT and RCV.NXT never go back: resend_syn, which
\* resets the first two, only runs before anything is sent or acknowledged, however
\* late its timer and however many times it has run.
NeverRetreats ==
    [][\A h \in Host :
           Open(h) /\ tcb'[h] # NoTcb /\ tcb'[h].iss = tcb[h].iss =>
               /\ tcb'[h].una >= tcb[h].una
               /\ tcb'[h].nxt >= tcb[h].nxt
               /\ tcb'[h].rcvNxt >= tcb[h].rcvNxt]_vars

-----------------------------------------------------------------------------
(* Liveness, under FairSpec. *)

Established(h) == Open(h) /\ tcb[h].state = "ESTABLISHED"

\* With the connection established, retransmission fills every hole and the
\* sender learns of it: all the packets of the application are acknowledged and
\* nothing stays in the retransmission queue.
DataIsAcknowledged ==
    (\A h \in Host : Established(h)) ~>
        (\A h \in Host : Open(h) => app[h].sent = Packets[h] /\ tcb[h].una = tcb[h].nxt)

\* When the Client's application ends and the Server has accepted the connection
\* while the Client still has it, both TCBs go at last: the FIN exchange and the
\* TIME_WAIT timer leave nothing half-open.
BothEndsClose ==
    (Open(Client) /\ Established(Server)) ~> (\A h \in Host : ~Open(h))
=============================================================================
