---------------------------- MODULE TCPCongestion ----------------------------
(***************************************************************************)
(* The congestion control of one sender (Congestion.c) together with       *)
(* send_segment, process_ack_in_establishedState and the RTO timer, which  *)
(* drive it.  TCPConnection abstracts the window computed here.            *)
(*                                                                         *)
(* Windows have the width of the code: cwnd and ssthresh are UINT16, and   *)
(* with window scaling they hold the window divided by Scale.  Round       *)
(* trip times are abstracted: whether one has passed since the last window *)
(* update of congestion avoidance is a choice.  SACK is off.               *)
(***************************************************************************)
EXTENDS Integers

CONSTANTS
    Variant,     \* "OldTahoe", "Tahoe", "Reno" or "NewReno"
    MSS,         \* SMSS after the SYN exchange
    PktLen,      \* dPacketSize of the application packets
    InitSSThresh,
    Scale,       \* 2^(Snd.Wind_Shift), 1 when window scaling is off
    ISS,
    MaxPackets,  \* bound: packets the application hands over
    MaxDupAcks   \* bound: dupAckCount

\* The values of a UINT16.
Word == {x \in Nat : x < 65536}

ASSUME VariantAssumption == Variant \in {"OldTahoe", "Tahoe", "Reno", "NewReno"}
ASSUME SegmentAssumption == MSS \in Word \ {0} /\ PktLen \in 1..MSS
ASSUME ThresholdAssumption == InitSSThresh \in Word /\ Scale \in Nat \ {0} /\ ISS \in Nat \ {0}
ASSUME CongestionBoundAssumption == MaxPackets \in Nat /\ MaxDupAcks \in Nat

VARIABLES
    cong,     \* CONGESTIONVAR
    una, nxt, \* SND.UNA, SND.NXT
    buf,      \* packets waiting in the socket interface
    given,    \* packets handed over by the application
    wait,     \* waitFromApp
    sndWnd,   \* the SND.WND on which send_segment asserts, 0 before it ran
    streak    \* history: duplicate acknowledgements since the last new one

vars == <<cong, una, nxt, buf, given, wait, sndWnd, streak>>

CongestionVar == [cwnd : Word, ssthresh : Word, dupAckCount : Nat,
                  isFastRecovery : BOOLEAN, recover : Nat]

Larger(a, b) == IF a > b THEN a ELSE b
Smaller(a, b) == IF a < b THEN a ELSE b

UINT16(x) == x % 65536

DupThresh == 3    \* TCP_DupThresh

\* Mutant of LW: less than one segment.
HalfWindow == MSS \div 2

LW == MSS

\* congestion_set_IW, RFC 3390.  The MSS of the device is that of the connection.
IW == UINT16(IF MSS > 2190 THEN 2 * MSS ELSE IF MSS > 1095 THEN 3 * MSS ELSE 4 * MSS)

-----------------------------------------------------------------------------
(* The accessors of Congestion.c; isWindowScaling is Scale > 1. *)

Scaled(w) == w \div Scale

get_cwnd(c) == c.cwnd * Scale
get_ssthres(c) == c.ssthresh * Scale

\* Its assertion in the scaled branch is left out: scaling is off in every run.
set_cwnd(c, w) ==
    [c EXCEPT !.cwnd = IF Scale > 1 THEN Larger(1, UINT16(Scaled(w))) ELSE UINT16(w)]

set_ssthres(c, w) == [c EXCEPT !.ssthresh = UINT16(Scaled(w))]

\* Mutant of increase_cwnd: it does not saturate.
IncreaseUnbounded(c, inc) == [c EXCEPT !.cwnd = Scaled(get_cwnd(c) + inc)]

increase_cwnd(c, inc) == [c EXCEPT !.cwnd = Smaller(65535, Scaled(get_cwnd(c) + inc))]

FlightSize == UINT16(nxt - una)

-----------------------------------------------------------------------------
(* The congestion algorithms: CONGESTIONVAR after an acknowledgement ack.   *)
(* rtt tells that a round trip has passed since the last window update.     *)

isDupAck(ack) == ack <= una

slowStart(c, ack) == increase_cwnd(c, Smaller(UINT16(ack - una), MSS))

CongestionAvoidance(c, ack, rtt) == IF rtt THEN slowStart(c, ack) ELSE c

Grow(c, ack, rtt) ==
    IF get_cwnd(c) <= get_ssthres(c) THEN slowStart(c, ack) ELSE CongestionAvoidance(c, ack, rtt)

\* Any count but the third only inflates the window.
FastRetransmit(c) ==
    IF c.dupAckCount = DupThresh
    THEN LET d == set_ssthres(c, Larger(FlightSize \div 2, 2 * MSS))
         IN  [set_cwnd(d, get_ssthres(d) + DupThresh * MSS) EXCEPT
                 !.isFastRecovery = Variant \in {"Reno", "NewReno"}]
    ELSE increase_cwnd(c, MSS)

FastRecovery(c) ==
    set_cwnd([c EXCEPT !.isFastRecovery = FALSE, !.dupAckCount = 0], get_ssthres(c))

\* Mutant of newReno_FastRecovery: a full acknowledgement does not end recovery.
NeverRecovers(c, ack) ==
    IF ack >= c.recover
    THEN set_cwnd([c EXCEPT !.dupAckCount = 0],
                  Smaller(get_ssthres(c), Larger(FlightSize, MSS) + MSS))
    ELSE increase_cwnd([c EXCEPT !.dupAckCount = 0], UINT16(ack - c.recover))

\* A partial acknowledgement adds (UINT16)(SEG.ACK - recover), a negative number.
newReno_FastRecovery(c, ack) ==
    LET d == [c EXCEPT !.dupAckCount = 0]
    IN  IF ack >= c.recover
        THEN set_cwnd([d EXCEPT !.isFastRecovery = FALSE],
                      Smaller(get_ssthres(c), Larger(FlightSize, MSS) + MSS))
        ELSE increase_cwnd(d, UINT16(ack - c.recover))

Counted(c) == [c EXCEPT !.dupAckCount = @ + 1]

oldtahoe_ack_received(c, ack, rtt) == Grow(c, ack, rtt)

\* Mutant of tahoe_ack_received: dupAckCount is not reset.
TahoeKeepsCount(c, ack, rtt) ==
    IF isDupAck(ack)
    THEN IF c.dupAckCount + 1 < DupThresh THEN Counted(c) ELSE FastRetransmit(Counted(c))
    ELSE Grow(c, ack, rtt)

tahoe_ack_received(c, ack, rtt) ==
    IF isDupAck(ack)
    THEN IF c.dupAckCount + 1 < DupThresh THEN Counted(c) ELSE FastRetransmit(Counted(c))
    ELSE IF c.dupAckCount > 0 THEN set_cwnd([c EXCEPT !.dupAckCount = 0], LW)
    ELSE Grow(c, ack, rtt)

reno_ack_received(c, ack, rtt) ==
    IF isDupAck(ack)
    THEN IF c.dupAckCount + 1 < DupThresh THEN Counted(c) ELSE FastRetransmit(Counted(c))
    ELSE IF c.isFastRecovery THEN FastRecovery(c)
    ELSE Grow(c, ack, rtt)

newreno_ack_received(c, ack, rtt) ==
    IF isDupAck(ack)
    THEN IF c.dupAckCount + 1 >= DupThresh /\ c.recover < ack - 1
         THEN FastRetransmit([Counted(c) EXCEPT !.recover = nxt])
         ELSE Counted(c)
    ELSE IF c.isFastRecovery THEN newReno_FastRecovery(c, ack)
    ELSE Grow(c, ack, rtt)

ack_received(c, ack, rtt) ==
    CASE Variant = "OldTahoe" -> oldtahoe_ack_received(c, ack, rtt)
      [] Variant = "Tahoe"    -> tahoe_ack_received(c, ack, rtt)
      [] Variant = "Reno"     -> reno_ack_received(c, ack, rtt)
      [] Variant = "NewReno"  -> newreno_ack_received(c, ack, rtt)

-----------------------------------------------------------------------------
(* The sender. *)

\* send_segment with the window of c, SND.UNA u and b packets waiting.
send_segment(c, u, b) ==
    LET room == get_cwnd(c) + u - nxt
        k == IF room < 0 THEN 0 ELSE Smaller(b, room \div PktLen)
    IN  /\ sndWnd' = get_cwnd(c)
        /\ nxt' = nxt + k * PktLen
        /\ buf' = b - k

\* init_congestion and congestion_set_MSS; the SYN is in flight.
Init ==
    /\ cong = set_cwnd([cwnd |-> 0, ssthresh |-> UINT16(Scaled(InitSSThresh)),
                        dupAckCount |-> 0, isFastRecovery |-> FALSE,
                        recover |-> IF Variant = "NewReno" THEN ISS ELSE 0], IW)
    /\ una = ISS /\ nxt = ISS + 1
    /\ buf = 0 /\ given = 0 /\ wait = FALSE
    /\ sndWnd = 0 /\ streak = 0

\* The SYN+ACK reaches the active end: packets_arrives_at_synsent_state.
Connect ==
    /\ una = ISS
    /\ una' = ISS + 1
    /\ send_segment(cong, ISS + 1, buf)
    /\ wait' = (wait \/ buf = 0)
    /\ UNCHANGED <<cong, given, streak>>

\* Mutant of AckNew: SND.UNA is updated after send_segment.
AckNewLate(ack, rtt) ==
    /\ una < ack /\ ack <= nxt
    /\ cong' = ack_received(cong, ack, rtt)
    /\ una' = ack
    /\ send_segment(cong', una, buf)
    /\ wait' = (wait \/ buf = 0)
    /\ streak' = 0
    /\ UNCHANGED given

\* An acknowledgement of new data (or of the SYN+ACK of the passive end).
AckNew(ack, rtt) ==
    /\ una < ack /\ ack <= nxt
    /\ cong' = ack_received(cong, ack, rtt)
    /\ una' = ack
    /\ send_segment(cong', ack, buf)
    /\ wait' = (wait \/ buf = 0)
    /\ streak' = 0
    /\ UNCHANGED given

\* A duplicate or old acknowledgement: send_segment is not called.
AckDup(ack, rtt) ==
    /\ ack <= una /\ cong.dupAckCount < MaxDupAcks
    /\ cong' = ack_received(cong, ack, rtt)
    /\ streak' = Smaller(streak + 1, DupThresh)
    /\ UNCHANGED <<una, nxt, buf, given, wait, sndWnd>>

\* congestion_rto_timeout: every segment in flight has a timer.
congestion_rto_timeout ==
    /\ una > ISS /\ una < nxt
    /\ LET c == set_cwnd(set_ssthres(cong, Larger(FlightSize \div 2, 2 * MSS)), LW)
       IN  cong' = IF Variant = "NewReno"
                   THEN [c EXCEPT !.recover = nxt, !.isFastRecovery = FALSE] ELSE c
    /\ UNCHANGED <<una, nxt, buf, given, wait, sndWnd, streak>>

\* packet_arrive_from_application_layer.
FromApp ==
    /\ given < MaxPackets
    /\ given' = given + 1
    /\ IF wait
       THEN send_segment(cong, una, buf + 1) /\ wait' = FALSE
       ELSE buf' = buf + 1 /\ UNCHANGED <<nxt, sndWnd, wait>>
    /\ UNCHANGED <<cong, una, streak>>

\* Acknowledgements fall on segment boundaries.
Boundary == {ISS + 1 + i * PktLen : i \in 0..MaxPackets}

Next ==
    \/ Connect
    \/ \E ack \in Boundary, rtt \in BOOLEAN : AckNew(ack, rtt)
    \/ \E ack \in Boundary, rtt \in BOOLEAN : AckDup(ack, rtt)
    \/ congestion_rto_timeout
    \/ FromApp

Spec == Init /\ [][Next]_vars

-----------------------------------------------------------------------------
(* Properties. *)

\* The widths of the code are respected.
TypeOK ==
    /\ cong \in CongestionVar
    /\ una \in Nat /\ nxt \in Nat /\ buf \in Nat /\ given \in Nat
    /\ wait \in BOOLEAN /\ sndWnd \in Nat /\ streak \in 0..DupThresh

\* The window always admits one full segment, after any mix of losses, RTOs and
\* fast retransmits (LW, ssthresh and the UINT16 casts of set_cwnd).
WindowAdmitsSegment == get_cwnd(cong) >= MSS

\* Nothing stalls: when no segment is in flight the connection has nothing left
\* to send and send_segment has set waitFromApp, so the next application packet
\* goes out at once; with data in flight an acknowledgement or an RTO is due.
NoStall == una = nxt => wait /\ buf = 0

\* The cast (UINT16)(SND.NXT - SND.UNA) of FlightSize loses nothing.
FlightSizeIsExact == nxt - una < 65536

\* NewReno recovery can end: while it lasts, recover is not below SND.UNA and
\* no further than SND.NXT, so acknowledging what is in flight is a full ACK.
RecoveryCanEnd ==
    Variant = "NewReno" /\ cong.isFastRecovery => una <= cong.recover /\ cong.recover <= nxt

\* ssthresh falls only on a retransmission timeout or on the third duplicate
\* acknowledgement in a row (Congestion.c:354, "the third duplicate ACK").
ThirdInARow ==
    [][cong'.ssthresh < cong.ssthresh /\ cong'.dupAckCount # cong.dupAckCount
           => streak' = DupThresh]_vars

\* send_segment asserts SND.WND > MSS (TCP_Outgoing.c:35).
SendAssertion == sndWnd # 0 => sndWnd > MSS
=============================================================================
