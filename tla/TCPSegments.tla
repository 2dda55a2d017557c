----------------------------- MODULE TCPSegments -----------------------------
(***************************************************************************)
(* Segments and the two segment queues of a TCB (TCP_Packet.c, TCB.c).     *)
(*                                                                         *)
(* A segment keeps what the handlers of TCP_Connection.c and               *)
(* TCP_Incoming.c read: the flag bits, the sequence and acknowledgement    *)
(* numbers and the application packet it carries (0 when it carries none). *)
(* Every application packet is one segment of DataLen bytes.  Options,     *)
(* ports and the advertised window are left out: SACK, timestamps and      *)
(* window scaling are disabled in every shipped scenario, and the sender   *)
(* never reads the advertised window (send_segment overwrites SND.WND).    *)
(***************************************************************************)
EXTENDS Integers, Sequences

CONSTANTS
    Host,       \* the two ends of the connection
    DataLen,    \* dPayload of a data segment
    HdrLength   \* HdrLength of a segment, used by create_rst

ASSUME DataLenAssumption == DataLen \in Nat \ {0}
ASSUME HdrLengthAssumption == HdrLength \in Nat \ {0, 1}

Flag == {"SYN", "ACK", "FIN", "RST"}

Segment == [from : Host, flags : SUBSET Flag, seq : Nat, ackno : Nat, pkt : Nat]

-----------------------------------------------------------------------------
(* The packets of TCP_Packet.c. *)

create_syn(h, iss) ==
    [from |-> h, flags |-> {"SYN"}, seq |-> iss, ackno |-> 0, pkt |-> 0]

create_synAck(h, iss, rcvNxt) ==
    [from |-> h, flags |-> {"SYN", "ACK"}, seq |-> iss, ackno |-> rcvNxt, pkt |-> 0]

create_ack(h, seqno, ackno) ==
    [from |-> h, flags |-> {"ACK"}, seq |-> seqno, ackno |-> ackno, pkt |-> 0]

\* send_fin_ack sets the FIN bit of an ACK segment.
fin_ack(h, seqno, ackno) ==
    [from |-> h, flags |-> {"ACK", "FIN"}, seq |-> seqno, ackno |-> ackno, pkt |-> 0]

\* create_fin: SND.NXT, or SND.NXT + 1 when no data was ever sent.
create_fin(h, iss, nxt) ==
    [from |-> h, flags |-> {"FIN"}, seq |-> IF iss + 1 = nxt THEN nxt + 1 ELSE nxt,
     ackno |-> 0, pkt |-> 0]

\* add_tcp_hdr on a packet taken from the socket interface.
data_segment(h, seqno, n) ==
    [from |-> h, flags |-> {}, seq |-> seqno, ackno |-> 0, pkt |-> n]

\* create_rst(p, time, c): the acknowledgement number of the RST that answers
\* a segment without ACK is SeqNum + HdrLength, not SeqNum + SEG.LEN.
create_rst(h, m, c) ==
    IF "ACK" \in m.flags \/ c = 1
    THEN [from |-> h, flags |-> {"RST"}, seq |-> m.ackno, ackno |-> 0, pkt |-> 0]
    ELSE [from |-> h, flags |-> {"RST", "ACK"}, seq |-> 0,
          ackno |-> m.seq + HdrLength, pkt |-> 0]

isSynPacket(m) == "SYN" \in m.flags /\ "ACK" \notin m.flags

get_seg_len(m) ==
    IF "SYN" \in m.flags THEN 1 ELSE IF m.pkt # 0 THEN DataLen ELSE 0

-----------------------------------------------------------------------------
(* The retransmission queue: a set, since nothing depends on its order. *)

\* Mutants of delete_segment_from_queue: the boundary segment goes too, or an
\* acknowledged one stays.
DeletesNext(q, ackNo) == {m \in q : m.seq > ackNo}
KeepsLast(q, ackNo) == {m \in q : m.seq + get_seg_len(m) >= ackNo}

delete_segment_from_queue(q, ackNo) ==
    {m \in q : m.seq + get_seg_len(m) > ackNo}

get_copy_segment_from_queue(q, seqNo) == {m \in q : m.seq = seqNo}

-----------------------------------------------------------------------------
(* The out-of-order queue: a sequence in arrival order. *)

isSegmentInQueue(q, m) == \E i \in DOMAIN q : q[i].seq = m.seq

\* The queued segments nxt, nxt + DataLen, ... (k of them) stand in the queue
\* in that order.
Linked(q, nxt, k) ==
    \A j \in 1..k : \E i \in DOMAIN q :
        /\ q[i].pkt # 0
        /\ q[i].seq = nxt + (j - 1) * DataLen
        /\ j > 1 => \E h \in 1..(i - 1) :
                        q[h].pkt # 0 /\ q[h].seq = nxt + (j - 2) * DataLen

\* Mutant of PassAdvance: RCV.NXT moves over the queue, holes included.
PassesHoles(q, nxt) == {Len(q)}

\* check_segment_in_queue makes ONE pass in arrival order: it moves RCV.NXT
\* over k segments, and a segment queued after its successor stops it.
PassAdvance(q, nxt) ==
    {k \in 0..Len(q) : Linked(q, nxt, k) /\ ~Linked(q, nxt, k + 1)}

\* check_for_other_segment_to_send_from_queue, called until it returns NULL,
\* takes the segments at the head that are below RCV.NXT.
HeadsBelow(q, rcvNxt) ==
    {j \in 0..Len(q) :
        /\ \A i \in 1..j : q[i].seq < rcvNxt
        /\ j < Len(q) => q[j + 1].seq >= rcvNxt}
=============================================================================
