----------------------------- MODULE MCTransport -----------------------------
(***************************************************************************)
(* Congestion control and the liveness of TCP for TLC, in five settings,   *)
(* one of which is picked at the start: the congestion control of the      *)
(* configuration; that of Tahoe with 8960-byte segments; a transfer over a *)
(* network that loses segments; one that the Client ends, over a network   *)
(* that does not; and one that the Client ends, over a network that        *)
(* duplicates and reorders.  Each has a state of its own but for the last  *)
(* three; what is not the setting's keeps the state it starts in.          *)
(***************************************************************************)
EXTENDS TCPCongestion

CONSTANTS Client, Server

VARIABLES
    setting,
    tCong, tUna, tNxt, tBuf, tGiven, tWait, tSndWnd, tStreak,
    sock, tcb, app, dlv, orphan, made, net, fault

tahoe == <<tCong, tUna, tNxt, tBuf, tGiven, tWait, tSndWnd, tStreak>>
tcp == <<sock, tcb, app, dlv, orphan, made, net, fault>>
all == <<setting, vars, tahoe, tcp>>

Settings == {"configured", "Tahoe", "transfer", "closing", "streaming"}

T == INSTANCE TCPCongestion WITH
    Variant <- "Tahoe", MSS <- 8960, PktLen <- 8960, MaxPackets <- 8,
    cong <- tCong, una <- tUna, nxt <- tNxt, buf <- tBuf, given <- tGiven,
    wait <- tWait, sndWnd <- tSndWnd, streak <- tStreak

Host == {Client, Server}

FromClient(n) == [h \in Host |-> IF h = Client THEN n ELSE 0]

Transfer == INSTANCE TCPConnection WITH
    Packets <- FromClient(3), Ending <- {}, RcvWnd <- 4, AckType <- "Delayed",
    Lossy <- TRUE, DataLen <- 2, HdrLength <- 20, MaxSynRetries <- [h \in Host |-> 1],
    IssStep <- 100, Duplicating <- FALSE, MaxTcbs <- 2, MaxTimeWait <- 2

Closing == INSTANCE TCPConnection WITH
    Packets <- FromClient(2), Ending <- {Client}, RcvWnd <- 6, AckType <- "Undelayed",
    Lossy <- FALSE, DataLen <- 2, HdrLength <- 20, MaxSynRetries <- [h \in Host |-> 1],
    IssStep <- 100, Duplicating <- FALSE, MaxTcbs <- 2, MaxTimeWait <- 2

Streaming == INSTANCE TCPStreamRefinement WITH
    Packets <- FromClient(3), Ending <- {Client}, RcvWnd <- 6, AckType <- "Undelayed",
    Lossy <- FALSE, DataLen <- 2, HdrLength <- 20, MaxSynRetries <- [h \in Host |-> 1],
    IssStep <- 100, Duplicating <- TRUE, MaxTcbs <- 2, MaxTimeWait <- 3

TransportInit ==
    /\ setting \in Settings
    /\ Init /\ T!Init
    /\ IF setting = "closing" THEN Closing!Init
       ELSE IF setting = "streaming" THEN Streaming!Init ELSE Transfer!Init

TransportNext ==
    /\ UNCHANGED setting
    /\ \/ setting = "configured" /\ Next /\ UNCHANGED <<tahoe, tcp>>
       \/ setting = "Tahoe" /\ T!Next /\ UNCHANGED <<vars, tcp>>
       \/ setting = "transfer" /\ Transfer!Next /\ UNCHANGED <<vars, tahoe>>
       \/ setting = "closing" /\ Closing!Next /\ UNCHANGED <<vars, tahoe>>
       \/ setting = "streaming" /\ Streaming!Next /\ UNCHANGED <<vars, tahoe>>

\* The fairness of TCPConnection in the two settings that need it.
Either(A, B) == (setting = "transfer" /\ A) \/ (setting = "closing" /\ B)

TransportSpec ==
    /\ TransportInit /\ [][TransportNext]_all
    /\ WF_tcp(Either(\E h \in Host : Transfer!Application(h),
                     \E h \in Host : Closing!Application(h)))
    /\ \A n \in 1 .. 2 :
          /\ SF_tcp(Either(Transfer!DeliverText(n), Closing!DeliverText(n)))
          /\ WF_tcp(Either(Transfer!TextTimeout(n), Closing!TextTimeout(n)))
    /\ SF_tcp(setting = "transfer" /\ Transfer!DeliverText(3))
    /\ WF_tcp(setting = "transfer" /\ Transfer!TextTimeout(3))
    /\ \A h \in Host :
          /\ SF_tcp(Either(Transfer!DeliverControl(h, {"ACK"}), Closing!DeliverControl(h, {"ACK"})))
          /\ SF_tcp(setting = "closing" /\ Closing!DeliverControl(h, {"FIN"}))
          /\ SF_tcp(setting = "closing" /\ Closing!DeliverControl(h, {"ACK", "FIN"}))
    /\ WF_tcp(setting = "closing" /\ \E h \in Host : Closing!handle_time_wait_timeout(h))
-----------------------------------------------------------------------------
\* Tahoe lowers ssthresh only on a timeout or on the third duplicate
\* acknowledgement in a row (Congestion.c:354, "the third duplicate ACK").
TahoeThirdInARow == T!ThirdInARow

\* The Client's retransmission queue lets a packet go only when the Server holds
\* it or has passed it up, and the Server passes up only what was sent, be the
\* segments lost, duplicated or reordered (delete_segment_from_queue against
\* check_segment and send_to_application).
ImplementsStream == Streaming!ImplementsStream

\* Over a network that loses segments, the sender learns of every packet that
\* arrives: nothing stays in the retransmission queue
\* (delete_segment_from_queue, DelayedAck.c).
DataIsAcknowledged == [](setting = "transfer") => Transfer!DataIsAcknowledged

\* When the Client's application ends, the FIN exchange and the TIME_WAIT timer
\* leave nothing half-open (TCP_Connection.c, TCP.c).
BothEndsClose == [](setting = "closing") => Closing!BothEndsClose
=============================================================================
