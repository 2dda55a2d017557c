---------------------------------- MODULE DCF ----------------------------------
(***************************************************************************)
(* IEEE 802.11: the distributed coordination function of stations that     *)
(* share a channel, with RTS and CTS, over the medium of Medium.c.         *)
(*                                                                         *)
(* The simulator is driven by timed events.  An event is kept here with the *)
(* time left until it is due; Tick lets a unit pass when none is due, and  *)
(* the events of one instant come in any order.                            *)
(* Left out: aggregation and block acknowledgements, rate adaptation, power *)
(* saving, the forwarding of access points, other frequencies, WAVE.  The  *)
(* navigation vector is tested but never set, and the contention window    *)
(* only bounds the random backoff: neither is a variable.  A frame takes no *)
(* time on its way.  In the code it takes that of the distance, and the two *)
(* microseconds of the timeouts have to cover it both ways.                *)
(***************************************************************************)
EXTENDS Naturals, FiniteSets, Bags

CONSTANTS
    Station,
    InRange,     \* the pairs {s, t} of stations that receive each other
    Packet,
    Src, Dst,    \* [Packet -> Station]; everyone is also a destination
    everyone,
    Long,        \* the packets that reach the RTS threshold
    SIFS, DIFS,  \* bound: the times, the slot being 1
    CtrlTime, DataTime,
    Slack,       \* what a timeout leaves over, two microseconds in the code
    RetryLimit,  \* nRetryLimit
    MaxBackoff,  \* bound: the backoff counters
    MaxLost      \* bound: the frames that bit errors destroy

VARIABLES
    mac,      \* [Station -> state, cur (currentProcessingPacket), waiting
              \* (waitingforCTS), retry, counter (nBackOffCounter)]
    radio,    \* [Station -> state and transmissionId]
    sent,     \* phy->transmissionId: the frames each station has transmitted
    events,   \* a bag of events
    packets,  \* [new, queued, delivered, acked, dropped -> set of packets]
    lost,     \* the number of frames destroyed
    crashed   \* the code dereferenced a null pointer

vars == <<mac, radio, sent, events, packets, lost, crashed>>

none == "none"
NoPacket == [rts |-> FALSE, packet |-> none]

Event(s, kind, at, f) == [dev |-> s, kind |-> kind, at |-> at, frame |-> f]
Timer(s, kind, at) == Event(s, kind, at, none)
One(e) == SetToBag({e})

Frame(kind, p, from, to) ==
    [kind |-> kind, packet |-> p, from |-> from, to |-> to, id |-> 0, collided |-> FALSE]

Due == {e \in BagToSet(events) : e.at = 0}

InAir(E) == {e.frame : e \in {x \in BagToSet(E) : x.kind = "PhyIn"}}

\* medium_isIdle, negated: some transmission of another station is received.
Busy(s, E) == \E f \in InAir(E) : f.from # s /\ {f.from, s} \in InRange

Transmits(m) == m.state \in {"TXing_MPDU", "Txing_BroadCast", "TXing_ACK", "TXing_RTS", "TXing_CTS"}

\* medium_isRadioIdleHandler
RadioIdle(m, r) == r.state = "idle" /\ m.state \in {"MAC_IDLE", "Wait_DIFS", "BACKING_OFF"}

Init ==
    /\ mac = [s \in Station |->
           [state |-> "MAC_IDLE", cur |-> NoPacket, waiting |-> none, retry |-> 0, counter |-> 0]]
    /\ radio = [s \in Station |-> [state |-> "idle", id |-> 0]]
    /\ sent = [s \in Station |-> 0]
    /\ events = EmptyBag
    /\ packets = [new |-> Packet, queued |-> {}, delivered |-> {}, acked |-> {}, dropped |-> {}]
    /\ lost = 0 /\ crashed = FALSE
-----------------------------------------------------------------------------
(* CSMACA.c *)

\* RTS_CTS_Init
WithRTS(m, p) ==
    IF p \in Long /\ ~m.cur.rts
    THEN [m EXCEPT !.waiting = p, !.cur = [rts |-> TRUE, packet |-> p]]
    ELSE [m EXCEPT !.cur = [@ EXCEPT !.packet = p]]

\* Mutant of Idle: the radio is not looked at.
MacIdle(m, r) == m.state = "MAC_IDLE"

\* isSTAIdle
Idle(m, r) == m.state = "MAC_IDLE" /\ r.state = "idle"

\* CSMACA_Init, called by a handler that leaves the MAC as m, the events as E
\* and the packets as P.
Contend(s, m, E, P) ==
    LET waiting == IF m.cur.packet # none THEN {m.cur.packet} ELSE {p \in P.queued : Src[p] = s}
    IN  IF Idle(m, radio[s]) /\ waiting # {}
        THEN \E p \in waiting :
                /\ mac' = [mac EXCEPT ![s] = WithRTS(m, p)]
                /\ events' = E (+) One(Timer(s, "CS", 0))
                /\ packets' = [P EXCEPT !.queued = @ \ {p}]
        ELSE /\ mac' = [mac EXCEPT ![s] = m]
             /\ events' = E
             /\ packets' = P

\* MacOut with sub-event 0
Start(e) ==
    /\ e.kind = "Start"
    /\ Contend(e.dev, mac[e.dev], events (-) One(e), packets)
    /\ UNCHANGED <<radio, sent, lost, crashed>>

SetMac(s, m, E) ==
    /\ mac' = [mac EXCEPT ![s] = m]
    /\ events' = E
    /\ UNCHANGED <<radio, sent, packets, lost, crashed>>

SetState(m, state) == [m EXCEPT !.state = state]

\* CSMACA_CS and CheckNAV
CarrierSense(e) ==
    LET s == e.dev
        rest == events (-) One(e)
    IN  /\ e.kind = "CS"
        /\ IF Idle(mac[s], radio[s]) /\ ~Busy(s, events)
           THEN SetMac(s, SetState(mac[s], "Wait_DIFS"), rest (+) One(Timer(s, "DIFSEnd", DIFS)))
           ELSE SetMac(s, mac[s], rest)

\* DIFSEnd, StartBackOff and RandomBackOffTimeCalculation
DIFSEnd(e) ==
    LET s == e.dev
        rest == events (-) One(e)
        counters == IF mac[s].counter = 0 THEN 0 .. MaxBackoff ELSE {mac[s].counter}
    IN  /\ e.kind = "DIFSEnd"
        /\ IF ~Busy(s, events)
           THEN \E n \in counters :
                  SetMac(s, [mac[s] EXCEPT !.state = "BACKING_OFF", !.counter = n],
                         rest (+) One(Timer(s, "Backoff", 1)))
           ELSE SetMac(s, SetState(mac[s], IF mac[s].state = "Wait_DIFS" THEN "MAC_IDLE"
                                           ELSE mac[s].state), rest)

\* SendToPhy and set_mac_state_for_tx.  A broadcast is not kept.
SendToPhy(s, m, E) ==
    LET p == m.cur.packet
        out(kind, to) == E (+) One(Event(s, "PhyOut", 0, Frame(kind, p, s, to)))
    IN  IF p = none THEN SetMac(s, m, E)
        ELSE IF m.cur.rts THEN SetMac(s, SetState(m, "TXing_RTS"), out("RTS", Dst[p]))
        ELSE IF Dst[p] = everyone
        THEN SetMac(s, [m EXCEPT !.state = "Txing_BroadCast", !.cur = NoPacket], out("Data", everyone))
        ELSE SetMac(s, SetState(m, "TXing_MPDU"), out("Data", Dst[p]))

\* CSMACA_Backoff
Backoff(e) ==
    LET s == e.dev
        m == mac[s]
        rest == events (-) One(e)
        again == rest (+) One(Timer(s, "Backoff", 1))
        failed == [m EXCEPT !.counter = 0,
                            !.state = IF @ = "BACKING_OFF" THEN "MAC_IDLE" ELSE @]
    IN  /\ e.kind = "Backoff"
        /\ IF radio[s].state # "idle" THEN SetMac(s, failed, rest)
           ELSE IF ~Busy(s, events)
           THEN IF m.counter > 1 THEN SetMac(s, [m EXCEPT !.counter = @ - 1], again)
                ELSE SendToPhy(s, [m EXCEPT !.counter = 0], rest)
           ELSE IF m.counter <= 1 THEN SetMac(s, failed, rest) ELSE SetMac(s, m, again)

\* fnDeleteEvent of the last event of that kind that was added, if it is not over.
Without(E, s, kind) ==
    LET all == {x \in BagToSet(E) : x.dev = s /\ x.kind = kind}
    IN  E (-) SetToBag({x \in all : \A y \in all : y.at <= x.at})

\* difs_failed and pause_backoff
Pause(e) ==
    LET s == e.dev
        kind == IF e.kind = "DIFSFailed" THEN "DIFSEnd" ELSE "Backoff"
    IN  /\ e.kind \in {"DIFSFailed", "BackoffPaused"}
        /\ SetMac(s, SetState(mac[s], "MAC_IDLE"), Without(events (-) One(e), s, kind))

\* CSMACA_CheckRetryLimit
MayRetry(m) == m.retry + 1 < RetryLimit

\* AckTimeOut and CTSTimeOut
Timeout(e) ==
    LET s == e.dev
        m == SetState(mac[s], "MAC_IDLE")
        rest == events (-) One(e)
        expected == IF e.kind = "AckTimeout" THEN "Wait_ACK" ELSE "Wait_CTS"
        given == IF e.kind = "AckTimeout" THEN m.cur.packet ELSE m.waiting
    IN  /\ e.kind \in {"AckTimeout", "CTSTimeout"}
        /\ IF mac[s].state # expected
           THEN mac' = mac /\ events' = rest /\ packets' = packets
           ELSE IF MayRetry(m)
           THEN Contend(s, [m EXCEPT !.retry = @ + 1], rest, packets)
           ELSE IF given = none THEN Contend(s, [m EXCEPT !.retry = 0], rest, packets)
           ELSE Contend(s, [m EXCEPT !.retry = 0, !.cur = NoPacket,
                                     !.waiting = IF expected = "Wait_CTS" THEN none ELSE @],
                        rest, [packets EXCEPT !.dropped = @ \cup {given}])
        /\ UNCHANGED <<radio, sent, lost, crashed>>
-----------------------------------------------------------------------------
(* IEEE802_11_Phy.c, IEEE802_11_Radio.c and Medium.c *)

\* isChangeRadioIsPermitted.  The ids of two stations are not told apart.
Permitted(m, r, state, n) ==
    /\ state = "rx" => ~Transmits(m)
    /\ r.state = "idle" \/ r.id = n

SetRadio(R, s, state, n) ==
    IF Permitted(mac[s], R[s], state, n) THEN [R EXCEPT ![s] = [state |-> state, id |-> n]] ELSE R

\* medium_mark_collision, by a transmission from s, of the frames in the air.
Collides(f, s, R, from) ==
    /\ f.from # s \/ f.to = from.first
    /\ \/ \E t \in from.air \ {f.from, f.to} : {t, f.to} \in InRange
       \/ R[f.to].state = "tx"

\* Mutant of Patience: the frame itself takes no time.
Impatience(time) == SIFS + CtrlTime + Slack

\* How long after the start of a frame its answer is given up.  An answer takes
\* CtrlTime from SIFS after the end of the frame, so the slack always suffices.
Patience(time) == time + SIFS + CtrlTime + Slack

\* PhyOut and TransmitFrame, and update_power_due_to_transmission, which calls the
\* stations that it makes sense a busy medium, the first receiver excepted.  A
\* timeout is set whether or not the radio may transmit.
Transmit(e) ==
    LET s == e.dev
        n == sent[s] + 1
        to == IF e.frame.to = everyone THEN Station \ {s} ELSE {e.frame.to}
        time == IF e.frame.kind = "Data" THEN DataTime ELSE CtrlTime
        received == [d \in Station |-> IF d \in to THEN SetRadio(radio, d, "rx", n)[d] ELSE radio[d]]
        allowed == Permitted(mac[s], received[s], "tx", n)
        R == SetRadio(received, s, "tx", n)
        copies == {[e.frame EXCEPT !.to = d, !.id = n] : d \in to}
        answer == IF e.frame.to = everyone THEN {}
                  ELSE IF e.frame.kind = "Data" THEN {Timer(s, "AckTimeout", Patience(time))}
                  ELSE IF e.frame.kind = "RTS" THEN {Timer(s, "CTSTimeout", Patience(time))}
                  ELSE {}
        rest == events (-) One(e) (+) SetToBag(answer)
        air == rest (+) SetToBag({Event(f.to, "PhyIn", time, f) : f \in copies})
        senders == {f.from : f \in InAir(air)}
    IN  /\ e.kind = "PhyOut"
        /\ \E first \in to :
             LET mark(x) == IF x.kind = "PhyIn" /\ Collides(x.frame, s, R, [first |-> first, air |-> senders])
                            THEN [x EXCEPT !.frame.collided = TRUE] ELSE x
                 told == {d \in Station \ {s, first} : Busy(d, air) /\ RadioIdle(mac[d], radio[d])}
                 calls == {Timer(d, "BackoffPaused", 0) : d \in {x \in told : mac[x].state = "BACKING_OFF"}}
                          \cup {Timer(d, "DIFSFailed", 0) : d \in {x \in told : mac[x].state = "Wait_DIFS"}}
             IN  events' = IF allowed
                           THEN [x \in {mark(y) : y \in DOMAIN air} |->
                                   air[CHOOSE y \in DOMAIN air : mark(y) = x]] (+) SetToBag(calls)
                           ELSE rest
        /\ radio' = R
        /\ sent' = [sent EXCEPT ![s] = n]
        /\ UNCHANGED <<mac, packets, lost, crashed>>

\* set_mac_state_after_txend
AfterTx(state) ==
    IF state = "TXing_MPDU" THEN "Wait_ACK" ELSE IF state = "TXing_RTS" THEN "Wait_CTS" ELSE "MAC_IDLE"

\* PhyIn, with medium_notify_packet_received.  The stations that are called are
\* the transmitter and those that sense an idle medium, the receiver excepted.
Receive(e) ==
    LET f == e.frame
        s == f.from
        d == f.to
        rest == events (-) One(e)
        M == IF Permitted(mac[s], radio[s], "idle", f.id)
             THEN [mac EXCEPT ![s].state = AfterTx(@)] ELSE mac
        R == SetRadio(radio, s, "idle", f.id)
        last == \A x \in InAir(rest) : x.from # s
        told == {t \in Station \ {d} :
                   last /\ (t = s \/ ~Busy(t, rest)) /\ RadioIdle(M[t], R[t]) /\ M[t].state = "MAC_IDLE"}
        heard == rest (+) SetToBag({Timer(t, "Start", 0) : t \in told})
    IN  /\ e.kind = "PhyIn"
        /\ mac' = M
        /\ radio' = SetRadio(R, d, "idle", f.id)
        /\ \/ /\ {s, d} \in InRange /\ ~f.collided
              /\ events' = heard (+) One(Event(d, "MacIn", 0, f))
              /\ lost' = lost
           \/ /\ {s, d} \notin InRange \/ f.collided \/ lost < MaxLost
              /\ events' = heard
              /\ lost' = IF {s, d} \in InRange /\ ~f.collided THEN lost + 1 ELSE lost
        /\ UNCHANGED <<sent, packets, crashed>>
-----------------------------------------------------------------------------
(* IEEE802_11_Mac.c, RTS_CTS.c and the answers of CSMACA.c *)

\* MacIn of data: the frame goes up, every time that it comes.
MoveUp(e) ==
    LET s == e.dev
        f == e.frame
        rest == events (-) One(e)
    IN  /\ e.kind = "MacIn" /\ f.kind = "Data"
        /\ packets' = [packets EXCEPT !.delivered = @ \cup {f.packet}]
        /\ IF Dst[f.packet] = everyone THEN mac' = mac /\ events' = rest
           ELSE /\ mac' = [mac EXCEPT ![s].state = "TXing_ACK"]
                /\ events' = rest (+) One(Event(s, "SendACK", 0, f))
        /\ UNCHANGED <<radio, sent, lost, crashed>>

\* ProcessAck and MacReInit.  Neither the state nor the packet is compared.
ProcessAck(e) ==
    LET s == e.dev
        done == IF mac[s].cur.rts THEN {} ELSE {mac[s].cur.packet} \ {none}
    IN  /\ e.kind = "MacIn" /\ e.frame.kind = "ACK"
        /\ Contend(s, [mac[s] EXCEPT !.state = "MAC_IDLE", !.cur = NoPacket, !.retry = 0],
                   events (-) One(e), [packets EXCEPT !.acked = @ \cup done])
        /\ UNCHANGED <<radio, sent, lost, crashed>>

ProcessRTS(e) ==
    LET s == e.dev
    IN  /\ e.kind = "MacIn" /\ e.frame.kind = "RTS"
        /\ SetMac(s, SetState(mac[s], "TXing_CTS"),
                  events (-) One(e) (+) One(Event(s, "SendCTS", SIFS, e.frame)))

ProcessCTS(e) ==
    LET s == e.dev
        p == mac[s].waiting
    IN  /\ e.kind = "MacIn" /\ e.frame.kind = "CTS"
        /\ mac' = [mac EXCEPT ![s].state = "TXing_MPDU", ![s].waiting = none,
                              ![s].cur = [rts |-> FALSE, packet |-> p]]
        /\ events' = events (-) One(e) (+) One(Timer(s, "SendMPDU", SIFS))
        /\ crashed' = (p = none)
        /\ UNCHANGED <<radio, sent, packets, lost>>

SendMPDU(e) ==
    /\ e.kind = "SendMPDU"
    /\ SendToPhy(e.dev, mac[e.dev], events (-) One(e))

\* SendACK and SendCTS
Answer(e) ==
    LET s == e.dev
        answer(kind, at) == Event(s, "PhyOut", at, Frame(kind, none, s, e.frame.from))
    IN  \/ /\ e.kind = "SendACK"
           /\ SetMac(s, SetState(mac[s], "TXing_ACK"), events (-) One(e) (+) One(answer("ACK", SIFS)))
        \/ /\ e.kind = "SendCTS"
           /\ SetMac(s, mac[s], events (-) One(e) (+) One(answer("CTS", 0)))

\* The network layer hands a packet over.
Arrive(p) ==
    /\ p \in packets.new
    /\ packets' = [packets EXCEPT !.new = @ \ {p}, !.queued = @ \cup {p}]
    /\ events' = events (+) One(Timer(Src[p], "Start", 0))
    /\ UNCHANGED <<mac, radio, sent, lost, crashed>>

Later(e) == [e EXCEPT !.at = @ + 1]

Tick ==
    /\ events # EmptyBag /\ Due = {}
    /\ events' = [e \in {[y EXCEPT !.at = @ - 1] : y \in DOMAIN events} |-> events[Later(e)]]
    /\ UNCHANGED <<mac, radio, sent, packets, lost, crashed>>

Handle(e) ==
    \/ Start(e) \/ CarrierSense(e) \/ DIFSEnd(e) \/ Backoff(e) \/ Pause(e) \/ Timeout(e)
    \/ Transmit(e) \/ Receive(e)
    \/ MoveUp(e) \/ ProcessAck(e) \/ ProcessRTS(e) \/ ProcessCTS(e) \/ SendMPDU(e) \/ Answer(e)

Next ==
    /\ ~crashed
    /\ \/ \E e \in Due : Handle(e)
       \/ \E p \in Packet : Arrive(p)
       \/ Tick

Spec == Init /\ [][Next]_vars
-----------------------------------------------------------------------------
\* The fields hold what they can; a station keeps a packet once.
TypeOK ==
    /\ \A s \in Station :
         /\ radio[s].state \in {"idle", "rx", "tx"} /\ radio[s].id \in Nat
         /\ mac[s].cur.packet \in {p \in Packet : Src[p] = s} \cup {none}
         /\ mac[s].waiting \in {p \in Packet : Src[p] = s} \cup {none}
         /\ mac[s].retry < RetryLimit /\ mac[s].counter \in 0 .. MaxBackoff
    /\ packets.new \cap packets.queued = {}
    /\ lost \in 0 .. MaxLost

\* A packet that a station takes for acknowledged, and frees, has been delivered
\* (CSMACA_ProcessAck, which compares neither the state nor the packet): no answer
\* is so late that it finds another packet in hand, distances aside.
AckedIsDelivered == packets.acked \subseteq packets.delivered

Pending(s, kind) == \E e \in BagToSet(events) : e.dev = s /\ e.kind = kind

\* A station that waits for an answer has a timeout left that ends the wait, and
\* a CTS finds the packet that was to follow it (TransmitFrame, the timeouts'
\* handlers and ProcessCTS), among stations with no distance between them.
AnswersMeetExchange ==
    /\ ~crashed
    /\ \A s \in Station :
         /\ mac[s].state = "Wait_ACK" => Pending(s, "AckTimeout")
         /\ mac[s].state = "Wait_CTS" => Pending(s, "CTSTimeout")
=============================================================================
