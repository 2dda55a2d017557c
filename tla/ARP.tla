-------------------------------- MODULE ARP --------------------------------
(***************************************************************************)
(* Address resolution on one LAN: the table, the packets that wait for an  *)
(* answer, the request and its reply, and the request timer.               *)
(*                                                                         *)
(* A handler runs to its end; what interleaves is the delivery of messages *)
(* and the expiry of timers.  A packet that waits starts at most one       *)
(* request, so the events of that request are one variable of the packet.  *)
(* GENERATE_ARP_REPLY and UPDATE_ARP_TABLE_FWD_PKT are added for the       *)
(* instant a message arrives, in which nothing else of the host changes:   *)
(* they are one step with the arrival.  The buffer is a set, as what waits *)
(* for the same next hop leaves together.  Broadcast and multicast next    *)
(* hops, which need no table, the metrics and static tables are left out.  *)
(***************************************************************************)
EXTENDS Naturals, Bags, BagsExt

CONSTANTS
    Host,         \* the interfaces on the LAN
    Remote,       \* destinations behind a router of the LAN
    Packet,
    Src, Dst,     \* the interface that sends a packet, its final destination
    NextHop,      \* szNextHopIp: the destination, or the router to it
    RetryLimit    \* ARP_RETRY_LIMIT

\* A next hop is another interface of the LAN: the destination itself when that is
\* on the LAN too.
ASSUME ArpAssumption ==
    /\ Src \in [Packet -> Host] /\ NextHop \in [Packet -> Host]
    /\ Dst \in [Packet -> Host \cup Remote]
    /\ \A p \in Packet : NextHop[p] # Src[p] /\ (Dst[p] \in Host => Dst[p] = NextHop[p])
    /\ RetryLimit \in Nat

VARIABLES
    lossy,     \* whether the medium may lose messages; it does not change
    table,     \* pstruArpTable: the addresses each interface knows
    buffer,    \* pstruPacketBuffer
    flag,      \* pnArpRequestFlag, by device
    retry,     \* pnArpRetryCount, by device
    request,   \* [Packet -> the event pending for the request it started]
    net,       \* a bag: the messages in flight, a broadcast once per receiver
    fate,      \* where each packet is
    crashed    \* the code dereferenced a null pointer

vars == <<lossy, table, buffer, flag, retry, request, net, fate, crashed>>

Device == Host \cup Remote

Message ==
    [type : {"request"}, from : Host, to : Host, target : Host]
      \cup [type : {"reply"}, from : Host, to : Host]

TypeOK ==
    /\ lossy \in BOOLEAN /\ crashed \in BOOLEAN
    /\ table \in [Host -> SUBSET Host]
    /\ buffer \in [Host -> SUBSET Packet]
    /\ \A h \in Host : buffer[h] \subseteq {p \in Packet : Src[p] = h /\ fate[p] = "buffered"}
    /\ flag \in [Host -> [Device -> 0 .. 1]]
    /\ retry \in [Host -> [Device -> Nat]]
    /\ request \in [Packet -> {"none", "generate", "timer"}]
    /\ BagToSet(net) \subseteq Message
    /\ fate \in [Packet -> {"new", "buffered", "forwarded", "dropped"}]

Init ==
    /\ lossy \in BOOLEAN
    /\ table = [h \in Host |-> {}]
    /\ buffer = [h \in Host |-> {}]
    /\ flag = [h \in Host |-> [d \in Device |-> 0]]
    /\ retry = [h \in Host |-> [d \in Device |-> 0]]
    /\ request = [p \in Packet |-> "none"]
    /\ net = EmptyBag
    /\ fate = [p \in Packet |-> "new"]
    /\ crashed = FALSE
-----------------------------------------------------------------------------
(* READ_ARP_TABLE *)

Forward(p) ==
    /\ NextHop[p] \in table[Src[p]]
    /\ fate' = [fate EXCEPT ![p] = "forwarded"]
    /\ UNCHANGED <<buffer, flag, request>>

Buffer(p) ==
    /\ NextHop[p] \notin table[Src[p]]
    /\ fate' = [fate EXCEPT ![p] = "buffered"]
    /\ buffer' = [buffer EXCEPT ![Src[p]] = @ \cup {p}]

\* Mutant of BufferAndRequest: the flag is set and no request is added.
BufferAndForget(p) ==
    /\ Buffer(p)
    /\ flag[Src[p]][NextHop[p]] = 0
    /\ flag' = [flag EXCEPT ![Src[p]][NextHop[p]] = 1]
    /\ UNCHANGED request

\* The flag is that of the next hop.
BufferAndRequest(p) ==
    /\ Buffer(p)
    /\ flag[Src[p]][NextHop[p]] = 0
    /\ request' = [request EXCEPT ![p] = "generate"]
    /\ flag' = [flag EXCEPT ![Src[p]][NextHop[p]] = 1]

BufferOnly(p) ==
    /\ Buffer(p)
    /\ flag[Src[p]][NextHop[p]] = 1
    /\ UNCHANGED <<request, flag>>

ReadTable(p) ==
    /\ fate[p] = "new"
    /\ Forward(p) \/ BufferAndRequest(p) \/ BufferOnly(p)
    /\ UNCHANGED <<lossy, table, retry, net, crashed>>

\* GENERATE_ARP_REQUEST: asks for the next hop, and sets the flag and counts
\* the request under the final destination.
GenerateRequest(p) ==
    LET h == Src[p]
        Copy(n) == [type |-> "request", from |-> h, to |-> n, target |-> NextHop[p]]
    IN  /\ request[p] = "generate"
        /\ request' = [request EXCEPT ![p] = "timer"]
        /\ flag' = [flag EXCEPT ![h][Dst[p]] = 1]
        /\ retry' = [retry EXCEPT ![h][Dst[p]] = @ + 1]
        /\ net' = net (+) SetToBag({Copy(n) : n \in Host \ {h}})
        /\ UNCHANGED <<lossy, table, buffer, fate, crashed>>

(* The arrival of a request: any interface learns the sender, the target   *)
(* answers.                                                                *)
ReceiveRequest(m) ==
    LET answer == [type |-> "reply", from |-> m.to, to |-> m.from]
        left == BagRemove(net, m)
    IN  /\ m.type = "request"
        /\ table' = [table EXCEPT ![m.to] = @ \cup {m.from}]
        /\ net' = IF m.target = m.to THEN BagAdd(left, answer) ELSE left
        /\ UNCHANGED <<lossy, buffer, flag, retry, request, fate, crashed>>

\* The entry is added through a local copy of the head of the list, which
\* this handler, unlike the two above, does not store back: whether the first
\* entry of an empty list is kept is up to the library.
TableAfterReply(t, n) == IF t = {} THEN {t, {n}} ELSE {t \cup {n}}

\* Mutant of WaitingFor: only one packet is served.
OneWaitingFor(h, n) == {p \in buffer[h] : NextHop[p] = n /\ p = CHOOSE q \in buffer[h] : TRUE}

WaitingFor(h, n) == {p \in buffer[h] : NextHop[p] = n}

(* The arrival of a reply, UPDATE_ARP_TABLE_FWD_PKT. *)
ReceiveReply(m) ==
    LET h == m.to
        waiting == WaitingFor(h, m.from)
    IN  /\ m.type = "reply"
        /\ \E t \in TableAfterReply(table[h], m.from) : table' = [table EXCEPT ![h] = t]
        /\ buffer' = [buffer EXCEPT ![h] = @ \ waiting]
        /\ fate' = [p \in Packet |-> IF p \in waiting THEN "forwarded" ELSE fate[p]]
        /\ flag' = [flag EXCEPT ![h][m.from] = 0]
        /\ net' = BagRemove(net, m)
        /\ UNCHANGED <<lossy, retry, request, crashed>>
-----------------------------------------------------------------------------
(* ARP_REQUEST_TIMEOUT *)

Answered(p) ==
    /\ NextHop[p] \in table[Src[p]]
    /\ retry' = [retry EXCEPT ![Src[p]][NextHop[p]] = 0]
    /\ UNCHANGED <<buffer, fate, crashed>>

\* The event that should send the next request keeps the type TIMER_EVENT,
\* for which fn_NetSim_ARP_Run has no GENERATE_ARP_REQUEST: it does nothing.
Retry(p) ==
    /\ NextHop[p] \notin table[Src[p]]
    /\ retry[Src[p]][NextHop[p]] < RetryLimit
    /\ UNCHANGED <<buffer, retry, fate, crashed>>

\* Mutant of GiveUp: the packets stay in the buffer.
GiveUpKeepsBuffer(p) ==
    LET h == Src[p]
        waiting == WaitingFor(h, NextHop[p])
    IN  /\ NextHop[p] \notin table[h]
        /\ retry[h][NextHop[p]] >= RetryLimit
        /\ fate' = [q \in Packet |-> IF q \in waiting THEN "dropped" ELSE fate[q]]
        /\ retry' = [retry EXCEPT ![h][NextHop[p]] = 0]
        /\ crashed' = (buffer[h] = {})
        /\ UNCHANGED buffer

\* The handler reads the first packet of the buffer before it drops any.
GiveUp(p) ==
    LET h == Src[p]
        waiting == WaitingFor(h, NextHop[p])
    IN  /\ NextHop[p] \notin table[h]
        /\ retry[h][NextHop[p]] >= RetryLimit
        /\ buffer' = [buffer EXCEPT ![h] = @ \ waiting]
        /\ fate' = [q \in Packet |-> IF q \in waiting THEN "dropped" ELSE fate[q]]
        /\ retry' = [retry EXCEPT ![h][NextHop[p]] = 0]
        /\ crashed' = (buffer[h] = {})

RequestTimeout(p) ==
    /\ request[p] = "timer"
    /\ Answered(p) \/ Retry(p) \/ GiveUp(p)
    /\ flag' = [flag EXCEPT ![Src[p]][NextHop[p]] = 0]
    /\ request' = [request EXCEPT ![p] = "none"]
    /\ UNCHANGED <<lossy, table, net>>

Lose(m) ==
    /\ lossy
    /\ net' = BagRemove(net, m)
    /\ UNCHANGED <<lossy, table, buffer, flag, retry, request, fate, crashed>>

Deliver == \E m \in BagToSet(net) : ReceiveRequest(m) \/ ReceiveReply(m)

Next ==
    /\ ~crashed
    /\ \/ \E p \in Packet : ReadTable(p) \/ GenerateRequest(p) \/ RequestTimeout(p)
       \/ Deliver
       \/ \E m \in BagToSet(net) : Lose(m)

Spec == Init /\ [][Next]_vars
-----------------------------------------------------------------------------
\* The events of a request and the copies of a message that is not lost.
Fairness ==
    WF_vars(~crashed /\ (Deliver \/ \E p \in Packet : GenerateRequest(p)))

\* A request flag that is set has a request behind it: until the flag is
\* cleared the packets for that next hop only wait, so a flag left over would
\* hold every later packet for ever (ReadArpTable.c, pnArpRequestFlag).
FlagHasRequest ==
    \A h, n \in Host : flag[h][n] = 1 =>
      \E p \in Packet : Src[p] = h /\ NextHop[p] = n /\ request[p] # "none"

InFlight(h, n) ==
    \E m \in BagToSet(net) :
       \/ m.type = "request" /\ m.from = h /\ m.to = n /\ m.target = n
       \/ m.type = "reply" /\ m.from = n /\ m.to = h

\* ... and on a medium that loses nothing, a packet that waits has a request or its
\* answer under way, whatever timers, parallel requests and overheard
\* addresses have done to the flags since.
WaitsForAnswer ==
    /\ FlagHasRequest
    /\ ~lossy => \A h \in Host : \A p \in buffer[h] :
                   \/ InFlight(h, NextHop[p])
                   \/ \E q \in Packet : /\ Src[q] = h /\ NextHop[q] = NextHop[p]
                                        /\ request[q] = "generate"

\* On such a medium no packet waits for ever.
BufferDrains ==
    \A p \in Packet : ~lossy /\ fate[p] = "buffered" ~> fate[p] # "buffered" \/ crashed

\* "buffer the packet till you get reply or RequestSentCount reaches
\* ARP_RETRY_LIMIT" (GenerateArpRequest.c:22): a packet that waits has a
\* request for its next hop that will be sent, is being timed or is answered.
WaitsUnderTimer ==
    \A h \in Host : \A p \in buffer[h] :
      \/ InFlight(h, NextHop[p])
      \/ \E q \in Packet : Src[q] = h /\ NextHop[q] = NextHop[p] /\ request[q] # "none"
=============================================================================
