------------------------- MODULE TCPStreamRefinement -------------------------
(***************************************************************************)
(* TCPConnection implements TCPStream for the data the Client sends, as    *)
(* long as both TCBs of the one connection exist.                          *)
(***************************************************************************)
EXTENDS TCPConnection

\* The first TCB is the Client's, the second the Server's.
Broken == made > 1 /\ ~(Open(Client) /\ Open(Server))

\* The values below are those of the connection; once it is broken they no
\* longer matter and keep the value 0 or {}.
Connected == Open(Client) /\ Open(Server)

SeqOf(n) == tcb[Client].iss + 1 + (n - 1) * DataLen

Held == {n \in 1..app[Client].sent :
            \/ SeqOf(n) \in tcb[Server].got
            \/ \E i \in DOMAIN tcb[Server].ooo : tcb[Server].ooo[i].pkt = n}

Queued == {g.pkt : g \in tcb[Client].rtx}

Stream == INSTANCE TCPStream WITH
    sent     <- IF Connected THEN app[Client].sent ELSE 0,
    released <- IF Connected THEN (1..app[Client].sent) \ Queued ELSE {},
    received <- IF Connected THEN Held ELSE {},
    passed   <- IF Connected THEN {dlv[Server][i] : i \in DOMAIN dlv[Server]} ELSE {},
    over     <- Broken

\* The Client's retransmission queue lets a packet go only when the Server holds
\* it or has passed it up, and the Server passes up only what was sent
\* (delete_segment_from_queue against check_segment and send_to_application).
ImplementsStream == Stream!Spec
=============================================================================
