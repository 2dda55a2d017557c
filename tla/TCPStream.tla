------------------------------ MODULE TCPStream ------------------------------
(***************************************************************************)
(* What a TCP connection promises to the application that sends on it: a   *)
(* packet is forgotten by the sender only when the receiver has it, and    *)
(* the receiver passes up, in some order, only what was sent.  Everything  *)
(* about segments, windows, queues and timers is left to TCPConnection.    *)
(***************************************************************************)
EXTENDS Naturals

VARIABLES
    sent,       \* packets 1..sent have been transmitted at least once
    released,   \* packets the sender has removed from its retransmission queue
    received,   \* packets the receiver holds or has passed up
    passed,     \* packets the receiver has passed up to its application
    over        \* one of the two TCBs is gone: no promise any more

vars == <<sent, released, received, passed, over>>

Init ==
    /\ sent = 0
    /\ released = {} /\ received = {} /\ passed = {}
    /\ over = FALSE

\* The sender transmits new packets and forgets some that were received.
SenderStep ==
    /\ ~over
    /\ sent' \in Nat /\ sent' >= sent
    /\ released \subseteq released' /\ released' \subseteq received
    /\ UNCHANGED <<received, passed, over>>

\* The receiver takes packets out of the network and passes some up.
ReceiverStep ==
    /\ ~over
    /\ received \subseteq received' /\ received' \subseteq 1..sent
    /\ passed \subseteq passed' /\ passed' \subseteq received'
    /\ UNCHANGED <<sent, released, over>>

Finish ==
    /\ ~over /\ over' = TRUE
    /\ sent' = 0 /\ released' = {} /\ received' = {} /\ passed' = {}

Next == SenderStep \/ ReceiverStep \/ Finish

Spec == Init /\ [][Next]_vars
=============================================================================
