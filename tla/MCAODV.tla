------------------------------- MODULE MCAODV -------------------------------
(* Topologies and flows of AODV for TLC. *)
EXTENDS AODV

CONSTANTS n1, n2, n3, n4, n5, p1, p2

Nodes3 == {n1, n2, n3}
Triangle == {{n1, n2}, {n2, n3}, {n3, n1}}

\* n5 is out of the range of every other node.
Nodes5 == {n1, n2, n3, n4, n5}
Line4 == {{n1, n2}, {n2, n3}, {n3, n4}}

\* Two packets from n1 to n3.
FromN1 == [p \in {p1, p2} |-> n1]
ToN3 == [p \in {p1, p2} |-> n3]

\* One from end to end of the line, one from the isolated node.
FromN1AndN5 == [p \in {p1, p2} |-> IF p = p1 THEN n1 ELSE n5]
ToN4AndN1 == [p \in {p1, p2} |-> IF p = p1 THEN n4 ELSE n1]
=============================================================================
