------------------------------- MODULE MCGateway -------------------------------
(* Three requests through one isolate, a ring of two and a /logs page of one; the *)
(* clients send a traceparent in upper case, or a malformed one beside the legacy *)
(* header; those of the violations send no trace header at all.                   *)
EXTENDS Gateway

CONSTANTS r1, r2, r3

MCRequests == {r1, r2, r3}
TwoRequests == {r1, r2}
Symmetry == Permutations(MCRequests)

Plain == [traceparent |-> "absent", legacy |-> FALSE]
Upper == [traceparent |-> "upper", legacy |-> FALSE]
Legacy == [traceparent |-> "malformed", legacy |-> TRUE]
MCClients == {Upper, Legacy}
NoHeaders == {Plain}
=============================================================================
