----------------------------- MODULE MCLokiExport -----------------------------
(* Three requests in one isolate; buffers of two events and one payload, so      *)
(* that either can overflow, and two attempts per payload.                       *)
EXTENDS LokiExport, TLC

CONSTANTS a, b, c

MCRequests == {a, b, c}
=============================================================================
