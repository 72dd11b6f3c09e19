----------------------------- MODULE MCSpanExport -----------------------------
(* Four requests in one isolate, a buffer of two, two attempts: a flush of      *)
(* several spans, an overflow and two overlapping flushes all occur.            *)
EXTENDS SpanExport, TLC

CONSTANTS a, b, c, d

MCSpans == {a, b, c, d}
Symmetry == Permutations(MCSpans)
=============================================================================
