----------------------------- MODULE MCEventPaging -----------------------------
(* A table of up to five rows over three seconds; limits below, within and above   *)
(* the bounds of the clamp; cursors at the front, inside the table, and at the end *)
(* of their width.                                                                 *)
EXTENDS EventPaging

MCLimits == {0, 2, 5}
MCCursors == {0, 1, 7}
=============================================================================
