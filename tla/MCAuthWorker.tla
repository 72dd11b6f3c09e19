----------------------------- MODULE MCAuthWorker -----------------------------
(* Three requests over two isolates and one account beside the debug handler's: *)
(* where the table is old the account is older than pbkdf2, where it is new the *)
(* name is free. Requests on different names share nothing but the table.       *)
EXTENDS AuthWorker, TLC

CONSTANTS r1, r2, r3, i1, i2, bob, debug, p1, p2

MCRequests == {r1, r2, r3}
TwoRequests == {r1, r2}
TwoIsolates == {i1, i2}
MCNames == {bob, debug}
MCPasswords == {p1, p2}
OldBob == bob :> p1
Symmetry == Permutations(MCRequests) \cup Permutations(TwoIsolates)
=============================================================================
