---------------------------- MODULE MCSessionTokens ----------------------------
(* One login and one legacy session, checked twice, while both workers go through *)
(* two secrets; a token lives for one second, and clocks are up to one behind.    *)
EXTENDS SessionTokens, TLC

CONSTANTS auth, analytics, r1, old, c1, c2

MCWorkers == {auth, analytics}
MCLogins == {r1}
MCLegacy == {old}
MCChecks == {c1, c2}
Symmetry == Permutations(MCChecks)
=============================================================================
