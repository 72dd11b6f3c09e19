---------------------------- MODULE MCRateLimiter ----------------------------
(* Two routes of one client: login, with room for two calls, on a host with a  *)
(* steady clock, and register, with room for one, on a host whose clock may be *)
(* a second behind and back.                                                   *)
EXTENDS RateLimiter, TLC

CONSTANTS login, register

MCKeys == {login, register}
MCLimit == (login :> 2) @@ (register :> 1)
MCSkew == (login :> 0) @@ (register :> 1)
=============================================================================
