------------------------------ MODULE RateQuota ------------------------------
(* What the rate limiter promises a caller, with no clock and no storage:     *)
(* every key has a quota; an allowed call takes one unit and is told exactly  *)
(* what is left; a call is denied only when nothing is left; and a quota only *)
(* ever comes back in full.                                                   *)
EXTENDS Naturals

CONSTANTS Keys,     \* the rate-limited "ip:route" pairs
          Limit     \* Limit[k]: calls allowed per window

VARIABLES quota,    \* quota[k]: calls still allowed
          answer    \* answer[k]: the last answer a caller of k received

vars == <<quota, answer>>

Answers == [allowed: BOOLEAN, remaining: Nat]
Allowed(n) == [allowed |-> TRUE, remaining |-> n]
Denied == [allowed |-> FALSE, remaining |-> 0]

Init == /\ quota = Limit
        /\ answer = [k \in Keys |-> Allowed(Limit[k])]

Grant(k) == /\ quota[k] > 0
            /\ quota' = [quota EXCEPT ![k] = @ - 1]
            /\ answer' = [answer EXCEPT ![k] = Allowed(quota[k] - 1)]

(* The unit is spent, but the caller never hears of it. *)
Waste(k) == /\ quota[k] > 0
            /\ quota' = [quota EXCEPT ![k] = @ - 1]
            /\ UNCHANGED answer

Deny(k) == /\ quota[k] = 0
           /\ answer' = [answer EXCEPT ![k] = Denied]
           /\ UNCHANGED quota

Refill(S) == /\ quota' = [k \in Keys |-> IF k \in S THEN Limit[k] ELSE quota[k]]
             /\ UNCHANGED answer

Next == \/ \E k \in Keys : Grant(k) \/ Waste(k) \/ Deny(k)
        \/ \E S \in SUBSET Keys : Refill(S)

Spec == Init /\ [][Next]_vars
=============================================================================
