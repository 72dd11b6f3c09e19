----------------------------- MODULE RateLimiter -----------------------------
(* The rate-limiter Durable Object (workers/rate-limiter/src/lib.rs): one       *)
(* object per key, a fixed window that starts at the first admitted call.       *)
(*                                                                              *)
(* The object's input gate lets no other event in while a storage operation is  *)
(* outstanding, so the get, the decision and the put of one fetch are one step. *)
(* What can still go wrong after the decision is the put itself and the answer  *)
(* on its way back, which the output gate holds until the put is durable.       *)
(*                                                                              *)
(* Date::now() is the wall clock of whichever machine hosts the object: for     *)
(* key k it is `time' less a lag of at most Skew[k] that may change whenever it *)
(* likes. A key whose skew is 0 is Steady.                                      *)
EXTENDS Naturals, Sequences, FiniteSets

CONSTANTS Keys,      \* object names, "ip:route"
          Limit,     \* Limit[k]: the `limit' of every request for k
          Window,    \* the `window' of every request, in seconds
          Skew,      \* Skew[k]: how far the clock of k's host may be behind
          MaxSkew,   \* an upper bound of the skews: the model's time starts here
          MaxTime    \* bound: the model's time stops here

ASSUME LimiterAssumption == /\ Limit \in [Keys -> Nat]
                            /\ Window \in Nat \ {0}
                            /\ MaxSkew \in Nat
                            /\ MaxTime \in Nat /\ MaxTime >= MaxSkew
ASSUME SkewAssumption == Skew \in [Keys -> 0..MaxSkew]

VARIABLES time, lag, \* now(k) == time - lag[k]
          storage,   \* storage[k]: the persisted RateState
          answer,    \* answer[k]: the last answer a caller of k received
          granted    \* history: granted[k]: k's allowed answers, in order

vars == <<time, lag, storage, answer, granted>>

RateState == [count: Nat, reset_at: Nat]
Answers == [allowed: BOOLEAN, remaining: Nat]
Seconds == 0..MaxTime
Resets == 0..(MaxTime + Window)
Grants == [at : Seconds, until : Resets] \* the second, and the end of the window

Steady == {k \in Keys : Skew[k] = 0}

now(k) == time - lag[k]

Init == /\ time = MaxSkew /\ lag = [k \in Keys |-> 0]
        /\ storage = [k \in Keys |-> [count |-> 0, reset_at |-> 0]]
        /\ answer = [k \in Keys |-> [allowed |-> TRUE, remaining |-> Limit[k]]]
        /\ granted = [k \in Keys |-> <<>>]

(* mutants: the window's length forgotten, and a window that every call extends *)
LoadedNow(k) == IF now(k) >= storage[k].reset_at
                THEN [count |-> 0, reset_at |-> now(k)] ELSE storage[k]
LoadedExtended(k) == IF now(k) >= storage[k].reset_at
                     THEN [count |-> 0, reset_at |-> now(k) + Window]
                     ELSE [storage[k] EXCEPT !.reset_at = @ + Window]

(* `st' after the window check: a closed window is replaced by a new one. *)
Loaded(k) == IF now(k) >= storage[k].reset_at
             THEN [count |-> 0, reset_at |-> now(k) + Window]
             ELSE storage[k]

HasRoomAtLimit(k) == Loaded(k).count <= Limit[k] \* mutant: off by one
HasRoom(k) == Loaded(k).count < Limit[k]

Counted(k) == [Loaded(k) EXCEPT !.count = @ + 1]

RemainingTwice(k) == Limit[k] - Counted(k).count - 1 \* mutant: the call counted twice
Remaining(k) == Limit[k] - Counted(k).count

Answer(k, allowed, n) ==
    answer' = [answer EXCEPT ![k] = [allowed |-> allowed, remaining |-> n]]

Grant(k) == [at |-> now(k), until |-> Loaded(k).reset_at]

(* allowed: the new state is durable before the answer leaves *)
Allow(k) == /\ HasRoom(k)
            /\ storage' = [storage EXCEPT ![k] = Counted(k)]
            /\ Answer(k, TRUE, Remaining(k))
            /\ granted' = [granted EXCEPT ![k] = Append(@, Grant(k))]
            /\ UNCHANGED <<time, lag>>

(* the put is durable and the object dies, or the answer is lost; a put that *)
(* is not durable ends in an error and changes nothing                       *)
AnswerLost(k) == /\ HasRoom(k)
                 /\ storage' = [storage EXCEPT ![k] = Counted(k)]
                 /\ UNCHANGED <<time, lag, answer, granted>>

(* denied: nothing is written, not even a window that was just replaced *)
Deny(k) == /\ ~HasRoom(k)
           /\ Answer(k, FALSE, 0)
           /\ UNCHANGED <<time, lag, storage, granted>>

(* the clocks: seconds pass, and a host may correct its own either way *)
Tick == /\ time < MaxTime
        /\ time' = time + 1
        /\ UNCHANGED <<lag, storage, answer, granted>>

Adjust(k) == /\ \E l \in 0..Skew[k] : lag' = [lag EXCEPT ![k] = l]
             /\ UNCHANGED <<time, storage, answer, granted>>

Next == \/ \E k \in Keys : Allow(k) \/ AnswerLost(k) \/ Deny(k) \/ Adjust(k)
        \/ Tick

Spec == Init /\ [][Next]_vars

-----------------------------------------------------------------------------
LagBounded == \A k \in Keys : lag[k] <= Skew[k]

(* Every variable keeps its type. *)
TypeOK == /\ time \in MaxSkew..MaxTime
          /\ lag \in [Keys -> 0..MaxSkew] /\ LagBounded
          /\ storage \in [Keys -> RateState]
          /\ answer \in [Keys -> Answers]
          /\ granted \in [Keys -> Seq(Grants)]

(* the grants of one window, and those of some seconds, in a history of grants *)
Until(grants, w) == {i \in DOMAIN grants : grants[i].until = w}
Within(grants, from, to) == {i \in DOMAIN grants : grants[i].at \in from..to}

(* No window ever hands out more than the limit, whatever answers are lost and *)
(* however the host's clock steps: the promise of lib.rs's "atomic counting".  *)
WindowBound == \A k \in Keys, w \in Resets : Cardinality(Until(granted[k], w)) <= Limit[k]

(* A promise is never larger than what is left: while a window that has        *)
(* answered somebody is open, its unspent calls are no more than the last      *)
(* `remaining' a caller was told - lost answers only make the promise stale in *)
(* one direction, and a denial (`remaining: 0') is never taken back early.     *)
RemainingHonest ==
    \A k \in Keys :
        now(k) < storage[k].reset_at /\ Until(granted[k], storage[k].reset_at) # {}
        => Limit[k] - storage[k].count <= answer[k].remaining

(* No key is locked out longer than one window: an open window closes at most  *)
(* Window seconds of real time from now (plus the clock's lag).                *)
LockoutBound == \A k \in Keys : storage[k].reset_at <= time + Window

(* What makes WindowBound inductive: the open window has handed out at most    *)
(* what is counted, and no window later than the stored one exists.            *)
WindowAccounting ==
    \A k \in Keys :
        /\ storage[k].count <= Limit[k]
        /\ storage[k].reset_at \in Resets
        /\ Cardinality(Until(granted[k], storage[k].reset_at)) <= storage[k].count
        /\ \A i \in DOMAIN granted[k] : granted[k][i].until <= storage[k].reset_at

(* Over any Window consecutive seconds a key is allowed at most twice its      *)
(* limit (the end of one fixed window and the start of the next), as long as   *)
(* the clock of its host does not step back.                                   *)
SlidingBound ==
    \A k \in Steady, t \in Seconds :
        Cardinality(Within(granted[k], t, t + Window - 1)) <= 2 * Limit[k]

(* The abstract promise to the keys on a steady clock, with the quota such a     *)
(* key has at this moment: a closed window counts as refilled although storage   *)
(* is only rewritten by the next admitted call.                                  *)
Quota == INSTANCE RateQuota WITH
             Keys <- Steady, Limit <- [k \in Steady |-> Limit[k]],
             quota <- [k \in Steady |-> Limit[k] - Loaded(k).count],
             answer <- [k \in Steady |-> answer[k]]
ImplementsQuota == Quota!Spec
=============================================================================
