----------------------------- MODULE SessionTokens -----------------------------
(* Session tokens (shared/src/session.rs) between the auth worker that signs them   *)
(* and the two workers that check them: /verify and /me of auth, and every route    *)
(* of analytics.                                                                    *)
(*                                                                                  *)
(* A request sees the SESSION_SECRET its worker's deployed version has when the     *)
(* request comes in, and keeps it over its awaits. The operator changes the secret  *)
(* of one worker at a time. A secret is its generation, 0 for none; each change is  *)
(* to a new one. A new version starts with a cold isolate, and a cold isolate       *)
(* creates its table in D1 before any route, which fails when D1 does. Each request *)
(* reads the clock of its host, which is up to Skew behind. A token is named by     *)
(* the login it came from.                                                          *)
EXTENDS Naturals

CONSTANTS Workers, Auth, \* the workers with a secret, and the one that signs
          Logins,        \* logins with the right password
          Legacy,        \* KV sessions from before stateless tokens
          Checks,        \* requests that present a token
          TTL,           \* DEFAULT_TTL_SECS
          Skew,          \* how far a clock may be behind
          MaxKey,        \* bound: secrets the operator goes through
          MaxTime        \* bound: the model's time stops here

ASSUME TokenAssumption == /\ Auth \in Workers
                          /\ Logins # {} /\ Logins \cap Legacy = {}
                          /\ TTL \in Nat \ {0} /\ Skew \in Nat
                          /\ MaxKey \in Nat /\ MaxTime \in Nat /\ MaxTime >= Skew

VARIABLES time,
          secret,   \* secret[w]: the generation deployed with w
          ready,    \* ready[w]: DB_BOOTSTRAPPED of w's current version
          kv,       \* legacy sessions that SESSIONS still holds
          login,    \* login[r]: where it is, and the token it issued
          check     \* check[c]: what it presents, where, and the verdict

vars == <<time, secret, ready, kv, login, check>>

Keys == 0..MaxKey
Times == 0..(MaxTime + TTL)
NewLogin == [phase |-> "new", key |-> 0, born |-> 0, exp |-> 0]

(* `cold': it had to bootstrap first; `before': checks answered before it came in *)
NewCheck == [phase |-> "new", worker |-> Auth, token |-> CHOOSE r \in Logins : TRUE,
             key |-> 0, cold |-> FALSE, before |-> {}, result |-> "none", at |-> 0]

Init == /\ time = Skew
        /\ secret = [w \in Workers |-> 0]
        /\ ready = [w \in Workers |-> FALSE]
        /\ kv = Legacy
        /\ login = [r \in Logins |-> NewLogin]
        /\ check = [c \in Checks |-> NewCheck]

(* ttl_secs is 0 in every call of create_token *)
TtlLiteral == 0 \* mutant: the 0 is taken literally
Ttl == TTL

(* login up to its first await, the bootstrap of a cold isolate or the SELECT *)
Login(r) == /\ login[r].phase = "new"
            /\ login' = [login EXCEPT ![r].phase = "running", ![r].key = secret[Auth]]
            /\ UNCHANGED <<time, secret, ready, kv, check>>

(* an isolate of the version that has this key is warm now *)
Warm(w, key) == ready' = [ready EXCEPT ![w] = @ \/ key = secret[w]]

(* D1 has answered: create_token with the secret read before the await *)
Issue(r) == /\ login[r].phase = "running" /\ login[r].key # 0
            /\ \E l \in 0..Skew :
                 login' = [login EXCEPT ![r] = [@ EXCEPT
                             !.phase = "issued", !.born = time, !.exp = time - l + Ttl]]
            /\ Warm(Auth, login[r].key)
            /\ UNCHANGED <<time, secret, kv, check>>

(* D1 has failed, before or after the bootstrap, or there is no secret *)
LoginFails(r) == /\ login[r].phase = "running"
                 /\ login' = [login EXCEPT ![r].phase = "failed"]
                 /\ Warm(Auth, login[r].key) \/ UNCHANGED ready
                 /\ UNCHANGED <<time, secret, kv, check>>

(* parse_token on a clock l behind *)
Signed(r, key) == login[r].key = key
ExpiredLate(r, l) == time - l > login[r].exp + 1 \* mutant: a second of grace
Expired(r, l) == time - l > login[r].exp

Verdict(r, key, l) == CASE key = 0 -> "error"
                        [] key # 0 /\ (~Signed(r, key) \/ Expired(r, l)) -> "refused"
                        [] OTHER -> "accepted"

Answered(k, result) == [k EXCEPT !.phase = "done", !.result = result, !.at = time]

(* a handler of a warm isolate: an s2 token is judged at once, without an await;   *)
(* any other is looked up in KV                                                    *)
Handle(c, k) == \/ /\ k.token \in Logins
                   /\ \E l \in 0..Skew :
                        check' = [check EXCEPT ![c] =
                                    Answered(k, Verdict(k.token, k.key, l))]
                \/ /\ k.token \in Legacy
                   /\ check' = [check EXCEPT ![c] = [k EXCEPT !.phase = "kv"]]

Presentable == Legacy \cup {r \in Logins : login[r].phase = "issued"}

Present(c, w, t) ==
    LET k == [NewCheck EXCEPT
                !.worker = w, !.token = t, !.key = secret[w], !.cold = ~ready[w],
                !.before = {d \in Checks : check[d].phase = "done"}]
    IN  /\ check[c].phase = "new"
        /\ \/ ready[w] /\ Handle(c, k)
           \/ ~ready[w] /\ check' = [check EXCEPT ![c] = [k EXCEPT !.phase = "cold"]]
        /\ UNCHANGED <<time, secret, ready, kv, login>>

(* CREATE TABLE IF NOT EXISTS, then the handler; or D1 is unavailable *)
Bootstrap(c) == /\ check[c].phase = "cold"
                /\ Handle(c, check[c])
                /\ Warm(check[c].worker, check[c].key)
                /\ UNCHANGED <<time, secret, kv, login>>

BootstrapFails(c) == /\ check[c].phase = "cold"
                     /\ check' = [check EXCEPT ![c] = Answered(@, "error")]
                     /\ UNCHANGED <<time, secret, ready, kv, login>>

(* KV's answer, or its failure *)
LookUp(c) == /\ check[c].phase = "kv"
             /\ \E result \in {IF check[c].token \in kv THEN "accepted" ELSE "refused",
                               "error"} :
                  check' = [check EXCEPT ![c] = Answered(@, result)]
             /\ UNCHANGED <<time, secret, ready, kv, login>>

(* wrangler secret put: a new version of one worker *)
Rotate(w) == /\ secret[w] < MaxKey
             /\ secret' = [secret EXCEPT ![w] = @ + 1]
             /\ ready' = [ready EXCEPT ![w] = FALSE]
             /\ UNCHANGED <<time, kv, login, check>>

Restart(w) == /\ ready[w]
              /\ ready' = [ready EXCEPT ![w] = FALSE]
              /\ UNCHANGED <<time, secret, kv, login, check>>

ForgetLegacy(s) == /\ s \in kv
                   /\ kv' = kv \ {s}
                   /\ UNCHANGED <<time, secret, ready, login, check>>

Tick == /\ time < MaxTime
        /\ time' = time + 1
        /\ UNCHANGED <<secret, ready, kv, login, check>>

Next == \/ \E r \in Logins : Login(r) \/ Issue(r) \/ LoginFails(r)
        \/ \E c \in Checks : \/ \E w \in Workers, t \in Presentable : Present(c, w, t)
                             \/ Bootstrap(c) \/ BootstrapFails(c) \/ LookUp(c)
        \/ \E w \in Workers : Rotate(w) \/ Restart(w)
        \/ \E s \in Legacy : ForgetLegacy(s)
        \/ Tick

Spec == Init /\ [][Next]_vars
-----------------------------------------------------------------------------
Logged == [phase : {"new", "running", "issued", "failed"}, key : Keys,
           born : Times, exp : Times]
Checked == [phase : {"new", "cold", "kv", "done"}, worker : Workers,
            token : Logins \cup Legacy, key : Keys, cold : BOOLEAN,
            before : SUBSET Checks, at : Times,
            result : {"none", "accepted", "refused", "error"}]

(* Every variable keeps its type, and a token lives for a while. *)
TypeOK ==
    /\ time \in Skew..MaxTime
    /\ secret \in [Workers -> Keys] /\ ready \in [Workers -> BOOLEAN]
    /\ kv \subseteq Legacy
    /\ login \in [Logins -> Logged]
    /\ \A r \in Logins : login[r].phase = "issued" => login[r].exp >= TTL
    /\ check \in [Checks -> Checked]

Judged(c) == check[c].phase = "done" /\ check[c].token \in Logins

(* Across rotations of either worker's secret, clocks that disagree and cold       *)
(* isolates, an accepted token was signed with the secret of the worker that       *)
(* checks it and is not older than its lifetime and the skew; a refused one has    *)
(* another secret or is near the end of its life; an error has a cause.            *)
JudgedRight ==
    \A c \in Checks :
        LET k == check[c]
            t == login[k.token]
        IN  Judged(c) =>
              /\ k.result = "accepted" => /\ k.key = t.key /\ k.key > 0
                                          /\ k.at <= t.born + TTL + Skew
              /\ k.result = "refused" => k.key # t.key \/ k.at + Skew > t.born + TTL
              /\ k.result = "error" => k.key = 0 \/ k.cold

(* A refusal is final: a worker that refused a token because its secret had moved *)
(* on never accepts it from a later request, and one that refused it as expired   *)
(* does so at most while the clocks of its hosts still disagree. Only a worker    *)
(* whose secret lagged behind the signer's may change its mind.                   *)
RefusalIsFinal ==
    \A c, d \in Checks :
        LET t == login[check[c].token]
        IN  /\ Judged(c) /\ Judged(d) /\ c \in check[d].before
            /\ check[c].worker = check[d].worker /\ check[c].token = check[d].token
            /\ check[c].result = "refused" /\ check[d].result = "accepted"
            => \/ check[c].key < t.key
               \/ check[c].key = t.key /\ check[d].at <= t.exp + Skew

(* OBSERVABILITY.md:745-747: "If D1 is unavailable: Auth tokens still work (tokens  *)
(* are stateless HMAC, no DB lookup needed for /verify on new tokens)": no check of *)
(* an s2 token by a worker with the secret that signed it, well before it expires,  *)
(* ends in an error.                                                                *)
TokensNeedNoDatabase ==
    \A c \in Checks :
        LET t == login[check[c].token]
        IN  Judged(c) /\ check[c].key = t.key /\ check[c].at + Skew <= t.exp
            => check[c].result # "error"
=============================================================================
