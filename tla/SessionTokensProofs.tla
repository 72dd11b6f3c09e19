-------------------------- MODULE SessionTokensProofs --------------------------
(* Session tokens for every set of workers, logins, legacy sessions and checks, *)
(* every lifetime, skew and number of secrets.                                  *)
EXTENDS SessionTokens, TLAPS

(* A token that was issued is signed, and its expiry is its lifetime away from its   *)
(* birth, up to the skew of the clock that stamped it.                               *)
IssuedFits(t) == t.phase = "issued" => /\ t.key > 0
                                       /\ t.exp <= t.born + TTL
                                       /\ t.exp + Skew >= t.born + TTL

(* What a check has seen when it came in: the secret of its worker, which only grows, *)
(* a token that was issued, and answers of checks whose worker had no newer secret.   *)
Presented(k) == /\ k.key <= secret[k.worker]
                /\ k.token \in Logins => login[k.token].phase = "issued"
                /\ \A d \in k.before :
                     /\ check[d].phase = "done"
                     /\ check[d].worker = k.worker => check[d].key <= k.key

(* What its verdict says of the token. *)
Justified(k, t) ==
    /\ k.result = "accepted" => k.key = t.key /\ k.key > 0 /\ k.at <= t.exp + Skew
    /\ k.result = "refused" => k.key # t.key \/ k.at > t.exp
    /\ k.result = "error" => k.key = 0 \/ k.cold

Fits(k) ==
    /\ k.phase # "new" => Presented(k)
    /\ k.phase = "cold" => k.cold
    /\ k.phase = "kv" => k.token \in Legacy
    /\ k.phase = "done" /\ k.token \in Logins => Justified(k, login[k.token])

Inductive == /\ TypeOK
             /\ \A r \in Logins : IssuedFits(login[r])
             /\ \A c \in Checks : Fits(check[c])

LEMMA InitInductive == Init => Inductive
<1> SUFFICES ASSUME Init PROVE Inductive
  OBVIOUS
<1>1. NewLogin \in Logged /\ NewLogin.phase = "new"
  BY TokenAssumption DEF NewLogin, Logged, Keys, Times
<1>2. NewCheck \in Checked /\ NewCheck.phase = "new"
  BY TokenAssumption DEF NewCheck, Checked, Keys, Times
<1>3. TypeOK
  BY TokenAssumption, <1>1, <1>2 DEF Init, TypeOK, Keys
<1> QED BY <1>1, <1>2, <1>3 DEF Init, Inductive, IssuedFits, Fits

(* What a check has learned stays true: secrets only grow, an issued token and an    *)
(* answered check do not change.                                                     *)
Persists == /\ \A w \in Workers : secret'[w] \in Keys /\ secret'[w] >= secret[w]
            /\ \A r \in Logins : login[r].phase = "issued" => login'[r] = login[r]
            /\ \A d \in Checks : check[d].phase = "done" => check'[d] = check[d]

LEMMA FitsPersists ==
    ASSUME TypeOK, NEW k \in Checked, Fits(k), Persists
    PROVE  Fits(k)'
<1>1. k.worker \in Workers /\ k.key \in Nat /\ secret[k.worker] \in Nat
      /\ secret'[k.worker] \in Nat /\ k.before \subseteq Checks
  BY TokenAssumption DEF TypeOK, Checked, Keys, Persists
<1>2. Presented(k) => Presented(k)'
  <2> SUFFICES ASSUME Presented(k) PROVE Presented(k)'
    OBVIOUS
  <2>1. k.key <= secret'[k.worker]
    BY <1>1 DEF Presented, Persists
  <2>2. k.token \in Logins => login'[k.token].phase = "issued"
    BY DEF Presented, Persists
  <2>3. \A d \in k.before : /\ check'[d].phase = "done"
                            /\ check'[d].worker = k.worker => check'[d].key <= k.key
    BY <1>1 DEF Presented, Persists
  <2> QED BY <2>1, <2>2, <2>3 DEF Presented
<1>3. k.phase = "done" /\ k.token \in Logins => Justified(k, login'[k.token])
  BY DEF Fits, Presented, Persists
<1> QED BY <1>2, <1>3 DEF Fits

(* A step that leaves one unanswered check with a record that fits. *)
LEMMA OneCheck ==
    ASSUME Inductive, NEW c \in Checks, check[c].phase # "done",
           NEW k \in Checked, Fits(k), check' = [check EXCEPT ![c] = k],
           UNCHANGED <<time, secret, kv, login>>, ready' \in [Workers -> BOOLEAN]
    PROVE  Inductive'
<1>1. check' \in [Checks -> Checked] /\ check'[c] = k
      /\ \A d \in Checks \ {c} : check'[d] = check[d]
  BY DEF Inductive, TypeOK
<1>2. TypeOK'
  BY <1>1 DEF Inductive, TypeOK
<1>3. Persists
  <2>1. \A w \in Workers : secret'[w] \in Keys /\ secret'[w] >= secret[w]
    BY TokenAssumption DEF Inductive, TypeOK, Keys
  <2> QED BY <1>1, <2>1 DEF Persists
<1>4. ASSUME NEW d \in Checks PROVE Fits(check[d])' 
  <2>1. PICK j \in Checked : j = check'[d] /\ Fits(j)
    BY <1>1 DEF Inductive, TypeOK
  <2>2. Fits(j)'
    BY <1>3, <2>1, FitsPersists DEF Inductive
  <2> QED BY <2>1, <2>2
<1> QED BY <1>2, <1>4 DEF Inductive

(* A verdict on the clock of any host is justified by the token. *)
LEMMA AnsweredFits ==
    ASSUME Inductive, NEW k \in Checked, Presented(k), k.token \in Logins,
           NEW l \in 0..Skew
    PROVE  /\ Answered(k, Verdict(k.token, k.key, l)) \in Checked
           /\ Fits(Answered(k, Verdict(k.token, k.key, l)))
<1> DEFINE result == Verdict(k.token, k.key, l)
           j == Answered(k, result)
           t == login[k.token]
<1>1. t.exp \in Nat /\ time \in Nat /\ Skew \in Nat /\ k.key \in Nat /\ time \in Times
  BY TokenAssumption DEF Inductive, TypeOK, Logged, Checked, Keys, Times
<1>2. /\ result \in {"accepted", "refused", "error"}
      /\ result = "accepted" => k.key = t.key /\ k.key > 0 /\ time <= t.exp + Skew
      /\ result = "refused" => k.key # t.key \/ time > t.exp
      /\ result = "error" => k.key = 0
  BY <1>1 DEF Verdict, Signed, Expired
<1> HIDE DEF result
<1>3. /\ j.phase = "done" /\ j.result = result /\ j.at = time
      /\ j.worker = k.worker /\ j.token = k.token /\ j.key = k.key
      /\ j.cold = k.cold /\ j.before = k.before
      /\ j \in Checked
  BY <1>1, <1>2 DEF Answered, Checked
<1>4. Fits(j)
  BY <1>2, <1>3 DEF Fits, Justified, Presented
<1> QED BY <1>3, <1>4 DEF result

LEMMA HandleFits ==
    ASSUME Inductive, NEW c \in Checks, NEW k \in Checked, Presented(k), Handle(c, k)
    PROVE  \E j \in Checked : Fits(j) /\ check' = [check EXCEPT ![c] = j]
<1>1. CASE k.token \in Logins /\ \E l \in 0..Skew :
             check' = [check EXCEPT ![c] = Answered(k, Verdict(k.token, k.key, l))]
  BY <1>1, AnsweredFits
<1>2. CASE k.token \in Legacy /\ check' = [check EXCEPT ![c] = [k EXCEPT !.phase = "kv"]]
  <2> DEFINE j == [k EXCEPT !.phase = "kv"]
  <2>1. /\ j.phase = "kv" /\ j \in Checked /\ j.token \in Legacy
        /\ j.worker = k.worker /\ j.token = k.token /\ j.key = k.key /\ j.before = k.before
    BY <1>2 DEF Checked
  <2>2. Fits(j)
    BY <2>1 DEF Fits, Presented
  <2> QED BY <1>2, <2>1, <2>2
<1> QED BY <1>1, <1>2 DEF Handle

(* A step that leaves the checks alone, makes secrets newer and issues tokens. *)
LEMMA ChecksAlone ==
    ASSUME Inductive, TypeOK', UNCHANGED check, Persists,
           \A r \in Logins : IssuedFits(login'[r])
    PROVE  Inductive'
<1>1. ASSUME NEW c \in Checks PROVE Fits(check[c])'
  <2>1. PICK j \in Checked : j = check[c] /\ Fits(j)
    BY DEF Inductive, TypeOK
  <2>2. Fits(j)'
    BY <2>1, FitsPersists DEF Inductive
  <2> QED BY <2>1, <2>2
<1> QED BY <1>1 DEF Inductive
(* A step of one login that is still on its way. *)
LEMMA OneLogin ==
    ASSUME Inductive, NEW r \in Logins, login[r].phase # "issued",
           NEW t \in Logged, IssuedFits(t), t.phase = "issued" => t.exp >= TTL,
           login' = [login EXCEPT ![r] = t],
           UNCHANGED <<time, secret, kv, check>>, ready' \in [Workers -> BOOLEAN]
    PROVE  Inductive'
<1>1. login' \in [Logins -> Logged] /\ login'[r] = t
      /\ \A q \in Logins \ {r} : login'[q] = login[q]
  BY DEF Inductive, TypeOK
<1>2. TypeOK'
  BY <1>1 DEF Inductive, TypeOK
<1>3. Persists
  BY <1>1, TokenAssumption DEF Persists, Inductive, TypeOK, Keys
<1>4. \A q \in Logins : IssuedFits(login'[q])
  BY <1>1 DEF Inductive
<1> QED BY <1>2, <1>3, <1>4, ChecksAlone

LEMMA WarmType ==
    ASSUME TypeOK, NEW w \in Workers, NEW key, Warm(w, key)
    PROVE  ready' \in [Workers -> BOOLEAN]
  BY DEF TypeOK, Warm

LEMMA NextInductive == Inductive /\ [Next]_vars => Inductive'
<1> SUFFICES ASSUME Inductive, [Next]_vars PROVE Inductive'
  OBVIOUS
<1>0. /\ TypeOK /\ Auth \in Workers /\ \A r \in Logins : IssuedFits(login[r])
      /\ \A c \in Checks : Fits(check[c])
  BY TokenAssumption DEF Inductive
<1>1. ASSUME NEW r \in Logins, Login(r) PROVE Inductive'
  <2> DEFINE t == [login[r] EXCEPT !.phase = "running", !.key = secret[Auth]]
  <2>1. login[r].phase = "new" /\ login' = [login EXCEPT ![r] = t]
        /\ UNCHANGED <<time, secret, ready, kv, check>>
    BY <1>0, <1>1 DEF Login, TypeOK
  <2>2. t \in Logged /\ t.phase = "running"
    BY <1>0 DEF TypeOK, Logged
  <2>3. ready' \in [Workers -> BOOLEAN]
    BY <1>0, <2>1 DEF TypeOK
  <2> HIDE DEF t
  <2> QED BY <2>1, <2>2, <2>3, OneLogin DEF IssuedFits
<1>2. ASSUME NEW r \in Logins, Issue(r) PROVE Inductive'
  <2>1. PICK l \in 0..Skew :
          login' = [login EXCEPT ![r] = [login[r] EXCEPT
                       !.phase = "issued", !.born = time, !.exp = time - l + TTL]]
    BY <1>2 DEF Issue, Ttl
  <2> DEFINE t == [login[r] EXCEPT !.phase = "issued", !.born = time, !.exp = time - l + TTL]
  <2>2. /\ time \in Nat /\ TTL \in Nat /\ Skew \in Nat /\ MaxTime \in Nat
        /\ Skew <= time /\ time <= MaxTime /\ login[r] \in Logged
    BY <1>0, TokenAssumption DEF TypeOK
  <2>3. login[r].key # 0 /\ login[r].phase = "running"
    BY <1>2 DEF Issue
  <2>4. /\ t \in Logged /\ t.phase = "issued" /\ t.key = login[r].key
        /\ t.born = time /\ t.exp = time - l + TTL
    <3>1. time \in Times /\ time - l + TTL \in Times
      BY <2>2 DEF Times
    <3> QED BY <2>2, <3>1 DEF Logged
  <2>5. IssuedFits(t) /\ t.exp >= TTL
    BY <2>2, <2>3, <2>4 DEF IssuedFits, Logged, Keys
  <2>6. ready' \in [Workers -> BOOLEAN] /\ UNCHANGED <<time, secret, kv, check>>
    BY <1>0, <1>2, WarmType DEF Issue
  <2>7. login' = [login EXCEPT ![r] = t]
    BY <2>1
  <2> HIDE DEF t
  <2> QED BY <2>3, <2>4, <2>5, <2>6, <2>7, OneLogin
<1>3. ASSUME NEW r \in Logins, LoginFails(r) PROVE Inductive'
  <2> DEFINE t == [login[r] EXCEPT !.phase = "failed"]
  <2>1. login[r].phase = "running" /\ login' = [login EXCEPT ![r] = t]
        /\ UNCHANGED <<time, secret, kv, check>>
    BY <1>0, <1>3 DEF LoginFails, TypeOK
  <2>2. t \in Logged /\ t.phase = "failed"
    BY <1>0 DEF TypeOK, Logged
  <2>3. ready' \in [Workers -> BOOLEAN]
    BY <1>0, <1>3, WarmType DEF LoginFails, TypeOK
  <2> HIDE DEF t
  <2> QED BY <2>1, <2>2, <2>3, OneLogin DEF IssuedFits
<1>4. ASSUME NEW c \in Checks, NEW w \in Workers, NEW t \in Presentable, Present(c, w, t)
      PROVE Inductive'
  <2> DEFINE k == [NewCheck EXCEPT
                     !.worker = w, !.token = t, !.key = secret[w], !.cold = ~ready[w],
                     !.before = {d \in Checks : check[d].phase = "done"}]
  <2>1. /\ check[c].phase = "new" /\ UNCHANGED <<time, secret, ready, kv, login>>
        /\ \/ ready[w] /\ Handle(c, k)
           \/ ~ready[w] /\ check' = [check EXCEPT ![c] = [k EXCEPT !.phase = "cold"]]
    BY <1>4 DEF Present
  <2>2. NewCheck \in Checked
    BY TokenAssumption DEF NewCheck, Checked, Keys, Times
  <2>3. k \in Checked
    BY <1>0, <2>2 DEF Checked, Presentable, TypeOK
  <2>4. /\ k.worker = w /\ k.token = t /\ k.key = secret[w] /\ k.cold = ~ready[w]
        /\ k.before = {d \in Checks : check[d].phase = "done"}
    BY DEF NewCheck
  <2>5. Presented(k)
    <3>1. secret[w] \in Nat
      BY <1>0 DEF TypeOK, Keys
    <3>2. t \in Logins => login[t].phase = "issued"
      BY TokenAssumption DEF Presentable
    <3>3. \A d \in Checks : check[d].phase = "done" /\ check[d].worker = w
                              => check[d].key <= secret[w]
      BY <1>0 DEF Fits, Presented
    <3> QED BY <2>4, <3>1, <3>2, <3>3 DEF Presented
  <2>6. CASE ready[w] /\ Handle(c, k)
    <3> HIDE DEF k
    <3>1. \E j \in Checked : Fits(j) /\ check' = [check EXCEPT ![c] = j]
      BY <2>3, <2>5, <2>6, HandleFits
    <3> QED BY <1>0, <2>1, <3>1, OneCheck DEF TypeOK
  <2>7. CASE ~ready[w] /\ check' = [check EXCEPT ![c] = [k EXCEPT !.phase = "cold"]]
    <3> DEFINE j == [k EXCEPT !.phase = "cold"]
    <3> HIDE DEF k
    <3>1. /\ j \in Checked /\ j.phase = "cold" /\ j.cold
          /\ j.worker = k.worker /\ j.token = k.token /\ j.key = k.key /\ j.before = k.before
      BY <2>3, <2>4, <2>7 DEF Checked
    <3>2. Fits(j)
      BY <2>5, <3>1 DEF Fits, Presented
    <3>3. check' = [check EXCEPT ![c] = j]
      BY <2>7
    <3> HIDE DEF j
    <3> QED BY <1>0, <2>1, <3>1, <3>2, <3>3, OneCheck DEF TypeOK
  <2> QED BY <2>1, <2>6, <2>7
<1>5. ASSUME NEW c \in Checks, Bootstrap(c) PROVE Inductive'
  <2>1. check[c].phase = "cold" /\ Handle(c, check[c]) /\ UNCHANGED <<time, secret, kv, login>>
    BY <1>5 DEF Bootstrap
  <2>2. check[c] \in Checked /\ check[c].worker \in Workers /\ Presented(check[c])
    BY <1>0, <2>1 DEF TypeOK, Checked, Fits
  <2>3. ready' \in [Workers -> BOOLEAN]
    BY <1>0, <1>5, <2>2, WarmType DEF Bootstrap
  <2>4. PICK k \in Checked : k = check[c]
    BY <2>2
  <2>5. \E j \in Checked : Fits(j) /\ check' = [check EXCEPT ![c] = j]
    BY <2>1, <2>2, <2>4, HandleFits
  <2> QED BY <2>1, <2>3, <2>5, OneCheck
<1>6. ASSUME NEW c \in Checks, BootstrapFails(c) \/ LookUp(c) PROVE Inductive'
  <2>1. /\ check[c].phase \in {"cold", "kv"} /\ UNCHANGED <<time, secret, ready, kv, login>>
        /\ check[c] \in Checked
    BY <1>0, <1>6 DEF BootstrapFails, LookUp, TypeOK
  <2>2. PICK result \in {"accepted", "refused", "error"} :
          /\ check' = [check EXCEPT ![c] = Answered(check[c], result)]
          /\ check[c].phase = "cold" => result = "error"
    BY <1>6 DEF BootstrapFails, LookUp
  <2>3. PICK k \in Checked : k = check[c]
    BY <2>1
  <2> DEFINE j == Answered(k, result)
  <2>4. /\ j.phase = "done" /\ j.result = result /\ j.worker = k.worker /\ j.token = k.token
        /\ j.key = k.key /\ j.cold = k.cold /\ j.before = k.before /\ j \in Checked
    <3>1. time \in Times
      BY <1>0, TokenAssumption DEF TypeOK, Times
    <3> QED BY <3>1 DEF Answered, Checked
  <2>5. Presented(k) /\ (k.phase = "cold" => k.cold) /\ (k.phase = "kv" => k.token \notin Logins)
    BY <1>0, <2>1, <2>3, TokenAssumption DEF Fits
  <2>6. Fits(j)
    BY <2>1, <2>2, <2>3, <2>4, <2>5 DEF Fits, Presented, Justified
  <2>7. check' = [check EXCEPT ![c] = j]
    BY <2>2, <2>3
  <2> HIDE DEF j
  <2> QED BY <1>0, <2>1, <2>4, <2>6, <2>7, OneCheck DEF TypeOK
<1>7. ASSUME NEW w \in Workers, Rotate(w) PROVE Inductive'
  <2>1. /\ UNCHANGED <<time, kv, login, check>> /\ ready' \in [Workers -> BOOLEAN]
        /\ secret' \in [Workers -> Keys]
        /\ \A v \in Workers : secret'[v] >= secret[v]
    BY <1>0, <1>7, TokenAssumption DEF Rotate, TypeOK, Keys
  <2>2. TypeOK' /\ Persists
    BY <1>0, <2>1 DEF TypeOK, Persists
  <2> QED BY <1>0, <2>1, <2>2, ChecksAlone
<1>8. ASSUME UNCHANGED <<secret, login, check>>, TypeOK' PROVE Inductive'
  <2>1. Persists
    BY <1>0, <1>8, TokenAssumption DEF Persists, TypeOK, Keys
  <2> QED BY <1>0, <1>8, <2>1, ChecksAlone
<1>9. CASE Tick
  BY <1>0, <1>8, <1>9, TokenAssumption DEF Tick, TypeOK
<1>10. ASSUME NEW w \in Workers, Restart(w) PROVE Inductive'
  BY <1>0, <1>8, <1>10 DEF Restart, TypeOK
<1>11. ASSUME NEW s \in Legacy, ForgetLegacy(s) PROVE Inductive'
  BY <1>0, <1>8, <1>11 DEF ForgetLegacy, TypeOK
<1>12. CASE UNCHANGED vars
  BY <1>0, <1>8, <1>12 DEF vars, TypeOK
<1> QED BY <1>1, <1>2, <1>3, <1>4, <1>5, <1>6, <1>7, <1>9, <1>10, <1>11, <1>12 DEF Next

LEMMA Invariant == Spec => []Inductive
  BY InitInductive, NextInductive, PTL DEF Spec

(* Types hold: every login, check and secret stays one the workers can have, whatever *)
(* is rotated, and no token expires before a lifetime has passed.                     *)
THEOREM TokenTypes == Spec => []TypeOK
<1>1. Inductive => TypeOK
  BY DEF Inductive
<1> QED BY <1>1, Invariant, PTL

(* Every verdict on a token is justified, whatever secrets are rotated, clocks        *)
(* disagree and isolates are cold.                                                    *)
THEOREM VerdictsAreRight == Spec => []JudgedRight
<1>1. Inductive => JudgedRight
  <2> SUFFICES ASSUME Inductive, NEW c \in Checks, Judged(c)
               PROVE  LET k == check[c]
                          t == login[k.token]
                      IN  /\ k.result = "accepted" => /\ k.key = t.key /\ k.key > 0
                                                      /\ k.at <= t.born + TTL + Skew
                          /\ k.result = "refused" => k.key # t.key \/ k.at + Skew > t.born + TTL
                          /\ k.result = "error" => k.key = 0 \/ k.cold
    BY DEF JudgedRight
  <2> DEFINE k == check[c]
             t == login[k.token]
  <2>1. /\ Justified(k, t) /\ IssuedFits(t) /\ t.phase = "issued"
    BY DEF Inductive, Judged, Fits, Presented
  <2>2. /\ k.at \in Nat /\ t.born \in Nat /\ t.exp \in Nat /\ TTL \in Nat /\ Skew \in Nat
    BY TokenAssumption DEF Inductive, TypeOK, Checked, Logged, Times, Judged
  <2> QED BY <2>1, <2>2 DEF Justified, IssuedFits
<1> QED BY <1>1, Invariant, PTL

(* No check of a token that comes after a refusal by the same worker accepts it,      *)
(* unless that worker's secret lagged behind or its clocks disagree about the expiry. *)
THEOREM RefusalsAreFinal == Spec => []RefusalIsFinal
<1>1. Inductive => RefusalIsFinal
  <2> SUFFICES ASSUME Inductive, NEW c \in Checks, NEW d \in Checks,
                      Judged(d), c \in check[d].before,
                      check[c].worker = check[d].worker, check[c].token = check[d].token,
                      check[d].result = "accepted"
               PROVE  LET t == login[check[c].token]
                      IN  \/ check[c].key < t.key
                          \/ check[c].key = t.key /\ check[d].at <= t.exp + Skew
    BY DEF RefusalIsFinal
  <2> DEFINE t == login[check[d].token]
  <2>1. /\ Justified(check[d], t) /\ check[c].key <= check[d].key
    BY DEF Inductive, Judged, Fits, Presented
  <2>2. check[c].key \in Nat /\ check[d].key \in Nat
    BY DEF Inductive, TypeOK, Checked, Keys
  <2> QED BY <2>1, <2>2 DEF Justified
<1> QED BY <1>1, Invariant, PTL
=============================================================================
