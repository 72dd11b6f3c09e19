-------------------------- MODULE RateLimiterProofs --------------------------
(* The fixed window of the rate limiter for every set of keys, limit, window,  *)
(* clock skew and horizon.                                                     *)
EXTENDS RateLimiter, FiniteSetTheorems, TLAPS

USE DEF Seconds, Resets, RateState, Answers

(* One grant more is one more in its own window and in no other.               *)
LEMMA OneMoreGrant ==
    ASSUME NEW s \in Seq(Grants), NEW g \in Grants, NEW w
    PROVE  /\ IsFiniteSet(Until(s, w)) /\ Cardinality(Until(s, w)) \in Nat
           /\ g.until = w => Cardinality(Until(Append(s, g), w)) = Cardinality(Until(s, w)) + 1
           /\ g.until # w => Until(Append(s, g), w) = Until(s, w)
<1> DEFINE U == Until(s, w)
           V == Until(Append(s, g), w)
<1>1. IsFiniteSet(U) /\ Cardinality(U) \in Nat
  <2>1. IsFiniteSet(1..Len(s)) /\ U \in SUBSET (1..Len(s))
    <3>1. Len(s) \in Int /\ DOMAIN s = 1..Len(s)
      OBVIOUS
    <3> QED BY <3>1, FS_Interval DEF Until
  <2> HIDE DEF U
  <2> QED BY <2>1, FS_Subset, FS_CardinalityType
<1>2. /\ DOMAIN Append(s, g) = DOMAIN s \cup {Len(s) + 1}
      /\ Append(s, g)[Len(s) + 1] = g
      /\ \A i \in DOMAIN s : Append(s, g)[i] = s[i]
      /\ Len(s) + 1 \notin DOMAIN s
  OBVIOUS
<1>3. ASSUME g.until = w PROVE Cardinality(V) = Cardinality(U) + 1
  <2>1. V = U \cup {Len(s) + 1} /\ Len(s) + 1 \notin U
    BY <1>2, <1>3 DEF Until
  <2> HIDE DEF U, V
  <2> QED BY <1>1, <2>1, FS_AddElement
<1>4. ASSUME g.until # w PROVE V = U
  BY <1>2, <1>4 DEF Until
<1> QED BY <1>1, <1>3, <1>4

(* The grants of a window are finitely many. *)
LEMMA GrantsFinite ==
    ASSUME TypeOK, NEW k \in Keys, NEW w
    PROVE  /\ IsFiniteSet(Until(granted[k], w))
           /\ Cardinality(Until(granted[k], w)) \in Nat
<1>1. granted[k] \in Seq(Grants)
  BY DEF TypeOK
<1>2. Until(granted[k], w) \subseteq 1..Len(granted[k]) /\ IsFiniteSet(1..Len(granted[k]))
  BY <1>1, FS_Interval DEF Until
<1>3. IsFiniteSet(Until(granted[k], w))
  BY <1>2, FS_Subset
<1> QED BY <1>3, FS_CardinalityType

(* The window check returns a state whose window is later than now(k); it is *)
(* the stored one, or a fresh one later than every earlier window.           *)
LEMMA LoadedState ==
    ASSUME TypeOK, WindowAccounting, NEW k \in Keys
    PROVE  /\ now(k) \in Seconds
           /\ Loaded(k) \in RateState
           /\ Loaded(k).reset_at > now(k)
           /\ Loaded(k).reset_at \in Resets
           /\ Loaded(k).count <= Limit[k]
           /\ Loaded(k).reset_at >= storage[k].reset_at
           /\ Cardinality(Until(granted[k], Loaded(k).reset_at)) <= Loaded(k).count
           /\ \A i \in DOMAIN granted[k] : granted[k][i].until <= Loaded(k).reset_at
           /\ granted[k] \in Seq(Grants)
           /\ \A i \in DOMAIN granted[k] : granted[k][i] \in Grants
<1> USE LimiterAssumption
<1>0. /\ granted[k] \in Seq(Grants)
      /\ \A i \in DOMAIN granted[k] : granted[k][i] \in Grants
  BY DEF TypeOK
<1>1. now(k) \in Seconds
  <2>1. lag[k] \in 0..MaxSkew /\ time \in MaxSkew..MaxTime
    BY DEF TypeOK
  <2> QED BY <2>1 DEF now
<1>2. CASE now(k) >= storage[k].reset_at
  <2>1. Loaded(k) = [count |-> 0, reset_at |-> now(k) + Window]
    BY <1>2 DEF Loaded
  <2>2. now(k) + Window \in Resets /\ now(k) + Window > storage[k].reset_at
    BY <1>1, <1>2 DEF WindowAccounting
  <2>3. Until(granted[k], now(k) + Window) = {}
    <3>1. \A i \in DOMAIN granted[k] : granted[k][i].until \in Nat
      BY <1>0 DEF Grants
    <3>2. \A i \in DOMAIN granted[k] : granted[k][i].until <= storage[k].reset_at
      BY DEF WindowAccounting
    <3>3. storage[k].reset_at \in Nat /\ now(k) + Window \in Nat
      BY <2>2 DEF TypeOK
    <3> QED BY <2>2, <3>1, <3>2, <3>3 DEF Until
  <2>4. Limit[k] \in Nat /\ storage[k] \in RateState
    BY DEF TypeOK
  <2>5. \A i \in DOMAIN granted[k] : granted[k][i].until <= now(k) + Window
    <3>1. \A i \in DOMAIN granted[k] : granted[k][i].until \in Nat
      BY <1>0 DEF Grants
    <3> QED BY <1>1, <2>2, <2>4, <3>1 DEF WindowAccounting
  <2>6. Loaded(k).count = 0 /\ Loaded(k).reset_at = now(k) + Window
    BY <2>1
  <2>7. now(k) + Window > now(k) /\ Loaded(k) \in RateState
    BY <1>1, <2>1
  <2>8. storage[k].reset_at \in Nat /\ now(k) + Window \in Nat
    BY <1>1, <2>4
  <2>9. /\ now(k) + Window >= storage[k].reset_at
        /\ 0 <= Limit[k] /\ Cardinality(Until(granted[k], now(k) + Window)) <= 0
    BY <2>2, <2>3, <2>4, <2>8, FS_EmptySet
  <2> HIDE DEF RateState, Resets, Seconds
  <2> QED BY <1>0, <1>1, <2>2, <2>5, <2>6, <2>7, <2>9
<1>3. CASE ~(now(k) >= storage[k].reset_at)
  <2>1. Loaded(k) = storage[k] /\ storage[k] \in RateState
    BY <1>3 DEF Loaded, TypeOK
  <2>2. storage[k].reset_at > now(k)
    <3>1. storage[k].reset_at \in Nat /\ now(k) \in Nat
      BY <1>1, <2>1
    <3> QED BY <1>3, <3>1
  <2>3. /\ storage[k].count <= Limit[k]
        /\ storage[k].reset_at \in Resets
        /\ Cardinality(Until(granted[k], storage[k].reset_at)) <= storage[k].count
        /\ \A i \in DOMAIN granted[k] : granted[k][i].until <= storage[k].reset_at
    BY DEF WindowAccounting
  <2>4. storage[k].reset_at >= storage[k].reset_at
    BY <2>1
  <2> HIDE DEF RateState, Resets, Seconds
  <2> QED BY <1>0, <1>1, <2>1, <2>2, <2>3, <2>4
<1> QED BY <1>2, <1>3

(* What an allowed call of k leaves: its window counts one more and has granted  *)
(* one more; the other keys and the other windows are as before.                 *)
LEMMA AllowGrants ==
    ASSUME TypeOK, WindowAccounting, NEW k \in Keys, Allow(k)
    PROVE  /\ Loaded(k).count \in Nat /\ Loaded(k).count < Limit[k]
           /\ Grant(k) \in Grants /\ Grant(k).until = Loaded(k).reset_at
           /\ storage'[k] = [count |-> Loaded(k).count + 1, reset_at |-> Loaded(k).reset_at]
           /\ granted' = [granted EXCEPT ![k] = Append(@, Grant(k))]
           /\ granted'[k] = Append(granted[k], Grant(k))
           /\ Cardinality(Until(granted'[k], Loaded(k).reset_at))
                = Cardinality(Until(granted[k], Loaded(k).reset_at)) + 1
           /\ \A w : w # Loaded(k).reset_at => Until(granted'[k], w) = Until(granted[k], w)
           /\ \A j \in Keys \ {k} : /\ storage'[j] = storage[j]
                                    /\ granted'[j] = granted[j]
<1> USE LimiterAssumption
<1>1. Loaded(k).count \in Nat /\ Loaded(k).count < Limit[k]
  BY LoadedState DEF Allow, HasRoom
<1>2. Grant(k) \in Grants /\ Grant(k).until = Loaded(k).reset_at
  BY LoadedState DEF Grant, Grants
<1>3. storage'[k] = [count |-> Loaded(k).count + 1, reset_at |-> Loaded(k).reset_at]
  BY LoadedState DEF Allow, Counted, TypeOK
<1>4. granted' = [granted EXCEPT ![k] = Append(@, Grant(k))]
  BY DEF Allow
<1>5. granted \in [Keys -> Seq(Grants)] /\ granted[k] \in Seq(Grants)
  BY DEF TypeOK
<1>6. granted'[k] = Append(granted[k], Grant(k))
  BY <1>4, <1>5
<1>7. \A j \in Keys \ {k} : storage'[j] = storage[j] /\ granted'[j] = granted[j]
  BY <1>4, <1>5 DEF Allow, TypeOK
<1>8. /\ Cardinality(Until(granted'[k], Loaded(k).reset_at))
           = Cardinality(Until(granted[k], Loaded(k).reset_at)) + 1
      /\ \A w : w # Loaded(k).reset_at => Until(granted'[k], w) = Until(granted[k], w)
  <2>1. ASSUME NEW w
        PROVE  /\ Grant(k).until = w =>
                    Cardinality(Until(Append(granted[k], Grant(k)), w))
                      = Cardinality(Until(granted[k], w)) + 1
               /\ Grant(k).until # w =>
                    Until(Append(granted[k], Grant(k)), w) = Until(granted[k], w)
    BY <1>2, <1>5, OneMoreGrant
  <2> QED BY <1>2, <1>6, <2>1
<1> QED BY <1>1, <1>2, <1>3, <1>4, <1>6, <1>7, <1>8

(* Every variable keeps its type, for every value of the constants. *)
THEOREM TypeCorrect == Spec => [](TypeOK /\ WindowAccounting)
<1> USE LimiterAssumption
<1>1. Init => TypeOK /\ WindowAccounting
  <2> SUFFICES ASSUME Init PROVE TypeOK /\ WindowAccounting
    OBVIOUS
  <2>1. TypeOK
    BY SkewAssumption DEF Init, TypeOK, LagBounded
  <2>2. ASSUME NEW k \in Keys
        PROVE  /\ storage[k].count = 0 /\ storage[k].reset_at = 0
               /\ DOMAIN granted[k] = {} /\ Until(granted[k], storage[k].reset_at) = {}
    BY DEF Init, Until
  <2>3. \A k \in Keys : 0 <= Limit[k] /\ 0 \in Resets
    OBVIOUS
  <2>4. ASSUME NEW k \in Keys
        PROVE  Cardinality(Until(granted[k], storage[k].reset_at)) <= storage[k].count
    <3>1. Cardinality({}) = 0
      BY FS_EmptySet
    <3>2. Until(granted[k], storage[k].reset_at) = {} /\ storage[k].count = 0
      BY <2>2
    <3>3. Cardinality(Until(granted[k], storage[k].reset_at)) = 0
      BY <3>1, <3>2
    <3> QED BY <3>2, <3>3
  <2> QED BY <2>1, <2>2, <2>3, <2>4 DEF WindowAccounting
<1>2. TypeOK /\ WindowAccounting /\ [Next]_vars => TypeOK' /\ WindowAccounting'
  <2> SUFFICES ASSUME TypeOK, WindowAccounting, [Next]_vars
               PROVE  TypeOK' /\ WindowAccounting'
    OBVIOUS
  <2>1. ASSUME NEW k \in Keys, Allow(k) PROVE TypeOK' /\ WindowAccounting'
    <3> DEFINE w0 == Loaded(k).reset_at
    <3>1. Counted(k) = [count |-> Loaded(k).count + 1, reset_at |-> w0]
      BY LoadedState DEF Counted
    <3>2. Loaded(k).count \in Nat /\ Loaded(k).count < Limit[k] /\ w0 \in Resets
      BY <2>1, LoadedState DEF Allow, HasRoom
    <3>3. Remaining(k) \in Nat
      BY <3>1, <3>2 DEF Remaining
    <3>4. storage' = [storage EXCEPT ![k] = Counted(k)]
      BY <2>1 DEF Allow
    <3>5. granted' = [granted EXCEPT ![k] = Append(@, Grant(k))] /\ Grant(k) \in Grants
      BY <2>1, AllowGrants
    <3>6. TypeOK'
      <4>1. storage' \in [Keys -> RateState]
        <5>1. Counted(k) \in RateState
          BY <3>1, <3>2
        <5> HIDE DEF RateState
        <5> QED BY <3>4, <5>1 DEF TypeOK
      <4>2. answer' \in [Keys -> Answers]
        BY <2>1, <3>3 DEF TypeOK, Allow, Answer
      <4>3. granted' \in [Keys -> Seq(Grants)]
        <5>1. granted \in [Keys -> Seq(Grants)] /\ Append(granted[k], Grant(k)) \in Seq(Grants)
          BY <3>5 DEF TypeOK
        <5> QED BY <3>5, <5>1
      <4> QED BY <2>1, <4>1, <4>2, <4>3 DEF TypeOK, LagBounded, Allow
    <3>7. WindowAccounting'
      <4> SUFFICES ASSUME NEW j \in Keys
                   PROVE  /\ storage'[j].count <= Limit[j]
                          /\ storage'[j].reset_at \in Resets
                          /\ Cardinality(Until(granted'[j], storage'[j].reset_at)) <= storage'[j].count
                          /\ \A i \in DOMAIN granted'[j] :
                               granted'[j][i].until <= storage'[j].reset_at
        BY DEF WindowAccounting
      <4>1. CASE j = k
        <5>1. /\ storage'[k] = [count |-> Loaded(k).count + 1, reset_at |-> w0]
              /\ granted'[k] = Append(granted[k], Grant(k)) /\ Grant(k).until = w0
              /\ Cardinality(Until(granted'[k], w0)) = Cardinality(Until(granted[k], w0)) + 1
          BY <2>1, AllowGrants
        <5>2. /\ Cardinality(Until(granted[k], w0)) <= Loaded(k).count
              /\ \A i \in DOMAIN granted[k] : granted[k][i].until <= w0
              /\ granted[k] \in Seq(Grants)
          BY LoadedState
        <5>3. Cardinality(Until(granted[k], w0)) \in Nat
          BY GrantsFinite
        <5>5. \A i \in DOMAIN granted'[k] : granted'[k][i].until <= w0
          BY <3>2, <3>5, <5>1, <5>2
        <5>6. Until(granted'[k], storage'[k].reset_at) = Until(granted'[k], w0)
          BY <5>1
        <5> HIDE DEF w0
        <5> QED BY <3>2, <4>1, <5>1, <5>2, <5>3, <5>5, <5>6
      <4>2. CASE j # k
        <5>1. /\ storage'[j] = storage[j] /\ granted'[j] = granted[j]
          BY <2>1, <4>2, AllowGrants
        <5>2. Until(granted'[j], storage'[j].reset_at) = Until(granted[j], storage[j].reset_at)
          BY <5>1 DEF Until
        <5> QED BY <5>1, <5>2 DEF WindowAccounting
      <4> QED BY <4>1, <4>2
    <3> QED BY <3>6, <3>7
  <2>2. ASSUME NEW k \in Keys, AnswerLost(k) PROVE TypeOK' /\ WindowAccounting'
    <3> DEFINE w0 == Loaded(k).reset_at
    <3>1. Counted(k) = [count |-> Loaded(k).count + 1, reset_at |-> w0]
      BY LoadedState DEF Counted
    <3>2. Loaded(k).count \in Nat /\ Loaded(k).count < Limit[k] /\ w0 \in Resets
      BY <2>2, LoadedState DEF AnswerLost, HasRoom
    <3>3. storage' = [storage EXCEPT ![k] = Counted(k)] /\ granted' = granted
      BY <2>2 DEF AnswerLost
    <3>4. TypeOK'
      <4>1. storage' \in [Keys -> RateState]
        <5>1. Counted(k) \in RateState
          BY <3>1, <3>2
        <5> HIDE DEF RateState
        <5> QED BY <3>3, <5>1 DEF TypeOK
      <4> QED BY <2>2, <4>1 DEF TypeOK, LagBounded, AnswerLost
    <3>5. ASSUME NEW j \in Keys
          PROVE  /\ storage'[j].count <= Limit[j]
                 /\ storage'[j].reset_at \in Resets
                 /\ Cardinality(Until(granted'[j], storage'[j].reset_at)) <= storage'[j].count
                 /\ \A i \in DOMAIN granted'[j] :
                      granted'[j][i].until <= storage'[j].reset_at
      <4>1. CASE j = k
        <5>1. storage'[k] = [count |-> Loaded(k).count + 1, reset_at |-> w0]
          BY <3>1, <3>3 DEF TypeOK
        <5>2. /\ Cardinality(Until(granted[k], w0)) <= Loaded(k).count
              /\ \A i \in DOMAIN granted[k] : granted[k][i].until <= w0
          BY LoadedState
        <5>3. Cardinality(Until(granted[k], w0)) \in Nat
          BY GrantsFinite
        <5>4. Until(granted'[k], storage'[k].reset_at) = Until(granted[k], w0)
          BY <3>3, <5>1 DEF Until
        <5> HIDE DEF w0
        <5> QED BY <3>2, <3>3, <4>1, <5>1, <5>2, <5>3, <5>4
      <4>2. CASE j # k
        <5>1. storage'[j] = storage[j]
          BY <3>3, <4>2 DEF TypeOK
        <5>2. Until(granted'[j], storage'[j].reset_at) = Until(granted[j], storage[j].reset_at)
          BY <3>3, <5>1 DEF Until
        <5> QED BY <3>3, <5>1, <5>2 DEF WindowAccounting
      <4> QED BY <4>1, <4>2
    <3> QED BY <3>4, <3>5 DEF WindowAccounting
  <2>3. ASSUME NEW k \in Keys, Deny(k) PROVE TypeOK' /\ WindowAccounting'
    BY <2>3 DEF Deny, Answer, TypeOK, LagBounded, WindowAccounting
  <2>4. CASE Tick
    <3>1. time' \in MaxSkew..MaxTime
      BY <2>4 DEF Tick, TypeOK
    <3> QED BY <2>4, <3>1 DEF Tick, TypeOK, LagBounded, WindowAccounting
  <2>5. ASSUME NEW k \in Keys, Adjust(k) PROVE TypeOK' /\ WindowAccounting'
    <3>1. PICK l \in 0..Skew[k] : lag' = [lag EXCEPT ![k] = l]
      BY <2>5 DEF Adjust
    <3>2. l \in 0..MaxSkew
      <4>1. Skew[k] \in 0..MaxSkew
        BY SkewAssumption
      <4> QED BY <4>1
    <3>3. lag' \in [Keys -> 0..MaxSkew]
      BY <3>1, <3>2 DEF TypeOK
    <3>4. LagBounded'
      <4> SUFFICES ASSUME NEW j \in Keys PROVE lag'[j] <= Skew[j]
        BY DEF LagBounded
      <4>1. CASE j = k
        <5>1. lag'[j] = l
          BY <3>1, <4>1 DEF TypeOK
        <5> QED BY <4>1, <5>1, SkewAssumption
      <4>2. CASE j # k
        <5>1. lag'[j] = lag[j]
          BY <3>1, <4>2 DEF TypeOK
        <5> QED BY <5>1 DEF TypeOK, LagBounded
      <4> QED BY <4>1, <4>2
    <3> QED BY <2>5, <3>3, <3>4 DEF Adjust, TypeOK, WindowAccounting
  <2>6. CASE UNCHANGED vars
    BY <2>6 DEF vars, TypeOK, LagBounded, WindowAccounting
  <2> QED BY <2>1, <2>2, <2>3, <2>4, <2>5, <2>6 DEF Next
<1> QED BY <1>1, <1>2, PTL DEF Spec

(* No window hands out more than the limit, whatever the clock does: the       *)
(* atomic counting of fetch, for every number of keys and every limit.         *)
THEOREM WindowBoundHolds == Spec => []WindowBound
<1> USE LimiterAssumption
<1>1. Init => WindowBound
  <2> SUFFICES ASSUME Init, NEW k \in Keys, NEW w \in Resets
               PROVE  Cardinality(Until(granted[k], w)) <= Limit[k]
    BY DEF WindowBound
  <2>1. Until(granted[k], w) = {}
    BY DEF Init, Until
  <2> QED BY <2>1, FS_EmptySet
<1>2. /\ TypeOK /\ WindowAccounting /\ (TypeOK /\ WindowAccounting)'
      /\ WindowBound /\ [Next]_vars
      => WindowBound'
  <2> SUFFICES ASSUME TypeOK, WindowAccounting, TypeOK', WindowAccounting',
                      WindowBound, [Next]_vars,
                      NEW j \in Keys, NEW w \in Resets
               PROVE  Cardinality(Until(granted'[j], w)) <= Limit[j]
    BY DEF WindowBound
  <2>1. ASSUME NEW k \in Keys, Allow(k) PROVE Cardinality(Until(granted'[j], w)) <= Limit[j]
    <3> DEFINE w0 == Loaded(k).reset_at
    <3>1. CASE j = k /\ w = w0
      <4>1. Cardinality(Until(granted'[k], w0)) = Cardinality(Until(granted[k], w0)) + 1
        BY <2>1, AllowGrants
      <4>2. Loaded(k).count \in Nat /\ Loaded(k).count < Limit[k]
        BY <2>1, AllowGrants
      <4>3. Cardinality(Until(granted[k], w0)) <= Loaded(k).count
        BY LoadedState
      <4>4. Cardinality(Until(granted[k], w0)) \in Nat
        BY GrantsFinite
      <4> HIDE DEF w0
      <4> QED BY <3>1, <4>1, <4>2, <4>3, <4>4
    <3>2. CASE ~(j = k /\ w = w0)
      <4>1. Until(granted'[j], w) = Until(granted[j], w)
        BY <2>1, <3>2, AllowGrants
      <4> QED BY <4>1 DEF WindowBound
    <3> QED BY <3>1, <3>2
  <2>2. CASE UNCHANGED granted
    BY <2>2 DEF WindowBound, Until
  <2> QED BY <2>1, <2>2 DEF Next, AnswerLost, Deny, Tick, Adjust, vars
<1> QED BY <1>1, <1>2, TypeCorrect, PTL DEF Spec

(* A key is never locked out longer than a window, for every window and skew. *)
THEOREM LockoutBoundHolds == Spec => []LockoutBound
<1> USE LimiterAssumption
<1>1. Init => LockoutBound
  BY DEF Init, LockoutBound
<1>2. TypeOK /\ WindowAccounting /\ LockoutBound /\ [Next]_vars => LockoutBound'
  <2> SUFFICES ASSUME TypeOK, WindowAccounting, LockoutBound, [Next]_vars,
                      NEW j \in Keys
               PROVE  storage'[j].reset_at <= time' + Window
    BY DEF LockoutBound
  <2>1. time \in Nat /\ storage[j].reset_at <= time + Window /\ storage[j].reset_at \in Nat
    BY DEF TypeOK, LockoutBound
  (* a call that is counted stores the window it was counted in *)
  <2>2. ASSUME NEW k \in Keys, storage' = [storage EXCEPT ![k] = Counted(k)], time' = time
        PROVE  storage'[j].reset_at <= time' + Window
    <3>1. CASE j = k
      <4>1. storage'[j].reset_at = Loaded(k).reset_at
        BY <2>2, <3>1, LoadedState DEF Counted, TypeOK
      <4>2. Loaded(k) = storage[k] \/ Loaded(k) = [count |-> 0, reset_at |-> now(k) + Window]
        BY Zenon DEF Loaded
      <4>3. now(k) <= time
        BY LoadedState, <2>1 DEF now, TypeOK
      <4>4. Loaded(k).reset_at <= time + Window
        BY <2>1, <3>1, <4>2, <4>3, LoadedState
      <4> QED BY <2>2, <4>1, <4>4
    <3>2. CASE j # k
      BY <2>1, <2>2, <3>2 DEF TypeOK
    <3> QED BY <3>1, <3>2
  <2>3. CASE UNCHANGED storage /\ time' \in {time, time + 1}
    BY <2>1, <2>3
  <2> QED BY <2>2, <2>3 DEF Next, Allow, AnswerLost, Deny, Tick, Adjust, vars
<1> QED BY <1>1, <1>2, TypeCorrect, PTL DEF Spec

(* Once a window has answered somebody, the last answer given for its key bounds  *)
(* what is left in it, open or closed: RemainingHonest without its clock. A       *)
(* clock that steps back reopens a closed window, so only this form is inductive. *)
PromiseKept ==
    \A k \in Keys :
        Until(granted[k], storage[k].reset_at) # {}
        => Limit[k] - storage[k].count <= answer[k].remaining

(* The number of calls left that a caller was told is never exceeded by what the *)
(* window really has left, whatever answers are lost and the clocks do.          *)
THEOREM RemainingHonestHolds == Spec => []RemainingHonest
<1> USE LimiterAssumption
<1>1. Init => PromiseKept
  BY DEF Init, PromiseKept
<1>2. TypeOK /\ WindowAccounting /\ PromiseKept /\ [Next]_vars => PromiseKept'
  <2> SUFFICES ASSUME TypeOK, WindowAccounting, PromiseKept, [Next]_vars,
                      NEW j \in Keys, Until(granted'[j], storage'[j].reset_at) # {}
               PROVE  Limit[j] - storage'[j].count <= answer'[j].remaining
    BY DEF PromiseKept
  <2>1. ASSUME NEW k \in Keys, Allow(k)
        PROVE  Limit[j] - storage'[j].count <= answer'[j].remaining
    <3>1. CASE j = k
      <4>1. storage'[j] = Counted(k) /\ answer'[j].remaining = Limit[k] - Counted(k).count
        BY <2>1, <3>1 DEF Allow, Answer, Remaining, TypeOK
      <4>2. Counted(k).count \in Nat /\ Limit[k] \in Nat
        BY LoadedState DEF Counted
      <4> QED BY <3>1, <4>1, <4>2
    <3>2. CASE j # k
      BY <2>1, <3>2 DEF Allow, Answer, TypeOK, PromiseKept
    <3> QED BY <3>1, <3>2
  <2>2. ASSUME NEW k \in Keys, AnswerLost(k)
        PROVE  Limit[j] - storage'[j].count <= answer'[j].remaining
    <3>1. CASE j = k
      <4>1. storage'[j] = [count |-> Loaded(k).count + 1, reset_at |-> Loaded(k).reset_at]
        BY <2>2, <3>1, LoadedState DEF AnswerLost, Counted, TypeOK
      <4>2. Until(granted[k], Loaded(k).reset_at) # {} /\ answer' = answer
        BY <2>2, <3>1, <4>1 DEF AnswerLost, Until
      <4>3. Loaded(k) = storage[k]
        <5>1. Loaded(k).count > 0
          <6>1. /\ Cardinality(Until(granted[k], Loaded(k).reset_at)) <= Loaded(k).count
                /\ Loaded(k).count \in Nat
            BY LoadedState
          <6>2. /\ IsFiniteSet(Until(granted[k], Loaded(k).reset_at))
                /\ Cardinality(Until(granted[k], Loaded(k).reset_at)) \in Nat
            BY GrantsFinite
          <6>3. Cardinality(Until(granted[k], Loaded(k).reset_at)) # 0
            BY <4>2, <6>2, FS_EmptySet
          <6> QED BY <6>1, <6>2, <6>3
        <5>2. Loaded(k) = storage[k] \/ Loaded(k) = [count |-> 0, reset_at |-> now(k) + Window]
          BY Zenon DEF Loaded
        <5> QED BY <5>1, <5>2
      <4>4. Limit[k] - storage[k].count <= answer[k].remaining
        BY <4>2, <4>3 DEF PromiseKept
      <4> QED BY <3>1, <4>1, <4>2, <4>3, <4>4, LoadedState DEF TypeOK
    <3>2. CASE j # k
      BY <2>2, <3>2 DEF AnswerLost, TypeOK, PromiseKept
    <3> QED BY <3>1, <3>2
  <2>3. ASSUME NEW k \in Keys, Deny(k)
        PROVE  Limit[j] - storage'[j].count <= answer'[j].remaining
    <3>1. storage' = storage /\ granted' = granted
      BY <2>3 DEF Deny
    <3>2. CASE j = k
      <4>1. answer'[j].remaining = 0 /\ ~(Loaded(k).count < Limit[k])
        BY <2>3, <3>2 DEF Deny, Answer, HasRoom, TypeOK
      <4>2. Loaded(k) = storage[k] \/ Loaded(k) = [count |-> 0, reset_at |-> now(k) + Window]
        BY Zenon DEF Loaded
      <4>3. storage[k].count \in Nat /\ Limit[k] \in Nat
        BY DEF TypeOK
      <4>4. Limit[k] - storage[k].count <= 0
        BY <4>1, <4>2, <4>3
      <4> QED BY <3>1, <3>2, <4>1, <4>4
    <3>3. CASE j # k
      BY <2>3, <3>1, <3>3 DEF Deny, Answer, TypeOK, PromiseKept
    <3> QED BY <3>2, <3>3
  <2>4. CASE UNCHANGED <<storage, granted, answer>>
    BY <2>4 DEF PromiseKept
  <2> QED BY <2>1, <2>2, <2>3, <2>4 DEF Next, Tick, Adjust, vars
<1>3. PromiseKept => RemainingHonest
  BY DEF PromiseKept, RemainingHonest
<1> QED BY <1>1, <1>2, <1>3, TypeCorrect, PTL DEF Spec

(* A key on a steady clock sees the time itself. *)
LEMMA SteadyClock ==
    ASSUME TypeOK, NEW k \in Steady
    PROVE  k \in Keys /\ time \in Nat /\ lag[k] = 0 /\ now(k) = time
<1>1. k \in Keys /\ Skew[k] = 0
  BY DEF Steady
<1>2. lag[k] \in 0..MaxSkew /\ lag[k] <= 0
  BY <1>1 DEF TypeOK, LagBounded
<1>3. time \in Nat /\ MaxSkew \in Nat
  BY LimiterAssumption DEF TypeOK
<1>4. lag[k] = 0
  BY <1>2, <1>3
<1> QED BY <1>1, <1>3, <1>4 DEF now

(* The windows of a steady key that have answered somebody lie apart: each was *)
(* granted in during the Window seconds before its end, no two overlap, and a  *)
(* window that is no longer the stored one ended a whole window before it.     *)
WindowsApart ==
    \A k \in Steady : \A i \in DOMAIN granted[k] :
        LET g == granted[k][i]
        IN  /\ g.at < g.until /\ g.until <= g.at + Window
            /\ g.until = storage[k].reset_at \/ g.until + Window <= storage[k].reset_at
            /\ \A j \in DOMAIN granted[k] :
                  g.until < granted[k][j].until => g.until + Window <= granted[k][j].until

LEMMA WindowsStayApart ==
    ASSUME TypeOK, WindowAccounting, LockoutBound, WindowsApart, [Next]_vars
    PROVE  WindowsApart'
<1> USE LimiterAssumption
<1> DEFINE Apart(at, until, last, others) ==
        /\ at < until /\ until <= at + Window
        /\ until = last \/ until + Window <= last
        /\ \A u \in others : until < u => until + Window <= u
           Untils(grants) == {grants[j].until : j \in DOMAIN grants}
<1> SUFFICES ASSUME NEW k \in Steady, NEW i \in DOMAIN granted'[k]
             PROVE  Apart(granted'[k][i].at, granted'[k][i].until,
                          storage'[k].reset_at, Untils(granted'[k]))
  BY DEF WindowsApart
<1>1. /\ k \in Keys /\ time \in Nat /\ now(k) = time
      /\ storage[k].reset_at \in Nat /\ storage[k].reset_at <= time + Window
      /\ granted[k] \in Seq(Grants)
  BY SteadyClock DEF TypeOK, LockoutBound
<1>2. ASSUME NEW j \in DOMAIN granted[k]
      PROVE  /\ Apart(granted[k][j].at, granted[k][j].until, storage[k].reset_at, Untils(granted[k]))
             /\ granted[k][j].at \in Nat /\ granted[k][j].until \in Nat
             /\ granted[k][j].until <= storage[k].reset_at
  <2>1. granted[k][j] \in Grants
    BY <1>1
  <2>2. granted[k][j].at \in Nat /\ granted[k][j].until \in Nat
    BY <2>1 DEF Grants
  <2>3. granted[k][j].until <= storage[k].reset_at
    BY <1>1 DEF WindowAccounting
  <2>4. Apart(granted[k][j].at, granted[k][j].until, storage[k].reset_at, Untils(granted[k]))
    BY DEF WindowsApart
  <2> QED BY <2>2, <2>3, <2>4
(* a window that is loaded is the stored one, or starts where that is over *)
<1>3. /\ Loaded(k).reset_at \in Nat /\ Loaded(k).reset_at > time
      /\ Loaded(k).reset_at <= time + Window
      /\ \/ Loaded(k).reset_at = storage[k].reset_at
         \/ /\ Loaded(k).reset_at = time + Window
            /\ storage[k].reset_at <= time
  <2>1. Loaded(k).reset_at \in Nat /\ Loaded(k).reset_at > time
    BY <1>1, LoadedState
  <2>2. CASE time >= storage[k].reset_at
    BY <1>1, <2>1, <2>2 DEF Loaded
  <2>3. CASE ~(time >= storage[k].reset_at)
    BY <1>1, <2>1, <2>3 DEF Loaded
  <2> QED BY <2>2, <2>3
<1>4. ASSUME NEW j \in DOMAIN granted[k]
      PROVE  Apart(granted[k][j].at, granted[k][j].until, Loaded(k).reset_at,
                   Untils(granted[k]) \cup {Loaded(k).reset_at})
  <2>1. \/ granted[k][j].until = Loaded(k).reset_at
        \/ granted[k][j].until + Window <= Loaded(k).reset_at
    BY <1>1, <1>2, <1>3
  <2> QED BY <1>2, <1>3, <2>1
<1>5. CASE Allow(k)
  <2> DEFINE g == Grant(k)
  <2>1. /\ granted'[k] = Append(granted[k], g)
        /\ storage'[k].reset_at = Loaded(k).reset_at
        /\ g.at = time /\ g.until = Loaded(k).reset_at
    <3>1. g.at = time /\ g.until = Loaded(k).reset_at
      BY <1>1 DEF Grant
    <3>2. storage'[k] = [count |-> Loaded(k).count + 1, reset_at |-> Loaded(k).reset_at]
      BY <1>1, <1>5, AllowGrants
    <3>3. granted'[k] = Append(granted[k], g)
      BY <1>1, <1>5, AllowGrants
    <3> QED BY <3>1, <3>2, <3>3
  <2>2. /\ DOMAIN granted'[k] = DOMAIN granted[k] \cup {Len(granted[k]) + 1}
        /\ \A j \in DOMAIN granted[k] : granted'[k][j] = granted[k][j]
        /\ granted'[k][Len(granted[k]) + 1] = g
    BY <1>1, <2>1
  <2>3. Untils(granted'[k]) = Untils(granted[k]) \cup {Loaded(k).reset_at}
    BY <2>1, <2>2
  <2>4. CASE i \in DOMAIN granted[k]
    BY <1>4, <2>1, <2>2, <2>3, <2>4
  <2>5. CASE i = Len(granted[k]) + 1
    <3>1. granted'[k][i] = g
      BY <2>2, <2>5
    <3>2. \A u \in Untils(granted[k]) : u \in Nat /\ u <= Loaded(k).reset_at
      BY <1>1, <1>2, <1>3
    <3>3. \A u \in Untils(granted'[k]) : ~(Loaded(k).reset_at < u)
      <4> HIDE DEF Untils
      <4>1. ASSUME NEW u \in Untils(granted'[k]) PROVE ~(Loaded(k).reset_at < u)
        BY <1>3, <2>3, <3>2, <4>1
      <4> QED BY <4>1
    <3> HIDE DEF g, Untils
    <3> QED BY <1>1, <1>3, <2>1, <3>1, <3>3
  <2> QED BY <2>2, <2>4, <2>5
<1>6. CASE AnswerLost(k)
  <2>1. granted'[k] = granted[k] /\ storage'[k].reset_at = Loaded(k).reset_at
    BY <1>1, <1>6, LoadedState DEF AnswerLost, Counted, TypeOK
  <2> QED BY <1>4, <2>1
<1>7. CASE granted'[k] = granted[k] /\ storage'[k] = storage[k]
  BY <1>2, <1>7
<1>8. ASSUME NEW h \in Keys \ {k}, Allow(h) \/ AnswerLost(h)
      PROVE  granted'[k] = granted[k] /\ storage'[k] = storage[k]
  BY <1>1, <1>8, AllowGrants DEF AnswerLost, TypeOK
<1> QED BY <1>5, <1>6, <1>7, <1>8 DEF Next, Deny, Tick, Adjust, vars

(* A steady key is allowed at most twice its limit in any Window consecutive    *)
(* seconds: such a stretch meets at most two of its windows, and each hands out *)
(* the limit at most.                                                           *)
THEOREM SlidingBoundHolds == Spec => []SlidingBound
<1> USE LimiterAssumption
<1>1. Init => WindowsApart
  BY DEF Init, WindowsApart, Steady
<1>2. TypeOK /\ WindowAccounting /\ LockoutBound /\ WindowsApart /\ [Next]_vars => WindowsApart'
  BY WindowsStayApart
<1>3. TypeOK /\ WindowBound /\ WindowsApart => SlidingBound
  <2> SUFFICES ASSUME TypeOK, WindowBound, WindowsApart, NEW k \in Steady, NEW t \in Seconds
               PROVE  Cardinality(Within(granted[k], t, t + Window - 1)) <= 2 * Limit[k]
    BY DEF SlidingBound
  <2> DEFINE G == Within(granted[k], t, t + Window - 1)
             until(i) == granted[k][i].until
  <2> SUFFICES Cardinality(G) <= 2 * Limit[k]
    OBVIOUS
  <2>1. k \in Keys /\ Limit[k] \in Nat /\ t \in Nat /\ granted[k] \in Seq(Grants)
    BY DEF Steady, TypeOK
  <2>2. ASSUME NEW i \in G
        PROVE  /\ i \in DOMAIN granted[k] /\ until(i) \in Resets
               /\ t + 1 <= until(i) /\ until(i) <= t + 2 * Window - 1
    <3>1. i \in DOMAIN granted[k] /\ granted[k][i].at \in t..(t + Window - 1)
      BY DEF Within
    <3>2. granted[k][i] \in Grants
      BY <2>1, <3>1
    <3>3. granted[k][i].at < until(i) /\ until(i) <= granted[k][i].at + Window
      BY <3>1 DEF WindowsApart
    <3>4. /\ granted[k][i].at \in Nat /\ until(i) \in Resets /\ until(i) \in Nat
          /\ t <= granted[k][i].at /\ granted[k][i].at <= t + Window - 1
      BY <2>1, <3>1, <3>2 DEF Grants
    <3> HIDE DEF until
    <3> QED BY <2>1, <3>1, <3>3, <3>4
  <2>3. ASSUME NEW i \in G, NEW j \in G, until(i) < until(j)
        PROVE  until(i) + Window <= until(j)
    BY <2>2, <2>3 DEF WindowsApart
  <2>4. ASSUME NEW w \in Resets
        PROVE  /\ Cardinality(Until(granted[k], w)) <= Limit[k]
               /\ IsFiniteSet(Until(granted[k], w)) /\ Cardinality(Until(granted[k], w)) \in Nat
    BY <2>1, GrantsFinite DEF WindowBound
  (* of three different windows the last would end too late *)
  <2>5. ASSUME NEW u \in Resets, NEW v \in Resets, G \subseteq Until(granted[k], u) \cup Until(granted[k], v)
        PROVE  Cardinality(G) <= 2 * Limit[k]
    <3> DEFINE U == Until(granted[k], u)
               V == Until(granted[k], v)
    <3>1. /\ IsFiniteSet(U) /\ IsFiniteSet(V)
          /\ Cardinality(U) \in Nat /\ Cardinality(V) \in Nat
          /\ Cardinality(U) <= Limit[k] /\ Cardinality(V) <= Limit[k]
      BY <2>4
    <3> HIDE DEF G, U, V
    <3>2. IsFiniteSet(U \cup V) /\ Cardinality(U \cup V) = Cardinality(U) + Cardinality(V) - Cardinality(U \cap V)
      BY <3>1, FS_Union
    <3>3. Cardinality(U \cap V) \in Nat
      BY <3>1, FS_Intersection, FS_CardinalityType
    <3>4. G \in SUBSET (U \cup V)
      BY <2>5 DEF U, V
    <3>5. IsFiniteSet(G) /\ Cardinality(G) <= Cardinality(U \cup V)
      BY <3>2, <3>4, FS_Subset
    <3>6. Cardinality(G) \in Nat
      BY <3>5, FS_CardinalityType
    <3> QED BY <2>1, <3>1, <3>2, <3>3, <3>5, <3>6
  <2>6. CASE \A i, j \in G : until(i) = until(j)
    <3>1. CASE G = {}
      <4>1. 0 \in Resets
        OBVIOUS
      <4> HIDE DEF G
      <4>2. G \subseteq Until(granted[k], 0) \cup Until(granted[k], 0)
        BY <3>1
      <4> QED BY <2>5, <4>1, <4>2
    <3>2. CASE G # {}
      <4>1. PICK i \in G : TRUE
        BY <3>2
      <4>2. G \subseteq Until(granted[k], until(i))
        BY <2>2, <2>6, <4>1 DEF Until
      <4>3. until(i) \in Resets
        BY <2>2, <4>1
      <4>4. G \subseteq Until(granted[k], until(i)) \cup Until(granted[k], until(i))
        BY <4>2
      <4> HIDE DEF G, until
      <4> QED BY <2>5, <4>3, <4>4
    <3> QED BY <3>1, <3>2
  <2>7. ASSUME NEW i \in G, NEW j \in G, until(i) < until(j)
        PROVE  Cardinality(G) <= 2 * Limit[k]
    <3>1. ASSUME NEW h \in G PROVE until(h) = until(i) \/ until(h) = until(j)
      <4>1. /\ until(i) \in Nat /\ until(j) \in Nat /\ until(h) \in Nat
            /\ t + 1 <= until(i) /\ until(j) <= t + 2 * Window - 1
            /\ t + 1 <= until(h) /\ until(h) <= t + 2 * Window - 1
        BY <2>2, <3>1
      <4>2. /\ until(i) + Window <= until(j)
            /\ until(h) < until(i) => until(h) + Window <= until(i)
            /\ until(i) < until(h) => until(i) + Window <= until(h)
            /\ until(h) < until(j) => until(h) + Window <= until(j)
            /\ until(j) < until(h) => until(j) + Window <= until(h)
        BY <2>3, <2>7, <3>1
      <4> HIDE DEF until, G
      <4> QED BY <2>1, <4>1, <4>2
    <3>2. G \subseteq Until(granted[k], until(i)) \cup Until(granted[k], until(j))
      BY <2>2, <3>1 DEF Until
    <3> HIDE DEF G
    <3> QED BY <2>2, <2>5, <2>7, <3>2
  <2>8. ASSUME NEW i \in G, NEW j \in G, until(i) # until(j)
        PROVE  until(i) < until(j) \/ until(j) < until(i)
    BY <2>2, <2>8
  <2> QED BY <2>6, <2>7, <2>8
<1> QED BY <1>1, <1>2, <1>3, TypeCorrect, LockoutBoundHolds, WindowBoundHolds, PTL DEF Spec

(* To the keys whose host has a steady clock the limiter keeps the clockless     *)
(* promise, whatever happens to the other keys: a denial is given only when the  *)
(* quota is spent, the number left is exact, and the quota comes back in full or *)
(* not at all.                                                                   *)
THEOREM SteadyKeysImplementQuota == Spec => ImplementsQuota
<1> USE LimiterAssumption
<1> DEFINE left == [k \in Steady |-> Limit[k] - Loaded(k).count]
           told == [k \in Steady |-> answer[k]]
<1>1. Init => Quota!Init
  <2> SUFFICES ASSUME Init PROVE Quota!Init
    OBVIOUS
  <2>1. \A k \in Steady : Loaded(k).count = 0
    <3> TAKE k \in Steady
    <3>1. storage[k] = [count |-> 0, reset_at |-> 0]
      BY DEF Init, Steady
    <3>2. Loaded(k) = storage[k] \/ Loaded(k) = [count |-> 0, reset_at |-> now(k) + Window]
      BY Zenon DEF Loaded
    <3> QED BY <3>1, <3>2
  <2>2. left = [k \in Steady |-> Limit[k]]
    <3>1. \A k \in Steady : Limit[k] - 0 = Limit[k]
      BY DEF Steady
    <3> QED BY <2>1, <3>1
  <2>3. told = [k \in Steady |-> [allowed |-> TRUE, remaining |-> Limit[k]]]
    BY DEF Init, Steady
  <2> QED BY <2>2, <2>3 DEF Quota!Init, Quota!Allowed
<1>2. /\ TypeOK /\ WindowAccounting /\ (TypeOK /\ WindowAccounting)'
      /\ [Next]_vars
      => [Quota!Next]_(Quota!vars)
  <2> SUFFICES ASSUME TypeOK, WindowAccounting, TypeOK', WindowAccounting',
                      [Next]_vars
               PROVE  Quota!Next \/ UNCHANGED <<left, told>>
    BY DEF Quota!vars
  <2> USE DEF Quota!Next
  <2>1. \A k \in Steady : /\ k \in Keys /\ now(k) = time
                          /\ left[k] = Limit[k] - Loaded(k).count /\ left[k] \in Nat
    <3> SUFFICES ASSUME NEW k \in Steady
                 PROVE  /\ k \in Keys /\ now(k) = time
                        /\ left[k] \in Nat
      OBVIOUS
    <3>1. k \in Keys /\ now(k) = time
      BY SteadyClock
    <3>3. Loaded(k).count \in Nat /\ Loaded(k).count <= Limit[k] /\ Limit[k] \in Nat
      BY <3>1, LoadedState
    <3> QED BY <3>1, <3>3
  (* what counting one call of a key does to the quotas *)
  <2>2. ASSUME NEW k \in Keys, UNCHANGED <<time, lag>>, HasRoom(k),
               storage' = [storage EXCEPT ![k] = Counted(k)]
        PROVE  /\ \A j \in Steady \ {k} : left'[j] = left[j]
               /\ k \in Steady => left'[k] = left[k] - 1 /\ left[k] > 0
    <3>1. Loaded(k).count \in Nat /\ Loaded(k).count < Limit[k]
      BY <2>2, LoadedState DEF HasRoom
    <3>2. Loaded(k).reset_at > now(k)
      BY LoadedState
    <3>3. storage'[k] = [count |-> Loaded(k).count + 1,
                         reset_at |-> Loaded(k).reset_at]
      BY <2>2, LoadedState DEF Counted, TypeOK
    <3>4. Loaded(k)' = storage'[k]
      <4>1. now(k)' = now(k) /\ now(k) \in Seconds /\ Loaded(k).reset_at \in Nat
        BY <2>2, LoadedState DEF now
      <4> QED BY <3>2, <3>3, <4>1 DEF Loaded
    <3>5. \A j \in Keys \ {k} : Loaded(j)' = Loaded(j)
      BY <2>2 DEF Loaded, now, TypeOK
    <3>6. k \in Steady => left'[k] = left[k] - 1 /\ left[k] > 0
      BY <3>1, <3>3, <3>4
    <3> QED BY <3>5, <3>6 DEF Steady
  <2>3. ASSUME NEW k \in Keys, Allow(k) PROVE Quota!Next \/ UNCHANGED <<left, told>>
    <3>1. Remaining(k) = Limit[k] - Loaded(k).count - 1
      BY LoadedState DEF Remaining, Counted
    <3>2. CASE k \in Steady
      <4>1. left' = [left EXCEPT ![k] = @ - 1] /\ left[k] > 0
        BY <2>2, <2>3, <3>2 DEF Allow
      <4>2. told' = [told EXCEPT ![k] = [allowed |-> TRUE, remaining |-> left[k] - 1]]
        BY <2>1, <2>3, <3>1, <3>2 DEF Allow, Answer, TypeOK, Steady
      <4>3. Quota!Grant(k)
        BY <4>1, <4>2 DEF Quota!Grant, Quota!Allowed
      <4> QED BY <3>2, <4>3
    <3>3. CASE k \notin Steady
      <4>1. left' = left
        BY <2>2, <2>3, <3>3 DEF Allow
      <4>2. told' = told
        BY <2>3, <3>3 DEF Allow, Answer, TypeOK, Steady
      <4> QED BY <4>1, <4>2
    <3> QED BY <3>2, <3>3
  <2>4. ASSUME NEW k \in Keys, AnswerLost(k) PROVE Quota!Next \/ UNCHANGED <<left, told>>
    <3>1. told' = told
      BY <2>4 DEF AnswerLost
    <3>2. CASE k \in Steady
      <4>1. left' = [left EXCEPT ![k] = @ - 1] /\ left[k] > 0
        BY <2>2, <2>4, <3>2 DEF AnswerLost
      <4>2. Quota!Waste(k)
        BY <3>1, <4>1 DEF Quota!Waste
      <4> QED BY <3>2, <4>2
    <3>3. CASE k \notin Steady
      <4>1. left' = left
        BY <2>2, <2>4, <3>3 DEF AnswerLost
      <4> QED BY <3>1, <4>1
    <3> QED BY <3>2, <3>3
  <2>5. ASSUME NEW k \in Keys, Deny(k) PROVE Quota!Next \/ UNCHANGED <<left, told>>
    <3>1. left' = left
      BY <2>5 DEF Deny, Loaded, now
    <3>2. CASE k \in Steady
      <4>1. left[k] = 0
        <5>1. Loaded(k).count \in Nat /\ Loaded(k).count <= Limit[k] /\ Limit[k] \in Nat
          BY LoadedState
        <5> QED BY <2>5, <3>2, <5>1 DEF Deny, HasRoom
      <4>2. told' = [told EXCEPT ![k] = [allowed |-> FALSE, remaining |-> 0]]
        BY <2>5, <3>2 DEF Deny, Answer, TypeOK, Steady
      <4>3. Quota!Deny(k)
        BY <3>1, <4>1, <4>2 DEF Quota!Deny, Quota!Denied
      <4> QED BY <3>2, <4>3
    <3>3. CASE k \notin Steady
      <4>1. told' = told
        BY <2>5, <3>3 DEF Deny, Answer, TypeOK, Steady
      <4> QED BY <3>1, <4>1
    <3> QED BY <3>2, <3>3
  <2>6. CASE Tick
    <3> DEFINE S == {k \in Steady : time + 1 >= storage[k].reset_at}
    <3>0. ASSUME NEW k \in Steady
          PROVE  /\ now(k) = time /\ now(k)' = time + 1
                 /\ storage' = storage /\ time \in Nat /\ Limit[k] \in Nat
                 /\ storage[k].reset_at \in Nat
      <4>1. lag[k] = 0 /\ lag' = lag /\ k \in Keys
        BY <2>6, SteadyClock DEF Tick
      <4> QED BY <2>1, <2>6, <4>1 DEF Tick, now, TypeOK
    <3>1. ASSUME NEW k \in S PROVE left'[k] = Limit[k]
      <4>1. Loaded(k)'.count = 0
        BY <3>0, <3>1 DEF Loaded
      <4> QED BY <3>0, <4>1
    <3>2. ASSUME NEW k \in Steady \ S PROVE left'[k] = left[k]
      <4>1. Loaded(k)' = storage[k] /\ Loaded(k) = storage[k]
        BY <3>0, <3>2 DEF Loaded
      <4> QED BY <4>1
    <3>3. left' = [k \in Steady |-> IF k \in S THEN Limit[k] ELSE left[k]]
      BY <3>1, <3>2
    <3>4. told' = told
      BY <2>6 DEF Tick
    <3>5. S \in SUBSET Steady
      OBVIOUS
    <3>6. \E R \in SUBSET Steady : Quota!Refill(R)
      <4> HIDE DEF S, left, told
      <4>1. left' = [k \in Steady |-> IF k \in S THEN Limit[k] ELSE left[k]]
        BY <3>3
      <4> SUFFICES \E R \in SUBSET Steady :
                     /\ left' = [k \in Steady |-> IF k \in R THEN Limit[k] ELSE left[k]]
                     /\ told' = told
        BY DEF Quota!Refill, left, told
      <4> QED BY <3>4, <3>5, <4>1
    <3> QED BY <3>6
  <2>7. ASSUME NEW k \in Keys, Adjust(k) PROVE UNCHANGED <<left, told>>
    <3>1. \A j \in Steady : lag'[j] = lag[j]
      <4>1. PICK l \in 0..Skew[k] : lag' = [lag EXCEPT ![k] = l]
        BY <2>7 DEF Adjust
      <4>2. ASSUME k \in Steady PROVE l = 0 /\ lag[k] = 0
        BY <4>2, SteadyClock DEF Steady
      <4> QED BY <4>1, <4>2 DEF TypeOK, Steady
    <3>2. \A j \in Steady : Loaded(j)' = Loaded(j)
      BY <2>7, <3>1 DEF Adjust, Loaded, now
    <3> QED BY <2>7, <3>2 DEF Adjust
  <2>8. CASE UNCHANGED vars
    BY <2>8 DEF vars, Loaded, now
  <2> QED BY <2>3, <2>4, <2>5, <2>6, <2>7, <2>8 DEF Next
<1> QED BY <1>1, <1>2, TypeCorrect, PTL DEF Spec, ImplementsQuota, Quota!Spec
=============================================================================
