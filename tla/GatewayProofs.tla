----------------------------- MODULE GatewayProofs -----------------------------
(* The gateway's router for every set of requests, every mix of clients, every *)
(* capacity of the ring and every size of a page.                              *)
EXTENDS Gateway, SequenceTheorems, FiniteSetTheorems, TLAPS

(* Who draws an id, and the ids, contexts, lines and collectors there can be. *)
Authors == {"nobody", "client", "legacy client", "gateway", "auth", "lambda"}
Ids == [by : Authors \X Requests, upper : BOOLEAN]
Contexts == [trace : Ids, span : Ids]
LogLines == [service : Services, trace : Ids]
Collectors == [method : {"GET"}, path : Paths, requests : Nat, errors : Nat]

Typed == /\ TypeOK
         /\ ctx \in [Requests -> Contexts]
         /\ lines \in [Requests -> Seq(LogLines)]
         /\ page \in [Requests -> Seq(Collectors) \cup Seq(Events)]

LinesOf(r, service) == {i \in DOMAIN lines[r] : lines[r][i].service = service}

(* The trace a service works with, from the headers it got. *)
TraceOf(r, service) ==
    CASE service = "gateway" -> ctx[r].trace
      [] service = "auth" -> FromRequest(Forwarded(r), {}, <<"auth", r>>).trace
      [] service = "lambda" -> LambdaContext(ToTraceparent(ctx[r]), <<"lambda", r>>).trace

(* What a request is at each stage of route, and what the service behind it knows *)
(* of it: before its answer nothing, and that answer comes once.                  *)
Stage(r) ==
    /\ pc[r] = "new" => call[r] = NoCall /\ hop[r] = NoHop /\ lines[r] = <<>>
    /\ pc[r] # "new" =>
         /\ call[r] \in Calls
         /\ ctx[r] = FromRequest(Traceparent(r, call[r]), XTraceId(r, call[r]),
                                 <<"gateway", r>>)
    /\ pc[r] = "handling" => /\ call[r].method = "GET" /\ call[r].path \in Suspending
                             /\ Cardinality(OwnLines(r)) = 1
                             /\ call[r].path \in Hopping <=> hop[r] # NoHop
    /\ hop[r] \in {NoHop, Sent, Answered(hop[r].status)}
    /\ hop[r] # NoHop => call[r].path \in Hopping
    /\ hop[r].at # "answered" => LinesOf(r, "auth") = {} /\ LinesOf(r, "lambda") = {}
    /\ \A i \in DOMAIN lines[r] : lines[r][i].trace = TraceOf(r, lines[r][i].service)

(* A recorded request waits for nobody, so nothing said of it changes any more. *)
Settled == \A i \in DOMAIN served : LET r == served[i].request
                                    IN  pc[r] = "done" /\ call[r].method = "GET" /\ hop[r] # Sent

(* One collector per response, in the order of the responses, with what was *)
(* answered; a /metrics page is those of the responses before its own.      *)
OnePerResponse ==
    /\ Len(series) = Len(served)
    /\ \A i \in DOMAIN served :
         LET r == served[i].request
         IN  /\ series[i] = NewSeries(call[r], served[i].status)
             /\ call[r].path = "/metrics" => page[r] = SubSeq(series, 1, i - 1)

Inductive == /\ Typed
             /\ \A r \in Requests : Stage(r)
             /\ Settled /\ RecordedAsAnswered
             /\ RingIsNewest /\ OnePerResponse

LEMMA InitInductive == Init => Inductive
<1> SUFFICES ASSUME Init PROVE Inductive
  OBVIOUS
<1>0. RingCapacity \in Nat \ {0}
  BY GatewayAssumption
<1>1. \A r \in Requests, s \in Services : LinesOf(r, s) = {}
  BY DEF Init, LinesOf
<1>2. \A r \in Requests : New(<<"nobody", r>>) \in Contexts
  BY DEF New, Fresh, Contexts, Ids, Authors
<1>3. \A r \in Requests, s \in Services : Cardinality(LinesOf(r, s)) <= 2
  BY <1>1, FS_EmptySet
<1>9. /\ served \in Seq(Events) /\ ring \in Seq(Events) /\ series \in Seq(Collectors)
      /\ Len(served) = 0 /\ Len(series) = 0
  BY DEF Init
<1>4. TypeOK
  BY <1>3, <1>9 DEF Init, TypeOK, LinesOf, Collectors, NoHop
<1>5. Typed
  BY <1>2, <1>4, <1>9 DEF Init, Typed
<1>6. ASSUME NEW r \in Requests PROVE Stage(r)
  BY <1>1 DEF Init, Stage, Services, NoHop, Sent
<1>7. RingIsNewest
  <2>1. Newest(0, RingCapacity) = <<>>
    BY <1>0, SubSeqEmpty DEF Newest
  <2> QED
    BY <2>1, <1>9 DEF Init, RingIsNewest
<1>8. Settled /\ OnePerResponse /\ RecordedAsAnswered
  BY <1>9 DEF Init, Settled, OnePerResponse, RecordedAsAnswered
<1> QED
  BY <1>5, <1>6, <1>7, <1>8 DEF Inductive

(* What a service writes for a request: that many lines of its own, all in one *)
(* trace, after those that are there.                                          *)
LEMMA Emitted ==
    ASSUME Typed, NEW r \in Requests, NEW service \in Services, NEW c \in Contexts,
           NEW n \in {1, 2}, Emit(r, service, c, n)
    PROVE  /\ lines' \in [Requests -> Seq(LogLines)]
           /\ \A q \in Requests \ {r} : lines'[q] = lines[q]
           /\ \A i \in DOMAIN lines'[r] :
                \/ i \in DOMAIN lines[r] /\ lines'[r][i] = lines[r][i]
                \/ lines'[r][i] = Line(service, c)
           /\ \A s \in Services \ {service} : LinesOf(r, s)' = LinesOf(r, s)
           /\ IsFiniteSet(LinesOf(r, service))
           /\ Cardinality(LinesOf(r, service)') = Cardinality(LinesOf(r, service)) + n
<1> DEFINE new == [i \in 1..n |-> Line(service, c)]
           old == lines[r]
<1>1. /\ old \in Seq(LogLines) /\ Len(old) \in Nat /\ DOMAIN old = 1..Len(old)
      /\ lines \in [Requests -> Seq(LogLines)]
  BY DEF Typed
<1>2. Line(service, c) \in LogLines
  BY DEF Line, LogLines, Contexts
<1>3. new \in Seq(LogLines) /\ Len(new) = n
  BY <1>2
<1> DEFINE all == old \o new
<1>4. /\ all \in Seq(LogLines) /\ Len(all) = Len(old) + n /\ DOMAIN all = 1..(Len(old) + n)
      /\ \A i \in 1..Len(old) + n : all[i] = IF i <= Len(old) THEN old[i] ELSE Line(service, c)
  <2>1. /\ all \in Seq(LogLines) /\ Len(all) = Len(old) + Len(new)
        /\ \A i \in 1..Len(old) + Len(new) : all[i] = IF i <= Len(old) THEN old[i] ELSE new[i - Len(old)]
    BY <1>1, <1>3, ConcatProperties DEF all
  <2> QED
    BY <2>1, <1>1, <1>3
<1>5. lines' = [lines EXCEPT ![r] = all]
  BY DEF Emit
<1> HIDE DEF new, all
<1>6. lines'[r] = all
  BY <1>1, <1>5
<1>7. LinesOf(r, service) \subseteq 1..Len(old) /\ IsFiniteSet(LinesOf(r, service))
  <2>1. LinesOf(r, service) \in SUBSET (1..Len(old))
    BY <1>1 DEF LinesOf
  <2>2. IsFiniteSet(1..Len(old))
    BY <1>1, FS_Interval
  <2> QED
    BY <2>1, <2>2, FS_Subset
<1>8. LinesOf(r, service)' = IF n = 1 THEN LinesOf(r, service) \cup {Len(old) + 1}
                             ELSE LinesOf(r, service) \cup {Len(old) + 1} \cup {Len(old) + 2}
  BY <1>1, <1>4, <1>6 DEF LinesOf, Line
<1>9. \A s \in Services \ {service} : LinesOf(r, s)' = LinesOf(r, s)
  BY <1>1, <1>4, <1>6 DEF LinesOf, Line
<1>10. Cardinality(LinesOf(r, service)') = Cardinality(LinesOf(r, service)) + n
  <2> DEFINE S == LinesOf(r, service)
  <2>1. /\ Len(old) + 1 \notin S /\ Len(old) + 2 \notin S \cup {Len(old) + 1}
        /\ Cardinality(S) \in Nat
    BY <1>1, <1>7, FS_CardinalityType
  <2>2. /\ IsFiniteSet(S \cup {Len(old) + 1})
        /\ Cardinality(S \cup {Len(old) + 1}) = Cardinality(S) + 1
    BY <1>7, <2>1, FS_AddElement
  <2>3. Cardinality(S \cup {Len(old) + 1} \cup {Len(old) + 2}) = Cardinality(S) + 1 + 1
    BY <2>1, <2>2, FS_AddElement
  <2> HIDE DEF S
  <2> QED
    BY <1>8, <2>1, <2>2, <2>3 DEF S
<1> QED
  BY <1>1, <1>4, <1>5, <1>6, <1>7, <1>9, <1>10

(* Whatever headers come, every service works with a context of its kind. *)
LEMMA ContextsOfCalls ==
    ASSUME NEW r \in Requests, NEW c \in Calls, NEW service \in {"gateway", "auth"},
           NEW legacy \in {{}, XTraceId(r, c)}
    PROVE  FromRequest(Traceparent(r, c), legacy, <<service, r>>) \in Contexts
<1> DEFINE header == Traceparent(r, c)
           id == ClientId(r, c.headers.traceparent = "upper")
           ours == <<service, r>>
<1>1. c.headers.traceparent \in {"absent", "malformed", "lower", "upper"}
  BY GatewayAssumption DEF Calls
<1>2. id \in Ids /\ Fresh(ours) \in Ids
  BY DEF ClientId, Fresh, Ids, Authors
<1>3. \/ header \in {Absent, Malformed}
      \/ header = ToTraceparent([trace |-> id, span |-> id])
  BY <1>1 DEF Traceparent
<1>4. CASE header \in {Absent, Malformed}
  <2>1. FromTraceparent(header) = {}
    BY <1>4 DEF FromTraceparent, Absent, Malformed
  <2>2. legacy = {} \/ \E x \in Ids : legacy = {x}
    <3>1. [by |-> <<"legacy client", r>>, upper |-> FALSE] \in Ids
      BY DEF Ids, Authors
    <3> QED
      BY <3>1 DEF XTraceId
  <2>3. CASE legacy = {}
    BY <1>2, <2>1, <2>3 DEF FromRequest, New, Contexts
  <2>4. CASE \E x \in Ids : legacy = {x}
    <3>1. PICK x \in Ids : legacy = {x}
      BY <2>4
    <3> HIDE DEF header, ours
    <3>2. (CHOOSE y \in legacy : TRUE) = x
      BY <3>1
    <3>3. FromRequest(header, legacy, ours) = [trace |-> x, span |-> Fresh(ours)]
      BY <2>1, <3>1, <3>2 DEF FromRequest
    <3>4. FromRequest(header, legacy, ours) \in Contexts
      BY <1>2, <3>3 DEF Contexts
    <3> QED
      BY <3>4 DEF header, ours
  <2> QED
    BY <2>2, <2>3, <2>4
<1>5. CASE header = ToTraceparent([trace |-> id, span |-> id])
  <2>1. /\ FromTraceparent(header) # {} /\ header.ctx = [trace |-> id, span |-> id]
    BY <1>5 DEF FromTraceparent, ToTraceparent
  <2> QED
    BY <1>2, <2>1 DEF FromRequest, Contexts
<1> QED
  BY <1>3, <1>4, <1>5

LEMMA ContextOfLambda ==
    ASSUME NEW r \in Requests, NEW c \in Contexts
    PROVE  /\ LambdaContext(ToTraceparent(c), <<"lambda", r>>) \in Contexts
           /\ LambdaContext(ToTraceparent(c), <<"lambda", r>>).trace = LowerCase(c.trace)
BY DEF LambdaContext, ToTraceparent, FromTraceparent, LowerCase, Contexts, Ids

(* A step of one request, and one that nobody has recorded. *)
Others(r) == \A q \in Requests \ {r} :
    /\ pc'[q] = pc[q] /\ call'[q] = call[q] /\ ctx'[q] = ctx[q] /\ hop'[q] = hop[q]
    /\ answer'[q] = answer[q] /\ page'[q] = page[q] /\ lines'[q] = lines[q]

Unserved(r) == \A i \in DOMAIN served : served[i].request # r

(* It leaves every other request at its stage. *)
LEMMA OthersKeepStage ==
    ASSUME NEW r \in Requests, Others(r), NEW q \in Requests \ {r}, Stage(q)
    PROVE  Stage(q)'
<1>1. /\ pc'[q] = pc[q] /\ call'[q] = call[q] /\ ctx'[q] = ctx[q] /\ hop'[q] = hop[q]
      /\ lines'[q] = lines[q]
  BY DEF Others
<1>2. \A s : LinesOf(q, s)' = LinesOf(q, s) /\ TraceOf(q, s)' = TraceOf(q, s)
  BY <1>1 DEF LinesOf, TraceOf, Forwarded
<1>3. OwnLines(q)' = OwnLines(q)
  BY <1>1 DEF OwnLines
<1> QED
  BY <1>1, <1>2, <1>3 DEF Stage

(* A step of a request nobody has recorded disturbs no record. *)
LEMMA UnrecordedStep ==
    ASSUME Inductive, NEW r \in Requests, Others(r), Unserved(r),
           UNCHANGED <<series, ring, served>>
    PROVE  Settled' /\ RecordedAsAnswered' /\ RingIsNewest' /\ OnePerResponse'
<1>1. ASSUME NEW i \in DOMAIN served
      PROVE  LET q == served[i].request
             IN  /\ q \in Requests /\ q # r
                 /\ pc'[q] = pc[q] /\ call'[q] = call[q] /\ hop'[q] = hop[q]
                 /\ answer'[q] = answer[q] /\ page'[q] = page[q]
                 /\ OwnLines(q)' = OwnLines(q)
  <2>1. served[i].request \in Requests /\ served[i].request # r
    <3>1. served \in Seq(Events)
      BY DEF Inductive, Typed, TypeOK
    <3>2. served[i] \in Events
      BY <3>1, ElementOfSeq, LenProperties
    <3> QED
      BY <3>2 DEF Unserved, Events
  <2> QED
    BY <2>1 DEF Others, OwnLines
<1>2. Settled'
  BY <1>1 DEF Inductive, Settled
<1>3. RecordedAsAnswered'
  BY <1>1 DEF Inductive, RecordedAsAnswered
<1>4. RingIsNewest'
  BY <1>1 DEF Inductive, RingIsNewest, Newest
<1>5. OnePerResponse'
  BY <1>1 DEF Inductive, OnePerResponse
<1> QED
  BY <1>2, <1>3, <1>4, <1>5

(* The newest of a sequence's first n, as many as there are up to a size. *)
Skipped(n, size) == IF n > size THEN n - size ELSE 0
Latest(s, n, size) == SubSeq(s, Skipped(n, size) + 1, n)

LEMMA NewestIsLatest == \A n, size : Newest(n, size) = Latest(served, n, size)
BY DEF Newest, Latest, Skipped

LEMMA LatestOf ==
    ASSUME NEW S, NEW s \in Seq(S), NEW n \in 0..Len(s), NEW size \in Nat
    PROVE  /\ Latest(s, n, size) \in Seq(S)
           /\ Len(Latest(s, n, size)) = n - Skipped(n, size)
           /\ \A i \in 1..n - Skipped(n, size) :
                Latest(s, n, size)[i] = s[Skipped(n, size) + i]
<1> DEFINE first == Skipped(n, size)
<1>1. /\ Len(s) \in Nat /\ \A i \in 1..Len(s) : s[i] \in S
  BY LenProperties, ElementOfSeq
<1>2. first \in 0..n /\ n \in Int
  BY <1>1 DEF Skipped
<1> HIDE DEF first
<1>3. \A i \in first + 1..n : s[i] \in S
  BY <1>1, <1>2
<1>4. /\ SubSeq(s, first + 1, n) \in Seq(S)
      /\ Len(SubSeq(s, first + 1, n)) = IF first + 1 <= n THEN n - (first + 1) + 1 ELSE 0
      /\ \A i \in 1..n - (first + 1) + 1 : SubSeq(s, first + 1, n)[i] = s[first + 1 + i - 1]
  BY <1>2, <1>3, SubSeqProperties
<1>5. /\ SubSeq(s, first + 1, n) \in Seq(S) /\ Len(SubSeq(s, first + 1, n)) = n - first
      /\ \A i \in 1..n - first : SubSeq(s, first + 1, n)[i] = s[first + i]
  BY <1>2, <1>4
<1> QED
  BY <1>5 DEF first, Latest

LEMMA SmallerOf ==
    ASSUME NEW a \in Nat, NEW b \in Nat
    PROVE  Min({a, b}) = IF a < b THEN a ELSE b
<1>1. \E x \in {a, b} : \A y \in {a, b} : x =< y
  OBVIOUS
<1>2. Min({a, b}) \in {a, b} /\ \A y \in {a, b} : Min({a, b}) =< y
  BY <1>1 DEF Min
<1> QED
  BY <1>2

LEMMA ReverseOf ==
    ASSUME NEW S, NEW s \in Seq(S)
    PROVE  /\ Reverse(s) \in Seq(S) /\ Len(Reverse(s)) = Len(s)
           /\ \A i \in 1..Len(s) : Reverse(s)[i] = s[Len(s) - i + 1]
<1>1. Len(s) \in Nat /\ \A i \in 1..Len(s) : s[i] \in S
  BY LenProperties, ElementOfSeq
<1>2. \A i \in 1..Len(s) : s[Len(s) - i + 1] \in S
  BY <1>1
<1> QED
  BY <1>1, <1>2 DEF Reverse

(* A response more does not touch what was newest before it, *)
LEMMA LatestStays ==
    ASSUME NEW S, NEW s \in Seq(S), NEW e \in S, NEW n \in 0..Len(s), NEW size \in Nat
    PROVE  Latest(Append(s, e), n, size) = Latest(s, n, size)
<1> DEFINE new == Append(s, e)
<1>1. /\ new \in Seq(S) /\ Len(new) = Len(s) + 1 /\ Len(s) \in Nat
      /\ \A i \in 1..Len(s) : new[i] = s[i]
  BY AppendProperties, LenProperties
<1> HIDE DEF new
<1>2. /\ Latest(s, n, size) \in Seq(S) /\ Len(Latest(s, n, size)) = n - Skipped(n, size)
      /\ \A i \in 1..n - Skipped(n, size) :
           Latest(s, n, size)[i] = s[Skipped(n, size) + i]
  BY LatestOf
<1>3. n \in 0..Len(new)
  BY <1>1
<1>4. /\ Latest(new, n, size) \in Seq(S) /\ Len(Latest(new, n, size)) = n - Skipped(n, size)
      /\ \A i \in 1..n - Skipped(n, size) :
           Latest(new, n, size)[i] = new[Skipped(n, size) + i]
  BY <1>1, <1>3, LatestOf
<1>5. \A i \in 1..n - Skipped(n, size) : Skipped(n, size) + i \in 1..Len(s)
  BY <1>1 DEF Skipped
<1>7. n - Skipped(n, size) \in Nat
  BY <1>1 DEF Skipped
<1>8. \A i \in 1..n - Skipped(n, size) : Latest(new, n, size)[i] = Latest(s, n, size)[i]
  BY <1>1, <1>2, <1>4, <1>5
<1> DEFINE a == Latest(new, n, size)
           b == Latest(s, n, size)
<1>9. a \in Seq(S) /\ b \in Seq(S) /\ Len(a) = Len(b) /\ \A i \in 1..Len(a) : a[i] = b[i]
  BY <1>2, <1>4, <1>8
<1>6. Latest(new, n, size) = Latest(s, n, size)
  <2> HIDE DEF a, b
  <2>1. a = b
    BY <1>9, SeqEqual
  <2> QED
    BY <2>1 DEF a, b
<1> QED
  BY <1>6 DEF new

(* the ring follows, *)
LEMMA RingFollows ==
    ASSUME served \in Seq(Events), NEW e \in Events,
           ring = Latest(served, Len(served), RingCapacity), PushRing(e)
    PROVE  ring' = Latest(Append(served, e), Len(served) + 1, RingCapacity)
<1> DEFINE n == Len(served)
           m == n + 1
           new == Append(served, e)
           target == Latest(new, m, RingCapacity)
           kept == Skipped(n, RingCapacity)
           left == Skipped(m, RingCapacity)
<1>0. RingCapacity \in Nat /\ RingCapacity > 0
  BY GatewayAssumption
<1>1. /\ new \in Seq(Events) /\ Len(new) = m /\ n \in Nat /\ m \in Nat /\ m = n + 1
      /\ \A i \in 1..n : new[i] = served[i]
      /\ new[m] = e
      /\ n \in 0..Len(served)
  BY AppendProperties, LenProperties
<1>7. new \in Seq(Events) /\ m \in 0..Len(new)
  BY <1>1
<1>8. n \in Nat /\ m = n + 1
  BY <1>1
<1> HIDE DEF new, n, m
<1>2. /\ ring \in Seq(Events) /\ Len(ring) = n - kept
      /\ \A i \in 1..n - kept : ring[i] = served[kept + i]
  <2>1. RingCapacity \in Nat /\ n \in 0..Len(served) /\ served \in Seq(Events)
    BY <1>0, <1>1
  <2>2. /\ Latest(served, n, RingCapacity) \in Seq(Events)
        /\ Len(Latest(served, n, RingCapacity)) = n - kept
        /\ \A i \in 1..n - kept : Latest(served, n, RingCapacity)[i] = served[kept + i]
    BY <2>1, LatestOf
  <2>3. ring = Latest(served, n, RingCapacity)
    BY DEF n
  <2> QED
    BY <2>2, <2>3
<1>3. /\ target \in Seq(Events) /\ Len(target) = m - left
      /\ \A i \in 1..m - left : target[i] = new[left + i]
  BY <1>0, <1>7, LatestOf
<1> HIDE DEF target, kept, left
<1>4. CASE n >= RingCapacity
  <2>0. kept = n - RingCapacity /\ left = kept + 1 /\ kept \in Nat
    BY <1>0, <1>1, <1>4 DEF Skipped, kept, left
  <2>1. Len(ring) = RingCapacity /\ ring # <<>>
    BY <1>0, <1>1, <1>2, <2>0, EmptySeq
  <2>2. ring' = Append(Tail(ring), e)
    BY <2>1, <1>0 DEF PushRing
  <2>3. /\ Tail(ring) \in Seq(Events) /\ Len(Tail(ring)) = RingCapacity - 1
        /\ \A i \in 1..RingCapacity - 1 : Tail(ring)[i] = ring[i + 1]
    BY <1>2, <2>1, HeadTailProperties
  <2>4. /\ ring' \in Seq(Events) /\ Len(ring') = RingCapacity
        /\ \A i \in 1..RingCapacity - 1 : ring'[i] = ring[i + 1]
        /\ ring'[RingCapacity] = e
    BY <2>2, <2>3, <1>0, AppendProperties
  <2>5. ASSUME NEW i \in 1..RingCapacity PROVE ring'[i] = target[i]
    <3>1. CASE i # RingCapacity
      <4>1. i \in 1..RingCapacity - 1 /\ i + 1 \in 1..n - kept /\ i \in 1..m - left
            /\ kept + (i + 1) \in 1..n /\ left + i = kept + (i + 1)
        <5>1. i \in 1..RingCapacity - 1 /\ i \in Int
          BY <1>0, <3>1
        <5>2. m - left = RingCapacity /\ n - kept = RingCapacity
          BY <1>0, <1>8, <2>0
        <5>3. i + 1 \in 1..n - kept /\ i \in 1..m - left
          BY <1>0, <5>1, <5>2
        <5>4. kept + (i + 1) \in 1..n /\ left + i = kept + (i + 1)
          BY <1>0, <1>8, <2>0, <5>1
        <5> QED
          BY <5>1, <5>3, <5>4
      <4>2. ring'[i] = served[kept + (i + 1)]
        BY <1>2, <2>4, <4>1
      <4>3. target[i] = new[kept + (i + 1)]
        BY <1>3, <4>1
      <4> QED
        BY <1>1, <4>1, <4>2, <4>3
    <3>2. CASE i = RingCapacity
      <4>1. m - left = RingCapacity /\ left + RingCapacity = m
        BY <1>0, <1>8, <2>0
      <4>3. i \in 1..m - left /\ left + i = m
        BY <1>0, <3>2, <4>1
      <4> QED
        BY <1>1, <1>3, <2>4, <3>2, <4>3
    <3> QED
      BY <3>1, <3>2
  <2>6. Len(target) = RingCapacity
    BY <1>0, <1>1, <1>3, <2>0
  <2>7. ring' = target
    BY <1>3, <2>4, <2>5, <2>6, SeqEqual
  <2> QED
    BY <2>7 DEF target, n, m, new
<1>5. CASE n < RingCapacity
  <2>0. kept = 0 /\ left = 0
    BY <1>0, <1>1, <1>5 DEF Skipped, kept, left
  <2>1. Len(ring) = n /\ ring' = Append(ring, e)
    BY <1>0, <1>1, <1>2, <1>5, <2>0 DEF PushRing
  <2>2. /\ ring' \in Seq(Events) /\ Len(ring') = m
        /\ \A i \in 1..n : ring'[i] = ring[i]
        /\ ring'[m] = e
    BY <1>1, <2>1, <1>2, AppendProperties
  <2>3. Len(target) = m /\ \A i \in 1..m : target[i] = new[i]
    BY <1>1, <1>3, <2>0
  <2>4. ASSUME NEW i \in 1..m PROVE ring'[i] = target[i]
    <3>1. i = m \/ i \in 1..n
      BY <1>1
    <3>2. i \in 1..n => ring[i] = served[i]
      BY <1>1, <1>2, <2>0
    <3> QED
      BY <1>1, <2>2, <2>3, <3>1, <3>2
  <2>5. ring' = target
    BY <1>3, <2>2, <2>3, <2>4, SeqEqual
  <2> QED
    BY <2>5 DEF target, n, m, new
<1> QED
  BY <1>0, <1>1, <1>4, <1>5

(* and a page shows the newest of both. *)
LEMMA PageShows ==
    ASSUME served \in Seq(Events), ring = Latest(served, Len(served), RingCapacity)
    PROVE  Recent(PageSize) = Reverse(Latest(served, Len(served), Min({RingCapacity, PageSize})))
<1> DEFINE n == Len(served)
           size == IF RingCapacity < PageSize THEN RingCapacity ELSE PageSize
           shown == Latest(served, n, size)
           limit == IF PageSize < Len(ring) THEN PageSize ELSE Len(ring)
           back == Reverse(ring)
           kept == Skipped(n, RingCapacity)
           left == Skipped(n, size)
<1>0. /\ RingCapacity \in Nat /\ PageSize \in Nat /\ n \in Nat /\ size \in Nat
      /\ n \in 0..Len(served)
  BY GatewayAssumption, LenProperties
<1>9. /\ kept = (IF n > RingCapacity THEN n - RingCapacity ELSE 0)
      /\ left = (IF n > size THEN n - size ELSE 0)
      /\ size = (IF RingCapacity < PageSize THEN RingCapacity ELSE PageSize)
  BY DEF Skipped
<1>11. ring = Latest(served, n, RingCapacity)
  OBVIOUS
<1> HIDE DEF n, size
<1>1. /\ ring \in Seq(Events) /\ Len(ring) = n - kept
      /\ \A i \in 1..n - kept : ring[i] = served[kept + i]
  <2>1. RingCapacity \in Nat /\ n \in 0..Len(served) /\ served \in Seq(Events)
    BY <1>0
  <2>2. /\ Latest(served, n, RingCapacity) \in Seq(Events)
        /\ Len(Latest(served, n, RingCapacity)) = n - kept
        /\ \A i \in 1..n - kept : Latest(served, n, RingCapacity)[i] = served[kept + i]
    BY <2>1, LatestOf
  <2> QED
    BY <2>2, <1>11
<1>2. /\ shown \in Seq(Events) /\ Len(shown) = n - left
      /\ \A i \in 1..n - left : shown[i] = served[left + i]
  BY <1>0, LatestOf
<1>3. /\ back \in Seq(Events) /\ Len(back) = Len(ring)
      /\ \A i \in 1..Len(ring) : back[i] = ring[Len(ring) - i + 1]
  BY <1>1, ReverseOf
<1>4. /\ Reverse(shown) \in Seq(Events) /\ Len(Reverse(shown)) = Len(shown)
      /\ \A i \in 1..Len(shown) : Reverse(shown)[i] = shown[Len(shown) - i + 1]
  BY <1>2, ReverseOf
<1> HIDE DEF kept, left, shown, back
<1>5. /\ kept \in Nat /\ left \in Nat /\ Len(ring) \in Nat
      /\ limit = n - left /\ limit \in Nat /\ limit <= Len(ring)
  BY <1>0, <1>1, <1>9
<1> HIDE DEF limit
<1>6. /\ SubSeq(back, 1, limit) \in Seq(Events) /\ Len(SubSeq(back, 1, limit)) = limit
      /\ \A i \in 1..limit : SubSeq(back, 1, limit)[i] = back[i]
  <2>1. \A i \in 1..limit : back[i] \in Events
    <3>1. \A i \in 1..Len(back) : back[i] \in Events
      BY <1>3, ElementOfSeq
    <3> QED
      BY <1>3, <1>5, <3>1
  <2>2. /\ SubSeq(back, 1, limit) \in Seq(Events)
        /\ Len(SubSeq(back, 1, limit)) = IF 1 <= limit THEN limit - 1 + 1 ELSE 0
        /\ \A i \in 1..limit - 1 + 1 : SubSeq(back, 1, limit)[i] = back[1 + i - 1]
    BY <1>5, <2>1, SubSeqProperties
  <2> QED
    BY <1>5, <2>2
<1>7. ASSUME NEW i \in 1..limit PROVE back[i] = Reverse(shown)[i]
  <2> DEFINE j == Len(ring) - i + 1
             k == limit - i + 1
  <2>1. i \in 1..Len(ring) /\ j \in 1..n - kept /\ k \in 1..n - left
        /\ i \in 1..Len(shown) /\ Len(shown) = limit /\ kept + j = left + k
    BY <1>0, <1>1, <1>2, <1>5
  <2>2. back[i] = ring[j] /\ Reverse(shown)[i] = shown[k]
    BY <1>3, <1>4, <2>1
  <2> HIDE DEF j, k
  <2> QED
    BY <1>1, <1>2, <2>1, <2>2
<1>8. SubSeq(back, 1, limit) = Reverse(shown)
  <2> DEFINE a == SubSeq(back, 1, limit)
             b == Reverse(shown)
  <2>1. /\ a \in Seq(Events) /\ b \in Seq(Events) /\ Len(a) = Len(b)
        /\ \A i \in 1..Len(a) : a[i] = b[i]
    BY <1>2, <1>4, <1>5, <1>6, <1>7
  <2> HIDE DEF a, b
  <2>2. a = b
    BY <2>1, SeqEqual
  <2> QED
    BY <2>2 DEF a, b
<1>10. Min({RingCapacity, PageSize}) = size
  BY <1>0, <1>9, SmallerOf
<1> QED
  BY <1>8, <1>10 DEF Recent, back, limit, shown, n

(* Nobody writes more than two lines, and all of a service's are in its own trace. *)
LEMMA EmittedBounded ==
    ASSUME Typed, NEW r \in Requests, NEW service \in Services, NEW c \in Contexts,
           NEW n \in {1, 2}, Emit(r, service, c, n), Cardinality(LinesOf(r, service)) + n <= 2
    PROVE  \A q \in Requests, s \in Services : Cardinality(LinesOf(q, s)') <= 2
<1> SUFFICES ASSUME NEW q \in Requests, NEW s \in Services
             PROVE  Cardinality(LinesOf(q, s)') <= 2
  OBVIOUS
<1>1. Cardinality(LinesOf(q, s)) <= 2
  BY DEF Typed, TypeOK, LinesOf
<1>2. /\ q # r => lines'[q] = lines[q]
      /\ s # service => LinesOf(r, s)' = LinesOf(r, s)
      /\ Cardinality(LinesOf(r, service)') = Cardinality(LinesOf(r, service)) + n
  BY Emitted
<1>3. q # r => LinesOf(q, s)' = LinesOf(q, s)
  BY <1>2 DEF LinesOf
<1>4. CASE q # r
  BY <1>1, <1>3, <1>4
<1>5. CASE q = r /\ s # service
  BY <1>1, <1>2, <1>5
<1>6. CASE q = r /\ s = service
  BY <1>2, <1>6
<1> QED
  BY <1>4, <1>5, <1>6

(* The head of route: a request nobody knows gets its call, its context and lines. *)
LEMMA Accepted ==
    ASSUME Inductive, NEW r \in Requests, NEW c \in Calls, NEW n \in {1, 2},
           Accept(r, c), Emit(r, "gateway", ctx'[r], n)
    PROVE  /\ pc[r] = "new" /\ hop[r] = NoHop /\ Unserved(r)
           /\ call' \in [Requests -> Calls \cup {NoCall}] /\ call'[r] = c
           /\ ctx' \in [Requests -> Contexts]
           /\ ctx'[r] = FromRequest(Traceparent(r, c), XTraceId(r, c), <<"gateway", r>>)
           /\ lines' \in [Requests -> Seq(LogLines)]
           /\ \A q \in Requests \ {r} : /\ call'[q] = call[q] /\ ctx'[q] = ctx[q]
                                        /\ lines'[q] = lines[q]
           /\ \A i \in DOMAIN lines'[r] : lines'[r][i] = Line("gateway", ctx'[r])
           /\ Cardinality(OwnLines(r)') = n
           /\ LinesOf(r, "auth")' = {} /\ LinesOf(r, "lambda")' = {}
           /\ \A q \in Requests, s \in Services : Cardinality(LinesOf(q, s)') <= 2
<1>1. /\ pc[r] = "new" /\ call[r] = NoCall /\ hop[r] = NoHop /\ lines[r] = <<>>
  BY DEF Accept, Inductive, Stage
<1>2. Unserved(r)
  BY <1>1 DEF Inductive, Settled, Unserved
<1>3. FromRequest(Traceparent(r, c), XTraceId(r, c), <<"gateway", r>>) \in Contexts
  BY ContextsOfCalls
<1>4. /\ call \in [Requests -> Calls \cup {NoCall}] /\ ctx \in [Requests -> Contexts]
      /\ Typed
  BY DEF Inductive, Typed, TypeOK
<1>5. /\ call' \in [Requests -> Calls \cup {NoCall}] /\ call'[r] = c
      /\ \A q \in Requests \ {r} : call'[q] = call[q]
  BY <1>4 DEF Accept
<1>6. /\ ctx' \in [Requests -> Contexts]
      /\ ctx'[r] = FromRequest(Traceparent(r, c), XTraceId(r, c), <<"gateway", r>>)
      /\ \A q \in Requests \ {r} : ctx'[q] = ctx[q]
  BY <1>3, <1>4 DEF Accept
<1>7. ctx'[r] \in Contexts /\ "gateway" \in Services
  BY <1>6 DEF Services
<1>8. /\ lines' \in [Requests -> Seq(LogLines)]
      /\ \A q \in Requests \ {r} : lines'[q] = lines[q]
      /\ \A i \in DOMAIN lines'[r] :
           \/ i \in DOMAIN lines[r] /\ lines'[r][i] = lines[r][i]
           \/ lines'[r][i] = Line("gateway", ctx'[r])
      /\ \A s \in Services \ {"gateway"} : LinesOf(r, s)' = LinesOf(r, s)
      /\ Cardinality(LinesOf(r, "gateway")') = Cardinality(LinesOf(r, "gateway")) + n
  BY <1>4, <1>7, Emitted
<1>9. DOMAIN lines[r] = {} /\ \A s \in Services : LinesOf(r, s) = {}
  BY <1>1 DEF LinesOf
<1>10. /\ LinesOf(r, "auth")' = {} /\ LinesOf(r, "lambda")' = {}
       /\ \A i \in DOMAIN lines'[r] : lines'[r][i] = Line("gateway", ctx'[r])
  BY <1>8, <1>9 DEF Services
<1>11. Cardinality(LinesOf(r, "gateway")) = 0
  BY <1>7, <1>9, FS_EmptySet
<1>12. Cardinality(OwnLines(r)') = n
  BY <1>8, <1>11 DEF OwnLines, LinesOf
<1>13. \A q \in Requests, s \in Services : Cardinality(LinesOf(q, s)') <= 2
  BY <1>4, <1>7, <1>11, EmittedBounded
<1> QED
  BY <1>1, <1>2, <1>5, <1>6, <1>8, <1>10, <1>12, <1>13

(* The recorded answer as RecordedAsAnswered has it, of one response. *)
Own(log) == {i \in DOMAIN log : log[i].service = "gateway"}

Faithful(i) == LET r == served[i].request
               IN  /\ answer[r] = served[i].status
                   /\ Cardinality(Own(lines[r])) = 2
                   /\ call[r].path = "/protected" =>
                        answer[r] = (IF hop[r] = Answered(200) THEN 200 ELSE 403)
                   /\ call[r].path = "/lambda/query" =>
                        hop[r] \in {NoHop, Answered(answer[r])}

Once == \A i, j \in DOMAIN served : served[i].request = served[j].request => i = j

LEMMA RecordedAre == RecordedAsAnswered <=> Once /\ \A i \in DOMAIN served : Faithful(i)
<1>1. RecordedAsAnswered => Once /\ \A i \in DOMAIN served : Faithful(i)
  BY DEF RecordedAsAnswered, Once, Faithful, Own, OwnLines
<1>2. ASSUME Once, \A i \in DOMAIN served : Faithful(i) PROVE RecordedAsAnswered
  <2>1. ASSUME NEW r \in Requests, Cardinality(OwnLines(r)) = 1, NEW i \in DOMAIN served
        PROVE  served[i].request # r
    <3>1. Cardinality(OwnLines(served[i].request)) = 2
      BY <1>2 DEF Faithful, Own, OwnLines
    <3> QED
      BY <2>1, <3>1
  <2> QED
    BY <1>2, <2>1 DEF RecordedAsAnswered, Once, Faithful, Own, OwnLines
<1> QED
  BY <1>1, <1>2

LEMMA RecordedThen == Once' /\ (\A i \in DOMAIN served : Faithful(i))' => RecordedAsAnswered'
BY RecordedAre, PTL

(* The end of route: a request nobody has recorded is recorded, once, as it was *)
(* answered, in the registry, the ring and the order of responses.              *)
LEMMA Responded ==
    ASSUME Inductive, NEW r \in Requests, Unserved(r), Others(r),
           NEW c \in Calls, c.method = "GET", NEW status \in Nat, Respond(r, c, status),
           call' = [call EXCEPT ![r] = c], hop'[r] # Sent,
           Cardinality(OwnLines(r)') = 2,
           c.path = "/protected" => status = (IF hop'[r] = Answered(200) THEN 200 ELSE 403),
           c.path = "/lambda/query" => hop'[r] \in {NoHop, Answered(status)},
           c.path = "/metrics" => page'[r] = Export,
           c.path = "/logs" => page'[r] = Recent(PageSize)
    PROVE  /\ Settled' /\ RecordedAsAnswered' /\ RingIsNewest' /\ OnePerResponse'
           /\ pc' \in [Requests -> {"new", "handling", "done"}] /\ pc'[r] = "done"
           /\ answer' \in [Requests -> Nat]
           /\ series' \in Seq(Collectors) /\ ring' \in Seq(Events) /\ served' \in Seq(Events)
<1> DEFINE e == [request |-> r, status |-> status]
           n == Len(served)
<1>1. /\ served \in Seq(Events) /\ ring \in Seq(Events) /\ series \in Seq(Collectors)
      /\ Len(series) = n /\ n \in Nat
      /\ pc \in [Requests -> {"new", "handling", "done"}] /\ answer \in [Requests -> Nat]
      /\ call \in [Requests -> Calls \cup {NoCall}]
  BY LenProperties DEF Inductive, Typed, TypeOK, OnePerResponse, Collectors
<1>2. /\ e \in Events /\ NewSeries(c, status) \in Collectors
  BY DEF Events, Collectors, NewSeries, Calls
<1>3. /\ pc' \in [Requests -> {"new", "handling", "done"}] /\ pc'[r] = "done"
      /\ answer' \in [Requests -> Nat] /\ answer'[r] = status /\ call'[r] = c
      /\ served' = Append(served, e) /\ series' = Append(series, NewSeries(c, status))
      /\ PushRing(e)
  BY <1>1 DEF Respond, Register
<1>4. /\ served' \in Seq(Events) /\ Len(served') = n + 1 /\ DOMAIN served' = 1..n + 1
      /\ \A i \in 1..n : served'[i] = served[i]
      /\ served'[n + 1] = e /\ DOMAIN served = 1..n
  BY <1>1, <1>2, <1>3, AppendProperties, LenProperties
<1>5. /\ series' \in Seq(Collectors) /\ Len(series') = n + 1
      /\ \A i \in 1..n : series'[i] = series[i]
      /\ series'[n + 1] = NewSeries(c, status)
  BY <1>1, <1>2, <1>3, AppendProperties
<1>6. ASSUME NEW i \in 1..n
      PROVE  LET q == served[i].request
             IN  /\ q \in Requests /\ q # r
                 /\ pc'[q] = pc[q] /\ call'[q] = call[q] /\ hop'[q] = hop[q]
                 /\ answer'[q] = answer[q] /\ page'[q] = page[q] /\ lines'[q] = lines[q]
  <2>1. served[i] \in Events
    BY <1>1, ElementOfSeq
  <2>2. served[i].request \in Requests /\ served[i].request # r
    BY <1>4, <2>1 DEF Unserved, Events
  <2> QED
    BY <2>2 DEF Others
<1>7. \A i \in 1..n + 1 : \/ i \in 1..n /\ served'[i] = served[i]
                          \/ i = n + 1 /\ served'[i].request = r /\ served'[i].status = status
  BY <1>1, <1>4
<1> HIDE DEF e
<1>8. Settled'
  <2> SUFFICES ASSUME NEW i \in DOMAIN served'
               PROVE  LET q == served'[i].request
                      IN  pc'[q] = "done" /\ call'[q].method = "GET" /\ hop'[q] # Sent
    BY DEF Settled, Sent
  <2>1. CASE i \in 1..n
    <3>1. LET q == served[i].request
          IN  pc[q] = "done" /\ call[q].method = "GET" /\ hop[q] # Sent
      BY <1>4, <2>1 DEF Inductive, Settled
    <3> QED
      BY <1>4, <1>6, <2>1, <3>1
  <2>2. CASE i = n + 1
    BY <1>3, <1>7, <2>2
  <2> QED
    BY <1>4, <1>7, <2>1, <2>2
<1>9. RecordedAsAnswered'
  <2>1. ASSUME NEW i \in DOMAIN served', NEW j \in DOMAIN served',
               served'[i].request = served'[j].request
        PROVE  i = j
    <3>1. i \in 1..n /\ j \in 1..n => i = j
      BY <1>4, <2>1 DEF Inductive, RecordedAsAnswered
    <3> QED
      BY <1>4, <1>6, <1>7, <2>1, <3>1
  <2>2. ASSUME NEW i \in DOMAIN served' PROVE Faithful(i)'
    <3>1. CASE i \in 1..n
      <4>1. Faithful(i)
        BY <1>4, <3>1, RecordedAre DEF Inductive
      <4> DEFINE q == served[i].request
      <4>2. /\ served'[i] = served[i] /\ answer'[q] = answer[q] /\ call'[q] = call[q]
            /\ hop'[q] = hop[q] /\ lines'[q] = lines[q]
        BY <1>4, <1>6, <3>1
      <4> QED
        BY <4>1, <4>2 DEF Faithful, Answered, NoHop
    <3>2. CASE i = n + 1
      <4>1. served'[i].request = r /\ served'[i].status = status
        BY <1>1, <1>4, <1>7, <3>2
      <4>2. Cardinality(Own(lines'[r])) = 2
        BY DEF Own, OwnLines
      <4> QED
        BY <1>3, <4>1, <4>2 DEF Faithful, Answered, NoHop
    <3> QED
      BY <1>4, <1>7, <3>1, <3>2
  <2> QED
    <3>1. Once' /\ \A i \in DOMAIN served' : Faithful(i)'
      BY <2>1, <2>2 DEF Once
    <3> QED
      BY <3>1, RecordedThen
<1>10. RingIsNewest'
  <2>1. ring = Latest(served, n, RingCapacity)
    BY NewestIsLatest DEF Inductive, RingIsNewest
  <2>2. ring' = Latest(served', n + 1, RingCapacity)
    BY <1>1, <1>2, <1>3, <2>1, RingFollows
  <2>3. ring' = Newest(Len(served), RingCapacity)'
    BY <1>4, <2>2 DEF Newest, Latest, Skipped
  <2>4. RingCapacity \in Nat /\ PageSize \in Nat
    BY GatewayAssumption
  <2> DEFINE size == Min({RingCapacity, PageSize})
  <2>5. size \in Nat
    BY <2>4, SmallerOf
  <2> HIDE DEF size
  <2>6. \A m \in 0..n : Newest(m, size)' = Newest(m, size)
    <3> SUFFICES ASSUME NEW m \in 0..n PROVE Newest(m, size)' = Newest(m, size)
      OBVIOUS
    <3>1. Latest(served', m, size) = Latest(served, m, size)
      BY <1>1, <1>2, <1>3, <2>5, LatestStays
    <3> QED
      BY <3>1 DEF Newest, Latest, Skipped
  <2>7. ASSUME NEW i \in DOMAIN served', call'[served'[i].request].path = "/logs"
        PROVE  page'[served'[i].request] = Reverse(Newest(i - 1, size)')
    <3>1. CASE i \in 1..n
      <4>1. i - 1 \in 0..n
        BY <1>1, <3>1
      <4>2. page[served[i].request] = Reverse(Newest(i - 1, size))
        <5>1. call[served[i].request].path = "/logs"
          BY <1>4, <1>6, <2>7, <3>1
        <5> QED
          BY <1>4, <3>1, <5>1 DEF Inductive, RingIsNewest, size
      <4> QED
        BY <1>4, <1>6, <2>6, <3>1, <4>1, <4>2
    <3>2. CASE i = n + 1
      <4>1. page'[r] = Recent(PageSize)
        BY <1>1, <1>3, <1>7, <2>7, <3>2
      <4>2. Recent(PageSize) = Reverse(Latest(served, n, size))
        BY <1>1, <2>1, PageShows DEF size
      <4>3. Recent(PageSize) = Reverse(Newest(n, size))
        BY <4>2 DEF Newest, Latest, Skipped
      <4>4. i - 1 = n /\ n \in 0..n /\ served'[i].request = r
        BY <1>1, <1>7, <3>2
      <4> QED
        BY <2>6, <4>1, <4>3, <4>4
    <3> QED
      BY <1>4, <1>7, <3>1, <3>2
  <2> QED
    BY <2>3, <2>7 DEF RingIsNewest, size
<1>11. OnePerResponse'
  <2>1. \A m \in 0..n : SubSeq(series', 1, m) = SubSeq(series, 1, m)
    <3> SUFFICES ASSUME NEW m \in 0..n PROVE SubSeq(series', 1, m) = SubSeq(series, 1, m)
      OBVIOUS
    <3>1. /\ \A i \in 1..m : series[i] \in Collectors /\ series'[i] = series[i]
          /\ m \in Int
      BY <1>1, <1>5, ElementOfSeq
    <3> DEFINE a == SubSeq(series', 1, m)
               b == SubSeq(series, 1, m)
    <3>2. /\ a \in Seq(Collectors) /\ b \in Seq(Collectors)
          /\ Len(a) = (IF 1 <= m THEN m - 1 + 1 ELSE 0) /\ Len(a) = Len(b)
          /\ \A i \in 1..m - 1 + 1 : a[i] = series'[1 + i - 1] /\ b[i] = series[1 + i - 1]
      BY <3>1, SubSeqProperties
    <3>3. \A i \in 1..Len(a) : a[i] = b[i]
      BY <3>1, <3>2
    <3> HIDE DEF a, b
    <3>4. a = b
      BY <3>2, <3>3, SeqEqual
    <3> QED
      BY <3>4 DEF a, b
  <2>2. SubSeq(series, 1, n) = series
    BY <1>1, SubSeqFull
  <2>3. ASSUME NEW i \in DOMAIN served'
        PROVE  LET q == served'[i].request
               IN  /\ series'[i] = NewSeries(call'[q], served'[i].status)
                   /\ call'[q].path = "/metrics" => page'[q] = SubSeq(series', 1, i - 1)
    <3>1. CASE i \in 1..n
      <4>1. i - 1 \in 0..n
        BY <1>1, <3>1
      <4>2. LET q == served[i].request
            IN  /\ series[i] = NewSeries(call[q], served[i].status)
                /\ call[q].path = "/metrics" => page[q] = SubSeq(series, 1, i - 1)
        BY <1>4, <3>1 DEF Inductive, OnePerResponse
      <4> QED
        BY <1>4, <1>5, <1>6, <2>1, <3>1, <4>1, <4>2
    <3>2. CASE i = n + 1
      <4>1. i - 1 = n /\ n \in 0..n /\ served'[i].request = r /\ served'[i].status = status
        BY <1>1, <1>7, <3>2
      <4> QED
        BY <1>3, <1>5, <2>1, <2>2, <3>2, <4>1 DEF Export
    <3> QED
      BY <1>4, <1>7, <3>1, <3>2
  <2> QED
    BY <1>4, <1>5, <2>3 DEF OnePerResponse
<1>12. ring' \in Seq(Events)
  <2>1. ring # <<>> => Tail(ring) \in Seq(Events)
    BY <1>1, HeadTailProperties
  <2>2. Len(ring) >= RingCapacity => ring # <<>>
    BY <1>1, EmptySeq, GatewayAssumption
  <2> QED
    BY <1>1, <1>2, <1>3, <2>1, <2>2, AppendProperties DEF PushRing
<1> QED
  BY <1>3, <1>4, <1>5, <1>8, <1>9, <1>10, <1>11, <1>12

LEMMA AcceptedStage ==
    ASSUME NEW r \in Requests, NEW c \in Calls,
           pc'[r] \in {"handling", "done"}, call'[r] = c,
           ctx'[r] = FromRequest(Traceparent(r, c), XTraceId(r, c), <<"gateway", r>>),
           \A i \in DOMAIN lines'[r] : lines'[r][i] = Line("gateway", ctx'[r]),
           LinesOf(r, "auth")' = {}, LinesOf(r, "lambda")' = {},
           hop'[r] = IF pc'[r] = "handling" /\ c.path \in Hopping THEN Sent ELSE NoHop,
           pc'[r] = "handling" => /\ c.method = "GET" /\ c.path \in Suspending
                                  /\ Cardinality(OwnLines(r)') = 1
    PROVE  Stage(r)'
<1>1. /\ pc'[r] # "new" /\ call'[r] \in Calls
      /\ ctx'[r] = FromRequest(Traceparent(r, call'[r]), XTraceId(r, call'[r]),
                               <<"gateway", r>>)
  OBVIOUS
<1>2. pc'[r] = "handling" => call'[r].path \in Hopping <=> hop'[r] # NoHop
  BY DEF NoHop, Sent
<1>3. hop'[r] \in {NoHop, Sent} /\ (hop'[r] # NoHop => call'[r].path \in Hopping)
  OBVIOUS
<1>4. (\A i \in DOMAIN lines[r] : lines[r][i].trace = TraceOf(r, lines[r][i].service))'
  BY DEF Line, TraceOf
<1> QED
  BY <1>1, <1>2, <1>3, <1>4 DEF Stage

(* Each action keeps the invariant: first those that begin a request, *)
LEMMA PreflightStep ==
    ASSUME Inductive, NEW r \in Requests, NEW c \in Calls, Preflight(r, c)
    PROVE  Inductive'
<1>1. /\ pc[r] = "new" /\ hop[r] = NoHop /\ Unserved(r)
      /\ call' \in [Requests -> Calls \cup {NoCall}] /\ call'[r] = c
      /\ ctx' \in [Requests -> Contexts]
      /\ ctx'[r] = FromRequest(Traceparent(r, c), XTraceId(r, c), <<"gateway", r>>)
      /\ lines' \in [Requests -> Seq(LogLines)]
      /\ \A q \in Requests \ {r} : /\ call'[q] = call[q] /\ ctx'[q] = ctx[q]
                                   /\ lines'[q] = lines[q]
      /\ \A i \in DOMAIN lines'[r] : lines'[r][i] = Line("gateway", ctx'[r])
      /\ LinesOf(r, "auth")' = {} /\ LinesOf(r, "lambda")' = {}
      /\ \A q \in Requests, s \in Services : Cardinality(LinesOf(q, s)') <= 2
  BY Accepted DEF Preflight
<1>2. Typed
  BY DEF Inductive
<1>3. /\ pc' \in [Requests -> {"new", "handling", "done"}] /\ pc'[r] = "done"
      /\ answer' \in [Requests -> Nat] /\ hop' = hop
      /\ UNCHANGED <<hop, page, series, ring, served>>
      /\ \A q \in Requests \ {r} : pc'[q] = pc[q] /\ answer'[q] = answer[q]
  BY <1>2 DEF Preflight, Typed, TypeOK
<1>4. Others(r)
  BY <1>1, <1>3 DEF Others
<1>5. Typed'
  BY <1>1, <1>2, <1>3 DEF Typed, TypeOK, LinesOf
<1>6. Stage(r)'
  BY <1>1, <1>3, AcceptedStage
<1>7. ASSUME NEW q \in Requests \ {r} PROVE Stage(q)'
  BY <1>4, OthersKeepStage DEF Inductive
<1>8. Settled' /\ RecordedAsAnswered' /\ RingIsNewest' /\ OnePerResponse'
  BY <1>1, <1>3, <1>4, UnrecordedStep
<1> QED
  BY <1>5, <1>6, <1>7, <1>8 DEF Inductive

LEMMA ReceiveStep ==
    ASSUME Inductive, NEW r \in Requests, NEW c \in Calls, Receive(r, c)
    PROVE  Inductive'
<1>1. /\ pc[r] = "new" /\ hop[r] = NoHop /\ Unserved(r)
      /\ call' \in [Requests -> Calls \cup {NoCall}] /\ call'[r] = c
      /\ ctx' \in [Requests -> Contexts]
      /\ ctx'[r] = FromRequest(Traceparent(r, c), XTraceId(r, c), <<"gateway", r>>)
      /\ lines' \in [Requests -> Seq(LogLines)]
      /\ \A q \in Requests \ {r} : /\ call'[q] = call[q] /\ ctx'[q] = ctx[q]
                                   /\ lines'[q] = lines[q]
      /\ \A i \in DOMAIN lines'[r] : lines'[r][i] = Line("gateway", ctx'[r])
      /\ Cardinality(OwnLines(r)') = 1
      /\ LinesOf(r, "auth")' = {} /\ LinesOf(r, "lambda")' = {}
      /\ \A q \in Requests, s \in Services : Cardinality(LinesOf(q, s)') <= 2
  BY Accepted DEF Receive
<1>2. Typed
  BY DEF Inductive
<1>3. /\ pc' \in [Requests -> {"new", "handling", "done"}] /\ pc'[r] = "handling"
      /\ hop' \in [Requests -> [at : {"nowhere", "sent", "answered"}, status : Nat]]
      /\ hop'[r] = IF c.path \in Hopping THEN Sent ELSE NoHop
      /\ UNCHANGED <<answer, page, series, ring, served>>
      /\ \A q \in Requests \ {r} : pc'[q] = pc[q] /\ hop'[q] = hop[q]
      /\ c.method = "GET" /\ c.path \in Suspending
  BY <1>1, <1>2 DEF Receive, Typed, TypeOK, Sent, Calls
<1>4. Others(r)
  BY <1>1, <1>3 DEF Others
<1>5. Typed'
  BY <1>1, <1>2, <1>3 DEF Typed, TypeOK, LinesOf
<1>6. Stage(r)'
  BY <1>1, <1>3, AcceptedStage
<1>7. ASSUME NEW q \in Requests \ {r} PROVE Stage(q)'
  BY <1>4, OthersKeepStage DEF Inductive
<1>8. Settled' /\ RecordedAsAnswered' /\ RingIsNewest' /\ OnePerResponse'
  BY <1>1, <1>3, <1>4, UnrecordedStep
<1> QED
  BY <1>5, <1>6, <1>7, <1>8 DEF Inductive

LEMMA ServeStep ==
    ASSUME Inductive, NEW r \in Requests, NEW c \in Calls, Serve(r, c)
    PROVE  Inductive'
<1>1. /\ pc[r] = "new" /\ hop[r] = NoHop /\ Unserved(r)
      /\ call' \in [Requests -> Calls \cup {NoCall}] /\ call'[r] = c
      /\ ctx' \in [Requests -> Contexts]
      /\ ctx'[r] = FromRequest(Traceparent(r, c), XTraceId(r, c), <<"gateway", r>>)
      /\ lines' \in [Requests -> Seq(LogLines)]
      /\ \A q \in Requests \ {r} : /\ call'[q] = call[q] /\ ctx'[q] = ctx[q]
                                   /\ lines'[q] = lines[q]
      /\ \A i \in DOMAIN lines'[r] : lines'[r][i] = Line("gateway", ctx'[r])
      /\ Cardinality(OwnLines(r)') = 2
      /\ LinesOf(r, "auth")' = {} /\ LinesOf(r, "lambda")' = {}
      /\ \A q \in Requests, s \in Services : Cardinality(LinesOf(q, s)') <= 2
  BY Accepted DEF Serve
<1>2. Typed
  BY DEF Inductive
<1>3. PICK status \in Statuses(c.path) : Respond(r, c, status)
  BY DEF Serve
<1>4. /\ status \in Nat /\ c.path # "/protected"
      /\ c.method = "GET" /\ hop' = hop
      /\ call' = [call EXCEPT ![r] = c]
  <2>1. c.path \in Paths /\ c.method = "GET"
    BY DEF Serve, Calls
  <2>2. status \in Nat /\ c.path # "/protected"
    BY <1>3, <2>1 DEF Statuses, HealthStatus, Paths
  <2> QED
    BY <2>1, <2>2 DEF Serve, Accept
<1>5. /\ page' \in [Requests -> Seq(Collectors) \cup Seq(Events)]
      /\ c.path = "/metrics" => page'[r] = Export
      /\ c.path = "/logs" => page'[r] = Recent(PageSize)
      /\ \A q \in Requests \ {r} : page'[q] = page[q]
  <2>1. Recent(PageSize) \in Seq(Events)
    <3>1. served \in Seq(Events) /\ ring = Latest(served, Len(served), RingCapacity)
      BY <1>2, NewestIsLatest DEF Typed, TypeOK, Inductive, RingIsNewest
    <3> DEFINE size == Min({RingCapacity, PageSize})
    <3>2. size \in Nat /\ Len(served) \in 0..Len(served)
      BY <3>1, GatewayAssumption, SmallerOf, LenProperties
    <3> HIDE DEF size
    <3>3. Latest(served, Len(served), size) \in Seq(Events)
      BY <3>1, <3>2, LatestOf
    <3> QED
      BY <3>1, <3>3, PageShows, ReverseOf DEF size
  <2>2. Export \in Seq(Collectors)
    BY <1>2 DEF Export, Typed, TypeOK, Collectors
  <2> HIDE DEF Collectors, Events
  <2> QED
    BY <1>2, <2>1, <2>2 DEF Serve, Typed
<1>6. Others(r)
  <2>1. \A q \in Requests \ {r} : pc'[q] = pc[q] /\ answer'[q] = answer[q]
    BY <1>2, <1>3 DEF Respond, Typed, TypeOK
  <2> QED
    BY <1>1, <1>4, <1>5, <2>1 DEF Others
<1>7. hop'[r] = NoHop /\ NoHop # Sent
  BY <1>1, <1>4 DEF NoHop, Sent
<1>8. /\ Settled' /\ RecordedAsAnswered' /\ RingIsNewest' /\ OnePerResponse'
      /\ pc' \in [Requests -> {"new", "handling", "done"}] /\ pc'[r] = "done"
      /\ answer' \in [Requests -> Nat]
      /\ series' \in Seq(Collectors) /\ ring' \in Seq(Events) /\ served' \in Seq(Events)
  BY <1>1, <1>3, <1>4, <1>5, <1>6, <1>7, Responded
<1>9. Typed'
  BY <1>1, <1>2, <1>4, <1>5, <1>8 DEF Typed, TypeOK, LinesOf, Collectors
<1>10. Stage(r)'
  BY <1>1, <1>7, <1>8, AcceptedStage
<1>11. ASSUME NEW q \in Requests \ {r} PROVE Stage(q)'
  BY <1>6, OthersKeepStage DEF Inductive
<1> QED
  BY <1>8, <1>9, <1>10, <1>11 DEF Inductive

(* then the answers of the services behind, while the request waits or after it, *)
LEMMA AnswerStep ==
    ASSUME Inductive, NEW r \in Requests, hop[r] = Sent,
           NEW service \in {"auth", "lambda"}, NEW c \in Contexts,
           c.trace = TraceOf(r, service), NEW n \in {1, 2}, Emit(r, service, c, n),
           NEW status \in Nat, hop' = [hop EXCEPT ![r] = Answered(status)],
           UNCHANGED <<pc, call, ctx, answer, page, series, ring, served>>
    PROVE  Inductive'
<1>1. /\ Typed /\ Stage(r) /\ service \in Services /\ "gateway" \in Services \ {service}
  BY DEF Inductive, Services
<1>2. /\ LinesOf(r, "auth") = {} /\ LinesOf(r, "lambda") = {} /\ call[r].path \in Hopping
      /\ pc[r] # "new"
  BY <1>1 DEF Stage, Sent, NoHop
<1>3. Unserved(r)
  BY DEF Inductive, Settled, Unserved
<1>4. LinesOf(r, service) = {} /\ Cardinality(LinesOf(r, service)) + n <= 2
  BY <1>2, FS_EmptySet
<1>5. /\ lines' \in [Requests -> Seq(LogLines)]
      /\ \A q \in Requests \ {r} : lines'[q] = lines[q]
      /\ \A i \in DOMAIN lines'[r] :
           \/ i \in DOMAIN lines[r] /\ lines'[r][i] = lines[r][i]
           \/ lines'[r][i] = Line(service, c)
      /\ LinesOf(r, "gateway")' = LinesOf(r, "gateway")
  BY <1>1, Emitted
<1>6. \A q \in Requests, s \in Services : Cardinality(LinesOf(q, s)') <= 2
  BY <1>1, <1>4, EmittedBounded
<1>7. /\ hop' \in [Requests -> [at : {"nowhere", "sent", "answered"}, status : Nat]]
      /\ hop'[r] = Answered(status) /\ \A q \in Requests \ {r} : hop'[q] = hop[q]
  BY <1>1 DEF Typed, TypeOK, Answered
<1>8. Others(r)
  BY <1>5, <1>7 DEF Others
<1>9. Typed'
  BY <1>1, <1>5, <1>6, <1>7 DEF Typed, TypeOK, LinesOf
<1>10. Stage(r)'
  <2>1. OwnLines(r)' = OwnLines(r)
    BY <1>5 DEF OwnLines, LinesOf
  <2>2. /\ pc'[r] # "new" /\ call'[r] \in Calls /\ call'[r].path \in Hopping
        /\ ctx'[r] = FromRequest(Traceparent(r, call'[r]), XTraceId(r, call'[r]),
                                 <<"gateway", r>>)
    BY <1>1, <1>2 DEF Stage
  <2>3. /\ hop'[r] # NoHop /\ hop'[r].at = "answered" /\ hop'[r] = Answered(hop'[r].status)
    BY <1>7 DEF Answered, NoHop
  <2>4. pc'[r] = "handling" => /\ call'[r].method = "GET" /\ call'[r].path \in Suspending
                               /\ Cardinality(OwnLines(r)') = 1
    BY <1>1, <2>1 DEF Stage
  <2>5. \A s : TraceOf(r, s)' = TraceOf(r, s)
    BY DEF TraceOf, Forwarded
  <2>6. \A i \in DOMAIN lines[r] : lines[r][i].trace = TraceOf(r, lines[r][i].service)
    BY <1>1 DEF Stage
  <2>7. (\A i \in DOMAIN lines[r] : lines[r][i].trace = TraceOf(r, lines[r][i].service))'
    <3>1. \A s : TraceOf(r, s)' = TraceOf(r, s)
      BY <2>5
    <3> SUFFICES ASSUME NEW i \in DOMAIN lines'[r]
                 PROVE  (lines[r][i].trace = TraceOf(r, lines[r][i].service))'
      OBVIOUS
    <3>2. CASE i \in DOMAIN lines[r] /\ lines'[r][i] = lines[r][i]
      <4>1. lines[r][i].trace = TraceOf(r, lines[r][i].service)
        BY <2>6, <3>2
      <4> QED
        BY <3>2, <4>1 DEF TraceOf, Forwarded
    <3>3. CASE lines'[r][i] = Line(service, c)
      <4>1. lines'[r][i].service = service /\ lines'[r][i].trace = c.trace
        BY <3>3 DEF Line
      <4> QED
        BY <4>1 DEF TraceOf, Forwarded
    <3> QED
      BY <1>5, <3>2, <3>3
  <2> QED
    BY <2>2, <2>3, <2>4, <2>7 DEF Stage
<1>11. ASSUME NEW q \in Requests \ {r} PROVE Stage(q)'
  BY <1>8, OthersKeepStage DEF Inductive
<1>12. Settled' /\ RecordedAsAnswered' /\ RingIsNewest' /\ OnePerResponse'
  BY <1>3, <1>8, UnrecordedStep
<1> QED
  BY <1>9, <1>10, <1>11, <1>12 DEF Inductive

LEMMA VerifyStep ==
    ASSUME Inductive, NEW r \in Requests, Verify(r)
    PROVE  Inductive'
<1> DEFINE own == FromRequest(Forwarded(r), {}, <<"auth", r>>)
<1>1. hop[r] = Sent /\ UNCHANGED <<pc, call, ctx, answer, page, series, ring, served>>
  BY DEF Verify
<1>2. call[r] \in Calls
  <2>1. Stage(r)
    BY DEF Inductive
  <2>2. pc[r] # "new"
    BY <1>1, <2>1 DEF Stage, Sent, NoHop
  <2> QED
    BY <2>1, <2>2 DEF Stage
<1>3. own \in Contexts
  BY <1>2, ContextsOfCalls DEF Forwarded
<1>4. own.trace = TraceOf(r, "auth")
  BY DEF TraceOf
<1>5. PICK status \in {200, 401, PlatformError} :
        /\ hop' = [hop EXCEPT ![r] = Answered(status)]
        /\ Emit(r, "auth", own, IF status = PlatformError THEN 1 ELSE 2)
  BY DEF Verify
<1>6. status \in Nat
  BY DEF PlatformError
<1> DEFINE n == IF status = PlatformError THEN 1 ELSE 2
<1>7. n \in {1, 2} /\ Emit(r, "auth", own, n) /\ hop' = [hop EXCEPT ![r] = Answered(status)]
  BY <1>5
<1> HIDE DEF own, n
<1>8. "auth" \in {"auth", "lambda"}
  OBVIOUS
<1> QED
  BY <1>1, <1>3, <1>4, <1>6, <1>7, <1>8, AnswerStep

LEMMA InvokeStep ==
    ASSUME Inductive, NEW r \in Requests, Invoke(r)
    PROVE  Inductive'
<1> DEFINE own == LambdaContext(ToTraceparent(ctx[r]), <<"lambda", r>>)
<1>1. /\ hop[r] = Sent /\ UNCHANGED <<pc, call, ctx, answer, page, series, ring, served>>
      /\ Emit(r, "lambda", own, 2)
  BY DEF Invoke
<1>2. own \in Contexts
  BY ContextOfLambda DEF Inductive, Typed
<1>3. own.trace = TraceOf(r, "lambda")
  BY DEF TraceOf
<1>4. PICK status \in {200, 404} : hop' = [hop EXCEPT ![r] = Answered(status)]
  BY DEF Invoke
<1> HIDE DEF own
<1>5. "lambda" \in {"auth", "lambda"} /\ 2 \in {1, 2} /\ status \in Nat
  BY <1>4
<1> QED
  BY <1>1, <1>2, <1>3, <1>4, <1>5, AnswerStep

LEMMA RefuseStep ==
    ASSUME Inductive, NEW r \in Requests, Refuse(r)
    PROVE  Inductive'
<1>1. /\ Typed /\ Stage(r) /\ hop[r] = Sent
      /\ UNCHANGED <<pc, call, ctx, answer, page, series, ring, lines, served>>
  BY DEF Inductive, Refuse
<1>2. /\ hop' \in [Requests -> [at : {"nowhere", "sent", "answered"}, status : Nat]]
      /\ hop'[r] = Answered(403) /\ \A q \in Requests \ {r} : hop'[q] = hop[q]
  BY <1>1 DEF Refuse, Typed, TypeOK, Answered
<1>3. Others(r) /\ Unserved(r)
  BY <1>1, <1>2 DEF Others, Inductive, Settled, Unserved
<1>4. Typed'
  BY <1>1, <1>2 DEF Typed, TypeOK
<1>5. Stage(r)'
  <2>1. /\ hop'[r] # NoHop /\ hop'[r].at = "answered" /\ hop'[r] = Answered(hop'[r].status)
        /\ hop[r] # NoHop
    BY <1>1, <1>2 DEF Answered, NoHop, Sent
  <2>2. OwnLines(r)' = OwnLines(r)
    BY <1>1 DEF OwnLines
  <2>3. \A s : TraceOf(r, s)' = TraceOf(r, s)
    BY <1>1 DEF TraceOf, Forwarded
  <2> QED
    BY <1>1, <2>1, <2>2, <2>3 DEF Stage
<1>6. ASSUME NEW q \in Requests \ {r} PROVE Stage(q)'
  BY <1>3, OthersKeepStage DEF Inductive
<1>7. Settled' /\ RecordedAsAnswered' /\ RingIsNewest' /\ OnePerResponse'
  BY <1>1, <1>3, UnrecordedStep
<1> QED
  BY <1>4, <1>5, <1>6, <1>7 DEF Inductive

(* and the ways a request that waited ends. *)
LEMMA CompleteStep ==
    ASSUME Inductive, NEW r \in Requests, Complete(r)
    PROVE  Inductive'
<1> DEFINE c == call[r]
           status == IF c.path \in Hopping THEN Relayed(c.path, hop[r].status) ELSE 200
<1>1. /\ Typed /\ Stage(r) /\ pc[r] = "handling"
      /\ c.path \in Hopping => hop[r].at = "answered"
      /\ Respond(r, c, status) /\ Emit(r, "gateway", ctx[r], 1)
      /\ UNCHANGED <<call, ctx, hop, page>>
  BY DEF Inductive, Complete
<1>2. /\ c \in Calls /\ c.method = "GET" /\ c.path \in Suspending
      /\ Cardinality(OwnLines(r)) = 1 /\ hop[r] \in {NoHop, Sent, Answered(hop[r].status)}
      /\ c.path \in Hopping <=> hop[r] # NoHop
  BY <1>1 DEF Stage
<1>3. Unserved(r)
  BY <1>1 DEF Inductive, Settled, Unserved
<1>4. ctx[r] \in Contexts /\ "gateway" \in Services
  BY <1>1 DEF Typed, Services
<1>5. /\ lines' \in [Requests -> Seq(LogLines)]
      /\ \A q \in Requests \ {r} : lines'[q] = lines[q]
      /\ \A i \in DOMAIN lines'[r] :
           \/ i \in DOMAIN lines[r] /\ lines'[r][i] = lines[r][i]
           \/ lines'[r][i] = Line("gateway", ctx[r])
      /\ \A s \in Services \ {"gateway"} : LinesOf(r, s)' = LinesOf(r, s)
      /\ Cardinality(LinesOf(r, "gateway")') = Cardinality(LinesOf(r, "gateway")) + 1
  BY <1>1, <1>4, Emitted
<1>6. LinesOf(r, "auth")' = LinesOf(r, "auth") /\ LinesOf(r, "lambda")' = LinesOf(r, "lambda")
  BY <1>5 DEF Services
<1>7. Cardinality(LinesOf(r, "gateway")) = 1 /\ Cardinality(OwnLines(r)') = 2
  <2>1. Cardinality(LinesOf(r, "gateway")) = 1
    BY <1>2 DEF OwnLines, LinesOf
  <2>2. OwnLines(r)' = LinesOf(r, "gateway")'
    BY DEF OwnLines, LinesOf
  <2> QED
    BY <1>5, <2>1, <2>2
<1>8. \A q \in Requests, s \in Services : Cardinality(LinesOf(q, s)') <= 2
  BY <1>1, <1>4, <1>7, EmittedBounded
<1>9. /\ hop[r] # Sent
      /\ c.path = "/protected" => status = (IF hop[r] = Answered(200) THEN 200 ELSE 403)
      /\ c.path = "/lambda/query" => hop[r] \in {NoHop, Answered(status)}
      /\ status \in Nat
  <2>1. CASE c.path \in Hopping
    <3>1. hop[r] = Answered(hop[r].status) /\ hop[r] # Sent /\ hop[r].status \in Nat
      BY <1>1, <1>2, <2>1 DEF Typed, TypeOK, NoHop, Sent, Answered
    <3>2. status = Relayed(c.path, hop[r].status)
      BY <2>1
    <3>3. hop[r] = Answered(200) <=> hop[r].status = 200
      BY <3>1 DEF Answered
    <3> QED
      BY <2>1, <3>1, <3>2, <3>3 DEF Relayed, Hopping
  <2>2. CASE c.path \notin Hopping
    BY <1>2, <2>2 DEF Hopping, NoHop, Sent
  <2> QED
    BY <2>1, <2>2
<1>10. c.path # "/metrics" /\ c.path # "/logs"
  BY <1>2 DEF Suspending
<1>11. call' = [call EXCEPT ![r] = c] /\ hop' = hop
  BY <1>1 DEF Typed, TypeOK
<1>12. Others(r)
  <2>1. \A q \in Requests \ {r} : pc'[q] = pc[q] /\ answer'[q] = answer[q]
    BY <1>1 DEF Respond, Typed, TypeOK
  <2> QED
    BY <1>1, <1>5, <2>1 DEF Others
<1>17. /\ hop'[r] # Sent
       /\ c.path = "/protected" => status = (IF hop'[r] = Answered(200) THEN 200 ELSE 403)
       /\ c.path = "/lambda/query" => hop'[r] \in {NoHop, Answered(status)}
       /\ c.path = "/metrics" => page'[r] = Export
       /\ c.path = "/logs" => page'[r] = Recent(PageSize)
       /\ Respond(r, c, status) /\ c \in Calls /\ c.method = "GET" /\ status \in Nat
  <2> HIDE DEF c, status
  <2> QED
    BY <1>1, <1>2, <1>9, <1>10, <1>11
<1> HIDE DEF c, status
<1>13. /\ Settled' /\ RecordedAsAnswered' /\ RingIsNewest' /\ OnePerResponse'
       /\ pc' \in [Requests -> {"new", "handling", "done"}] /\ pc'[r] = "done"
       /\ answer' \in [Requests -> Nat]
       /\ series' \in Seq(Collectors) /\ ring' \in Seq(Events) /\ served' \in Seq(Events)
  BY <1>3, <1>7, <1>11, <1>12, <1>17, Responded
<1>14. Typed'
  BY <1>1, <1>5, <1>8, <1>13 DEF Typed, TypeOK, LinesOf, Collectors
<1>15. Stage(r)'
  <2>1. \A i \in DOMAIN lines[r] : lines[r][i].trace = TraceOf(r, lines[r][i].service)
    BY <1>1 DEF Stage
  <2>2. (\A i \in DOMAIN lines[r] : lines[r][i].trace = TraceOf(r, lines[r][i].service))'
    <3> SUFFICES ASSUME NEW i \in DOMAIN lines'[r]
                 PROVE  (lines[r][i].trace = TraceOf(r, lines[r][i].service))'
      OBVIOUS
    <3>1. CASE i \in DOMAIN lines[r] /\ lines'[r][i] = lines[r][i]
      BY <1>1, <2>1, <3>1 DEF TraceOf, Forwarded
    <3>2. CASE lines'[r][i] = Line("gateway", ctx[r])
      BY <1>1, <3>2 DEF TraceOf, Line
    <3> QED
      BY <1>5, <3>1, <3>2
  <2> QED
    BY <1>1, <1>6, <1>13, <2>2 DEF Stage
<1>16. ASSUME NEW q \in Requests \ {r} PROVE Stage(q)'
  BY <1>12, OthersKeepStage DEF Inductive
<1> QED
  BY <1>13, <1>14, <1>15, <1>16 DEF Inductive

LEMMA FailStep ==
    ASSUME Inductive, NEW r \in Requests, Fail(r)
    PROVE  Inductive'
<1>1. /\ Typed /\ Stage(r) /\ pc[r] = "handling"
      /\ UNCHANGED <<call, ctx, hop, page, series, ring, lines, served>>
  BY DEF Inductive, Fail
<1>2. /\ pc' \in [Requests -> {"new", "handling", "done"}] /\ pc'[r] = "done"
      /\ answer' \in [Requests -> Nat]
      /\ \A q \in Requests \ {r} : pc'[q] = pc[q] /\ answer'[q] = answer[q]
  BY <1>1 DEF Fail, Typed, TypeOK, PlatformError
<1>3. Others(r) /\ Unserved(r)
  BY <1>1, <1>2 DEF Others, Inductive, Settled, Unserved
<1>4. Typed'
  BY <1>1, <1>2 DEF Typed, TypeOK
<1>5. Stage(r)'
  <2>1. \A s : TraceOf(r, s)' = TraceOf(r, s) /\ LinesOf(r, s)' = LinesOf(r, s)
    BY <1>1 DEF TraceOf, Forwarded, LinesOf
  <2> QED
    BY <1>1, <1>2, <2>1 DEF Stage
<1>6. ASSUME NEW q \in Requests \ {r} PROVE Stage(q)'
  BY <1>3, OthersKeepStage DEF Inductive
<1>7. Settled' /\ RecordedAsAnswered' /\ RingIsNewest' /\ OnePerResponse'
  BY <1>1, <1>3, UnrecordedStep
<1> QED
  BY <1>4, <1>5, <1>6, <1>7 DEF Inductive

LEMMA RestartStep ==
    ASSUME Inductive, Restart
    PROVE  Inductive'
<1>1. /\ Typed /\ series' = <<>> /\ ring' = <<>> /\ served' = <<>>
      /\ pc' = [r \in Requests |-> IF pc[r] = "handling" THEN "done" ELSE pc[r]]
      /\ UNCHANGED <<call, ctx, hop, answer, page, lines>>
  BY DEF Inductive, Restart
<1>2. /\ served' \in Seq(Events) /\ Len(served') = 0 /\ Len(series') = 0
      /\ DOMAIN served' = {}
  BY <1>1
<1>3. Typed'
  BY <1>1 DEF Typed, TypeOK
<1>4. ASSUME NEW r \in Requests PROVE Stage(r)'
  <2>1. /\ Stage(r) /\ pc'[r] # "handling" /\ (pc'[r] = "new" <=> pc[r] = "new")
    BY <1>1 DEF Inductive
  <2>2. \A s : TraceOf(r, s)' = TraceOf(r, s) /\ LinesOf(r, s)' = LinesOf(r, s)
    BY <1>1 DEF TraceOf, Forwarded, LinesOf
  <2> QED
    BY <1>1, <2>1, <2>2 DEF Stage
<1>5. RingIsNewest'
  <2>1. RingCapacity \in Nat \ {0}
    BY GatewayAssumption
  <2>2. SubSeq(served', (IF 0 > RingCapacity THEN 0 - RingCapacity ELSE 0) + 1, 0) = <<>>
    BY <2>1, SubSeqEmpty
  <2> QED
    BY <1>1, <1>2, <2>2 DEF RingIsNewest, Newest
<1>6. Settled' /\ OnePerResponse'
  BY <1>2 DEF Settled, OnePerResponse
<1>7. RecordedAsAnswered'
  BY <1>2 DEF RecordedAsAnswered
<1> QED
  BY <1>3, <1>4, <1>5, <1>6, <1>7 DEF Inductive

LEMMA StepInductive == Inductive /\ [Next]_vars => Inductive'
<1> SUFFICES ASSUME Inductive, [Next]_vars PROVE Inductive'
  OBVIOUS
<1>1. ASSUME NEW r \in Requests, NEW c \in Calls, Preflight(r, c) PROVE Inductive'
  BY <1>1, PreflightStep
<1>2. ASSUME NEW r \in Requests, NEW c \in Calls, Serve(r, c) PROVE Inductive'
  BY <1>2, ServeStep
<1>3. ASSUME NEW r \in Requests, NEW c \in Calls, Receive(r, c) PROVE Inductive'
  BY <1>3, ReceiveStep
<1>4. ASSUME NEW r \in Requests, Verify(r) PROVE Inductive'
  BY <1>4, VerifyStep
<1>5. ASSUME NEW r \in Requests, Invoke(r) PROVE Inductive'
  BY <1>5, InvokeStep
<1>6. ASSUME NEW r \in Requests, Refuse(r) PROVE Inductive'
  BY <1>6, RefuseStep
<1>7. ASSUME NEW r \in Requests, Complete(r) PROVE Inductive'
  BY <1>7, CompleteStep
<1>8. ASSUME NEW r \in Requests, Fail(r) PROVE Inductive'
  BY <1>8, FailStep
<1>9. CASE Restart
  BY <1>9, RestartStep
<1>10. CASE UNCHANGED vars
  <2>1. UNCHANGED <<pc, call, ctx, hop, answer, page, series, ring, lines, served>>
    BY <1>10 DEF vars
  <2>2. Typed'
    BY <2>1 DEF Inductive, Typed, TypeOK
  <2>3. ASSUME NEW r \in Requests PROVE Stage(r)'
    <3>1. Stage(r) /\ OwnLines(r)' = OwnLines(r)
      BY <2>1 DEF Inductive, OwnLines
    <3>2. \A s : TraceOf(r, s)' = TraceOf(r, s) /\ LinesOf(r, s)' = LinesOf(r, s)
      BY <2>1 DEF TraceOf, Forwarded, LinesOf
    <3> QED
      BY <2>1, <3>1, <3>2 DEF Stage
  <2>4. Settled' /\ OnePerResponse'
    BY <2>1 DEF Inductive, Settled, OnePerResponse
  <2>5. RecordedAsAnswered'
    BY <2>1 DEF Inductive, RecordedAsAnswered, OwnLines
  <2>6. RingIsNewest'
    BY <2>1 DEF Inductive, RingIsNewest, Newest
  <2> QED
    BY <2>2, <2>3, <2>4, <2>5, <2>6 DEF Inductive
<1> QED
  BY <1>1, <1>2, <1>3, <1>4, <1>5, <1>6, <1>7, <1>8, <1>9, <1>10 DEF Next

LEMMA Invariant == Spec => []Inductive
BY InitInductive, StepInductive, PTL DEF Spec

(* Every variable keeps its type, and no request leaves more than two lines at one     *)
(* service, whether it is answered, fails or is cut off by a restart.                  *)
THEOREM GatewayTypes == Spec => []TypeOK
<1>1. Inductive => TypeOK
  BY DEF Inductive, Typed
<1> QED
  BY Invariant, <1>1, PTL

(* Completion order, the drop of the oldest and the pages: LogBuffer::push and    *)
(* recent, however requests overtake each other between route's head and its end. *)
THEOREM RingShowsNewest == Spec => []RingIsNewest
<1>1. Inductive => RingIsNewest
  BY DEF Inductive
<1> QED
  BY Invariant, <1>1, PTL

(* What route records of a request is what its client was answered, once, and what *)
(* it relays of the auth worker or the Lambda is what they said.                   *)
THEOREM RecordsMatchAnswers == Spec => []RecordedAsAnswered
<1>1. Inductive => RecordedAsAnswered
  BY DEF Inductive
<1> QED
  BY Invariant, <1>1, PTL

(* register makes one collector per response, in the order of the responses, with  *)
(* the status that was answered, and /metrics shows those before it: what the sums *)
(* of CountsAgree add up.                                                          *)
THEOREM CollectorsMirrorResponses == Spec => []OnePerResponse
<1>1. Inductive => OnePerResponse
  BY DEF Inductive
<1> QED
  BY Invariant, <1>1, PTL

(* The collectors, of those numbered in s, with label l and the counter at one, and a *)
(* step of the fold SumBy is: the sum g over s from the sum over one element less.    *)
Ones(scrape, s, l, counter) == {i \in s : Labels(scrape[i]) = l /\ scrape[i][counter] = 1}

SumStep(g, s, scrape, l, counter) ==
    IF s = {} THEN 0
    ELSE LET x == CHOOSE x \in s : TRUE
         IN  IF Labels(scrape[x]) = l THEN g[s \ {x}] + scrape[x][counter] ELSE g[s \ {x}]

(* A sum of zeros and ones counts the ones: of the sets on which the fold and the      *)
(* count differ a smallest one would not be empty, and without one element they agree. *)
LEMMA SumCounts ==
    ASSUME NEW S, NEW scrape \in Seq(S), NEW l, NEW counter,
           \A i \in DOMAIN scrape : scrape[i][counter] \in {0, 1}
    PROVE  SumBy(scrape, l, counter) = Cardinality(Ones(scrape, DOMAIN scrape, l, counter))
<1> DEFINE D == DOMAIN scrape
           B(g, s) == SumStep(g, s, scrape, l, counter)
           iter == CHOOSE g : g = [s \in SUBSET D |-> B(g, s)]
           count == [s \in SUBSET D |-> Cardinality(Ones(scrape, s, l, counter))]
<1>1. SumBy(scrape, l, counter) = iter[D]
  BY DEF SumBy, FoldSeq, FoldFunction, FoldFunctionOnSet, MapThenFoldSet, SumStep
<1>2. IsFiniteSet(D)
  BY LenProperties, FS_Interval
<1>3. ASSUME NEW s \in SUBSET D PROVE count[s] = B(count, s)
  <2>0. IsFiniteSet(s)
    BY <1>2, FS_Subset
  <2>1. CASE s = {}
    <3>1. Ones(scrape, s, l, counter) = {}
      BY <2>1 DEF Ones
    <3> QED
      BY <2>1, <3>1, FS_EmptySet DEF SumStep
  <2>2. CASE s # {}
    <3> DEFINE x == CHOOSE x \in s : TRUE
               o == Ones(scrape, s, l, counter)
    <3>1. x \in s
      BY <2>2
    <3>2. IsFiniteSet(o)
      <4>1. o \in SUBSET s
        BY DEF Ones
      <4> HIDE DEF o
      <4> QED
        BY <2>0, <4>1, FS_Subset
    <3>3. Ones(scrape, s \ {x}, l, counter) = o \ {x}
      BY DEF Ones
    <3>4. /\ count[s \ {x}] = Cardinality(o \ {x})
          /\ count[s] = Cardinality(o)
      BY <3>3
    <3>5. B(count, s) = IF Labels(scrape[x]) = l THEN count[s \ {x}] + scrape[x][counter] ELSE count[s \ {x}]
      BY <2>2 DEF SumStep
    <3>6. x \in o <=> Labels(scrape[x]) = l /\ scrape[x][counter] = 1
      BY <3>1 DEF Ones
    <3>7. Cardinality(o) \in Nat /\ Cardinality(o \ {x}) \in Nat
      BY <3>2, FS_RemoveElement, FS_CardinalityType
    <3>8. Cardinality(o \ {x}) = IF x \in o THEN Cardinality(o) - 1 ELSE Cardinality(o)
      BY <3>2, FS_RemoveElement
    <3>9. scrape[x][counter] \in {0, 1}
      BY <3>1
    <3> HIDE DEF x, o, count, B
    <3> QED
      BY <3>4, <3>5, <3>6, <3>7, <3>8, <3>9
  <2> QED
    BY <2>1, <2>2
<1>4. count = [s \in SUBSET D |-> B(count, s)]
  <2> HIDE DEF B
  <2> QED
    BY <1>3
<1>5. iter = [s \in SUBSET D |-> B(iter, s)]
  <2> HIDE DEF B
  <2>1. \E g : g = [s \in SUBSET D |-> B(g, s)]
    <3> HIDE DEF count
    <3> QED
      BY <1>4
  <2> QED
    BY <2>1, Zenon
<1> DEFINE W == {s \in SUBSET D : iter[s] # count[s]}
<1>6. W = {}
  <2> SUFFICES ASSUME W # {} PROVE FALSE
    OBVIOUS
  <2> HIDE DEF iter, count, B
  <2>1. PICK s \in W : \A t \in W : ~(<<t, s>> \in StrictSubsetOrdering(D))
    <3>1. W \subseteq SUBSET D
      OBVIOUS
    <3>2. IsWellFoundedOn(StrictSubsetOrdering(D), SUBSET D)
      BY <1>2, FS_StrictSubsetOrderingWellFounded, FS_FiniteSubsetsOfFinite
    <3> HIDE DEF W
    <3> QED
      BY <3>1, <3>2, WFMin
  <2>2. \A t \in SUBSET s : t # s => iter[t] = count[t]
    BY <2>1 DEF StrictSubsetOrdering
  <2>3. B(iter, s) = B(count, s)
    <3>1. CASE s = {}
      BY <3>1 DEF B, SumStep
    <3>2. CASE s # {}
      <4> DEFINE x == CHOOSE x \in s : TRUE
      <4>1. x \in s
        BY <3>2
      <4>2. iter[s \ {x}] = count[s \ {x}]
        BY <2>2, <4>1
      <4> QED
        BY <4>2 DEF B, SumStep
    <3> QED
      BY <3>1, <3>2
  <2>4. iter[s] = B(iter, s) /\ count[s] = B(count, s)
    BY <1>4, <1>5
  <2> QED
    BY <2>3, <2>4
<1>7. iter[D] = count[D]
  BY <1>6
<1> HIDE DEF iter
<1> QED
  BY <1>1, <1>7

(* The collectors of the first n responses add up to them, label by label. *)
LEMMA PrefixAddsUp ==
    ASSUME Inductive, NEW n \in 0..Len(served)
    PROVE  AddsUp(SubSeq(series, 1, n), n)
<1> DEFINE scrape == SubSeq(series, 1, n)
           made(i) == NewSeries(call[served[i].request], served[i].status)
<1>1. /\ served \in Seq(Events) /\ series \in Seq(Collectors)
      /\ Len(series) = Len(served) /\ n \in Nat /\ n <= Len(served)
  BY LenProperties DEF Inductive, Typed, TypeOK, Collectors, OnePerResponse
<1>2. /\ scrape \in Seq(Collectors) /\ DOMAIN scrape = 1..n
      /\ \A i \in 1..n : scrape[i] = series[i]
  BY <1>1, SubSeqProperties
<1>3. \A i \in 1..n : i \in DOMAIN served
  BY <1>1
<1>4. \A i \in 1..n : scrape[i] = made(i)
  BY <1>2, <1>3 DEF Inductive, OnePerResponse
<1>5. \A i \in 1..n : /\ made(i)["requests"] = 1
                      /\ made(i)["errors"] = IF served[i].status >= 400 THEN 1 ELSE 0
                      /\ Labels(made(i)) = Labels(call[served[i].request])
  BY DEF NewSeries, Labels
<1> HIDE DEF scrape, made
<1>6. \A l : /\ Ones(scrape, 1..n, l, "requests") = Responses(n, l)
            /\ Ones(scrape, 1..n, l, "errors")
                  = {i \in Responses(n, l) : served[i].status >= 400}
  BY <1>4, <1>5 DEF Ones, Responses
<1>7. \A i \in DOMAIN scrape : scrape[i]["requests"] \in {0, 1} /\ scrape[i]["errors"] \in {0, 1}
  BY <1>2, <1>4, <1>5
<1>8. ASSUME NEW l \in Endpoints
      PROVE  /\ SumBy(scrape, l, "requests") = Cardinality(Responses(n, l))
             /\ SumBy(scrape, l, "errors")
                  = Cardinality({i \in Responses(n, l) : served[i].status >= 400})
  <2>1. /\ SumBy(scrape, l, "requests") = Cardinality(Ones(scrape, 1..n, l, "requests"))
        /\ SumBy(scrape, l, "errors") = Cardinality(Ones(scrape, 1..n, l, "errors"))
    BY <1>2, <1>7, SumCounts
  <2> QED
    BY <2>1, <1>6
<1> QED
  BY <1>8 DEF AddsUp, scrape

(* Whatever the requests and however their handlers interleave, what Prometheus sums *)
(* up of the registry, and of a /metrics page, is the responses they stand for:      *)
(* register never replaces a collector, so nothing that was recorded is lost.        *)
THEOREM CountsAddUp == Spec => []CountsAgree
<1>1. Inductive => CountsAgree
  <2> SUFFICES ASSUME Inductive PROVE CountsAgree
    OBVIOUS
  <2>1. /\ served \in Seq(Events) /\ series \in Seq(Collectors)
        /\ Len(series) = Len(served) /\ Len(served) \in Nat
    BY LenProperties DEF Inductive, Typed, TypeOK, Collectors, OnePerResponse
  <2>2. SubSeq(series, 1, Len(served)) = series
    BY <2>1, SubSeqFull
  <2>3. AddsUp(series, Len(served))
    <3>1. Len(served) \in 0..Len(served)
      BY <2>1
    <3> QED
      BY <3>1, <2>2, PrefixAddsUp
  <2>4. ASSUME NEW i \in DOMAIN served, call[served[i].request].path = "/metrics"
        PROVE  AddsUp(page[served[i].request], i - 1)
    <3>1. page[served[i].request] = SubSeq(series, 1, i - 1)
      BY <2>4 DEF Inductive, OnePerResponse
    <3>2. i - 1 \in 0..Len(served)
      BY <2>1
    <3> QED
      BY <3>1, <3>2, PrefixAddsUp
  <2> QED
    BY <2>3, <2>4 DEF CountsAgree
<1> QED
  BY Invariant, <1>1, PTL

(* The contexts of one request in its three services. *)
LEMMA TracesOfServices ==
    ASSUME NEW r \in Requests, Typed, Stage(r), call[r] # NoCall
    PROVE  /\ TraceOf(r, "gateway") = ctx[r].trace
           /\ TraceOf(r, "lambda").by = ctx[r].trace.by
           /\ WithTraceparent(r) => /\ TraceOf(r, "auth") = ctx[r].trace
                                    /\ ctx[r].trace.by = <<"client", r>>
<1> DEFINE header == Traceparent(r, call[r])
<1>1. /\ call[r] \in Calls /\ ctx[r] \in Contexts
      /\ ctx[r] = FromRequest(header, XTraceId(r, call[r]), <<"gateway", r>>)
      /\ TraceOf(r, "auth") = FromRequest(header, {}, <<"auth", r>>).trace
  <2>1. pc[r] \in {"new", "handling", "done"} /\ pc[r] # "new"
    BY DEF Typed, TypeOK, Stage
  <2> QED
    BY <2>1 DEF Stage, Typed, TraceOf, Forwarded
<1>2. TraceOf(r, "gateway") = ctx[r].trace
  BY DEF TraceOf
<1>3. TraceOf(r, "lambda").by = ctx[r].trace.by
  <2>1. TraceOf(r, "lambda") = LowerCase(ctx[r].trace)
    BY <1>1, ContextOfLambda DEF TraceOf
  <2> QED
    BY <1>1, <2>1 DEF LowerCase, Contexts, Ids
<1>4. WithTraceparent(r) <=> FromTraceparent(header) # {}
  BY DEF WithTraceparent
<1>5. CASE WithTraceparent(r)
  <2>1. ctx[r] = header.ctx /\ TraceOf(r, "auth") = header.ctx.trace
    BY <1>1, <1>4, <1>5 DEF FromRequest
  <2>2. header.kind = "w3c"
    BY <1>4, <1>5 DEF FromTraceparent
  <2>3. header.ctx.trace.by = <<"client", r>>
    <3>1. call[r].headers.traceparent \in {"absent", "malformed", "lower", "upper"}
      BY <1>1, GatewayAssumption DEF Calls
    <3> DEFINE id == ClientId(r, call[r].headers.traceparent = "upper")
    <3>2. header = ToTraceparent([trace |-> id, span |-> id])
      BY <2>2, <3>1 DEF Traceparent, Absent, Malformed
    <3> QED
      BY <3>2 DEF ToTraceparent, ClientId
  <2> QED
    BY <1>2, <1>3, <1>5, <2>1, <2>3
<1>6. CASE ~WithTraceparent(r)
  BY <1>2, <1>3, <1>6
<1> QED
  BY <1>5, <1>6

(* Which lines of the gateway, the auth worker and the Lambda share a trace, given *)
(* the headers that came and those that each of them passes on.                    *)
THEOREM TracesJoin == Spec => []TraceJoined
<1>1. ASSUME Inductive PROVE TraceJoined
  <2> SUFFICES ASSUME NEW r \in Requests, NEW i \in DOMAIN lines[r]
               PROVE  LET line == lines[r][i]
                      IN  /\ line.service # "auth" \/ WithTraceparent(r) =>
                               line.trace.by = ctx[r].trace.by
                          /\ WithTraceparent(r) => line.trace.by = <<"client", r>>
                          /\ line.service # "lambda" /\ WithTraceparent(r) =>
                               line.trace = ctx[r].trace
    BY DEF TraceJoined
  <2>1. Typed /\ Stage(r)
    BY <1>1 DEF Inductive
  <2>2. lines[r][i] \in LogLines
    BY <2>1, LenProperties, ElementOfSeq DEF Typed
  <2>3. lines[r][i].service \in {"gateway", "auth", "lambda"}
    BY <2>2 DEF LogLines, Services
  <2>4. lines[r][i].trace = TraceOf(r, lines[r][i].service)
    BY <2>1 DEF Stage
  <2>5. call[r] # NoCall
    <3>1. pc[r] # "new"
      BY <2>1 DEF Stage
    <3> QED
      BY <2>1, <3>1 DEF Stage, NoCall, Calls
  <2>6. /\ TraceOf(r, "gateway") = ctx[r].trace
        /\ TraceOf(r, "lambda").by = ctx[r].trace.by
        /\ WithTraceparent(r) => /\ TraceOf(r, "auth") = ctx[r].trace
                                 /\ ctx[r].trace.by = <<"client", r>>
    BY <2>1, <2>5, TracesOfServices
  <2>7. CASE lines[r][i].service = "gateway"
    BY <2>4, <2>6, <2>7
  <2>8. CASE lines[r][i].service = "auth"
    BY <2>4, <2>6, <2>8
  <2>9. CASE lines[r][i].service = "lambda"
    BY <2>4, <2>6, <2>9
  <2> QED
    BY <2>3, <2>7, <2>8, <2>9
<1> QED
  BY Invariant, <1>1, PTL
=============================================================================
