-------------------------------- MODULE Gateway --------------------------------
(* The gateway's router (workers/gateway/src/routes.rs) in one isolate, with the     *)
(* in-process state every request shares, the metrics registry (metrics.rs) and      *)
(* the log ring (structured_log.rs), and the services behind it: the auth worker     *)
(* and the Lambda, each with its own log lines in the trace it makes of its headers. *)
(*                                                                                   *)
(* A route without an await is served in one step; a handler that calls KV, D1, the  *)
(* queue, AI, Lambda or the auth worker suspends the request, and others run         *)
(* meanwhile. A handler's Err leaves route at once: the platform answers.            *)
EXTENDS Naturals, Sequences, SequencesExt, TraceContext

CONSTANTS Requests,     \* request identities
          Clients,      \* the trace headers a client may send
          RingCapacity, \* capacity of LogBuffer
          PageSize      \* how many events /logs returns

ASSUME GatewayAssumption ==
    /\ Clients \subseteq [traceparent : {"absent", "malformed", "lower", "upper"},
                          legacy : BOOLEAN]
    /\ RingCapacity \in Nat \ {0} /\ PageSize \in Nat

VARIABLES pc,      \* new, handling or done
          call,    \* method, path and trace headers of each request
          ctx,     \* the TraceContext route works with
          hop,     \* the request a handler sent to another service
          answer,  \* status sent, 0 for none yet
          page,    \* what a /metrics or /logs answer showed
          series,  \* MetricsRegistry.endpoints, in registration order
          ring,    \* LogBuffer.events, oldest first
          lines,   \* history: log lines emitted for each request, by all services
          served   \* history: responses completed by this isolate, in order

vars == <<pc, call, ctx, hop, answer, page, series, ring, lines, served>>

(* one path per kind of handler; of OPTIONS the path is only logged *)
Paths == {"/", "/health", "/metrics", "/logs", "/kv", "/protected", "/lambda/query", "/nowhere"}
Suspending == {"/kv", "/protected", "/lambda/query"}
Hopping == {"/protected", "/lambda/query"}
Calls == {c \in [method : {"GET", "OPTIONS"}, path : Paths, headers : Clients] :
            c.method = "OPTIONS" => c.path = "/"}

(* check_bindings: a binding of the deployed version is there or is not *)
Bindings == {"kv", "d1", "queue", "ai", "auth"}
HealthStatus(bound) == IF bound = Bindings THEN 200 ELSE 503

(* what a handler answers that asks nobody; 502: Lambda is not configured *)
Statuses(path) == CASE path \in {"/", "/metrics", "/logs"} -> {200}
                    [] path = "/health" -> {HealthStatus(b) : b \in SUBSET Bindings}
                    [] path = "/nowhere" -> {404}
                    [] path = "/lambda/query" -> {502}
                    [] OTHER -> {}

RelayedOpen(path, status) == \* mutant: an auth worker that fails lets everybody in
    IF path = "/lambda/query" THEN status
    ELSE IF status = 401 THEN 403 ELSE 200

(* /protected grants what auth granted; /lambda/query passes the status on *)
Relayed(path, status) == IF path = "/lambda/query" THEN status
                         ELSE IF status = 200 THEN 200 ELSE 403
PlatformError == 500

(* the client's headers *)
ClientId(r, upper) == [by |-> <<"client", r>>, upper |-> upper]
Traceparent(r, c) ==
    LET kind == c.headers.traceparent
        id == ClientId(r, kind = "upper")
    IN  CASE kind = "absent" -> Absent
          [] kind = "malformed" -> Malformed
          [] kind \in {"lower", "upper"} -> ToTraceparent([trace |-> id, span |-> id])
XTraceId(r, c) == IF c.headers.legacy
                  THEN {[by |-> <<"legacy client", r>>, upper |-> FALSE]} ELSE {}

NoCall == [method |-> "none"]
NoHop == [at |-> "nowhere", status |-> 0]
Sent == [at |-> "sent", status |-> 0]
Answered(status) == [at |-> "answered", status |-> status]

Init == /\ pc = [r \in Requests |-> "new"]
        /\ call = [r \in Requests |-> NoCall]
        /\ ctx = [r \in Requests |-> New(<<"nobody", r>>)]
        /\ hop = [r \in Requests |-> NoHop]
        /\ answer = [r \in Requests |-> 0]
        /\ page = [r \in Requests |-> <<>>]
        /\ series = <<>> /\ ring = <<>>
        /\ lines = [r \in Requests |-> <<>>]
        /\ served = <<>>

(* a request or response line, with the trace id its service works with *)
Line(service, c) == [service |-> service, trace |-> c.trace]

EmitTwice(r, service, c, n) == \* mutant: every line doubled
    lines' = [lines EXCEPT ![r] = @ \o [i \in 1..(2 * n) |-> Line(service, c)]]

Emit(r, service, c, n) ==
    lines' = [lines EXCEPT ![r] = @ \o [i \in 1..n |-> Line(service, c)]]

(* the head of route: the call and its TraceContext *)
Accept(r, c) == /\ pc[r] = "new"
                /\ call' = [call EXCEPT ![r] = c]
                /\ ctx' = [ctx EXCEPT ![r] = FromRequest(Traceparent(r, c), XTraceId(r, c),
                                                        <<"gateway", r>>)]

(* OPTIONS: the early return of route *)
Preflight(r, c) == /\ c.method = "OPTIONS" /\ Accept(r, c)
                   /\ pc' = [pc EXCEPT ![r] = "done"]
                   /\ answer' = [answer EXCEPT ![r] = 204]
                   /\ Emit(r, "gateway", ctx'[r], 1)
                   /\ UNCHANGED <<hop, page, series, ring, served>>

NewSeries5xx(c, status) == \* mutant: only server errors are counted
    [method |-> c.method, path |-> c.path, requests |-> 1,
     errors |-> IF status >= 500 THEN 1 ELSE 0]

(* metrics().register then record: the endpoint's collector is made for this call *)
NewSeries(c, status) == [method |-> c.method, path |-> c.path, requests |-> 1,
                         errors |-> IF status >= 400 THEN 1 ELSE 0]

(* MetricsRegistry::register *)
Register(c, status) == series' = Append(series, NewSeries(c, status))

(* MetricsRegistry::export_prometheus: the counters of every collector *)
Export == series

(* LogBuffer::push *)
PushRingLate(e) == ring' = IF Len(ring) > RingCapacity THEN Append(Tail(ring), e)
                                                       ELSE Append(ring, e) \* mutant: off by one
PushRing(e) == ring' = IF Len(ring) >= RingCapacity THEN Append(Tail(ring), e)
                                                    ELSE Append(ring, e)

RecentOldest(limit) == \* mutant: oldest first
    SubSeq(ring, 1, IF limit < Len(ring) THEN limit ELSE Len(ring))

(* LogBuffer::recent: newest first *)
Recent(limit) == SubSeq(Reverse(ring), 1, IF limit < Len(ring) THEN limit ELSE Len(ring))

(* from the handler's answer to the end of route *)
Respond(r, c, status) ==
    LET event == [request |-> r, status |-> status]
    IN  /\ pc' = [pc EXCEPT ![r] = "done"]
        /\ answer' = [answer EXCEPT ![r] = status]
        /\ Register(c, status)
        /\ PushRing(event)
        /\ served' = Append(served, event)

(* a handler without an await: the request line, the answer and its line *)
Serve(r, c) == /\ c.method # "OPTIONS" /\ Accept(r, c)
               /\ page' = [page EXCEPT ![r] = CASE c.path = "/metrics" -> Export
                                                [] c.path = "/logs" -> Recent(PageSize)
                                                [] OTHER -> <<>>]
               /\ \E status \in Statuses(c.path) : Respond(r, c, status)
               /\ Emit(r, "gateway", ctx'[r], 2)
               /\ UNCHANGED hop

(* a handler that awaits: the request line, and what it sends another service *)
Receive(r, c) == /\ c.method # "OPTIONS" /\ c.path \in Suspending /\ Accept(r, c)
                 /\ pc' = [pc EXCEPT ![r] = "handling"]
                 /\ hop' = [hop EXCEPT ![r] = IF c.path \in Hopping THEN Sent ELSE @]
                 /\ Emit(r, "gateway", ctx'[r], 1)
                 /\ UNCHANGED <<answer, page, series, ring, served>>

DroppedForward(r) == Absent \* mutant: the sub-request has no traceparent

(* /protected passes on the client's own header, if there is one *)
Forwarded(r) == Traceparent(r, call[r])

(* the auth worker's fetch of GET /verify; an Err after its first line is a 500 *)
Verify(r) == /\ hop[r] = Sent /\ call[r].path = "/protected"
             /\ LET own == FromRequest(Forwarded(r), {}, <<"auth", r>>)
                IN  \E status \in {200, 401, PlatformError} :
                      /\ hop' = [hop EXCEPT ![r] = Answered(status)]
                      /\ Emit(r, "auth", own, IF status = PlatformError THEN 1 ELSE 2)
             /\ UNCHANGED <<pc, call, ctx, answer, page, series, ring, served>>

(* the Lambda's handler *)
Invoke(r) == /\ hop[r] = Sent /\ call[r].path = "/lambda/query"
             /\ \E status \in {200, 404} : hop' = [hop EXCEPT ![r] = Answered(status)]
             /\ Emit(r, "lambda", LambdaContext(ToTraceparent(ctx[r]), <<"lambda", r>>), 2)
             /\ UNCHANGED <<pc, call, ctx, answer, page, series, ring, served>>

(* AWS answers for the Lambda: the signature is rejected, the function throttled *)
Refuse(r) == /\ hop[r] = Sent /\ call[r].path = "/lambda/query"
             /\ hop' = [hop EXCEPT ![r] = Answered(403)]
             /\ UNCHANGED <<pc, call, ctx, answer, page, series, ring, lines, served>>

Complete(r) == /\ pc[r] = "handling"
               /\ call[r].path \in Hopping => hop[r].at = "answered"
               /\ Respond(r, call[r], IF call[r].path \in Hopping
                                       THEN Relayed(call[r].path, hop[r].status) ELSE 200)
               /\ Emit(r, "gateway", ctx[r], 1)
               /\ UNCHANGED <<call, ctx, hop, page>>

(* the `?' on the match: no metric, no log, no span, the platform's own 500 *)
Fail(r) == /\ pc[r] = "handling"
           /\ pc' = [pc EXCEPT ![r] = "done"]
           /\ answer' = [answer EXCEPT ![r] = PlatformError]
           /\ UNCHANGED <<call, ctx, hop, page, series, ring, lines, served>>

(* a deploy or an eviction: the statics start over, requests in flight are gone, *)
(* what they sent is not                                                         *)
Restart == /\ series' = <<>> /\ ring' = <<>> /\ served' = <<>>
           /\ pc' = [r \in Requests |-> IF pc[r] = "handling" THEN "done" ELSE pc[r]]
           /\ UNCHANGED <<call, ctx, hop, answer, page, lines>>

Next == \/ \E r \in Requests : \/ \E c \in Calls : Preflight(r, c) \/ Serve(r, c)
                                                   \/ Receive(r, c)
                               \/ Verify(r) \/ Invoke(r) \/ Refuse(r)
                               \/ Complete(r) \/ Fail(r)
        \/ Restart

Spec == Init /\ [][Next]_vars
-----------------------------------------------------------------------------
Labels(s) == [method |-> s.method, path |-> s.path]
Endpoints == [method : {"GET"}, path : Paths]
Events == [request : Requests, status : Nat]
Services == {"gateway", "auth", "lambda"}

(* Every variable keeps its type; a request leaves at most two lines at a service. *)
TypeOK == /\ pc \in [Requests -> {"new", "handling", "done"}]
          /\ call \in [Requests -> Calls \cup {NoCall}]
          /\ hop \in [Requests -> [at : {"nowhere", "sent", "answered"}, status : Nat]]
          /\ answer \in [Requests -> Nat]
          /\ series \in Seq([method : {"GET"}, path : Paths, requests : Nat, errors : Nat])
          /\ ring \in Seq(Events)
          /\ \A r \in Requests, s \in Services :
                Cardinality({i \in DOMAIN lines[r] : lines[r][i].service = s}) <= 2
          /\ served \in Seq(Events)

(* What Prometheus computes from a scrape, sum by (method, path).                 *)
SumBy(scrape, l, counter) ==
    FoldSeq(LAMBDA s, n : IF Labels(s) = l THEN n + s[counter] ELSE n, 0, scrape)

(* The first n responses of this isolate with label l. *)
Responses(n, l) == {i \in 1..n : Labels(call[served[i].request]) = l}

AddsUp(scrape, n) ==
    \A l \in Endpoints :
        /\ SumBy(scrape, l, "requests") = Cardinality(Responses(n, l))
        /\ SumBy(scrape, l, "errors") = Cardinality({i \in Responses(n, l) : served[i].status >= 400})

(* However handlers interleave, the registry adds up to the responses of this     *)
(* isolate, label by label, and its error counters to those of 400 and above, and *)
(* so does what /metrics answered to the responses before its own: the sums the   *)
(* dashboards and alerts are built on.                                            *)
CountsAgree ==
    /\ AddsUp(series, Len(served))
    /\ \A i \in DOMAIN served :
         LET r == served[i].request
         IN  call[r].path = "/metrics" => AddsUp(page[r], i - 1)

(* The ring holds the newest responses in the order they completed, however       *)
(* requests overtake each other in their handlers, and drops only the oldest; a   *)
(* /logs page shows the newest completed before its own, newest first, as many as *)
(* the page and the ring hold.                                                    *)
Newest(n, size) == SubSeq(served, (IF n > size THEN n - size ELSE 0) + 1, n)

RingIsNewest ==
    /\ ring = Newest(Len(served), RingCapacity)
    /\ \A i \in DOMAIN served :
         LET r == served[i].request
         IN  call[r].path = "/logs" =>
               page[r] = Reverse(Newest(i - 1, Min({RingCapacity, PageSize})))

(* What metrics and ring record of a request is what its client was answered, and  *)
(* is recorded once: a request that was recorded logged both its lines, and one    *)
(* that an error or a restart took out of route left one line and nothing else.    *)
(* A recorded answer that relays another service is what that service said: access *)
(* is granted only if auth verified the token, and any other answer of auth, its   *)
(* own failure too, is a 403; the Lambda's status, or AWS's for it, is kept.       *)
OwnLines(r) == {i \in DOMAIN lines[r] : lines[r][i].service = "gateway"}

RecordedAsAnswered ==
    /\ \A i, j \in DOMAIN served : served[i].request = served[j].request => i = j
    /\ \A i \in DOMAIN served :
         LET r == served[i].request
         IN  /\ answer[r] = served[i].status
             /\ Cardinality(OwnLines(r)) = 2
             /\ call[r].path = "/protected" =>
                  answer[r] = (IF hop[r] = Answered(200) THEN 200 ELSE 403)
             /\ call[r].path = "/lambda/query" =>
                  hop[r] \in {NoHop, Answered(answer[r])}
    /\ \A r \in Requests :
         pc[r] = "done" /\ Cardinality(OwnLines(r)) = 1 =>
            \A i \in DOMAIN served : served[i].request # r

(* Whichever services log a request, and whenever: a valid traceparent of the      *)
(* client is the trace of every line of every service, spelled as it came except   *)
(* by the Lambda, which lowers its case (main.rs:49); and without one the lines of *)
(* the Lambda are still in the trace the gateway drew or took from X-Trace-Id.     *)
WithTraceparent(r) == call[r] # NoCall /\ FromTraceparent(Traceparent(r, call[r])) # {}

TraceJoined ==
    \A r \in Requests : \A i \in DOMAIN lines[r] :
        LET line == lines[r][i]
        IN  /\ line.service # "auth" \/ WithTraceparent(r) => line.trace.by = ctx[r].trace.by
            /\ WithTraceparent(r) => line.trace.by = <<"client", r>>
            /\ line.service # "lambda" /\ WithTraceparent(r) => line.trace = ctx[r].trace

(* README.md:164: "Every service extracts or creates a W3C `traceparent`     *)
(* header, passes it to downstream calls": the lines of a request, whichever *)
(* service wrote them, are in the trace the gateway gave it.                 *)
OneTrace ==
    \A r \in Requests : \A i \in DOMAIN lines[r] :
        lines[r][i].trace.by = ctx[r].trace.by
=============================================================================
