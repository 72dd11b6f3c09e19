# cloudflare-lab in TLA+

cloudflare-lab is a set of Rust Workers on Cloudflare: a gateway, an auth
worker, an analytics worker, a rate-limiter Durable Object, a shared crate with
the observability code (OTLP spans, Loki logs, metrics, log ring) and a Lambda
function. This directory models the parts that keep state or share it, checks
them with TLC, and proves their safety properties, and that four of them
implement their abstract specifications, with TLAPS. `PROJECT.json` lists the
runs, the lines every definition stands for, the mutants that show each
property can fail, the hazards and the theorems.

Paths below are relative to the repository.

## The system

| Component | State | Operations | What must hold |
|---|---|---|---|
| Rate limiter, `workers/rate-limiter/src/lib.rs` | per key a persisted `{count, reset_at}` | `fetch(limit, window)` | no window admits more than its limit; the number left that a caller is told is honest; nobody is locked out for longer than a window |
| OTLP span exporter, `shared/src/observability/otel.rs` | `SPAN_BUFFER` of the isolate; one `wait_until` task per request | `export_span`, `send_with_retry`, `flush_buffer` | a span is in one place; memory and POSTs bounded; settled spans are not sent again; tasks end |
| Loki exporter, `shared/src/observability/loki.rs` | `EVENT_BUFFER`, `FAILED_BUFFER`; one `wait_until` task per request | `buffer_event`, `push_logs`, `flush_failed`, `buffer_failed` | an event is in one payload or expelled; none outlives its own request's push in the buffer |
| Auth worker, `workers/auth/src/lib.rs`, `shared/src/crypto.rs`, `shared/src/bootstrap.rs` | `users` in D1; `DB_BOOTSTRAPPED` per isolate | register, login (migrates legacy hashes), debug insert, lazy bootstrap | one owner per name; passwords stable; no statement before the table |
| Queue consumer, `workers/gateway/src/lib.rs`, `handlers/queue.rs` | the platform's queue, `analytics_events` in D1 | send, batch loop with ack and retry | acknowledged means stored; no row but those redelivery forces; every message settles |
| Gateway router, `workers/gateway/src/routes.rs`, `handlers/lambda.rs`, `metrics.rs`, `structured_log.rs` | metrics registry and log ring of the isolate | `route`, `register`, `record`, `push`, `recent`, the sub-requests of `/protected` and `/lambda/query` | metrics, ring, log and answers agree with each other and with what the services behind said |
| Analytics worker, `workers/analytics/src/lib.rs` | `analytics_events` | `/track`, `/events?cursor=`, `/summary` | a scan ends and misses only what raced with it |
| Session tokens, `shared/src/session.rs` | `SESSION_SECRET` of each worker; legacy sessions in KV | `create_token`, `parse_token`, `validate_token` | a verdict is the one the token's signature and age call for, and a refusal is final |
| Trace context, `shared/src/observability/trace_context.rs`, the copy of it in `lambda/devops-api/src/main.rs` | headers | parse, pass on | the lines of one request are in one trace, as far as the headers passed on allow |
| Health checks, `routes.rs`, `health.rs` | none | `check_bindings` | a missing binding is a 503 |
| Histogram, SigV4, Lambda calendar | none shared | pure functions | each against its definition |

How they interact. The gateway's `route` calls a handler, records a metric,
pushes to the ring, buffers a log event and, where their endpoints are
configured, schedules `push_logs` and `export_span` with `cx.wait_until`. `/protected` calls the auth worker through a
service binding and passes on the client's `traceparent`; `/lambda/query` calls
the Lambda's Function URL and passes on the gateway's own trace context. Each of
the three writes its log lines in the trace it makes of the headers it got.
`/queue` sends to the queue, whose batches come back to the gateway's `queue` handler, which inserts into the table that the analytics
worker creates and reads. Sessions issued by auth are checked by analytics.

What is hard. An isolate runs one task at a time and switches at every `await`,
so the static buffers are shared by all requests in flight. Isolates are evicted
at any time and there are several of them, so "once per isolate" is not once.
D1 statements are atomic, sequences of them are not, and one whose answer is lost
may be executed when its request is long over. Queue delivery is at least
once. POSTs can be received and still be reported as failed. Clocks step.

## The modules

| Module | Stands for |
|---|---|
| `RateQuota` | abstract: what the limiter promises a caller, with no clock and no storage |
| `RateLimiter` (+ `MCRateLimiter`, `RateLimiterProofs`) | the Durable Object |
| `BestEffort` | abstract: a best-effort channel with bounded copies |
| `SpanExport` (+ `MCSpanExport`, `SpanExportProofs`) | the span exporter of one isolate |
| `LokiExport` (+ `MCLokiExport`, `LokiExportProofs`) | the event buffer and `push_logs`, composed with an instance of `SpanExport` for the retry, flush and failed-push buffer, which the code copies from it |
| `Accounts` | abstract: an atomic registry of accounts |
| `AuthWorker` (+ `MCAuthWorker`, `AuthWorkerProofs`) | accounts |
| `QueueConsumer` (+ `MCQueueConsumer`, `QueueConsumerProofs`) | the consumer between queue and D1 |
| `TraceContext` | what a service makes of trace headers, in the shared crate and in the Lambda's copy |
| `Gateway` (+ `MCGateway`, `GatewayProofs`) | the router with registry, ring and log lines, and behind it the auth worker and the Lambda |
| `EventPaging` (+ `MCEventPaging`, `EventPagingProofs`) | paging and summary over a growing table |
| `SessionTokens` (+ `MCSessionTokens`, `SessionTokensProofs`) | tokens between the worker that signs them and the two that check them |

State and actions. An action is what a piece of code does from one `await` to
the next.

* `RateLimiter`: the input gate of a Durable Object closes over storage
  operations, so the get, the decision and the put of `fetch` are one action:
  `Allow` (put durable, answer delivered), `AnswerLost` (put durable, answer not
  delivered) or `Deny` (nothing written). `Tick` and `Adjust` are the clock: for
  key `k` it lags real time by at most `Skew[k]` seconds, and may change its lag
  at will. `granted` records every call that was allowed, with its second and the end
  of its window.
* `SpanExport`: `task[t]` is the await task `t` is suspended at. `Begin` is
  `export_span` to its first await; `Sent` a 2xx, together with the drain and
  the first POST of `flush_buffer`; `Fail` and `Retry` one backoff;
  `Keep` the last failure with the overflow rule; `Flushed` and `FlushFailed` one
  answer in the flush. `Arrive` and `ArriveLate` are the collector, in time and
  after the exporter has stopped listening. `Cancel` is the end of
  `wait_until`'s patience, `Evict` the isolate's.
* `LokiExport`: `Log` is the end of `route`: `buffer_event` (`Buffer`), which runs
  in every configuration, and then the scheduling of `push_logs`, which needs
  `LOKI_ENDPOINT` (`endpoint`, unset in `wrangler.toml`) and two headers that can
  be set; a request that schedules nothing is `left`. `Push` is `push_logs` to its
  first await, which takes every buffered event or finds none; the rest is the
  instance. A payload is named by its task. The endpoint is a choice of `Init` and
  of every `Evict`.
* `AuthWorker`: `pc[r]` is the statement request `r` waits for. A statement that
  fails for the worker, or is on its way when the isolate goes, becomes `late`: D1
  executes it at any later step (`ExecuteLate`) or never. A stored hash is its scheme and the
  password behind it, that is, what the verify functions can tell apart. Seen
  through `Registry`, a request takes effect in the step that answers it: the
  SELECT for a 409 and a 401, the INSERT for a 201, the last statement for a 200.
  A late statement takes effect as the registry's `Late`, an isolate's end is its
  `Abandon`.
* `QueueConsumer`: `Deliver`, `Repeat` and `Settle` are the platform, `Skip`, `Store` and
  `StoreFails` one turn of the loop, `Crash` a dying invocation, whose marks may
  or may not have reached the platform. `Repeat` is delivery at least once: a
  message that is out, or was acknowledged, waits again although nobody asked; the
  loop that had it goes on and may store it, but its verdict (`taken`) counts no
  more. `unheard` counts what the consumer has no say in: INSERTs executed without
  an answer, acks that died, deliveries repeated unasked.
* `Gateway`: `Serve` is a route without an await; `Receive` and `Complete` the
  two halves of one with; `Fail` the `?` that leaves `route`; `Preflight`
  OPTIONS. Between the halves `Verify` is the auth worker's `fetch`, `Invoke` the
  Lambda's `handler` and `Refuse` an answer of AWS that never reached it; they
  may also come after the gateway's request has failed or its isolate has gone.
  A series is one collector of the registry, as `register` makes one per call. A
  line is its service and the trace id it carries; an id is named by who drew it
  and whether it is spelled in upper case.
* `EventPaging`: `Count` and `Select` are the two statements of a page,
  `SummaryCount` and `SummaryGroup` those of `/summary`; `Track` inserts. A
  client begins with any cursor, and `next_offset` wraps at `Width` as `u32` does
  in a release build (no profile turns overflow checks on).
* `SessionTokens`: `Login`, `Issue` and `LoginFails` are the signing end, with
  the secret read before D1's answer and used after it. `Present` is a request
  to `/verify`, `/me` or any route of analytics: a warm isolate judges an `s2`
  token in the same step (`Handle`), a cold one suspends in its bootstrap first
  (`Bootstrap`, `BootstrapFails`), and a legacy session waits for KV (`LookUp`).
  `Rotate` deploys a new secret to one worker; `Verdict` is `parse_token`.

## The runs

All runs below finish with the result stated; times are for two workers.

| Run | Bounds | Result |
|---|---|---|
| `RateLimiter` | 2 keys with limits 2 (steady) and 1 (skew 1), window 2, 5 seconds | 110,804 states. `WindowBound`, `RemainingHonest`, `LockoutBound`, `SlidingBound`, refinement of `RateQuota` |
| `SpanExport` | 4 tasks, buffer of 2, 2 attempts, symmetry | 116,964 states. `OnePlace`, `PostBudget`, `SettledIsFinal`, refinement of `BestEffort` |
| `LokiExport` | 3 requests, buffers of 2 events and 1 payload, 2 attempts | 109,718 states, about 115 s. `EventOnce`, `NothingStranded`, `EventsMoveOn`, refinement of `BestEffort` |
| `AuthWorker` | 3 requests, 2 isolates, 2 names (one is the debug handler's), 2 passwords, a new database or one with a legacy user, failing D1 | 777,195 states, about 105 s. `TableBeforeUse`, `RegisteredOnce`, `PasswordStable`, refinement of `Accounts` |
| `AuthWorker_conflict` | 2 requests, healthy D1 | violated: `RegisterAnswers` |
| `QueueConsumer` | 3 messages (one not JSON), 2 invocations, batches of 2, 1 retry; D1 fails, invocations die, deliveries repeat | 147,650 states, about 75 s. `AckedMeansStored`, `RowsBounded`, `NoNeedlessRow`, `EveryMessageSettles`, `EveryStepUsesUp` |
| `QueueConsumer_loss` | the same, but the table exists and only D1's INSERTs fail | violated: `NoDataLoss` |
| `Gateway` | 3 requests, ring of 2, page of 1, clients with an upper-case `traceparent` or a malformed one and an `X-Trace-Id`, symmetry | 311,259 states, about 30 s. `CountsAgree`, `RingIsNewest`, `RecordedAsAnswered`, `TraceJoined` |
| `Gateway_traces` | 2 requests without trace headers | violated: `OneTrace` |
| `EventPaging` | up to 5 rows, 3 seconds, limits 0, 2, 5 with a clamp at 3, first cursors 0, 1 and 7 of width 8 | 1,346,524 states, about 60 s. `ScanMissesOnlyRaced`, `SummaryNeverShort`, `ScanEnds`, `PagesAdvance` |
| `SessionTokens` | 2 checks, 1 login, 1 legacy session, 2 secrets for each of 2 workers, lifetime 1, skew 1, 4 seconds, symmetry | 5,567,219 states, about 90 s. `JudgedRight`, `RefusalIsFinal` |
| `SessionTokens_outage` | the same | violated: `TokensNeedNoDatabase` |

Why the bounds are enough to see the interesting cases: two windows and their
seam fit in five seconds of window 2; four spans are the fewest with which two
flushes overlap while a third span overflows or is buffered; three requests let
one push take two events while the buffer overflows or refills; three auth
requests let two race for one name and a third read the outcome, or let the late statement
of a lost request race with two live ones; two invocations and two
JSON messages let a batch half fail, or one of its messages be repeated, while the
other invocation works on the redelivery; three responses overflow a ring of two; two checks of one token are the fewest
that can contradict each other, and four seconds take a token of lifetime one
past its end on every clock; a width of 8 leaves room for the largest table and one page,
as 2^32 does, so the last cursor wraps and none before it does. The real constants
(`MAX_BUFFERED_SPANS`, three backoffs, a ring of 100, pages of at most 100) only
lengthen the same sequences. `Attempts` of 2 exercises a first, a repeated and a
last attempt.

Deadlock is checked except in `QueueConsumer`, `EventPaging` and
`SessionTokens`, whose systems stop when all messages are settled, when the
client has read its last page and the bounds on rows and time are reached, and
when every check is answered and the secrets and the seconds are used up.

### What the violations say

* `RegisterAnswers`: tests promise that a taken name is answered 409
  (`tests/integration/auth.sh:46`, `tests/README.md:42`). Two registrations that
  both pass the SELECT end with one 201 and one worker error, because the UNIQUE
  constraint refuses the second INSERT and `?` passes the error on. No account is
  harmed: `RegisteredOnce` and `PasswordStable` hold.
* `NoDataLoss`: `OBSERVABILITY.md:823-824` promises "No data loss (queue retains
  messages up to 4 days or 100k messages)" while the consumer does not keep up
  with D1. Retries are bounded and there is no dead-letter queue. In the trace the
  table exists and no invocation dies: the INSERT of each delivery of an event
  fails, each is marked `msg.retry()`, and the event is discarded unstored once its
  deliveries are used up, however much of the four days is left.
* `OneTrace`: `README.md:164` says every service extracts or creates a
  `traceparent` and "passes it to downstream calls", and `OBSERVABILITY.md:120`
  that it is injected into downstream requests, so that logs of services can be
  correlated by `trace_id`. `routes.rs:129` passes on only a header that came in:
  of a request without one the auth worker's lines are in another trace than the
  gateway's. `TraceJoined` says what does hold: the Lambda, which is passed the
  gateway's own context, logs in its trace, and the auth worker in the trace of
  the header the client sent, if it sent a good one.
* `TokensNeedNoDatabase`: `OBSERVABILITY.md:745-747` says tokens still work
  while D1 is down. A warm isolate does check them without D1, but a cold one
  awaits its CREATE TABLE before every route and passes its failure on, so the
  check there of a token signed with the worker's own secret, and expired by no
  clock, is an error. `JudgedRight` shows it is the only
  way to get one besides a missing secret.

Other disagreements between documents and code seen while reading, each plain
from the lines and without a run of its own:

* `OBSERVABILITY.md:304` and `:483` describe one collector per route, made by its
  first request; `route` registers one per request (`routes.rs:174`), so a scrape
  repeats a route's labels once per request. `OnePerResponse`, which is proved,
  says so of every response, and `CountsAgree` that the sums by label are right.
* The Lambda lowers the case of the trace ids it is passed (`main.rs:49`), the
  shared parser keeps it: one trace under two spellings, which `TraceJoined`
  allows the Lambda alone.
* `loki.rs:9` gives `LOKI_ENDPOINT` a default; `routes.rs:202` has none, and
  `OBSERVABILITY.md:944` says the export is skipped without it. `buffer_event`
  (`routes.rs:181`) is not: without it each isolate keeps its last `MAX_BUFFERED_EVENTS`
  events and nobody pushes them.
* `trace_context.rs:10` says a span id is unique per service hop; a service that
  accepts a `traceparent` works under the caller's span id, since nobody calls
  `child_span`.
* `routes.rs:146` answers "invalid or missing token" when the auth worker failed.
* `metrics.rs:108` and `:115` leave `_count` and `_sum` out of the names of
  labelled summaries, so both lines carry one name; and as `register` makes one
  collector per call, each quantile is of one observation.
* `README.md:236` and `OBSERVABILITY.md:975` say "No retry" in `wait_until`;
  `otel.rs:184` retries, and `flush_buffer` posts once more.
* `crypto.rs:57` says the migration "fires once"; two concurrent first logins
  both migrate, with the same result.
* `README.md:46-47`, `OBSERVABILITY.md:777` and test 8 of
  `tests/integration/auth.sh` describe rate limits on `/register` and `/login`;
  `check_rate_limit` (`workers/auth/src/lib.rs:54-55`) is never called.
* `OBSERVABILITY.md:210-212` lists `OPTIONS *` among the tracked routes;
  `routes.rs:34-53` answers before the metrics.
* `OBSERVABILITY.md:166` says each request logs two events; OPTIONS and a
  handler's `Err` (`routes.rs:155`) log one.
* `otel.rs:31` and `loki.rs:78` say a buffered item goes out with the next
  export; it does only after a successful one.
* `workers/auth/wrangler.toml:21` and `OBSERVABILITY.md:773` say a new
  `SESSION_SECRET` invalidates all sessions; legacy sessions in KV survive it.
* `session.rs:68` says the purpose is taken from the payload and not from
  `expected_purpose`; the next line of code uses `expected_purpose`. Both ends
  pass "session", and the purpose in the payload is compared afterwards.
* `README.md:224` says D1 is paged with no cursor; `/events` has one, an offset.
* `handlers/queue.rs:10` sends text that is not JSON, which the consumer
  acknowledges and drops.
* `bootstrap.rs:21` speaks of separate databases, `wrangler.toml` binds one.

## Fairness

* `LokiExport` (and `FairSpec` of `SpanExport`, which it contains): weak fairness
  of every task's continuation. A `fetch` settles with an answer or an error and
  `setTimeout` fires; the runtime polls every scheduled future. Nothing is
  assumed of the collector, of arrivals, cancellations or evictions, nor that a
  request schedules a push: `EventsMoveOn` promises an event in the buffer
  something only while some push is scheduled, since without `LOKI_ENDPOINT` none
  ever is.
* `QueueConsumer`: weak fairness of a running handler, strong fairness of
  delivering each message, since the platform keeps retrying a waiting message
  while other messages compete for invocations. No fairness for sends, the
  bootstrap or D1, and none that the platform repeats a delivery or does not.
* `EventPaging`: the client goes on paging (`WF(Count)`), and among retries of a
  page some SELECT succeeds (`SF(Select)`): D1 may fail any number of times but
  not always.

## What is proved

Every invariant, action property and refinement of a run that passes is a
theorem, for every value of the constants that the module's assumption admits;
of the liveness properties the measures behind them are (below).
The argument is the same each time. A property is seldom inductive; `Inductive`
in each `Proofs` module is the property together with what it lacks. TLC checked
it on the run's instance first. It is proved of `Init`, then of each action, and
the theorems follow from it.

`RateLimiterProofs` proves, for every set of keys, every limit, window length,
skew and horizon that satisfies `LimiterAssumption` and `SkewAssumption`:

| Theorem | Statement |
|---|---|
| `TypeCorrect` | `Spec => [](TypeOK /\ WindowAccounting)` |
| `WindowBoundHolds` | `Spec => []WindowBound` |
| `LockoutBoundHolds` | `Spec => []LockoutBound` |
| `RemainingHonestHolds` | `Spec => []RemainingHonest` |
| `SlidingBoundHolds` | `Spec => []SlidingBound` |
| `SteadyKeysImplementQuota` | `Spec => ImplementsQuota` |

`WindowBound` is not inductive: a state where the open window's history exceeds
its count, or where a later window than the stored one has already answered,
satisfies it and breaks it in one step. `WindowAccounting` excludes both: the
open window handed out at most what is counted, the count is at most the limit,
and no window later than the stored one was used. That last part is what
survives a clock that steps back, because a new window always ends strictly
later than the one it replaces (lemma `LoadedState`). `RemainingHonest` speaks
of open windows only, and a clock that steps back can reopen one, so the
inductive form `PromiseKept` drops the clock. `SlidingBound` lacks where the windows
of a steady key lie: `WindowsApart` says that each was granted in during the
`Window` seconds before its end and that no two overlap, so a stretch of `Window`
seconds meets two of them at most, and each holds the limit at most
(`WindowBound`); the two sets of grants are added by their cardinalities. The refinement maps a steady key's
quota to its limit less the count of the window as `fetch` would load it now, so
`Tick` refills exactly the keys whose window has just closed; it uses the
invariants above and lemma `SteadyClock`.

`AuthWorkerProofs` proves, for every set of requests, isolates, names, passwords
and legacy users that satisfies `AuthAssumption`, with a D1 that may fail or not:

| Theorem | Statement |
|---|---|
| `StatementsHaveTable`, `WorkerTypes` | `Spec => [](TypeOK /\ TableBeforeUse)` |
| `RegistrationsUnique` | `Spec => []RegisteredOnce` |
| `PasswordsStable` | `Spec => PasswordStable` |
| `WorkerImplementsAccounts` | `Spec => ImplementsAccounts` |

None of them is inductive: a login that is about to UPDATE an account with
another password, or a validated request suspended at a statement of another
route, satisfies them and breaks them in one step. `PendingFits` excludes both, and
`LateFits` says the same of the statements that have outlived their requests. Their
core is that a pending UPDATE is of a login whose password is still the
account's, and that holds because no step changes a password (`StepKeepsRows`):
the invariants and the action property are proved together. `OneRequest`
then says once what every action has to leave its request with, and `StepRefines`
matches each action to the registry: an answer to the registry's step of that
name, a statement in between to a stutter, a failed statement to an error, the
end of an isolate to `Abandon` of the requests in it, and a late INSERT to `Late`,
which the registry allows only to a registration whose client was told of an
error, of the debug handler's report, or of nothing.

`SpanExportProofs` proves, for every set of spans, `MaxBuffered` and `Attempts`
of at least one (`ExportAssumption`):

| Theorem | Statement |
|---|---|
| `MemoryIsBounded`, `SpansInOnePlace` | `Spec => []TypeOK`, `Spec => []OnePlace` |
| `PostsWithinBudget` | `Spec => []PostBudget` |
| `SettledSpansFinal` | `Spec => SettledIsFinal` |
| `ImplementsChannel` | `Spec => ImplementsBestEffort` |
| `TasksRunOut` | `Spec => AwaitsRunOut` |

`PostBudget` alone does not survive a flush: the POSTs a buffered span has left
depend on how it came to be buffered. `Spent` says what has been posted for a
span at each stage (`Cost`: `Attempts` when it is buffered or in a drain, one more
when it heads the drain, whose POST is under way), how much of it can have
arrived (`Received`: not the POST under way) and that an answer means arrival
(`Answered`). `Placed` is the control behind it: a task is flushing exactly while
it holds a drain, and backs off only with an attempt left. Lemmas `TailOccurs`
and `AppendOccurs` say what the buffer operations do to the spans in it, and
`StepRefines` matches each action to a step of the channel. `SettledIsFinal`
follows from `OnePlace`: a settled span is at no place a task could post it from.
`AwaitsRunOut`, which is stated beside its proof, bounds how long `wait_until` has
to be patient: every step of a task leaves it fewer awaits, at most two per
attempt and one per buffered span, and no step of another task leaves it more.

`LokiExportProofs` proves, for every set of requests and every bound of the two
buffers and the attempts (`LokiAssumption`):

| Theorem | Statement |
|---|---|
| `MemoryIsBounded` | `Spec => []TypeOK` |
| `EventsOnce` | `Spec => []EventOnce` |
| `NoEventStranded` | `Spec => []NothingStranded` |
| `EventsImplementChannel` | `Spec => ImplementsBestEffort` |
| `PushesRunOut` | `Spec => P!AwaitsRunOut`, with `P` the proofs of the exporter behind the event buffer |

As `LokiExport` instantiates `SpanExport`, its proofs instantiate
`SpanExportProofs`: the steps of a push are steps of the exporter
(`PushesInvariant`), and only the event buffer in front of it is new. `Whereabouts`
says that an event is in one payload, in the buffer or expelled, and in one of
them as soon as its request has logged, with `LOKI_ENDPOINT` set or not; `Built` that a payload is built once, by the
task that posts it. `NothingStranded` holds since `push_logs` takes all there is at
its first step: a request whose push is over left nothing of its own behind, even
when it found the buffer emptied by others. Refinement sees the channel from the events: all events of a
payload change fate in the step in which the payload does.

`QueueConsumerProofs` proves, for every set of messages and invocations, batch
size and number of retries, with faults and without (`QueueAssumption`):

| Theorem | Statement |
|---|---|
| `ConsumerTypes` | `Spec => []TypeOK` |
| `AckedIsStored` | `Spec => []AckedMeansStored` |
| `RowsAreBounded` | `Spec => []RowsBounded` |
| `RowsAreNeeded` | `Spec => []NoNeedlessRow` |
| `StepsUseUp` | `Spec => EveryStepUsesUp` |

What the properties lack is whom the platform listens to (`Handed`: one invocation
at most for each message that is out, and it has marked exactly what its loop has
left behind) and the rows that may still come (`Counted`: one for each loop that
has not reached the message, `AtWork`, and one if it is to be delivered again,
`Coming`). Rows there and to come never exceed the deliveries, which bounds the
duplicates, nor `1 + unheard`, which says that each of them is owed to something
the consumer had no say in. Loops are counted by a cardinality, since a repeated
delivery leaves several at work on one message; `OneLoop` says how one loop's turn
changes it. `EveryStepUsesUp` weighs a delivery with four steps, of which a repeated
one uses up its turn.

`SessionTokensProofs` proves, for every set of workers, logins, legacy sessions
and checks, every lifetime, skew and number of secrets (`TokenAssumption`):

| Theorem | Statement |
|---|---|
| `TokenTypes` | `Spec => []TypeOK` |
| `VerdictsAreRight` | `Spec => []JudgedRight` |
| `RefusalsAreFinal` | `Spec => []RefusalIsFinal` |

The verdict is given against the `exp` in the token, the properties speak of its
birth; `IssuedFits` relates the two by the skew of the clock that stamped it.
`Presented` keeps what a check knew when it came in: its worker's secret, which
only grows, so an earlier check by the same worker had none that was newer.

`EventPagingProofs` proves, for every set of limits and first cursors, every
size of the table and every `Width` that has room for it (`PagingAssumption`):

| Theorem | Statement |
|---|---|
| `PagingTypes` | `Spec => []TypeOK` |
| `ScansMissOnlyRaced` | `Spec => []ScanMissesOnlyRaced` |
| `SummariesNeverShort` | `Spec => []SummaryNeverShort` |
| `PagesAlwaysAdvance` | `Spec => PagesAdvance` |

The property speaks of the end of a scan; the invariant says of every page that
the rows the cursor has passed and the client was not shown are no more than the
first cursor skipped. It is kept because positions are an injection into the rows
of the table (`Ranked`, `Bounds`) that inserts can only move towards the back
(`PositionsGrow`), so a row the client has not seen is never moved to where the
cursor has been. A cursor beyond any table is a case of its own: it may
wrap, and a scan from there has nothing it could miss. `PagesAdvance` holds because
`total` is never more than the table has rows: a cursor within it leaves room for one
page below `Width`, so only one beyond it wraps.

`GatewayProofs` proves, for every set of requests, every mix of clients, every
capacity of the ring and every size of a page (`GatewayAssumption`):

| Theorem | Statement |
|---|---|
| `GatewayTypes` | `Spec => []TypeOK` |
| `RingShowsNewest` | `Spec => []RingIsNewest` |
| `RecordsMatchAnswers` | `Spec => []RecordedAsAnswered` |
| `CollectorsMirrorResponses` | `Spec => []OnePerResponse` |
| `CountsAddUp` | `Spec => []CountsAgree` |
| `TracesJoin` | `Spec => []TraceJoined` |

`Stage` is what a request and the service behind it are at each stage: a waiting
request has written one line, a service that has not answered has written none,
and every line is in the trace its service makes of its headers. `Settled` is
what makes records final: a recorded request waits for no service, so an answer
that comes after the gateway has failed can only be of a request that was
never recorded. `RingFollows` and `PageShows` are the arithmetic of the ring, for
a page larger than the ring, smaller, or none. `OnePerResponse` is what `CountsAgree`
adds up, response by response: the collectors are the responses of the isolate
in their order, each with its label and status. That the sum, a `FoldSeq`, is then
the number of those responses is induction over the sequence. The library's
induction theorems take an operator, which the provers cannot instantiate, so
`SumCounts` does without them: the subsets of a finite set are well founded under
inclusion (`FS_StrictSubsetOrderingWellFounded`), so of the sets of collectors whose
fold and count differ one is smallest (`WFMin`), and it has no element to take away.
`PrefixAddsUp` applies it to the registry and to every `/metrics` page.

### What is only model-checked

* Liveness: `EventsMoveOn`, `EveryMessageSettles`, `ScanEnds`. Fairness and
  `ENABLED` are outside what the prover handles. What is proved of them is that
  nothing which was done is undone: `StepsUseUp` for the queue and `TasksRunOut` and
  `PushesRunOut` for the exporters bound the steps there can be, and
  `PagesAlwaysAdvance` the pages that are answered (one that fails is asked for
  again, as often as D1 fails). Left to TLC is that such a step is taken.
* The four runs that end in a violation show a counterexample, which needs no proof.

## Assumptions

* Platform behaviour is external: Durable Object input and output gates, the
  redelivery and settling of Cloudflare Queues, the runtime's 500 for a handler's
  `Err`, cancellation of `wait_until`, eviction. The modules mark these actions.
* The D1 binding exists, as every `wrangler.toml` declares it.
* Queue: each delivery counts against `max_retries`, a repeated one too; a
  message settled by a discard is not delivered again; and when a message is
  delivered anew the platform heeds no verdict of an earlier delivery.
* A D1 statement whose answer the worker does not get is executed once, at once or
  later, or never; D1 does not repeat it.
* Without `LOKI_ENDPOINT`, or when a header cannot be set (the `?` of
  `routes.rs:183-184`), events stay in the buffer, bounded by `MAX_BUFFERED_EVENTS`;
  that is the code's behaviour, and the properties of `LokiExport` allow it.
* A deployment of a new `SESSION_SECRET` replaces its worker's isolates at once,
  and a secret is never used again once it was replaced (no rollback to an earlier
  version). While old and new isolates served side by side, a token refused by the
  one could be accepted by the other, and `RefusalIsFinal` would not hold.
* The exporters are modelled per isolate, as their buffers are.
* In `LokiExport` late copies are left out: they change only what the receiver
  counted, and `SpanExport` checks that.
* Rows with equal `created_at` come back in rowid order, which D1's SQLite does
  on an unindexed scan and SQL does not promise.
* `max_retries` is not set in `wrangler.toml`, so the platform's default applies;
  the model takes any number.

## What is not modelled, and the plan

Written: the modules above, and the proofs of all they promise but liveness. Next:
pure algorithms against their definitions, histogram percentiles and the Lambda's
calendar conversion (`main.rs:213-252`). Both are loops over data, written as
recursive functions; what they compute can be checked by TLC over bounded inputs,
and proved along the lines of `SumCounts`.

Partly modelled: of the gateway, latencies and CORS headers are left out, and the
exporters it schedules are checked on their own; composing all three multiplies
their states without a step in which they meet, since a request only hands an
event over. The health routes of auth and analytics repeat the gateway's. Request
ids are echoed or drawn and never passed on, so nothing relates two of them.

Not planned: SigV4 signing and the protobuf types (pure layout and
cryptography), Terraform, dashboards, load tests and CI (configuration).
