------------------------------ MODULE LokiExport ------------------------------
(* The Loki log exporter (shared/src/observability/loki.rs) of one isolate:        *)
(* buffer_event, push_logs and the two static buffers, as the gateway uses them    *)
(* (workers/gateway/src/routes.rs): each routed request buffers one event, and     *)
(* schedules one push_logs in cx.wait_until if it gets that far and LOKI_ENDPOINT, *)
(* which is optional, is set. An event whose request schedules nothing waits for   *)
(* the push of another, or for the overflow.                                       *)
(*                                                                                 *)
(* Behind the event buffer the exporter "follows the same retry + buffer pattern   *)
(* as the OTel exporter": Pushes is that machine, with a payload in the place of   *)
(* a span. A payload is named by the request whose push_logs built it.             *)
EXTENDS Naturals, Sequences, SequencesExt

CONSTANTS Requests,    \* one event and at most one push task each
          MaxEvents,   \* MAX_BUFFERED_EVENTS
          MaxPushes,   \* MAX_BUFFERED_PUSHES
          Attempts     \* the number of backoffs in send_with_retry

ASSUME LokiAssumption == /\ MaxEvents \in Nat \ {0}
                         /\ MaxPushes \in Nat \ {0}
                         /\ Attempts \in Nat \ {0}

VARIABLES endpoint, \* LOKI_ENDPOINT is set where the isolate was deployed
          events,   \* EVENT_BUFFER, oldest first
          stage,    \* stage[r]: how far request r is
          batch,    \* batch[r]: the events in the payload r built
          expelled, \* history: events dropped from a full or lost event buffer
          task, attempt, arrived, buffer, draining, fate, posts, copies

exporter == <<task, attempt, arrived, buffer, draining, fate, posts, copies>>
vars == <<endpoint, events, stage, batch, expelled, exporter>>

(* send_post, send_with_retry, flush_failed, buffer_failed, FAILED_BUFFER *)
Pushes == INSTANCE SpanExport WITH Spans <- Requests, MaxBuffered <- MaxPushes

Init == /\ endpoint \in BOOLEAN
        /\ events = <<>>
        /\ stage = [r \in Requests |-> "new"]
        /\ batch = [r \in Requests |-> <<>>]
        /\ expelled = {}
        /\ Pushes!Init

EventsFullLate == Len(events) > MaxEvents \* mutant: off by one
EventsFull == Len(events) >= MaxEvents

(* buffer_event, which no configuration keeps from running *)
Buffer(r) == IF EventsFull
             THEN /\ events' = Append(Tail(events), r)
                  /\ expelled' = expelled \cup {Head(events)}
             ELSE /\ events' = Append(events, r)
                  /\ UNCHANGED expelled

(* The end of route: the event is buffered; then a header that cannot be set      *)
(* (`?`) may end the request, or it schedules its push, given an endpoint.        *)
Log(r) == /\ stage[r] = "new"
          /\ Buffer(r)
          /\ \/ endpoint /\ stage' = [stage EXCEPT ![r] = "scheduled"]
             \/ stage' = [stage EXCEPT ![r] = "left"]
          /\ UNCHANGED <<endpoint, batch, exporter>>

(* push_logs returns at once *)
FindsFlight == events = <<>> \/ \E q \in Requests : fate[q] = "sending" \* mutant: one push at a time
FindsNone == events = <<>>

(* what drain(..) leaves behind *)
EventsKept == events \* mutant: the events are copied, not drained
EventsDrained == <<>>

(* push_logs up to its first await: take every event, or find none *)
Push(r) == /\ stage[r] = "scheduled"
           /\ stage' = [stage EXCEPT ![r] = "pushed"]
           /\ IF FindsNone
              THEN UNCHANGED <<events, batch, exporter>>
              ELSE /\ batch' = [batch EXCEPT ![r] = events]
                   /\ events' = EventsDrained
                   /\ Pushes!Begin(r)
           /\ UNCHANGED <<endpoint, expelled>>

(* the rest of push_logs, from await to await; copies that arrive late change    *)
(* nothing the exporter sees, and are SpanExport's                               *)
Transport(r) == /\ Pushes!Arrive(r) \/ Pushes!Resume(r) \/ Pushes!Cancel(r)
                /\ UNCHANGED <<endpoint, events, stage, batch, expelled>>

(* the isolate goes, with both buffers and every task; the next one may be of     *)
(* another deployment, with the endpoint set or not                               *)
Evict == /\ Pushes!Evict
         /\ events' = <<>>
         /\ expelled' = expelled \cup ToSet(events)
         /\ stage' = [r \in Requests |-> IF stage[r] = "scheduled" THEN "pushed" ELSE stage[r]]
         /\ endpoint' \in BOOLEAN
         /\ UNCHANGED batch

Next == \/ \E r \in Requests : Log(r) \/ Push(r) \/ Transport(r)
        \/ Evict

Spec == Init /\ [][Next]_vars

(* a scheduled task is polled, a fetch settles, a timer fires *)
FairSpec == Spec /\ \A r \in Requests : /\ WF_vars(Push(r))
                                        /\ WF_vars(Pushes!Resume(r)
                                                   /\ UNCHANGED <<endpoint, events, stage,
                                                                  batch, expelled>>)
-----------------------------------------------------------------------------
(* Every variable keeps its type, and the isolate's memory stays bounded while *)
(* Loki is down.                                                               *)
TypeOK == /\ endpoint \in BOOLEAN
          /\ events \in Seq(Requests) /\ Len(events) <= MaxEvents
          /\ stage \in [Requests -> {"new", "scheduled", "left", "pushed"}]
          /\ batch \in [Requests -> Seq(Requests)]
          /\ expelled \subseteq Requests
          /\ Pushes!TypeOK

Carriers(e) == {r \in Requests : Contains(batch[r], e)}

(* Concurrent push tasks never put one event into two payloads, never lose one   *)
(* between the event buffer and a payload, and never build a payload that the    *)
(* failed-push buffer or two flushes hold twice.                                 *)
EventOnce ==
    /\ Pushes!OnePlace
    /\ IsInjective(events)
    /\ \A e \in Requests :
        LET places == Cardinality(Carriers(e))
                        + (IF Contains(events, e) THEN 1 ELSE 0)
                        + (IF e \in expelled THEN 1 ELSE 0)
        IN  places = IF stage[e] = "new" THEN 0 ELSE 1

(* A push may drain the events of other requests, and find its own taken by them:  *)
(* but no request's push is over while its event is still in the buffer. What is   *)
(* buffered has its own push to come, or belongs to a request that scheduled none. *)
NothingStranded ==
    \A e \in Requests : Contains(events, e) => stage[e] \in {"scheduled", "left"}

PushToCome == \E r \in Requests : stage[r] = "scheduled"

(* While any push is scheduled, no event in the buffer stays there, not even one    *)
(* whose own request scheduled none: it is expelled, or some task pushes it; and    *)
(* every push task ends, its payload at rest. (Of events with no push to come       *)
(* nothing is promised: without LOKI_ENDPOINT they stay, up to MaxEvents of them.)  *)
EventsMoveOn ==
    /\ \A e \in Requests :
        Contains(events, e) /\ PushToCome ~> ~Contains(events, e)
    /\ Pushes!EveryTaskEnds

(* Seen from one event, the exporter is a best-effort channel: what is settled is  *)
(* never sent again, and a payload is pushed at most Attempts + 1 times.           *)
EventStatus(e) == CASE stage[e] = "new" -> "new"
                    [] e \in expelled -> "gone"
                    [] Contains(events, e) -> "pending"
                    [] OTHER -> LET r == CHOOSE r \in Carriers(e) : TRUE
                                IN  Pushes!Status(fate[r])
EventCopies(e) == IF Carriers(e) = {} THEN 0
                  ELSE copies[CHOOSE r \in Carriers(e) : TRUE]
Channel == INSTANCE BestEffort WITH
               Items <- Requests, MaxCopies <- Attempts + 1,
               status <- [e \in Requests |-> EventStatus(e)],
               copies <- [e \in Requests |-> EventCopies(e)]
ImplementsBestEffort == Channel!Spec
=============================================================================
