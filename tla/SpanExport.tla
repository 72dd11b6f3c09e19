------------------------------ MODULE SpanExport ------------------------------
(* The OTLP span exporter (shared/src/observability/otel.rs) of one isolate:     *)
(* export_span, send_with_retry, flush_buffer and SPAN_BUFFER.                   *)
(*                                                                               *)
(* Every request hands one span to cx.wait_until(export_span(..)), so a task is  *)
(* named by its span. An isolate runs one task at a time and switches only at    *)
(* an await: a step is what a task does from one await to the next. The buffer's *)
(* lock is never held over an await.                                             *)
(*                                                                               *)
(* A POST may reach the collector and still end in an error (an answer lost, a   *)
(* 5xx after the write, a timeout), and may reach it after the exporter has seen *)
(* the error: arriving and answering are separate steps. The isolate may be      *)
(* evicted at any time, and the runtime cancels a wait_until task that takes too *)
(* long.                                                                         *)
EXTENDS Naturals, Sequences

CONSTANTS Spans,        \* one span per request, and the task that exports it
          MaxBuffered,  \* MAX_BUFFERED_SPANS
          Attempts      \* the number of backoffs in send_with_retry

ASSUME ExportAssumption == /\ MaxBuffered \in Nat \ {0}
                           /\ Attempts \in Nat \ {0}

VARIABLES task,      \* task[t]: where the export task of t is suspended
          attempt,   \* attempt[t]: attempts send_with_retry has begun
          arrived,   \* arrived[t]: the POST t awaits has reached the collector
          buffer,    \* SPAN_BUFFER, oldest first
          draining,  \* draining[t]: the `spans' flush_buffer of t still holds
          fate,      \* history: what became of each span
          posts,     \* history: POSTs begun with this span's body
          copies     \* the collector: copies received

vars == <<task, attempt, arrived, buffer, draining, fate, posts, copies>>

TaskStates == {"idle", "posting", "backoff", "flushing", "done"}
Resolved == {"delivered", "evicted", "dropped", "lost"}
Fates == {"new", "sending", "buffered", "flushing"} \cup Resolved

Occurs(s, seq) == \E i \in DOMAIN seq : seq[i] = s

Init == /\ task = [t \in Spans |-> "idle"]
        /\ attempt = [t \in Spans |-> 0]
        /\ arrived = [t \in Spans |-> FALSE]
        /\ buffer = <<>>
        /\ draining = [t \in Spans |-> <<>>]
        /\ fate = [s \in Spans |-> "new"]
        /\ posts = [s \in Spans |-> 0]
        /\ copies = [s \in Spans |-> 0]

(* send_post called by task t with the body of span s *)
Post(t, s) == /\ posts' = [posts EXCEPT ![s] = @ + 1]
              /\ arrived' = [arrived EXCEPT ![t] = FALSE]

(* the body task t is awaiting an answer for *)
Current(t) == IF task[t] = "posting" THEN t ELSE Head(draining[t])

Awaiting(t) == task[t] \in {"posting", "flushing"}

(* export_span starts: the span is encoded and posted at once *)
Begin(t) == /\ task[t] = "idle"
            /\ task' = [task EXCEPT ![t] = "posting"]
            /\ attempt' = [attempt EXCEPT ![t] = 1]
            /\ fate' = [fate EXCEPT ![t] = "sending"]
            /\ Post(t, t)
            /\ UNCHANGED <<buffer, draining, copies>>

Arrive(t) == /\ Awaiting(t) /\ ~arrived[t]
             /\ arrived' = [arrived EXCEPT ![t] = TRUE]
             /\ copies' = [copies EXCEPT ![Current(t)] = @ + 1]
             /\ UNCHANGED <<task, attempt, buffer, draining, fate, posts>>

(* a POST nobody waits for any more arrives: one that failed, or whose task is gone *)
Underway(s) == \E t \in Spans : Awaiting(t) /\ ~arrived[t] /\ Current(t) = s

ArriveLate(s) == /\ copies[s] + (IF Underway(s) THEN 1 ELSE 0) < posts[s]
                 /\ copies' = [copies EXCEPT ![s] = @ + 1]
                 /\ UNCHANGED <<task, attempt, arrived, buffer, draining, fate, posts>>

(* what drain(..) leaves behind *)
NotDrained == buffer \* mutant: the spans are copied, not drained
Drained == <<>>

(* 2xx: export_span goes on into flush_buffer, which empties the buffer and    *)
(* posts its first span, all before the next await                             *)
Sent(t) == /\ task[t] = "posting" /\ arrived[t]
           /\ draining' = [draining EXCEPT ![t] = buffer]
           /\ fate' = [s \in Spans |-> IF s = t THEN "delivered"
                                       ELSE IF Occurs(s, buffer) THEN "flushing"
                                       ELSE fate[s]]
           /\ IF buffer = <<>>
              THEN /\ task' = [task EXCEPT ![t] = "done"]
                   /\ UNCHANGED <<arrived, posts>>
              ELSE /\ task' = [task EXCEPT ![t] = "flushing"]
                   /\ Post(t, Head(buffer))
           /\ buffer' = Drained
           /\ UNCHANGED <<attempt, copies>>

(* send_with_retry's loop has run through its backoffs *)
LastAttemptLate(t) == attempt[t] > Attempts       \* mutant: one attempt too many
LastAttemptEarly(t) == attempt[t] >= Attempts - 1 \* mutant: one attempt too few
LastAttempt(t) == attempt[t] >= Attempts

(* an error before the last attempt: sleep_ms *)
Fail(t) == /\ task[t] = "posting" /\ ~LastAttempt(t)
           /\ task' = [task EXCEPT ![t] = "backoff"]
           /\ UNCHANGED <<attempt, arrived, buffer, draining, fate, posts, copies>>

(* setTimeout has resolved the promise of sleep_ms *)
TimerLost(t) == FALSE \* mutant: the promise is never resolved
TimerFires(t) == task[t] = "backoff"

Retry(t) == /\ TimerFires(t)
            /\ task' = [task EXCEPT ![t] = "posting"]
            /\ attempt' = [attempt EXCEPT ![t] = @ + 1]
            /\ Post(t, t)
            /\ UNCHANGED <<buffer, draining, fate, copies>>

(* the buffer once its oldest span has made room, and the span that had to go *)
FullLate == Len(buffer) > MaxBuffered \* mutant: off by one
Full == Len(buffer) >= MaxBuffered
Room == IF Full THEN Tail(buffer) ELSE buffer
Overflow == IF Full THEN {Head(buffer)} ELSE {}

(* an error on the last attempt: keep the span, drop the oldest if full *)
Keep(t) == /\ task[t] = "posting" /\ LastAttempt(t)
           /\ buffer' = Append(Room, t)
           /\ fate' = [s \in Spans |-> IF s = t THEN "buffered"
                                       ELSE IF s \in Overflow THEN "evicted"
                                       ELSE fate[s]]
           /\ task' = [task EXCEPT ![t] = "done"]
           /\ UNCHANGED <<attempt, arrived, draining, posts, copies>>

(* flush_buffer: one answer, then the next span whatever the answer was *)
FlushNext(t, outcome) ==
    /\ task[t] = "flushing"
    /\ draining' = [draining EXCEPT ![t] = Tail(@)]
    /\ fate' = [fate EXCEPT ![Head(draining[t])] = outcome]
    /\ IF Len(draining[t]) = 1
       THEN /\ task' = [task EXCEPT ![t] = "done"]
            /\ UNCHANGED <<arrived, posts>>
       ELSE /\ Post(t, Head(Tail(draining[t])))
            /\ UNCHANGED task
    /\ UNCHANGED <<attempt, buffer, copies>>

Flushed(t) == arrived[t] /\ FlushNext(t, "delivered")
FlushFailed(t) == FlushNext(t, "dropped")

(* the runtime cancels the task: what only it holds is gone *)
Holds(t, s) == \/ s = t /\ task[t] \in {"posting", "backoff"}
               \/ Occurs(s, draining[t])

Cancel(t) == /\ task[t] \in {"posting", "backoff", "flushing"}
             /\ task' = [task EXCEPT ![t] = "done"]
             /\ draining' = [draining EXCEPT ![t] = <<>>]
             /\ fate' = [s \in Spans |-> IF Holds(t, s) THEN "lost" ELSE fate[s]]
             /\ UNCHANGED <<attempt, arrived, buffer, posts, copies>>

(* the isolate is evicted or redeployed: the static buffer and all tasks go *)
Evict == /\ task' = [t \in Spans |-> IF task[t] = "idle" THEN "idle" ELSE "done"]
         /\ buffer' = <<>>
         /\ draining' = [t \in Spans |-> <<>>]
         /\ fate' = [s \in Spans |->
                        IF fate[s] \in {"sending", "buffered", "flushing"}
                        THEN "lost" ELSE fate[s]]
         /\ UNCHANGED <<attempt, arrived, posts, copies>>

(* what a task does when its await is over *)
Resume(t) == Sent(t) \/ Fail(t) \/ Retry(t) \/ Keep(t) \/ Flushed(t) \/ FlushFailed(t)

Next == \/ \E t \in Spans : Begin(t) \/ Arrive(t) \/ ArriveLate(t) \/ Resume(t)
                        \/ Cancel(t)
        \/ Evict

Spec == Init /\ [][Next]_vars

(* A fetch settles and a timer fires: every suspended task is resumed. *)
FairSpec == Spec /\ \A t \in Spans : WF_vars(Resume(t))
-----------------------------------------------------------------------------
(* Every variable keeps its type, and the isolate's memory stays bounded while *)
(* the collector is down.                                                      *)
TypeOK == /\ task \in [Spans -> TaskStates]
          /\ attempt \in [Spans -> 0..Attempts]
          /\ arrived \in [Spans -> BOOLEAN]
          /\ buffer \in Seq(Spans) /\ Len(buffer) <= MaxBuffered
          /\ draining \in [Spans -> Seq(Spans)]
          /\ fate \in [Spans -> Fates]
          /\ posts \in [Spans -> Nat]
          /\ copies \in [Spans -> Nat]

Distinct(seq) == \A i, j \in DOMAIN seq : seq[i] = seq[j] => i = j

(* However tasks interleave at their awaits, a span is in one place: its own   *)
(* sending task, one slot of the buffer, or one slot of one flush. Two flushes *)
(* never hold the same span, and a span being sent is not also buffered.       *)
OnePlace ==
    /\ Distinct(buffer)
    /\ \A t \in Spans : Distinct(draining[t])
    /\ \A s \in Spans :
        /\ Occurs(s, buffer) <=> fate[s] = "buffered"
        /\ (\E t \in Spans : Occurs(s, draining[t])) <=> fate[s] = "flushing"
        /\ task[s] \in {"posting", "backoff"} <=> fate[s] = "sending"
        /\ \A t, u \in Spans :
             Occurs(s, draining[t]) /\ Occurs(s, draining[u]) => t = u

(* A span costs at most one POST per attempt and one more when it is flushed,     *)
(* and the collector sees no more copies than POSTs; flush_buffer drops only what *)
(* was tried by every attempt of send_with_retry and once by the flush.           *)
PostBudget ==
    \A s \in Spans : /\ copies[s] <= posts[s] /\ posts[s] <= Attempts + 1
                     /\ fate[s] = "dropped" => posts[s] = Attempts + 1
                     /\ fate[s] = "delivered" => copies[s] > 0

(* A span whose fate is settled is never posted again, by any task: all the      *)
(* collector may still see of it are copies that were already on their way.      *)
SettledIsFinal ==
    [][\A s \in Spans : fate[s] \in Resolved
         => fate'[s] = fate[s] /\ posts'[s] = posts[s]]_vars

(* Every export task comes to an end, and a span in a task's hands comes to *)
(* rest: delivered, gone, or in the buffer.                                 *)
EveryTaskEnds ==
    \A t \in Spans :
        /\ task[t] \in {"posting", "backoff", "flushing"} ~> task[t] = "done"
        /\ fate[t] \in {"sending", "flushing"}
             ~> fate[t] \in Resolved \cup {"buffered"}

(* The exporter is a best-effort channel of at most Attempts + 1 copies. *)
Status(f) == CASE f = "new" -> "new"
               [] f = "delivered" -> "delivered"
               [] f \in {"evicted", "dropped", "lost"} -> "gone"
               [] OTHER -> "pending"
Channel == INSTANCE BestEffort WITH
               Items <- Spans, MaxCopies <- Attempts + 1,
               status <- [s \in Spans |-> Status(fate[s])]
ImplementsBestEffort == Channel!Spec
=============================================================================
