----------------------------- MODULE QueueConsumer -----------------------------
(* The gateway's queue consumer (workers/gateway/src/lib.rs, queue) between the    *)
(* platform's queue and the analytics_events table in D1.                          *)
(*                                                                                 *)
(* The platform delivers batches at least once: it may repeat a delivery nobody    *)
(* asked it to, while an invocation is still at work on the message or after it    *)
(* was acknowledged. The handler marks each message ack or retry, and the platform *)
(* acts on the marks when the invocation is over; one that dies may take its marks *)
(* with it. A message that is not settled is delivered again until max_retries is  *)
(* used up; no dead-letter queue is configured, so it is then discarded. The table *)
(* is created by the bootstrap of the analytics worker, which the gateway does not *)
(* wait for.                                                                       *)
EXTENDS Naturals, FiniteSets

CONSTANTS Messages,    \* message identities
          Json,        \* those whose body parses as JSON
          Consumers,   \* concurrent invocations of the handler
          BatchSize,   \* max_batch_size
          MaxRetries,  \* the queue's max_retries
          Fails,       \* whether D1 fails an INSERT, or loses the answer to one
          Dies,        \* whether invocations die
          Repeats      \* whether the platform repeats a delivery unasked

ASSUME QueueAssumption == /\ Json \subseteq Messages /\ IsFiniteSet(Consumers)
                          /\ BatchSize \in Nat \ {0} /\ MaxRetries \in Nat
                          /\ {Fails, Dies, Repeats} \subseteq BOOLEAN

VARIABLES queue,       \* queue[m]: where the platform has m
          deliveries,  \* deliveries[m]: how often m was delivered
          taken,       \* taken[c]: the messages whose verdict is awaited from c
          todo,        \* todo[c]: those of its batch c's loop has not reached
          mark,        \* mark[m]: the verdict on m's delivery: ack, retry, none yet
          table,       \* analytics_events exists
          rows,        \* rows[m]: rows inserted for m
          unheard      \* history, unheard[m]: INSERTs of m executed with no answer,
                       \* acks of m lost and deliveries of m repeated unasked

vars == <<queue, deliveries, taken, todo, mark, table, rows, unheard>>

Places == {"unsent", "ready", "delivered", "acked", "discarded"}
Settled == {"acked", "discarded"}
Batches == {S \in SUBSET Messages : Cardinality(S) \in 1..BatchSize}

Init == /\ queue = [m \in Messages |-> "unsent"]
        /\ deliveries = [m \in Messages |-> 0]
        /\ taken = [c \in Consumers |-> {}]
        /\ todo = [c \in Consumers |-> {}]
        /\ mark = [m \in Messages |-> "none"]
        /\ table \in BOOLEAN
        /\ rows = [m \in Messages |-> 0]
        /\ unheard = [m \in Messages |-> 0]

(* queue.send: the /queue route (a text body) or another producer *)
Send(m) == /\ queue[m] = "unsent"
           /\ queue' = [queue EXCEPT ![m] = "ready"]
           /\ UNCHANGED <<deliveries, taken, todo, mark, table, rows, unheard>>

(* ensure_analytics_events_table, run by the analytics worker when it first can *)
Bootstrap == /\ ~table
             /\ table' = TRUE
             /\ UNCHANGED <<queue, deliveries, taken, todo, mark, rows, unheard>>

Waiting(m) == queue[m] = "ready"
Idle(c) == taken[c] = {} /\ todo[c] = {}

(* the platform hands a batch of waiting messages to an idle invocation *)
Deliver(c, S) ==
    /\ Idle(c)
    /\ \A m \in S : Waiting(m)
    /\ queue' = [m \in Messages |-> IF m \in S THEN "delivered" ELSE queue[m]]
    /\ deliveries' = [m \in Messages |-> IF m \in S THEN deliveries[m] + 1
                                                    ELSE deliveries[m]]
    /\ taken' = [taken EXCEPT ![c] = S]
    /\ todo' = [todo EXCEPT ![c] = S]
    /\ UNCHANGED <<mark, table, rows, unheard>>

(* at least once: a message that is out or was acknowledged waits again; whoever *)
(* had it may still be at work on it, and is not listened to any more            *)
Repeat(m) ==
    /\ Repeats /\ queue[m] \in {"delivered", "acked"} /\ deliveries[m] <= MaxRetries
    /\ queue' = [queue EXCEPT ![m] = "ready"]
    /\ taken' = [c \in Consumers |-> taken[c] \ {m}]
    /\ mark' = [mark EXCEPT ![m] = "none"]
    /\ unheard' = [unheard EXCEPT ![m] = @ + 1]
    /\ UNCHANGED <<deliveries, todo, table, rows>>

MarkedInPlace(c, m, verdict) == \* mutant: a failed INSERT is tried again in the loop
    /\ mark' = [mark EXCEPT ![m] = IF m \in taken[c] THEN verdict ELSE @]
    /\ todo' = [todo EXCEPT ![c] = IF verdict = "retry" THEN @ ELSE @ \ {m}]
    /\ UNCHANGED <<queue, deliveries, taken, table>>

(* the loop is done with m *)
Marked(c, m, verdict) ==
    /\ mark' = [mark EXCEPT ![m] = IF m \in taken[c] THEN verdict ELSE @]
    /\ todo' = [todo EXCEPT ![c] = @ \ {m}]
    /\ UNCHANGED <<queue, deliveries, taken, table>>

(* a body that does not parse: warn and ack *)
Skip(c, m) == /\ m \in todo[c] \ Json
              /\ Marked(c, m, "ack")
              /\ UNCHANGED <<rows, unheard>>

AddRowTwice(m) == rows' = [rows EXCEPT ![m] = @ + 2] \* mutant: INSERTed again at once
AddRow(m) == rows' = [rows EXCEPT ![m] = @ + 1]

OkRetried == "retry" \* mutant: asked for again although it is stored
OkVerdict == "ack"

(* INSERT answered Ok *)
Store(c, m) == /\ m \in todo[c] \cap Json
               /\ table
               /\ AddRow(m)
               /\ Marked(c, m, OkVerdict)
               /\ UNCHANGED unheard

ErrAcked == "ack"   \* mutant: acked whatever the INSERT answered
ErrDead == "dead"   \* mutant: a verdict the queue does not have
ErrVerdict == "retry"

(* INSERT answered Err: no table, no D1, or an answer that was lost *)
StoreFails(c, m) == /\ m \in todo[c] \cap Json
                    /\ \/ (Fails \/ ~table) /\ UNCHANGED <<rows, unheard>>
                       \/ /\ Fails /\ table
                          /\ AddRow(m)
                          /\ unheard' = [unheard EXCEPT ![m] = @ + 1]
                    /\ Marked(c, m, ErrVerdict)

(* where a delivered message goes that is not acked *)
Redelivered(m) == IF deliveries[m] > MaxRetries THEN "discarded" ELSE "ready"

Acked(c) == {m \in taken[c] : mark[m] = "ack"}

Settle(c, acked) ==
    /\ queue' = [m \in Messages |-> IF m \notin taken[c] THEN queue[m]
                                    ELSE IF m \in acked THEN "acked"
                                    ELSE Redelivered(m)]
    /\ mark' = [m \in Messages |-> IF m \in taken[c] THEN "none" ELSE mark[m]]
    /\ taken' = [taken EXCEPT ![c] = {}]
    /\ todo' = [todo EXCEPT ![c] = {}]
    /\ UNCHANGED <<deliveries, table>>

(* the handler returns Ok after its loop *)
Return(c) == /\ taken[c] # {} /\ todo[c] = {}
             /\ Settle(c, Acked(c))
             /\ UNCHANGED <<rows, unheard>>

(* env.d1 fails before the loop, or the invocation dies in it: its marks reach *)
(* the platform or do not, and the INSERT it sent last is executed or is not   *)
Crash(c) ==
    /\ Dies /\ ~Idle(c)
    /\ \E heard \in {{}, Acked(c)}, sent \in {{}} \cup {{m} : m \in todo[c] \cap Json} :
         /\ sent # {} => table
         /\ Settle(c, heard)
         /\ rows' = [m \in Messages |-> IF m \in sent THEN rows[m] + 1 ELSE rows[m]]
         /\ unheard' = [m \in Messages |-> IF m \in sent \cup (Acked(c) \ heard)
                                           THEN unheard[m] + 1 ELSE unheard[m]]

Work(c) == \/ \E m \in Messages : Skip(c, m) \/ Store(c, m) \/ StoreFails(c, m)
           \/ Return(c)

Next == \/ \E m \in Messages : Send(m) \/ Repeat(m)
        \/ Bootstrap
        \/ \E c \in Consumers : \/ \E S \in Batches : Deliver(c, S)
                                \/ Work(c) \/ Crash(c)

Spec == Init /\ [][Next]_vars

(* The platform delivers what waits, and a running handler goes on. *)
FairSpec == /\ Spec
            /\ \A c \in Consumers : WF_vars(Work(c))
            /\ \A m \in Messages :
                 SF_vars(\E c \in Consumers, S \in Batches : m \in S /\ Deliver(c, S))
-----------------------------------------------------------------------------
(* Every variable keeps its type. *)
TypeOK == /\ queue \in [Messages -> Places]
          /\ deliveries \in [Messages -> Nat]
          /\ taken \in [Consumers -> SUBSET Messages]
          /\ todo \in [Consumers -> SUBSET Messages]
          /\ mark \in [Messages -> {"none", "ack", "retry"}]
          /\ table \in BOOLEAN
          /\ rows \in [Messages -> Nat]
          /\ unheard \in [Messages -> Nat]

(* An event the queue has let go of as processed is in the table, whatever        *)
(* INSERTs failed and invocations died on the way.                                *)
AckedMeansStored ==
    \A m \in Json : queue[m] = "acked" => rows[m] > 0

(* Redelivery can store an event more than once, but no more often than it was    *)
(* delivered; deliveries are bounded, and only the last one is followed by a      *)
(* discard.                                                                       *)
RowsBounded ==
    \A m \in Messages : /\ rows[m] <= deliveries[m]
                        /\ deliveries[m] <= MaxRetries + 1
                        /\ queue[m] = "discarded" => deliveries[m] = MaxRetries + 1

(* The handler asks for a second delivery of no event it knows to be stored: each  *)
(* row of an event beyond its first is owed to an INSERT that was executed and not *)
(* answered, an ack that died with its invocation or a delivery the platform       *)
(* repeated, one row to each. So an event none of that happened to is stored once  *)
(* at most, however often it was retried while the table was missing or D1 refused *)
(* it, and whatever the other events of its batches met.                           *)
NoNeedlessRow == \A m \in Json : rows[m] <= 1 + unheard[m]

(* Every message that was sent is settled in the end. *)
EveryMessageSettles == \A m \in Messages : queue[m] = "ready" ~> queue[m] \in Settled

(* What is left to happen to a message: the deliveries it may still have, each of    *)
(* four steps (itself, the mark, the platform's verdict and, unasked, another turn), *)
(* the loops that have not reached it, and what its present delivery still lacks.    *)
Working(m) == {c \in Consumers : m \in todo[c]}
Left(m) == 4 * (MaxRetries + 1 - deliveries[m]) + Cardinality(Working(m))
             + CASE queue[m] = "delivered" -> 2
                 [] queue[m] \in {"unsent", "acked"} -> 1
                 [] OTHER -> 0

(* Nothing the platform, a handler or a fault does puts a message back further       *)
(* than a delivery it used up: every step leaves less for some message and no more   *)
(* for any, but the one that makes the table. So dying invocations, failing          *)
(* INSERTs and repeated deliveries cannot keep each other going, at whatever speeds. *)
EveryStepUsesUp ==
    [][/\ \A m \in Messages : Left(m)' <= Left(m)
       /\ table' = table => \E m \in Messages : Left(m)' < Left(m)]_vars

(* OBSERVABILITY.md:823-824, of a consumer that does not keep up with D1: "No data  *)
(* loss (queue retains messages up to 4 days or 100k messages)": an event that left *)
(* the queue is in the table.                                                       *)
NoDataLoss == \A m \in Json : queue[m] \in Settled => rows[m] > 0
=============================================================================
