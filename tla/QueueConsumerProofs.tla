-------------------------- MODULE QueueConsumerProofs --------------------------
(* The queue consumer for every set of messages, every finite set of invocations,  *)
(* every batch size and number of retries, whatever of D1, the invocations and the *)
(* platform goes wrong.                                                            *)
EXTENDS QueueConsumer, FiniteSetTheorems, TLAPS

(* Whom the platform listens to: one invocation at most for each message that is    *)
(* out, which has marked what its loop has left behind and nothing else. A loop may *)
(* also have messages before it that the platform has given to others since.        *)
Handed ==
    /\ \A c, d \in Consumers, m \in Messages : m \in taken[c] /\ m \in taken[d] => c = d
    /\ \A c \in Consumers, m \in Messages :
         m \in taken[c] => /\ queue[m] = "delivered"
                           /\ m \in todo[c] <=> mark[m] = "none"
    /\ \A m \in Messages : mark[m] # "none" => queue[m] = "delivered"

(* The rows a message has and may still get: one for each loop that has not reached *)
(* it, and one if it is to be delivered again. They are no more than its deliveries *)
(* account for, and, but for one, no more than the queue did not hear of.           *)
Processed(m) == queue[m] = "acked" \/ mark[m] = "ack"
AtWork(m) == Cardinality(Working(m))
Coming(m) == IF queue[m] \in {"unsent", "ready"} \/ mark[m] = "retry" THEN 1 ELSE 0

Counted(m) ==
    /\ rows[m] + AtWork(m) <= deliveries[m] /\ deliveries[m] <= MaxRetries + 1
    /\ queue[m] \in {"unsent", "ready"} => deliveries[m] <= MaxRetries
    /\ queue[m] = "discarded" => deliveries[m] = MaxRetries + 1
    /\ m \in Json => /\ Processed(m) => rows[m] > 0
                     /\ rows[m] + AtWork(m) + Coming(m) <= 1 + unheard[m]

Inductive == TypeOK /\ Handed /\ \A m \in Messages : Counted(m)

LEMMA InitInductive == Init => Inductive
<1> SUFFICES ASSUME Init PROVE Inductive
  OBVIOUS
<1>1. TypeOK /\ Handed
  BY DEF Init, TypeOK, Handed, Places
<1>2. ASSUME NEW m \in Messages PROVE Counted(m)
  <2>1. Working(m) = {}
    BY DEF Init, Working
  <2>2. AtWork(m) = 0
    BY <2>1, FS_EmptySet DEF AtWork
  <2>3. queue[m] = "unsent" /\ deliveries[m] = 0 /\ rows[m] = 0 /\ unheard[m] = 0
        /\ mark[m] = "none"
    BY DEF Init
  <2> QED BY <2>2, <2>3, QueueAssumption DEF Counted, Processed, Coming
<1> QED BY <1>1, <1>2 DEF Inductive

(* When one loop changes what is before it, the count of each message changes by the *)
(* place that loop has in it.                                                        *)
LEMMA OneLoop ==
    ASSUME TypeOK, NEW c \in Consumers, NEW m \in Messages,
           \A d \in Consumers \ {c} : todo'[d] = todo[d]
    PROVE  /\ AtWork(m) \in Nat /\ AtWork(m)' \in Nat
           /\ (m \in todo[c] <=> m \in todo'[c]) => AtWork(m)' = AtWork(m)
           /\ m \in todo[c] /\ m \notin todo'[c] => AtWork(m)' = AtWork(m) - 1
           /\ m \notin todo[c] /\ m \in todo'[c] => AtWork(m)' = AtWork(m) + 1
<1> DEFINE W == Working(m)
           V == Working(m)'
<1>1. IsFiniteSet(W) /\ IsFiniteSet(V)
  BY QueueAssumption, FS_Subset DEF Working
<1>2. Cardinality(W) \in Nat /\ Cardinality(V) \in Nat
  BY <1>1, FS_CardinalityType
<1>3. /\ c \in W <=> m \in todo[c]
      /\ c \in V <=> m \in todo'[c]
      /\ W \ {c} = V \ {c}
  BY DEF Working
<1> HIDE DEF W, V
<1>4. /\ c \in W => Cardinality(W \ {c}) = Cardinality(W) - 1
      /\ c \in V => Cardinality(V \ {c}) = Cardinality(V) - 1
      /\ c \notin W => W \ {c} = W
      /\ c \notin V => V \ {c} = V
  BY <1>1, FS_RemoveElement
<1>5. /\ (c \in W <=> c \in V) => Cardinality(V) = Cardinality(W)
      /\ c \in W /\ c \notin V => Cardinality(V) = Cardinality(W) - 1
      /\ c \notin W /\ c \in V => Cardinality(V) = Cardinality(W) + 1
  <2>1. CASE (c \in W /\ c \in V) \/ (c \notin W /\ c \notin V)
    BY <1>2, <1>3, <1>4, <2>1
  <2>2. CASE (c \in W /\ c \notin V) \/ (c \notin W /\ c \in V)
    BY <1>2, <1>3, <1>4, <2>2
  <2> QED BY <2>1, <2>2
<1>6. AtWork(m) = Cardinality(W) /\ AtWork(m)' = Cardinality(V)
  BY DEF AtWork, W, V
<1> QED BY <1>2, <1>3, <1>5, <1>6

LEMMA NoLoop ==
    ASSUME TypeOK, todo' = todo, NEW m \in Messages
    PROVE  AtWork(m) \in Nat /\ AtWork(m)' = AtWork(m)
<1>1. IsFiniteSet(Working(m)) /\ Working(m)' = Working(m)
  BY QueueAssumption, FS_Subset DEF Working
<1> QED BY <1>1, FS_CardinalityType DEF AtWork

(* A turn of the loop marks one message of one batch, if the platform still listens. *)
LEMMA MarkedKeepsHanded ==
    ASSUME TypeOK, Handed, NEW c \in Consumers, NEW m \in todo[c],
           NEW verdict \in {"ack", "retry"}, Marked(c, m, verdict)
    PROVE  /\ Handed'
           /\ mark' \in [Messages -> {"none", "ack", "retry"}]
           /\ todo' \in [Consumers -> SUBSET Messages]
           /\ UNCHANGED <<queue, deliveries, taken, table>>
           /\ m \in Messages
           /\ \/ queue[m] = "delivered" /\ mark[m] = "none" /\ mark'[m] = verdict
              \/ mark'[m] = mark[m]
           /\ \A n \in Messages \ {m} : mark'[n] = mark[n]
           /\ AtWork(m) \in Nat /\ AtWork(m)' = AtWork(m) - 1 /\ AtWork(m)' \in Nat
           /\ \A n \in Messages \ {m} : AtWork(n) \in Nat /\ AtWork(n)' = AtWork(n)
<1>1. m \in Messages /\ (m \in taken[c] => queue[m] = "delivered" /\ mark[m] = "none")
  BY DEF TypeOK, Handed
<1>2. /\ mark' \in [Messages -> {"none", "ack", "retry"}]
      /\ mark'[m] = IF m \in taken[c] THEN verdict ELSE mark[m]
      /\ \A n \in Messages \ {m} : mark'[n] = mark[n]
  BY <1>1 DEF Marked, TypeOK
<1>3. /\ todo' \in [Consumers -> SUBSET Messages] /\ todo'[c] = todo[c] \ {m}
      /\ \A d \in Consumers \ {c} : todo'[d] = todo[d]
  BY DEF Marked, TypeOK
<1>4. UNCHANGED <<queue, deliveries, taken, table>>
  BY DEF Marked
<1>5. \A d \in Consumers, n \in Messages :
        n \in taken[d] => (n \in todo'[d] <=> mark'[n] = "none")
  <2> SUFFICES ASSUME NEW d \in Consumers, NEW n \in Messages, n \in taken[d]
               PROVE  n \in todo'[d] <=> mark'[n] = "none"
    OBVIOUS
  <2>1. n \in todo[d] <=> mark[n] = "none"
    BY DEF Handed
  <2>2. CASE n = m /\ d = c
    BY <1>2, <1>3, <2>2
  <2>3. CASE n = m /\ d # c
    <3>1. m \notin taken[c]
      BY <1>1, <2>3 DEF Handed
    <3> QED BY <1>2, <1>3, <2>1, <2>3, <3>1
  <2>4. CASE n # m
    BY <1>2, <1>3, <2>1, <2>4
  <2> QED BY <2>2, <2>3, <2>4
<1>6. Handed'
  <2>1. \A n \in Messages : mark'[n] # "none" => queue[n] = "delivered"
    BY <1>1, <1>2 DEF Handed
  <2> QED BY <1>4, <1>5, <2>1 DEF Handed
<1>7. /\ AtWork(m) \in Nat /\ AtWork(m)' = AtWork(m) - 1 /\ AtWork(m)' \in Nat
      /\ \A n \in Messages \ {m} : AtWork(n) \in Nat /\ AtWork(n)' = AtWork(n)
  BY <1>1, <1>3, OneLoop
<1> QED BY <1>1, <1>2, <1>3, <1>4, <1>6, <1>7

(* The end of an invocation, whether all its marks reach the platform or none. *)
LEMMA SettleKeepsHanded ==
    ASSUME TypeOK, Handed, NEW c \in Consumers, NEW acked, Settle(c, acked)
    PROVE  /\ Handed'
           /\ queue' \in [Messages -> Places]
           /\ mark' \in [Messages -> {"none", "ack", "retry"}]
           /\ taken' \in [Consumers -> SUBSET Messages]
           /\ todo' \in [Consumers -> SUBSET Messages]
           /\ \A m \in Messages :
                /\ AtWork(m) \in Nat /\ AtWork(m)' \in Nat
                /\ AtWork(m)' = IF m \in todo[c] THEN AtWork(m) - 1 ELSE AtWork(m)
<1>1. /\ queue' \in [Messages -> Places]
      /\ \A m \in Messages : m \notin taken[c] => queue'[m] = queue[m]
  BY DEF Settle, TypeOK, Redelivered, Places
<1>2. /\ mark' \in [Messages -> {"none", "ack", "retry"}]
      /\ \A m \in Messages : mark'[m] = IF m \in taken[c] THEN "none" ELSE mark[m]
  BY DEF Settle, TypeOK
<1>3. /\ taken' \in [Consumers -> SUBSET Messages] /\ todo' \in [Consumers -> SUBSET Messages]
      /\ taken'[c] = {} /\ todo'[c] = {}
      /\ \A d \in Consumers \ {c} : taken'[d] = taken[d] /\ todo'[d] = todo[d]
  BY DEF Settle, TypeOK
<1>4. Handed'
  BY <1>1, <1>2, <1>3 DEF Handed
<1>5. ASSUME NEW m \in Messages
      PROVE  /\ AtWork(m) \in Nat /\ AtWork(m)' \in Nat
             /\ AtWork(m)' = IF m \in todo[c] THEN AtWork(m) - 1 ELSE AtWork(m)
  BY <1>3, OneLoop
<1> QED BY <1>1, <1>2, <1>3, <1>4, <1>5

(* A delivery hands messages nobody is listened to for to an idle invocation. *)
LEMMA DeliverKeepsHanded ==
    ASSUME TypeOK, Handed, NEW c \in Consumers, NEW S \in Batches, Deliver(c, S)
    PROVE  /\ TypeOK' /\ Handed'
           /\ \A m \in Messages :
                /\ AtWork(m) \in Nat
                /\ AtWork(m)' = IF m \in S THEN AtWork(m) + 1 ELSE AtWork(m)
<1>1. S \subseteq Messages /\ \A m \in S : queue[m] = "ready" /\ mark[m] = "none"
  BY DEF Batches, Deliver, Waiting, Handed
<1>2. /\ queue' \in [Messages -> Places]
      /\ \A m \in Messages : queue'[m] = IF m \in S THEN "delivered" ELSE queue[m]
  BY DEF Deliver, TypeOK, Places
<1>3. deliveries' \in [Messages -> Nat]
  BY DEF Deliver, TypeOK
<1>4. /\ taken' \in [Consumers -> SUBSET Messages] /\ todo' \in [Consumers -> SUBSET Messages]
      /\ taken'[c] = S /\ todo'[c] = S /\ todo[c] = {}
      /\ \A d \in Consumers \ {c} : taken'[d] = taken[d] /\ todo'[d] = todo[d]
  BY <1>1 DEF Deliver, Idle, TypeOK
<1>5. mark' = mark /\ UNCHANGED <<table, rows, unheard>>
  BY DEF Deliver
<1>6. \A d \in Consumers : \A m \in taken[d] : m \notin S
  BY <1>1 DEF Handed, TypeOK
<1>7. Handed'
  <2>1. \A d, e \in Consumers, m \in Messages : m \in taken'[d] /\ m \in taken'[e] => d = e
    BY <1>4, <1>6 DEF Handed
  <2>2. \A d \in Consumers, m \in Messages :
          m \in taken'[d] => queue'[m] = "delivered" /\ (m \in todo'[d] <=> mark'[m] = "none")
    BY <1>1, <1>2, <1>4, <1>5 DEF Handed
  <2>3. \A m \in Messages : mark'[m] # "none" => queue'[m] = "delivered"
    BY <1>2, <1>5 DEF Handed
  <2> QED BY <2>1, <2>2, <2>3 DEF Handed
<1>8. \A m \in Messages :
        /\ AtWork(m) \in Nat
        /\ AtWork(m)' = IF m \in S THEN AtWork(m) + 1 ELSE AtWork(m)
  BY <1>4, OneLoop
<1> QED BY <1>2, <1>3, <1>4, <1>5, <1>7, <1>8 DEF TypeOK

(* One row more for a message. *)
LEMMA RowAdded ==
    ASSUME TypeOK, NEW m \in Messages, AddRow(m)
    PROVE  /\ rows' \in [Messages -> Nat] /\ rows'[m] = rows[m] + 1
           /\ \A n \in Messages \ {m} : rows'[n] = rows[n]
  BY DEF TypeOK, AddRow

(* One step per action: what becomes of the message it is about, the others keep     *)
(* what they have.                                                                   *)
LEMMA NextInductive == Inductive /\ [Next]_vars => Inductive'
<1> SUFFICES ASSUME Inductive, [Next]_vars PROVE Inductive'
  OBVIOUS
<1>0. /\ TypeOK /\ Handed /\ (\A m \in Messages : Counted(m)) /\ MaxRetries \in Nat
      /\ \A m \in Messages : rows[m] \in Nat /\ deliveries[m] \in Nat /\ unheard[m] \in Nat
                             /\ queue[m] \in Places
  BY QueueAssumption DEF Inductive, TypeOK
<1> USE DEF Places
<1>1. ASSUME NEW m \in Messages, Send(m) PROVE Inductive'
  <2>1. queue[m] = "unsent" /\ queue' \in [Messages -> Places] /\ queue'[m] = "ready"
        /\ \A n \in Messages \ {m} : queue'[n] = queue[n]
    BY <1>0, <1>1 DEF Send, TypeOK
  <2>2. UNCHANGED <<deliveries, taken, todo, mark, table, rows, unheard>>
    BY <1>1 DEF Send
  <2>3. TypeOK' /\ Handed'
    BY <1>0, <2>1, <2>2 DEF TypeOK, Handed
  <2>4. ASSUME NEW n \in Messages PROVE Counted(n)'
    <3>1. Counted(n) /\ AtWork(n)' = AtWork(n)
      BY <1>0, <2>2, NoLoop
    <3> QED BY <2>1, <2>2, <3>1 DEF Counted, Processed, Coming
  <2> QED BY <2>3, <2>4 DEF Inductive
<1>2. CASE Bootstrap
  <2>1. UNCHANGED <<queue, deliveries, taken, todo, mark, rows, unheard>> /\ table' = TRUE
    BY <1>2 DEF Bootstrap
  <2>2. TypeOK' /\ Handed'
    BY <1>0, <2>1 DEF TypeOK, Handed
  <2>3. ASSUME NEW n \in Messages PROVE Counted(n)'
    <3>1. Counted(n) /\ AtWork(n)' = AtWork(n)
      BY <1>0, <2>1, NoLoop
    <3> QED BY <2>1, <3>1 DEF Counted, Processed, Coming
  <2> QED BY <2>2, <2>3 DEF Inductive
<1>3. ASSUME NEW c \in Consumers, NEW S \in Batches, Deliver(c, S) PROVE Inductive'
  <2>1. TypeOK' /\ Handed'
    BY <1>0, <1>3, DeliverKeepsHanded
  <2>2. /\ \A m \in S : queue[m] = "ready"
        /\ \A m \in Messages :
             /\ queue'[m] = IF m \in S THEN "delivered" ELSE queue[m]
             /\ deliveries'[m] = IF m \in S THEN deliveries[m] + 1 ELSE deliveries[m]
        /\ UNCHANGED <<mark, rows, unheard>>
    BY <1>3 DEF Deliver, Waiting
  <2>3. ASSUME NEW m \in Messages PROVE Counted(m)'
    <3>1. Counted(m) /\ (queue[m] = "ready" => mark[m] = "none")
      BY <1>0 DEF Handed
    <3>2. /\ AtWork(m) \in Nat
          /\ AtWork(m)' = IF m \in S THEN AtWork(m) + 1 ELSE AtWork(m)
      BY <1>0, <1>3, DeliverKeepsHanded
    <3> QED BY <1>0, <2>2, <3>1, <3>2 DEF Counted, Processed, Coming
  <2> QED BY <2>1, <2>3 DEF Inductive
<1>4. ASSUME NEW m \in Messages, Repeat(m) PROVE Inductive'
  <2>1. /\ queue[m] \in {"delivered", "acked"} /\ deliveries[m] <= MaxRetries
        /\ queue' \in [Messages -> Places] /\ queue'[m] = "ready"
        /\ \A n \in Messages \ {m} : queue'[n] = queue[n]
        /\ mark' \in [Messages -> {"none", "ack", "retry"}] /\ mark'[m] = "none"
        /\ \A n \in Messages \ {m} : mark'[n] = mark[n]
        /\ unheard' \in [Messages -> Nat] /\ unheard'[m] = unheard[m] + 1
        /\ \A n \in Messages \ {m} : unheard'[n] = unheard[n]
        /\ UNCHANGED <<deliveries, todo, table, rows>>
    BY <1>0, <1>4 DEF Repeat, TypeOK
  <2>2. /\ taken' \in [Consumers -> SUBSET Messages]
        /\ \A d \in Consumers : taken'[d] = taken[d] \ {m}
    BY <1>0, <1>4 DEF Repeat, TypeOK
  <2>3. TypeOK'
    BY <1>0, <2>1, <2>2 DEF TypeOK
  <2>4. Handed'
    BY <1>0, <2>1, <2>2 DEF Handed
  <2>5. ASSUME NEW n \in Messages PROVE Counted(n)'
    <3>1. Counted(n) /\ AtWork(n) \in Nat /\ AtWork(n)' = AtWork(n)
      BY <1>0, <2>1, NoLoop
    <3>2. CASE n = m
      BY <1>0, <2>1, <3>1, <3>2 DEF Counted, Processed, Coming
    <3>3. CASE n # m
      BY <2>1, <3>1, <3>3 DEF Counted, Processed, Coming
    <3> QED BY <3>2, <3>3
  <2> QED BY <2>3, <2>4, <2>5 DEF Inductive
(* a turn of the loop: the row that was to come has come or is asked for again *)
<1>5. ASSUME NEW c \in Consumers, NEW m \in todo[c], NEW verdict \in {"ack", "retry"},
             Marked(c, m, verdict),
             rows' \in [Messages -> Nat], unheard' \in [Messages -> Nat],
             \A n \in Messages \ {m} : rows'[n] = rows[n] /\ unheard'[n] = unheard[n],
             \/ verdict = "ack" /\ m \notin Json /\ rows'[m] = rows[m]
             \/ verdict = "ack" /\ rows'[m] = rows[m] + 1 /\ unheard'[m] = unheard[m]
             \/ verdict = "retry" /\ rows'[m] = rows[m] /\ unheard'[m] = unheard[m]
             \/ verdict = "retry" /\ rows'[m] = rows[m] + 1 /\ unheard'[m] = unheard[m] + 1
      PROVE  Inductive'
  <2>1. /\ Handed'
        /\ mark' \in [Messages -> {"none", "ack", "retry"}]
        /\ todo' \in [Consumers -> SUBSET Messages]
        /\ UNCHANGED <<queue, deliveries, taken, table>>
        /\ m \in Messages
        /\ \/ queue[m] = "delivered" /\ mark[m] = "none" /\ mark'[m] = verdict
           \/ mark'[m] = mark[m]
        /\ \A n \in Messages \ {m} : mark'[n] = mark[n]
        /\ AtWork(m) \in Nat /\ AtWork(m)' = AtWork(m) - 1 /\ AtWork(m)' \in Nat
        /\ \A n \in Messages \ {m} : AtWork(n) \in Nat /\ AtWork(n)' = AtWork(n)
    BY <1>0, <1>5, MarkedKeepsHanded
  <2>2. TypeOK'
    BY <1>0, <1>5, <2>1 DEF TypeOK
  <2>3. Counted(m)'
    <3>1. Counted(m) /\ rows[m] \in Nat /\ deliveries[m] \in Nat /\ unheard[m] \in Nat
      BY <1>0, <2>1
    <3>2. CASE queue[m] = "delivered" /\ mark[m] = "none" /\ mark'[m] = verdict
      BY <1>0, <1>5, <2>1, <3>1, <3>2 DEF Counted, Processed, Coming
    <3>3. CASE mark'[m] = mark[m]
      BY <1>0, <1>5, <2>1, <3>1, <3>3 DEF Counted, Processed, Coming
    <3> QED BY <2>1, <3>2, <3>3
  <2>4. ASSUME NEW n \in Messages, n # m PROVE Counted(n)'
    BY <1>0, <1>5, <2>1, <2>4 DEF Counted, Processed, Coming
  <2> QED BY <2>1, <2>2, <2>3, <2>4 DEF Inductive
<1>6. ASSUME NEW c \in Consumers, NEW m \in Messages, Skip(c, m) PROVE Inductive'
  <2>1. m \in todo[c] \ Json /\ Marked(c, m, "ack") /\ UNCHANGED <<rows, unheard>>
    BY <1>6 DEF Skip
  <2> QED BY <1>0, <1>5, <2>1 DEF TypeOK
<1>7. ASSUME NEW c \in Consumers, NEW m \in Messages, Store(c, m) PROVE Inductive'
  <2>1. m \in todo[c] /\ Marked(c, m, "ack") /\ AddRow(m) /\ UNCHANGED unheard
    BY <1>7 DEF Store, OkVerdict
  <2>2. /\ rows' \in [Messages -> Nat] /\ rows'[m] = rows[m] + 1
        /\ \A n \in Messages \ {m} : rows'[n] = rows[n]
    BY <1>0, <2>1, RowAdded
  <2> QED BY <1>0, <1>5, <2>1, <2>2 DEF TypeOK
<1>8. ASSUME NEW c \in Consumers, NEW m \in Messages, StoreFails(c, m) PROVE Inductive'
  <2>1. m \in todo[c] /\ Marked(c, m, "retry")
    BY <1>8 DEF StoreFails, ErrVerdict
  <2>2. CASE UNCHANGED <<rows, unheard>>
    BY <1>0, <1>5, <2>1, <2>2 DEF TypeOK
  <2>3. CASE AddRow(m) /\ unheard' = [unheard EXCEPT ![m] = @ + 1]
    <3>1. /\ rows' \in [Messages -> Nat] /\ rows'[m] = rows[m] + 1
          /\ \A n \in Messages \ {m} : rows'[n] = rows[n]
      BY <1>0, <2>3, RowAdded
    <3>2. /\ unheard' \in [Messages -> Nat] /\ unheard'[m] = unheard[m] + 1
          /\ \A n \in Messages \ {m} : unheard'[n] = unheard[n]
      BY <1>0, <2>3 DEF TypeOK
    <3> QED BY <1>5, <2>1, <3>1, <3>2
  <2> QED BY <1>8, <2>2, <2>3 DEF StoreFails
(* the end of an invocation: what it had not marked, or marked in vain, is to come again *)
<1>9. ASSUME NEW c \in Consumers, NEW acked, Settle(c, acked), acked \subseteq Acked(c),
             NEW sent, sent \subseteq todo[c],
             rows' = [m \in Messages |-> IF m \in sent THEN rows[m] + 1 ELSE rows[m]],
             unheard' = [m \in Messages |-> IF m \in sent \cup (Acked(c) \ acked)
                                            THEN unheard[m] + 1 ELSE unheard[m]]
      PROVE  Inductive'
  <2>1. rows' \in [Messages -> Nat] /\ unheard' \in [Messages -> Nat]
        /\ UNCHANGED <<deliveries, table>>
    BY <1>0, <1>9 DEF Settle
  <2>2. TypeOK' /\ Handed'
    BY <1>0, <1>9, <2>1, SettleKeepsHanded DEF TypeOK
  <2>3. ASSUME NEW n \in Messages PROVE Counted(n)'
    <3>1. /\ Counted(n) /\ AtWork(n) \in Nat /\ AtWork(n)' \in Nat
          /\ AtWork(n)' = IF n \in todo[c] THEN AtWork(n) - 1 ELSE AtWork(n)
      BY <1>0, <1>9, SettleKeepsHanded
    <3>2. /\ rows[n] \in Nat /\ deliveries[n] \in Nat /\ unheard[n] \in Nat
          /\ rows'[n] = (IF n \in sent THEN rows[n] + 1 ELSE rows[n])
          /\ unheard'[n] = (IF n \in sent \cup (Acked(c) \ acked)
                           THEN unheard[n] + 1 ELSE unheard[n])
          /\ n \in sent => n \in todo[c]
      BY <1>0, <1>9
    <3>3. CASE n \notin taken[c]
      <4>1. queue'[n] = queue[n] /\ mark'[n] = mark[n] /\ n \notin Acked(c)
        BY <1>9, <3>3 DEF Settle, Acked
      <4> QED BY <1>0, <2>1, <3>1, <3>2, <4>1 DEF Counted, Processed, Coming
    <3>4. CASE n \in taken[c]
      <4>1. /\ queue[n] = "delivered" /\ mark'[n] = "none"
            /\ n \in todo[c] <=> mark[n] = "none"
            /\ n \in Acked(c) <=> mark[n] = "ack"
            /\ n \in acked => n \in Acked(c) /\ queue'[n] = "acked"
            /\ n \notin acked => queue'[n] = Redelivered(n)
            /\ mark[n] \in {"none", "ack", "retry"}
        BY <1>0, <1>9, <3>4 DEF Settle, Handed, Acked, TypeOK
      <4>2. CASE n \in acked
        BY <1>0, <2>1, <3>1, <3>2, <4>1, <4>2 DEF Counted, Processed, Coming
      <4>3. CASE n \notin acked
        <5>1. /\ queue'[n] = (IF deliveries[n] > MaxRetries THEN "discarded" ELSE "ready")
          BY <4>1, <4>3 DEF Redelivered
        <5> QED BY <1>0, <2>1, <3>1, <3>2, <4>1, <4>3, <5>1 DEF Counted, Processed, Coming
      <4> QED BY <4>2, <4>3
    <3> QED BY <3>3, <3>4
  <2> QED BY <2>2, <2>3 DEF Inductive
<1>10. ASSUME NEW c \in Consumers, Return(c) PROVE Inductive'
  <2>1. Settle(c, Acked(c)) /\ UNCHANGED <<rows, unheard>>
    BY <1>10 DEF Return
  <2>2. /\ rows' = [m \in Messages |-> IF m \in {} THEN rows[m] + 1 ELSE rows[m]]
        /\ unheard' = [m \in Messages |-> IF m \in {} \cup (Acked(c) \ Acked(c))
                                          THEN unheard[m] + 1 ELSE unheard[m]]
    BY <1>0, <2>1 DEF TypeOK
  <2>3. {} \subseteq todo[c] /\ Acked(c) \subseteq Acked(c)
    OBVIOUS
  <2> QED BY <1>9, <2>1, <2>2, <2>3
<1>11. ASSUME NEW c \in Consumers, Crash(c) PROVE Inductive'
  <2>1. PICK heard \in {{}, Acked(c)}, sent \in {{}} \cup {{m} : m \in todo[c] \cap Json} :
          /\ Settle(c, heard)
          /\ rows' = [m \in Messages |-> IF m \in sent THEN rows[m] + 1 ELSE rows[m]]
          /\ unheard' = [m \in Messages |-> IF m \in sent \cup (Acked(c) \ heard)
                                            THEN unheard[m] + 1 ELSE unheard[m]]
    BY <1>11 DEF Crash
  <2>2. sent \subseteq todo[c] /\ heard \subseteq Acked(c)
    OBVIOUS
  <2> QED BY <1>9, <2>1, <2>2
<1>12. CASE UNCHANGED vars
  <2>1. UNCHANGED <<queue, deliveries, taken, todo, mark, table, rows, unheard>>
    BY <1>12 DEF vars
  <2>2. TypeOK' /\ Handed'
    BY <1>0, <2>1 DEF TypeOK, Handed
  <2>3. ASSUME NEW n \in Messages PROVE Counted(n)'
    <3>1. Counted(n) /\ AtWork(n)' = AtWork(n)
      BY <1>0, <2>1, NoLoop
    <3> QED BY <2>1, <3>1 DEF Counted, Processed, Coming
  <2> QED BY <2>2, <2>3 DEF Inductive
<1> QED BY <1>1, <1>2, <1>3, <1>4, <1>6, <1>7, <1>8, <1>10, <1>11, <1>12 DEF Next, Work

(* The invariants the runs check follow from the inductive one. *)
LEMMA Invariant == Spec => []Inductive
  BY InitInductive, NextInductive, PTL DEF Spec

(* Types hold: each message keeps one place in the queue and one mark. *)
THEOREM ConsumerTypes == Spec => []TypeOK
<1>1. Inductive => TypeOK
  BY DEF Inductive
<1> QED BY <1>1, Invariant, PTL

(* An event the queue has let go of as processed is in the table, however many *)
(* invocations run, INSERTs fail, handlers die and deliveries are repeated.    *)
THEOREM AckedIsStored == Spec => []AckedMeansStored
<1>1. Inductive => AckedMeansStored
  BY QueueAssumption DEF Inductive, Counted, Processed, AckedMeansStored
<1> QED BY <1>1, Invariant, PTL

LEMMA CountsAreNumbers ==
    ASSUME TypeOK, NEW m \in Messages
    PROVE  AtWork(m) \in Nat
<1>1. IsFiniteSet(Working(m))
  BY QueueAssumption, FS_Subset DEF Working
<1> QED BY <1>1, FS_CardinalityType DEF AtWork

(* Rows of a message are bounded by its deliveries, those by the retries, and only   *)
(* a message whose deliveries are used up is discarded.                              *)
THEOREM RowsAreBounded == Spec => []RowsBounded
<1>1. Inductive => RowsBounded
  <2> SUFFICES ASSUME Inductive, NEW m \in Messages
               PROVE  /\ rows[m] <= deliveries[m] /\ deliveries[m] <= MaxRetries + 1
                      /\ queue[m] = "discarded" => deliveries[m] = MaxRetries + 1
    BY DEF RowsBounded
  <2>1. Counted(m) /\ AtWork(m) \in Nat /\ rows[m] \in Nat /\ deliveries[m] \in Nat
    BY CountsAreNumbers DEF Inductive, TypeOK
  <2> QED BY <2>1 DEF Counted
<1> QED BY <1>1, Invariant, PTL

(* The handler asks again for no event it knows to be stored: over any number of      *)
(* invocations, failing INSERTs, dying handlers and repeated deliveries, an event has *)
(* one row more at most than the queue did not hear of.                               *)
THEOREM RowsAreNeeded == Spec => []NoNeedlessRow
<1>1. Inductive => NoNeedlessRow
  <2> SUFFICES ASSUME Inductive, NEW m \in Json PROVE rows[m] <= 1 + unheard[m]
    BY DEF NoNeedlessRow
  <2>1. m \in Messages
    BY QueueAssumption
  <2>2. Counted(m) /\ AtWork(m) \in Nat /\ rows[m] \in Nat /\ unheard[m] \in Nat
    BY <2>1, CountsAreNumbers DEF Inductive, TypeOK
  <2>3. Coming(m) \in {0, 1}
    BY DEF Coming
  <2> QED BY <2>2, <2>3 DEF Counted
<1> QED BY <1>1, Invariant, PTL

------------------------------------------------------------------------------
(* What is left to a message at each stage. *)
Turn(m) == CASE queue[m] = "delivered" -> 2
             [] queue[m] \in {"unsent", "acked"} -> 1
             [] OTHER -> 0

LEMMA LeftIs ==
    ASSUME NEW m
    PROVE  /\ Left(m) = 4 * (MaxRetries + 1 - deliveries[m]) + AtWork(m) + Turn(m)
           /\ Turn(m) \in {0, 1, 2}
           /\ queue[m] = "delivered" => Turn(m) = 2
           /\ queue[m] \in {"unsent", "acked"} => Turn(m) = 1
           /\ queue[m] \in {"ready", "discarded"} => Turn(m) = 0
  BY DEF Left, Turn, AtWork

(* A step uses up something of each message it is about and touches no other. *)
LEMMA StepUsesUp ==
    ASSUME Inductive, Next
    PROVE  /\ \A m \in Messages : Left(m)' <= Left(m)
           /\ table' = table => \E m \in Messages : Left(m)' < Left(m)
<1> DEFINE less(m) == Left(m)' < Left(m)
           same(m) == Left(m)' = Left(m)
           goal == /\ \A m \in Messages : Left(m)' <= Left(m)
                   /\ table' = table => \E m \in Messages : Left(m)' < Left(m)
<1>0. /\ TypeOK /\ Handed /\ MaxRetries \in Nat
      /\ \A m \in Messages : deliveries[m] \in Nat /\ deliveries'[m] \in Nat
  <2>1. TypeOK'
    BY NextInductive DEF Inductive
  <2> QED BY <2>1, QueueAssumption DEF Inductive, TypeOK
<1>l. ASSUME NEW m \in Messages
      PROVE  Left(m)' = 4 * (MaxRetries + 1 - deliveries'[m]) + AtWork(m)' + Turn(m)'
  BY DEF Left, Turn, AtWork
<1>t. ASSUME NEW m \in Messages
      PROVE  /\ Turn(m)' \in {0, 1, 2}
             /\ queue'[m] = queue[m] => Turn(m)' = Turn(m)
             /\ queue'[m] = "delivered" => Turn(m)' = 2
             /\ queue'[m] = "acked" => Turn(m)' = 1
             /\ queue'[m] \in {"ready", "discarded"} => Turn(m)' = 0
  BY DEF Turn
(* a message keeps its deliveries: what is left follows its loops and its place *)
<1>2. ASSUME NEW m \in Messages, deliveries'[m] = deliveries[m],
             AtWork(m) \in Nat, AtWork(m)' \in Nat
      PROVE  /\ AtWork(m)' = AtWork(m) /\ Turn(m)' = Turn(m) => same(m)
             /\ AtWork(m)' <= AtWork(m) /\ Turn(m)' < Turn(m) => less(m)
             /\ AtWork(m)' < AtWork(m) /\ Turn(m)' <= Turn(m) => less(m)
  BY <1>0, <1>2, <1>l, LeftIs, <1>t
<1>1. ASSUME NEW m \in Messages, AtWork(m) \in Nat, AtWork(m)' \in Nat
      PROVE  Left(m) \in Int /\ Left(m)' \in Int
  BY <1>0, <1>1, <1>l, <1>t, LeftIs
<1>3. ASSUME NEW T \in SUBSET Messages, T # {} \/ table' # table,
             \A m \in Messages : AtWork(m) \in Nat /\ AtWork(m)' \in Nat,
             \A m \in T : less(m), \A m \in Messages \ T : same(m)
      PROVE  goal
  <2>1. \A m \in Messages : Left(m)' < Left(m) \/ Left(m)' = Left(m)
    BY <1>3
  <2>2. \A m \in Messages : Left(m)' <= Left(m)
    BY <1>1, <1>3, <2>1
  <2> QED BY <1>3, <2>2
<1>4. ASSUME NEW m \in Messages, Send(m) \/ Repeat(m) PROVE goal
  <2>1. /\ queue[m] \in {"unsent", "delivered", "acked"} /\ queue'[m] = "ready"
        /\ deliveries' = deliveries /\ todo' = todo
        /\ \A n \in Messages \ {m} : queue'[n] = queue[n]
    BY <1>0, <1>4 DEF Send, Repeat, TypeOK
  <2>2. \A n \in Messages : AtWork(n) \in Nat /\ AtWork(n)' = AtWork(n)
    BY <1>0, <2>1, NoLoop
  <2>3. less(m)
    BY <1>2, <1>t, <2>1, <2>2, LeftIs
  <2>4. \A n \in Messages \ {m} : same(n)
    BY <1>2, <1>t, <2>1, <2>2
  <2> HIDE DEF less, same, goal
  <2>5. /\ {m} \in SUBSET Messages /\ {m} # {}
        /\ \A n \in {m} : less(n)
        /\ \A n \in Messages \ {m} : same(n)
        /\ \A n \in Messages : AtWork(n) \in Nat /\ AtWork(n)' \in Nat
    BY <2>2, <2>3, <2>4
  <2> QED BY <1>3, <2>5
<1>5. CASE Bootstrap
  <2>1. UNCHANGED <<queue, deliveries, todo>> /\ table' # table
    BY <1>5 DEF Bootstrap
  <2>2. \A n \in Messages : AtWork(n) \in Nat /\ AtWork(n)' = AtWork(n)
    BY <1>0, <2>1, NoLoop
  <2>3. \A n \in Messages : same(n)
    BY <1>2, <1>t, <2>1, <2>2
  <2> HIDE DEF less, same, goal
  <2>4. /\ {} \in SUBSET Messages /\ \A n \in {} : less(n)
        /\ \A n \in Messages \ {} : same(n)
        /\ \A n \in Messages : AtWork(n) \in Nat /\ AtWork(n)' \in Nat
    BY <2>2, <2>3
  <2>5. {} # {} \/ table' # table
    BY <2>1
  <2>6. goal
    BY <1>3, <2>4, <2>5
  <2> QED BY <2>6 DEF goal
<1>6. ASSUME NEW c \in Consumers, NEW S \in Batches, Deliver(c, S) PROVE goal
  <2>1. /\ S \in SUBSET Messages /\ S # {}
        /\ \A m \in S : /\ queue[m] = "ready" /\ queue'[m] = "delivered"
                        /\ deliveries'[m] = deliveries[m] + 1
        /\ \A m \in Messages \ S : queue'[m] = queue[m] /\ deliveries'[m] = deliveries[m]
    <3>1. S # {}
      <4>1. Cardinality({}) = 0
        BY FS_EmptySet
      <4> QED BY <4>1 DEF Batches
    <3> QED BY <1>6, <3>1 DEF Deliver, Waiting, Batches
  <2>2. \A m \in Messages :
          /\ AtWork(m) \in Nat /\ AtWork(m)' \in Nat
          /\ AtWork(m)' = IF m \in S THEN AtWork(m) + 1 ELSE AtWork(m)
    BY <1>0, <1>6, DeliverKeepsHanded
  <2>3. ASSUME NEW m \in S PROVE less(m)
    <3>1. m \in Messages
      BY <2>1
    <3>2. /\ AtWork(m) \in Nat /\ AtWork(m)' = AtWork(m) + 1
          /\ Turn(m) = 0 /\ Turn(m)' = 2 /\ deliveries'[m] = deliveries[m] + 1
      BY <1>t, <2>1, <2>2, <3>1, LeftIs
    <3>3. /\ Left(m) = 4 * (MaxRetries + 1 - deliveries[m]) + AtWork(m)
          /\ Left(m)' = 4 * (MaxRetries + 1 - (deliveries[m] + 1)) + AtWork(m) + 1 + 2
      BY <1>0, <1>l, <3>1, <3>2, LeftIs
    <3> QED BY <1>0, <3>1, <3>2, <3>3
  <2>4. \A m \in Messages \ S : same(m)
    BY <1>2, <1>t, <2>1, <2>2
  <2> HIDE DEF less, same, goal
  <2> QED BY <1>3, <2>1, <2>2, <2>3, <2>4
<1>7. ASSUME NEW c \in Consumers, NEW m \in todo[c], NEW verdict \in {"ack", "retry"},
             Marked(c, m, verdict)
      PROVE  goal
  <2>1. /\ m \in Messages /\ queue' = queue /\ deliveries' = deliveries
        /\ AtWork(m) \in Nat /\ AtWork(m)' = AtWork(m) - 1 /\ AtWork(m)' \in Nat
        /\ \A n \in Messages \ {m} : AtWork(n) \in Nat /\ AtWork(n)' = AtWork(n)
    BY <1>0, <1>7, MarkedKeepsHanded
  <2>2. less(m)
    <3>1. AtWork(m)' < AtWork(m) /\ Turn(m)' = Turn(m)
      BY <1>t, <2>1
    <3> QED BY <1>2, <2>1, <3>1, LeftIs
  <2>3. \A n \in Messages \ {m} : same(n)
    BY <1>2, <1>t, <2>1
  <2> HIDE DEF less, same, goal
  <2>4. /\ {m} \in SUBSET Messages /\ {m} # {}
        /\ \A n \in {m} : less(n)
        /\ \A n \in Messages \ {m} : same(n)
        /\ \A n \in Messages : AtWork(n) \in Nat /\ AtWork(n)' \in Nat
    BY <2>1, <2>2, <2>3
  <2> QED BY <1>3, <2>4
<1>8. ASSUME NEW c \in Consumers, ~Idle(c), NEW acked, Settle(c, acked) PROVE goal
  <2> DEFINE T == taken[c] \cup todo[c]
  <2>1. /\ T \in SUBSET Messages /\ T # {}
        /\ \A m \in taken[c] : /\ queue[m] = "delivered"
                               /\ queue'[m] \in {"acked", "discarded", "ready"}
        /\ \A m \in Messages \ taken[c] : queue'[m] = queue[m]
        /\ deliveries' = deliveries
    BY <1>0, <1>8 DEF Settle, Redelivered, Handed, TypeOK, Idle
  <2>2. \A m \in Messages :
          /\ AtWork(m) \in Nat /\ AtWork(m)' \in Nat
          /\ AtWork(m)' = IF m \in todo[c] THEN AtWork(m) - 1 ELSE AtWork(m)
    BY <1>0, <1>8, SettleKeepsHanded
  <2>3. ASSUME NEW m \in T PROVE less(m)
    <3>0. m \in Messages /\ AtWork(m) \in Nat /\ AtWork(m)' \in Nat /\ deliveries'[m] = deliveries[m]
      BY <2>1, <2>2
    <3>1. CASE m \in taken[c]
      <4>1. Turn(m) = 2 /\ Turn(m)' \in {0, 1}
        BY <1>t, <2>1, <3>0, <3>1, LeftIs
      <4>2. AtWork(m)' <= AtWork(m) /\ Turn(m)' < Turn(m)
        BY <2>2, <3>0, <4>1
      <4> QED BY <1>2, <3>0, <4>2
    <3>2. CASE m \notin taken[c]
      <4>1. Turn(m)' = Turn(m)
        BY <1>t, <2>1, <3>0, <3>2
      <4>2. AtWork(m)' < AtWork(m) /\ Turn(m)' <= Turn(m)
        BY <2>2, <3>0, <3>2, <4>1, LeftIs
      <4> QED BY <1>2, <3>0, <4>2
    <3> QED BY <3>1, <3>2
  <2>4. \A m \in Messages \ T : same(m)
    BY <1>2, <1>t, <2>1, <2>2
  <2> HIDE DEF less, same, goal, T
  <2> QED BY <1>3, <2>1, <2>2, <2>3, <2>4
<1> HIDE DEF goal
<1>9. ASSUME NEW c \in Consumers, Work(c) PROVE goal
  <2>1. ASSUME NEW m \in Messages, Skip(c, m) \/ Store(c, m) \/ StoreFails(c, m) PROVE goal
    <3>1. m \in todo[c] /\ \E verdict \in {"ack", "retry"} : Marked(c, m, verdict)
      BY <2>1 DEF Skip, Store, StoreFails, OkVerdict, ErrVerdict
    <3> QED BY <1>7, <3>1
  <2>2. CASE Return(c)
    BY <1>8, <2>2 DEF Return, Idle
  <2> QED BY <1>9, <2>1, <2>2 DEF Work
<1>10. ASSUME NEW c \in Consumers, Crash(c) PROVE goal
  <2>1. ~Idle(c) /\ \E acked : Settle(c, acked)
    BY <1>10 DEF Crash
  <2> QED BY <1>8, <2>1
<1>11. goal
  <2>1. CASE \E m \in Messages : Send(m) \/ Repeat(m)
    BY <1>4, <2>1
  <2>2. CASE \E c \in Consumers, S \in Batches : Deliver(c, S)
    BY <1>6, <2>2
  <2>3. CASE \E c \in Consumers : Work(c) \/ Crash(c)
    BY <1>9, <1>10, <2>3
  <2>4. CASE Bootstrap
    BY <1>5, <2>4 DEF goal
  <2>5. \/ \E m \in Messages : Send(m) \/ Repeat(m)
        \/ Bootstrap
        \/ \E c \in Consumers, S \in Batches : Deliver(c, S)
        \/ \E c \in Consumers : Work(c) \/ Crash(c)
    BY DEF Next
  <2> QED BY <2>1, <2>2, <2>3, <2>4, <2>5
<1> QED BY <1>11 DEF goal

(* Of EveryMessageSettles, all but the fairness: every step but the bootstrap leaves     *)
(* less for some message and none leaves more for any, for every number of messages,     *)
(* invocations and retries, whatever goes wrong. As Left(m) is a number and begins at    *)
(* 4 * (MaxRetries + 1) + 1, no more steps than that many per message, and one, are ever *)
(* taken.                                                                                *)
THEOREM StepsUseUp == Spec => EveryStepUsesUp
<1>1. Inductive /\ [Next]_vars =>
        [/\ \A m \in Messages : Left(m)' <= Left(m)
         /\ table' = table => \E m \in Messages : Left(m)' < Left(m)]_vars
  BY StepUsesUp
<1> QED BY <1>1, Invariant, PTL DEF Spec, EveryStepUsesUp
=============================================================================
