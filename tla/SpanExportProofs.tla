--------------------------- MODULE SpanExportProofs ---------------------------
(* The span exporter for every set of spans, every buffer size and number of      *)
(* attempts.                                                                      *)
EXTENDS SpanExport, SequenceTheorems, TLAPS

(* Where a task stands says where its span is and what it holds. *)
TasksFit ==
    \A t \in Spans :
        /\ task[t] = "flushing" <=> draining[t] # <<>>
        /\ task[t] = "idle" <=> fate[t] = "new"

RetriesLeft == \A t \in Spans : task[t] = "backoff" => attempt[t] < Attempts

Placed == TypeOK /\ OnePlace /\ TasksFit /\ RetriesLeft

(* What was posted for a span by the time it is at its stage. *)
Cost(s) ==
    /\ task[s] \in {"posting", "backoff"} => attempt[s] >= 1 /\ posts[s] = attempt[s]
    /\ posts[s] <= Attempts + 1
    /\ fate[s] = "new" => posts[s] = 0
    /\ fate[s] = "buffered" => posts[s] = Attempts
    /\ \A t \in Spans : Occurs(s, draining[t]) =>
         posts[s] = IF s = Head(draining[t]) THEN Attempts + 1 ELSE Attempts
    /\ fate[s] = "dropped" => posts[s] = Attempts + 1

(* How much of it can have arrived: the POST under way has not. *)
Received(s) ==
    /\ copies[s] + (IF Underway(s) THEN 1 ELSE 0) <= posts[s]
    /\ fate[s] = "delivered" => copies[s] > 0

Answered(t) == Awaiting(t) /\ arrived[t] => copies[Current(t)] > 0

Spent == \A s \in Spans : Cost(s) /\ Received(s) /\ Answered(s)

Inductive == Placed /\ Spent
-----------------------------------------------------------------------------
(* What the operations on a buffer do to the spans in it. *)
LEMMA TailOccurs ==
    ASSUME NEW S, NEW seq \in Seq(S), seq # <<>>, Distinct(seq)
    PROVE  /\ Tail(seq) \in Seq(S) /\ Len(Tail(seq)) = Len(seq) - 1
           /\ Head(seq) \in S /\ Occurs(Head(seq), seq)
           /\ Distinct(Tail(seq))
           /\ \A s : Occurs(s, Tail(seq)) <=> Occurs(s, seq) /\ s # Head(seq)
<1>1. /\ Tail(seq) \in Seq(S) /\ Len(Tail(seq)) = Len(seq) - 1 /\ Head(seq) \in S
      /\ \A i \in 1..Len(Tail(seq)) : Tail(seq)[i] = seq[i + 1]
      /\ Len(seq) \in Nat /\ Len(seq) > 0 /\ Head(seq) = seq[1]
      /\ DOMAIN seq = 1..Len(seq) /\ DOMAIN Tail(seq) = 1..(Len(seq) - 1)
  BY HeadTailProperties, LenProperties, EmptySeq
<1>2. Occurs(Head(seq), seq)
  BY <1>1 DEF Occurs
<1>3. Distinct(Tail(seq))
  BY <1>1 DEF Distinct
<1>4. ASSUME NEW s PROVE Occurs(s, Tail(seq)) <=> Occurs(s, seq) /\ s # Head(seq)
  <2>1. ASSUME Occurs(s, Tail(seq)) PROVE Occurs(s, seq) /\ s # Head(seq)
    <3>1. PICK i \in 1..(Len(seq) - 1) : Tail(seq)[i] = s
      BY <1>1, <2>1 DEF Occurs
    <3>2. i + 1 \in DOMAIN seq /\ seq[i + 1] = s /\ i + 1 # 1 /\ 1 \in DOMAIN seq
      BY <1>1, <3>1
    <3> QED BY <1>1, <3>2 DEF Occurs, Distinct
  <2>2. ASSUME Occurs(s, seq), s # Head(seq) PROVE Occurs(s, Tail(seq))
    <3>1. PICK i \in 1..Len(seq) : seq[i] = s
      BY <1>1, <2>2 DEF Occurs
    <3>2. i - 1 \in 1..(Len(seq) - 1) /\ Tail(seq)[i - 1] = s
      BY <1>1, <2>2, <3>1
    <3> QED BY <1>1, <3>2 DEF Occurs
  <2> QED BY <2>1, <2>2
<1> QED BY <1>1, <1>2, <1>3, <1>4

LEMMA AppendOccurs ==
    ASSUME NEW S, NEW seq \in Seq(S), NEW e \in S, Distinct(seq), ~Occurs(e, seq)
    PROVE  /\ Append(seq, e) \in Seq(S) /\ Len(Append(seq, e)) = Len(seq) + 1
           /\ Distinct(Append(seq, e))
           /\ \A s : Occurs(s, Append(seq, e)) <=> Occurs(s, seq) \/ s = e
<1>1. /\ Append(seq, e) \in Seq(S) /\ Len(Append(seq, e)) = Len(seq) + 1
      /\ \A i \in 1..Len(seq) : Append(seq, e)[i] = seq[i]
      /\ Append(seq, e)[Len(seq) + 1] = e
      /\ Len(seq) \in Nat /\ DOMAIN seq = 1..Len(seq)
      /\ DOMAIN Append(seq, e) = 1..(Len(seq) + 1)
  BY AppendProperties, LenProperties
<1>2. \A i \in 1..(Len(seq) + 1) :
        \/ i \in 1..Len(seq) /\ Append(seq, e)[i] = seq[i] /\ seq[i] # e
        \/ i = Len(seq) + 1 /\ Append(seq, e)[i] = e
  BY <1>1 DEF Occurs
<1>3. Distinct(Append(seq, e))
  BY <1>1, <1>2 DEF Distinct
<1>4. ASSUME NEW s PROVE Occurs(s, Append(seq, e)) <=> Occurs(s, seq) \/ s = e
  BY <1>1, <1>2 DEF Occurs
<1> QED BY <1>1, <1>3, <1>4

LEMMA NothingOccurs == Distinct(<<>>) /\ \A s : ~Occurs(s, <<>>)
  BY DEF Distinct, Occurs

-----------------------------------------------------------------------------
LEMMA InitInductive == Init => Inductive
<1> SUFFICES ASSUME Init PROVE Inductive
  OBVIOUS
<1>1. TypeOK
  BY ExportAssumption DEF Init, TypeOK, TaskStates, Fates
<1>2. OnePlace /\ TasksFit /\ RetriesLeft
  <2>1. buffer = <<>> /\ \A t \in Spans : draining[t] = <<>> /\ task[t] = "idle" /\ fate[t] = "new"
    BY DEF Init
  <2>2. \A t \in Spans : Distinct(draining[t]) /\ \A s \in Spans : ~Occurs(s, draining[t])
    BY <2>1, NothingOccurs
  <2>3. Distinct(buffer) /\ \A s \in Spans : ~Occurs(s, buffer)
    BY <2>1, NothingOccurs
  <2>4. OnePlace
    BY <2>1, <2>2, <2>3 DEF OnePlace
  <2> QED BY <2>1, <2>4 DEF TasksFit, RetriesLeft
<1>3. Spent
  <2>1. /\ \A t \in Spans : ~Awaiting(t) /\ task[t] = "idle" /\ draining[t] = <<>>
        /\ \A s \in Spans : posts[s] = 0 /\ copies[s] = 0 /\ fate[s] = "new"
    BY DEF Init, Awaiting
  <2>2. ASSUME NEW s \in Spans PROVE ~Underway(s)
    BY <2>1 DEF Underway
  <2>3. ASSUME NEW s \in Spans, NEW t \in Spans PROVE ~Occurs(s, draining[t])
    BY <2>1, NothingOccurs
  <2>4. ASSUME NEW s \in Spans PROVE Cost(s)
    BY <2>1, <2>3, ExportAssumption DEF Cost
  <2>5. ASSUME NEW s \in Spans PROVE Received(s) /\ Answered(s)
    BY <2>1, <2>2 DEF Received, Answered
  <2> QED BY <2>4, <2>5 DEF Spent
<1> QED BY <1>1, <1>2, <1>3 DEF Inductive, Placed

(* The span a task waits for an answer about is in its own hands. *)
LEMMA CurrentSpan ==
    ASSUME Placed, NEW t \in Spans, Awaiting(t)
    PROVE  /\ Current(t) \in Spans
           /\ fate[Current(t)] = IF task[t] = "posting" THEN "sending" ELSE "flushing"
           /\ task[t] = "flushing" => /\ draining[t] # <<>> /\ draining[t] \in Seq(Spans)
                                      /\ Current(t) = Head(draining[t])
                                      /\ Occurs(Current(t), draining[t])
           /\ task[t] = "posting" => draining[t] = <<>> /\ Current(t) = t
<1>1. CASE task[t] = "posting"
  BY <1>1 DEF Placed, OnePlace, TasksFit, Current
<1>2. CASE task[t] = "flushing"
  <2>1. draining[t] # <<>> /\ draining[t] \in Seq(Spans) /\ Distinct(draining[t])
    BY <1>2 DEF Placed, TypeOK, OnePlace, TasksFit
  <2>2. Current(t) = Head(draining[t])
    BY <1>2 DEF Current
  <2>3. Current(t) \in Spans /\ Occurs(Current(t), draining[t])
    BY <2>1, <2>2, TailOccurs
  <2> QED BY <1>2, <2>1, <2>2, <2>3 DEF Placed, OnePlace
<1> QED BY <1>1, <1>2 DEF Awaiting

(* Two tasks never wait for answers about one span. *)
LEMMA CurrentUnique ==
    ASSUME Placed, NEW t \in Spans, NEW u \in Spans, Awaiting(t), Awaiting(u),
           Current(t) = Current(u)
    PROVE  t = u
  BY CurrentSpan DEF Placed, OnePlace, Awaiting

(* A step of one task and its span, which leaves the buffers alone. *)
LEMMA TaskMoves ==
    ASSUME Placed, NEW t \in Spans, NEW where \in TaskStates \ {"flushing", "idle"},
           NEW what \in Fates \ {"new", "buffered", "flushing"},
           fate[t] \in {"new", "sending"}, task[t] # "flushing",
           where \in {"posting", "backoff"} <=> what = "sending",
           task' = [task EXCEPT ![t] = where], fate' = [fate EXCEPT ![t] = what],
           UNCHANGED <<buffer, draining>>
    PROVE  OnePlace' /\ TasksFit'
<1>1. /\ task'[t] = where /\ fate'[t] = what
      /\ \A s \in Spans \ {t} : task'[s] = task[s] /\ fate'[s] = fate[s]
  BY DEF Placed, TypeOK
<1>2. \A s \in Spans :
        /\ Occurs(s, buffer) <=> fate'[s] = "buffered"
        /\ (\E u \in Spans : Occurs(s, draining[u])) <=> fate'[s] = "flushing"
        /\ task'[s] \in {"posting", "backoff"} <=> fate'[s] = "sending"
  BY <1>1 DEF Placed, OnePlace
<1>3. OnePlace'
  BY <1>2 DEF Placed, OnePlace
<1>4. TasksFit'
  BY <1>1 DEF Placed, TasksFit
<1> QED BY <1>3, <1>4
(* However tasks interleave, a step keeps every span in one place. *)
LEMMA PlacedInductive == Placed /\ [Next]_vars => Placed'
<1> SUFFICES ASSUME Placed, [Next]_vars PROVE Placed'
  OBVIOUS
<1>0. /\ TypeOK /\ OnePlace /\ TasksFit /\ RetriesLeft
      /\ MaxBuffered \in Nat \ {0} /\ Attempts \in Nat \ {0}
      /\ \A s \in Spans : posts[s] + 1 \in Nat /\ copies[s] + 1 \in Nat
  BY ExportAssumption DEF Placed, TypeOK
<1>r. ASSUME \A t \in Spans : task'[t] = "backoff" =>
                 attempt'[t] = attempt[t] /\ (task[t] = "backoff" \/ attempt[t] < Attempts)
      PROVE  RetriesLeft'
  BY <1>0, <1>r DEF RetriesLeft
<1>p. ASSUME NEW t \in Spans, NEW s \in Spans, Post(t, s)
      PROVE  posts' \in [Spans -> Nat] /\ arrived' \in [Spans -> BOOLEAN]
  BY <1>0, <1>p DEF Post, TypeOK
<1>1. ASSUME NEW t \in Spans, Begin(t) PROVE Placed'
  <2>1. OnePlace' /\ TasksFit'
    BY <1>0, <1>1, TaskMoves DEF Begin, TasksFit, TaskStates, Fates, Resolved
  <2>2. TypeOK'
    BY <1>0, <1>1, <1>p DEF Begin, TypeOK, TaskStates, Fates
  <2>3. RetriesLeft'
    BY <1>0, <1>1, <1>r DEF Begin, TypeOK
  <2> QED BY <2>1, <2>2, <2>3 DEF Placed
<1>2. ASSUME NEW t \in Spans, Arrive(t) PROVE Placed'
  <2>1. Current(t) \in Spans
    BY <1>2, CurrentSpan DEF Arrive
  <2>2. TypeOK'
    BY <1>0, <1>2, <2>1 DEF Arrive, TypeOK
  <2> QED BY <1>0, <1>2, <2>2 DEF Arrive, Placed, OnePlace, TasksFit, RetriesLeft
<1>3. ASSUME NEW s \in Spans, ArriveLate(s) PROVE Placed'
  <2>1. TypeOK'
    BY <1>0, <1>3 DEF ArriveLate, TypeOK
  <2> QED BY <1>0, <1>3, <2>1 DEF ArriveLate, Placed, OnePlace, TasksFit, RetriesLeft
<1>4. ASSUME NEW t \in Spans, Sent(t) PROVE Placed'
  <2>1. /\ task[t] = "posting" /\ draining[t] = <<>> /\ fate[t] = "sending"
        /\ draining' = [draining EXCEPT ![t] = buffer] /\ buffer' = <<>>
        /\ task'[t] = IF buffer = <<>> THEN "done" ELSE "flushing"
        /\ \A s \in Spans \ {t} : task'[s] = task[s] /\ draining'[s] = draining[s]
        /\ draining'[t] = buffer /\ buffer \in Seq(Spans)
        /\ UNCHANGED <<attempt, copies>>
    BY <1>0, <1>4 DEF Sent, Drained, TypeOK, OnePlace, TasksFit
  <2>2. \A s \in Spans : fate'[s] = IF s = t THEN "delivered"
                                   ELSE IF Occurs(s, buffer) THEN "flushing" ELSE fate[s]
    BY <1>4 DEF Sent
  <2>3. TypeOK'
    <3>1. posts' \in [Spans -> Nat] /\ arrived' \in [Spans -> BOOLEAN]
      <4>1. CASE buffer = <<>>
        BY <1>0, <1>4, <4>1 DEF Sent, TypeOK
      <4>2. CASE buffer # <<>>
        <5>1. Head(buffer) \in Spans
          BY <2>1, <4>2, HeadTailProperties
        <5> QED BY <1>4, <1>p, <4>2, <5>1 DEF Sent
      <4> QED BY <4>1, <4>2
    <3>2. task' \in [Spans -> TaskStates]
      BY <1>0, <1>4 DEF Sent, TypeOK, TaskStates
    <3>3. fate' \in [Spans -> Fates]
      BY <1>0, <1>4 DEF Sent, TypeOK, Fates, Resolved
    <3>4. draining' \in [Spans -> Seq(Spans)]
      BY <1>0, <2>1 DEF TypeOK
    <3>5. buffer' \in Seq(Spans) /\ Len(buffer') <= MaxBuffered
      BY <1>0, <2>1, EmptySeq
    <3>6. attempt' \in [Spans -> 0..Attempts] /\ copies' \in [Spans -> Nat]
      BY <1>0, <2>1 DEF TypeOK
    <3> QED BY <3>1, <3>2, <3>3, <3>4, <3>5, <3>6 DEF TypeOK
  <2>4. \A u \in Spans : Distinct(draining'[u])
    BY <1>0, <2>1 DEF OnePlace
  <2>5. ASSUME NEW s \in Spans
        PROVE  /\ (\E u \in Spans : Occurs(s, draining'[u])) <=> fate'[s] = "flushing"
               /\ task'[s] \in {"posting", "backoff"} <=> fate'[s] = "sending"
               /\ \A u, v \in Spans :
                    Occurs(s, draining'[u]) /\ Occurs(s, draining'[v]) => u = v
               /\ ~Occurs(s, buffer') /\ fate'[s] # "buffered"
    <3>1. ~Occurs(s, <<>>) /\ (Occurs(s, buffer) => fate[s] = "buffered" /\ s # t)
      BY <1>0, <2>1, NothingOccurs DEF OnePlace
    <3>2. \A u \in Spans : Occurs(s, draining'[u]) <=>
                             IF u = t THEN Occurs(s, buffer) ELSE Occurs(s, draining[u])
      BY <2>1
    <3>3. \A u \in Spans : Occurs(s, draining[u]) => u # t /\ fate[s] = "flushing"
      BY <1>0, <2>1, <3>1 DEF OnePlace
    <3>4. (\E u \in Spans : Occurs(s, draining[u])) <=> fate[s] = "flushing"
      BY <1>0 DEF OnePlace
    <3>5. (\E u \in Spans : Occurs(s, draining'[u])) <=> fate'[s] = "flushing"
      BY <2>1, <2>2, <3>1, <3>2, <3>3, <3>4
    <3>6. task'[s] \in {"posting", "backoff"} <=> fate'[s] = "sending"
      BY <1>0, <2>1, <2>2, <3>1 DEF OnePlace
    <3>7. \A u, v \in Spans : Occurs(s, draining'[u]) /\ Occurs(s, draining'[v]) => u = v
      BY <1>0, <3>1, <3>2, <3>3 DEF OnePlace
    <3>8. ~Occurs(s, buffer') /\ fate'[s] # "buffered"
      BY <1>0, <2>1, <2>2, <3>1 DEF OnePlace
    <3> QED BY <3>5, <3>6, <3>7, <3>8
  <2>6. OnePlace'
    BY <2>1, <2>4, <2>5, NothingOccurs DEF OnePlace
  <2>7. TasksFit'
    BY <1>0, <2>1, <2>2, <2>5 DEF TasksFit, OnePlace
  <2>8. RetriesLeft'
    BY <1>r, <2>1
  <2> QED BY <2>3, <2>6, <2>7, <2>8 DEF Placed
<1>5. ASSUME NEW t \in Spans, Fail(t) PROVE Placed'
  <2>1. fate' = [fate EXCEPT ![t] = "sending"] /\ fate[t] = "sending"
    BY <1>0, <1>5 DEF Fail, OnePlace, TypeOK
  <2>2. OnePlace' /\ TasksFit'
    BY <1>5, <2>1, TaskMoves DEF Fail, TaskStates, Fates
  <2>3. TypeOK'
    BY <1>0, <1>5 DEF Fail, TypeOK, TaskStates
  <2>4. RetriesLeft'
    BY <1>0, <1>5, <1>r DEF Fail, LastAttempt, TypeOK
  <2> QED BY <2>2, <2>3, <2>4 DEF Placed
<1>6. ASSUME NEW t \in Spans, Retry(t) PROVE Placed'
  <2>1. fate' = [fate EXCEPT ![t] = "sending"] /\ fate[t] = "sending"
    BY <1>0, <1>6 DEF Retry, TimerFires, OnePlace, TypeOK
  <2>2. OnePlace' /\ TasksFit'
    BY <1>6, <2>1, TaskMoves DEF Retry, TimerFires, TaskStates, Fates
  <2>3. attempt[t] < Attempts /\ attempt[t] \in 0..Attempts
    BY <1>0, <1>6 DEF Retry, TimerFires, RetriesLeft, TypeOK
  <2>4. attempt' \in [Spans -> 0..Attempts] /\ \A u \in Spans \ {t} : attempt'[u] = attempt[u]
    BY <1>0, <1>6, <2>3 DEF Retry, TypeOK
  <2>5. TypeOK'
    BY <1>0, <1>6, <1>p, <2>4 DEF Retry, TypeOK, TaskStates
  <2>6. RetriesLeft'
    BY <1>0, <1>6, <1>r, <2>4 DEF Retry, TypeOK
  <2> QED BY <2>2, <2>5, <2>6 DEF Placed
<1>7. ASSUME NEW t \in Spans, Keep(t) PROVE Placed'
  <2>1. /\ task[t] = "posting" /\ fate[t] = "sending" /\ ~Occurs(t, buffer)
        /\ buffer \in Seq(Spans) /\ Distinct(buffer) /\ Len(buffer) \in Nat
        /\ Len(buffer) <= MaxBuffered
        /\ task' = [task EXCEPT ![t] = "done"] /\ buffer' = Append(Room, t)
        /\ UNCHANGED <<attempt, arrived, draining, posts, copies>>
    BY <1>0, <1>7, LenProperties DEF Keep, OnePlace, TypeOK
  <2>2. /\ Room \in Seq(Spans) /\ Distinct(Room) /\ Len(Room) < MaxBuffered
        /\ \A s : Occurs(s, Room) <=> Occurs(s, buffer) /\ s \notin Overflow
        /\ \A s \in Overflow : Occurs(s, buffer)
    <3>1. CASE Full
      <4>1. buffer # <<>>
        BY <1>0, <2>1, <3>1, EmptySeq DEF Full
      <4>2. Room = Tail(buffer) /\ Overflow = {Head(buffer)}
        BY <3>1 DEF Room, Overflow
      <4> QED BY <1>0, <2>1, <4>1, <4>2, TailOccurs
    <3>2. CASE ~Full
      BY <1>0, <2>1, <3>2 DEF Full, Room, Overflow
    <3> QED BY <3>1, <3>2
  <2>3. /\ buffer' \in Seq(Spans) /\ Distinct(buffer') /\ Len(buffer') <= MaxBuffered
        /\ \A s : Occurs(s, buffer') <=> Occurs(s, Room) \/ s = t
    <3>1. ~Occurs(t, Room) /\ Len(Room) \in Nat
      BY <2>1, <2>2, LenProperties
    <3> QED BY <1>0, <2>1, <2>2, <3>1, AppendOccurs
  <2>4. fate' = [s \in Spans |-> IF s = t THEN "buffered"
                                ELSE IF s \in Overflow THEN "evicted" ELSE fate[s]]
    BY <1>7 DEF Keep
  <2>5. TypeOK'
    BY <1>0, <2>1, <2>3, <2>4 DEF TypeOK, TaskStates, Fates, Resolved
  <2>6. task'[t] = "done" /\ \A s \in Spans \ {t} : task'[s] = task[s]
    BY <1>0, <2>1 DEF TypeOK
  <2>7. ASSUME NEW s \in Spans
        PROVE  /\ Occurs(s, buffer') <=> fate'[s] = "buffered"
               /\ fate'[s] = "flushing" <=> fate[s] = "flushing"
               /\ task'[s] \in {"posting", "backoff"} <=> fate'[s] = "sending"
    <3>1. /\ Occurs(s, buffer) <=> fate[s] = "buffered"
          /\ task[s] \in {"posting", "backoff"} <=> fate[s] = "sending"
      BY <1>0 DEF OnePlace
    <3> QED BY <2>1, <2>2, <2>3, <2>4, <2>6, <3>1
  <2>8. OnePlace'
    BY <1>0, <2>1, <2>3, <2>7 DEF OnePlace
  <2>9. TasksFit'
    <3>1. \A s \in Spans : fate'[s] = "new" <=> fate[s] = "new"
      BY <1>0, <2>1, <2>2, <2>4 DEF OnePlace
    <3> QED BY <1>0, <2>1, <2>6, <3>1 DEF TasksFit
  <2>10. RetriesLeft'
    BY <1>r, <2>1, <2>6
  <2> QED BY <2>5, <2>8, <2>9, <2>10 DEF Placed
<1>8. ASSUME NEW t \in Spans, NEW outcome \in {"delivered", "dropped"}, FlushNext(t, outcome)
      PROVE  Placed'
  <2> DEFINE h == Head(draining[t])
             rest == Tail(draining[t])
  <2>1. /\ task[t] = "flushing" /\ draining[t] # <<>> /\ draining[t] \in Seq(Spans)
        /\ Distinct(draining[t]) /\ Len(draining[t]) \in Nat
    BY <1>0, <1>8, LenProperties DEF FlushNext, OnePlace, TasksFit, TypeOK
  <2>2. /\ rest \in Seq(Spans) /\ Len(rest) = Len(draining[t]) - 1 /\ Distinct(rest)
        /\ h \in Spans /\ Occurs(h, draining[t]) /\ fate[h] = "flushing"
        /\ \A s : Occurs(s, rest) <=> Occurs(s, draining[t]) /\ s # h
    <3>1. h \in Spans /\ Occurs(h, draining[t])
      BY <2>1, TailOccurs
    <3>2. fate[h] = "flushing"
      BY <1>0, <3>1 DEF OnePlace
    <3> QED BY <2>1, <3>1, <3>2, TailOccurs
  <2>3. rest = <<>> <=> Len(draining[t]) = 1
    <3>1. rest = <<>> <=> Len(rest) = 0
      BY <2>2, EmptySeq
    <3> HIDE DEF rest
    <3> QED BY <2>1, <2>2, <3>1
  <2>4. /\ draining' = [draining EXCEPT ![t] = rest]
        /\ fate' = [fate EXCEPT ![h] = outcome]
        /\ UNCHANGED <<attempt, buffer, copies>>
        /\ IF rest = <<>>
           THEN task' = [task EXCEPT ![t] = "done"] /\ UNCHANGED <<arrived, posts>>
           ELSE Post(t, Head(rest)) /\ UNCHANGED task
    BY <1>8, <2>3 DEF FlushNext
  <2> HIDE DEF h, rest
  <2>5. /\ draining'[t] = rest /\ \A u \in Spans \ {t} : draining'[u] = draining[u]
        /\ fate'[h] = outcome /\ \A s \in Spans \ {h} : fate'[s] = fate[s]
        /\ task'[t] = IF rest = <<>> THEN "done" ELSE "flushing"
        /\ \A u \in Spans \ {t} : task'[u] = task[u]
    BY <1>0, <2>1, <2>2, <2>4 DEF TypeOK
  <2>6. TypeOK'
    <3>1. posts' \in [Spans -> Nat] /\ arrived' \in [Spans -> BOOLEAN]
      <4>1. CASE rest = <<>>
        BY <1>0, <2>4, <4>1 DEF TypeOK
      <4>2. CASE rest # <<>>
        BY <1>p, <2>2, <2>4, <4>2, HeadTailProperties
      <4> QED BY <4>1, <4>2
    <3>2. task' \in [Spans -> TaskStates]
      BY <1>0, <2>4 DEF TypeOK, TaskStates
    <3> QED BY <1>0, <2>2, <2>4, <3>1, <3>2 DEF TypeOK, Fates, Resolved
  <2>7. ASSUME NEW s \in Spans
        PROVE  /\ Occurs(s, buffer) <=> fate'[s] = "buffered"
               /\ (\E u \in Spans : Occurs(s, draining'[u])) <=> fate'[s] = "flushing"
               /\ task'[s] \in {"posting", "backoff"} <=> fate'[s] = "sending"
               /\ \A u, v \in Spans :
                    Occurs(s, draining'[u]) /\ Occurs(s, draining'[v]) => u = v
    <3>1. \A u \in Spans : Occurs(s, draining'[u]) <=> Occurs(s, draining[u]) /\ s # h
      BY <1>0, <2>2, <2>5 DEF OnePlace
    <3>2. /\ Occurs(s, buffer) <=> fate[s] = "buffered"
          /\ (\E u \in Spans : Occurs(s, draining[u])) <=> fate[s] = "flushing"
          /\ task[s] \in {"posting", "backoff"} <=> fate[s] = "sending"
          /\ \A u, v \in Spans : Occurs(s, draining[u]) /\ Occurs(s, draining[v]) => u = v
      BY <1>0 DEF OnePlace
    <3>3. task'[s] \in {"posting", "backoff"} <=> task[s] \in {"posting", "backoff"}
      BY <2>1, <2>5
    <3> QED BY <2>2, <2>5, <3>1, <3>2, <3>3
  <2>8. OnePlace'
    <3>1. \A u \in Spans : Distinct(draining'[u])
      BY <1>0, <2>2, <2>5 DEF OnePlace
    <3> QED BY <1>0, <2>4, <2>7, <3>1 DEF OnePlace
  <2>9. TasksFit'
    BY <1>0, <2>1, <2>2, <2>5 DEF TasksFit
  <2>10. RetriesLeft'
    BY <1>r, <2>1, <2>4, <2>5
  <2> QED BY <2>6, <2>8, <2>9, <2>10 DEF Placed
<1>9. ASSUME NEW t \in Spans, Cancel(t) PROVE Placed'
  <2>1. /\ task[t] \in {"posting", "backoff", "flushing"}
        /\ task'[t] = "done" /\ \A u \in Spans \ {t} : task'[u] = task[u]
        /\ draining'[t] = <<>> /\ \A u \in Spans \ {t} : draining'[u] = draining[u]
        /\ \A s \in Spans : fate'[s] = IF Holds(t, s) THEN "lost" ELSE fate[s]
        /\ UNCHANGED <<attempt, arrived, buffer, posts, copies>>
    BY <1>0, <1>9 DEF Cancel, TypeOK
  <2>2. TypeOK'
    BY <1>0, <1>9, EmptySeq DEF Cancel, TypeOK, TaskStates, Fates, Resolved
  <2>3. ASSUME NEW s \in Spans
        PROVE  /\ Occurs(s, buffer) <=> fate'[s] = "buffered"
               /\ (\E u \in Spans : Occurs(s, draining'[u])) <=> fate'[s] = "flushing"
               /\ task'[s] \in {"posting", "backoff"} <=> fate'[s] = "sending"
               /\ \A u, v \in Spans :
                    Occurs(s, draining'[u]) /\ Occurs(s, draining'[v]) => u = v
    <3>1. /\ Occurs(s, buffer) <=> fate[s] = "buffered"
          /\ (\E u \in Spans : Occurs(s, draining[u])) <=> fate[s] = "flushing"
          /\ task[s] \in {"posting", "backoff"} <=> fate[s] = "sending"
          /\ \A u, v \in Spans : Occurs(s, draining[u]) /\ Occurs(s, draining[v]) => u = v
      BY <1>0 DEF OnePlace
    <3>2. \A u \in Spans : Occurs(s, draining'[u]) <=> u # t /\ Occurs(s, draining[u])
      BY <2>1, NothingOccurs
    <3> QED BY <2>1, <3>1, <3>2 DEF Holds
  <2>4. OnePlace'
    <3>1. \A u \in Spans : Distinct(draining'[u])
      BY <1>0, <2>1, NothingOccurs DEF OnePlace
    <3> QED BY <1>0, <2>1, <2>3, <3>1 DEF OnePlace
  <2>5. TasksFit'
    <3>1. \A s \in Spans : Holds(t, s) => fate[s] # "new"
      BY <1>0 DEF OnePlace, Holds
    <3> QED BY <1>0, <2>1, <3>1 DEF TasksFit
  <2>6. RetriesLeft'
    BY <1>r, <2>1
  <2> QED BY <2>2, <2>4, <2>5, <2>6 DEF Placed
<1>10. CASE Evict
  <2>1. /\ buffer' = <<>> /\ UNCHANGED <<attempt, arrived, posts, copies>>
        /\ \A t \in Spans : /\ task'[t] = IF task[t] = "idle" THEN "idle" ELSE "done"
                            /\ draining'[t] = <<>>
                            /\ fate'[t] = IF fate[t] \in {"sending", "buffered", "flushing"}
                                          THEN "lost" ELSE fate[t]
    BY <1>10 DEF Evict
  <2>2. TypeOK'
    BY <1>0, <1>10, EmptySeq DEF Evict, TypeOK, TaskStates, Fates, Resolved
  <2>3. OnePlace'
    <3>1. \A s \in Spans : /\ ~Occurs(s, buffer') /\ Distinct(buffer')
                          /\ \A u \in Spans : ~Occurs(s, draining'[u]) /\ Distinct(draining'[u])
      BY <2>1, NothingOccurs
    <3>2. Distinct(buffer')
      BY <2>1, NothingOccurs
    <3> QED BY <2>1, <3>1, <3>2 DEF OnePlace
  <2>4. TasksFit' /\ RetriesLeft'
    BY <1>0, <2>1 DEF TasksFit, RetriesLeft
  <2> QED BY <2>2, <2>3, <2>4 DEF Placed
<1>11. CASE UNCHANGED vars
  BY <1>0, <1>11 DEF vars, Placed, TypeOK, OnePlace, TasksFit, RetriesLeft
<1> QED BY <1>1, <1>2, <1>3, <1>4, <1>5, <1>6, <1>7, <1>8, <1>9, <1>10, <1>11
        DEF Next, Resume, Flushed, FlushFailed

-----------------------------------------------------------------------------
(* A step in which no copy arrives, and every POST begun is of a span in P. *)
LEMMA SpentStep ==
    ASSUME Placed, Spent, NEW P \in SUBSET Spans, copies' = copies,
           \A s \in Spans : posts'[s] = IF s \in P THEN posts[s] + 1 ELSE posts[s],
           \A u \in Spans : \/ ~Awaiting(u)'
                            \/ ~arrived'[u] /\ Current(u)' \in P
                            \/ /\ Awaiting(u) /\ arrived'[u] = arrived[u]
                               /\ Current(u)' = Current(u),
           \A s \in Spans : fate'[s] = "delivered" =>
              fate[s] = "delivered" \/ \E t \in Spans :
                                          Awaiting(t) /\ arrived[t] /\ Current(t) = s,
           \A s \in Spans : Cost(s)'
    PROVE  Spent'
<1>1. ASSUME NEW s \in Spans PROVE Received(s)'
  <2>1. copies[s] + (IF Underway(s) THEN 1 ELSE 0) <= posts[s] /\ copies[s] \in Nat /\ posts[s] \in Nat
    BY DEF Spent, Received, Placed, TypeOK
  <2>2. s \notin P /\ Underway(s)' => Underway(s)
    BY DEF Underway
  <2>3. copies'[s] + (IF Underway(s)' THEN 1 ELSE 0) <= posts'[s]
    BY <2>1, <2>2
  <2>4. fate'[s] = "delivered" => copies'[s] > 0
    BY DEF Spent, Received, Answered
  <2> QED BY <2>3, <2>4 DEF Received
<1>2. ASSUME NEW u \in Spans PROVE Answered(u)'
  BY DEF Spent, Answered
<1> QED BY <1>1, <1>2 DEF Spent

(* A step in which no copy arrives and no POST begins. *)
LEMMA SpentQuiet ==
    ASSUME Placed, Spent, UNCHANGED <<posts, copies>>,
           \A u \in Spans : \/ ~Awaiting(u)'
                            \/ /\ Awaiting(u) /\ arrived'[u] = arrived[u]
                               /\ Current(u)' = Current(u),
           \A s \in Spans : fate'[s] = "delivered" => fate[s] = "delivered",
           \A s \in Spans : Cost(s)'
    PROVE  Spent'
<1> DEFINE P == {}
<1>1. P \in SUBSET Spans /\ \A s \in Spans : posts'[s] = IF s \in P THEN posts[s] + 1 ELSE posts[s]
  OBVIOUS
<1> HIDE DEF P
<1> QED BY <1>1, SpentStep

(* A task that stays where it is still waits for the same answer, or for none. *)
LEMMA SameTask ==
    ASSUME NEW u \in Spans, task'[u] = task[u], draining'[u] = draining[u],
           arrived'[u] = arrived[u]
    PROVE  \/ ~Awaiting(u)'
           \/ /\ Awaiting(u) /\ arrived'[u] = arrived[u]
              /\ Current(u)' = Current(u)
  BY DEF Awaiting, Current

(* However tasks and copies interleave, a step keeps the accounts of every span. *)
LEMMA SpentInductive == Placed /\ Spent /\ [Next]_vars => Spent'
<1> SUFFICES ASSUME Placed, Spent, [Next]_vars PROVE Spent'
  OBVIOUS
<1>0. /\ TypeOK /\ OnePlace /\ TasksFit /\ RetriesLeft
      /\ MaxBuffered \in Nat \ {0} /\ Attempts \in Nat \ {0}
      /\ \A s \in Spans : /\ Cost(s) /\ Received(s) /\ Answered(s)
                          /\ posts[s] \in Nat /\ copies[s] \in Nat /\ attempt[s] \in 0..Attempts
  BY ExportAssumption DEF Placed, Spent, TypeOK
<1>p. ASSUME NEW t \in Spans, NEW s \in Spans, Post(t, s)
      PROVE  /\ \A x \in Spans : posts'[x] = IF x \in {s} THEN posts[x] + 1 ELSE posts[x]
             /\ ~arrived'[t] /\ \A u \in Spans \ {t} : arrived'[u] = arrived[u]
  BY <1>0, <1>p DEF Post, TypeOK
<1>1. ASSUME NEW t \in Spans, Begin(t) PROVE Spent'
  <2>1. /\ task[t] = "idle" /\ fate[t] = "new" /\ Post(t, t)
        /\ task'[t] = "posting" /\ \A u \in Spans \ {t} : task'[u] = task[u]
        /\ attempt'[t] = 1 /\ \A u \in Spans \ {t} : attempt'[u] = attempt[u]
        /\ fate'[t] = "sending" /\ \A u \in Spans \ {t} : fate'[u] = fate[u]
        /\ UNCHANGED <<buffer, draining, copies>>
    BY <1>0, <1>1 DEF Begin, TypeOK, TasksFit
  <2>2. /\ \A x \in Spans : posts'[x] = IF x \in {t} THEN posts[x] + 1 ELSE posts[x]
        /\ ~arrived'[t] /\ \A u \in Spans \ {t} : arrived'[u] = arrived[u]
    BY <1>p, <2>1
  <2>3. Current(t)' = t
    BY <2>1 DEF Current
  <2>4. ASSUME NEW s \in Spans PROVE Cost(s)'
    <3>1. CASE s = t
      <4>1. \A u \in Spans : ~Occurs(t, draining[u])
        BY <1>0, <2>1 DEF OnePlace
      <4> QED BY <1>0, <2>1, <2>2, <3>1, <4>1 DEF Cost
    <3>2. CASE s # t
      BY <1>0, <2>1, <2>2, <3>2 DEF Cost
    <3> QED BY <3>1, <3>2
  <2>5. \A u \in Spans \ {t} : \/ ~Awaiting(u)'
                               \/ /\ Awaiting(u) /\ arrived'[u] = arrived[u]
                                  /\ Current(u)' = Current(u)
    BY <2>1, <2>2, SameTask
  <2> QED BY <2>1, <2>2, <2>3, <2>4, <2>5, SpentStep
<1>2. ASSUME NEW t \in Spans, Arrive(t) PROVE Spent'
  <2> PICK c \in Spans : c = Current(t)
    BY <1>2, CurrentSpan DEF Arrive
  <2>1. Awaiting(t) /\ ~arrived[t] /\ Underway(c)
    BY <1>2 DEF Arrive, Underway
  <2>2. /\ arrived'[t] /\ \A u \in Spans \ {t} : arrived'[u] = arrived[u]
        /\ copies'[c] = copies[c] + 1 /\ \A s \in Spans \ {c} : copies'[s] = copies[s]
        /\ UNCHANGED <<task, attempt, buffer, draining, fate, posts>>
    BY <1>0, <1>2, <2>1 DEF Arrive, TypeOK
  <2>3. \A u \in Spans : (Awaiting(u)' <=> Awaiting(u)) /\ Current(u)' = Current(u)
    BY <2>2 DEF Awaiting, Current
  <2>4. ~Underway(c)'
    BY <2>1, <2>2, <2>3, CurrentUnique DEF Underway
  <2>5. ASSUME NEW s \in Spans PROVE Cost(s)'
    BY <1>0, <2>2 DEF Cost
  <2>6. ASSUME NEW s \in Spans PROVE Received(s)'
    <3>1. Underway(s)' => Underway(s)
      BY <2>2, <2>3 DEF Underway
    <3>2. copies'[s] + (IF Underway(s)' THEN 1 ELSE 0) <= posts'[s]
      <4>1. CASE s = c
        BY <1>0, <2>1, <2>2, <2>4, <4>1 DEF Received
      <4>2. CASE s # c
        BY <1>0, <2>2, <3>1, <4>2 DEF Received
      <4> QED BY <4>1, <4>2
    <3>3. fate'[s] = "delivered" => copies'[s] > 0
      BY <1>0, <2>1, <2>2 DEF Received
    <3> QED BY <3>2, <3>3 DEF Received
  <2>7. ASSUME NEW u \in Spans PROVE Answered(u)'
    <3>1. Awaiting(u) /\ u # t /\ arrived[u] => copies'[Current(u)] > 0
      BY <1>0, <2>1, <2>2, CurrentSpan DEF Answered
    <3>2. copies'[Current(t)] > 0
      BY <1>0, <2>1, <2>2
    <3> QED BY <2>2, <2>3, <3>1, <3>2 DEF Answered
  <2> QED BY <2>5, <2>6, <2>7 DEF Spent
<1>3. ASSUME NEW x \in Spans, ArriveLate(x) PROVE Spent'
  <2>1. /\ copies[x] + (IF Underway(x) THEN 1 ELSE 0) < posts[x]
        /\ copies'[x] = copies[x] + 1 /\ \A s \in Spans \ {x} : copies'[s] = copies[s]
        /\ UNCHANGED <<task, attempt, arrived, buffer, draining, fate, posts>>
    BY <1>0, <1>3 DEF ArriveLate, TypeOK
  <2>2. \A u \in Spans : (Awaiting(u)' <=> Awaiting(u)) /\ Current(u)' = Current(u)
    BY <2>1 DEF Awaiting, Current
  <2>3. ASSUME NEW s \in Spans PROVE Received(s)'
    <3>1. Underway(s)' <=> Underway(s)
      BY <2>1, <2>2 DEF Underway
    <3>2. copies'[s] + (IF Underway(s)' THEN 1 ELSE 0) <= posts'[s]
      BY <1>0, <2>1, <3>1 DEF Received
    <3>3. fate'[s] = "delivered" => copies'[s] > 0
      BY <1>0, <2>1 DEF Received
    <3> QED BY <3>2, <3>3 DEF Received
  <2>4. ASSUME NEW u \in Spans PROVE Answered(u)'
    <3>1. Awaiting(u) /\ arrived[u] => copies'[Current(u)] > 0
      BY <1>0, <2>1, CurrentSpan DEF Answered
    <3> QED BY <2>1, <2>2, <3>1 DEF Answered
  <2>5. ASSUME NEW s \in Spans PROVE Cost(s)'
    BY <1>0, <2>1 DEF Cost
  <2> QED BY <2>3, <2>4, <2>5 DEF Spent
<1>4. ASSUME NEW t \in Spans, Sent(t) PROVE Spent'
  <2> DEFINE h == Head(buffer)
             P == IF buffer = <<>> THEN {} ELSE {h}
  <2>1. /\ task[t] = "posting" /\ arrived[t] /\ Awaiting(t) /\ Current(t) = t
        /\ fate[t] = "sending" /\ draining[t] = <<>> /\ buffer \in Seq(Spans)
        /\ task'[t] = IF buffer = <<>> THEN "done" ELSE "flushing"
        /\ draining'[t] = buffer
        /\ \A u \in Spans \ {t} : task'[u] = task[u] /\ draining'[u] = draining[u]
        /\ \A s \in Spans : fate'[s] = IF s = t THEN "delivered"
                                       ELSE IF Occurs(s, buffer) THEN "flushing" ELSE fate[s]
        /\ UNCHANGED <<attempt, copies>>
    BY <1>0, <1>4 DEF Sent, TypeOK, OnePlace, TasksFit, Awaiting, Current
  <2>2. buffer # <<>> => h \in Spans /\ Occurs(h, buffer) /\ Post(t, h)
    BY <1>0, <1>4, <2>1, TailOccurs DEF Sent, OnePlace
  <2>3. buffer = <<>> => UNCHANGED <<arrived, posts>>
    BY <1>4 DEF Sent
  <2>4. /\ P \in SUBSET Spans
        /\ \A x \in Spans : posts'[x] = IF x \in P THEN posts[x] + 1 ELSE posts[x]
        /\ buffer # <<>> => ~arrived'[t]
        /\ \A u \in Spans \ {t} : arrived'[u] = arrived[u]
        /\ \A s \in P : s = h /\ Occurs(s, buffer)
    <3>1. CASE buffer = <<>>
      BY <2>3, <3>1
    <3>2. CASE buffer # <<>>
      BY <1>p, <2>2, <3>2
    <3> QED BY <3>1, <3>2
  <2>5. \/ ~Awaiting(t)'
        \/ ~arrived'[t] /\ Current(t)' \in P
    BY <2>1, <2>4 DEF Awaiting, Current
  <2>6. \A u \in Spans \ {t} : \/ ~Awaiting(u)'
                               \/ /\ Awaiting(u) /\ arrived'[u] = arrived[u]
                                  /\ Current(u)' = Current(u)
    BY <2>1, <2>4, SameTask
  <2>7. ASSUME NEW s \in Spans PROVE Cost(s)'
    <3>1. /\ Occurs(s, buffer) => fate[s] = "buffered" /\ task[s] \notin {"posting", "backoff"}
          /\ posts'[s] = IF buffer # <<>> /\ s = h THEN posts[s] + 1 ELSE posts[s]
          /\ \A u \in Spans : Occurs(s, draining[u]) => fate[s] = "flushing"
          /\ Occurs(s, buffer) => buffer # <<>>
      BY <1>0, <2>4, NothingOccurs DEF OnePlace
    <3> HIDE DEF h, P
    <3>2. CASE Occurs(s, buffer)
      <4>1. s # t /\ fate'[s] = "flushing" /\ posts[s] = Attempts /\ task'[s] = task[s]
        BY <1>0, <2>1, <3>1, <3>2 DEF Cost
      <4>2. posts'[s] = IF s = h THEN Attempts + 1 ELSE Attempts
        BY <3>1, <3>2, <4>1
      <4>3. \A u \in Spans : Occurs(s, draining'[u]) => draining'[u] = buffer
        BY <2>1, <3>1, <3>2
      <4> QED BY <1>0, <3>1, <3>2, <4>1, <4>2, <4>3 DEF Cost, h
    <3>3. CASE ~Occurs(s, buffer)
      <4>1. posts'[s] = posts[s]
        BY <2>2, <3>1, <3>3
      <4>2. \A u \in Spans : Occurs(s, draining'[u]) => draining'[u] = draining[u] /\ Occurs(s, draining[u])
        BY <2>1, <3>3
      <4> QED BY <1>0, <2>1, <3>3, <4>1, <4>2 DEF Cost
    <3> QED BY <3>2, <3>3
  <2> HIDE DEF P
  <2>8. \A s \in Spans : fate'[s] = "delivered" =>
           fate[s] = "delivered" \/ (s = Current(t) /\ arrived[t])
    BY <2>1
  <2> QED BY <2>1, <2>4, <2>5, <2>6, <2>7, <2>8, SpentStep
<1>5. ASSUME NEW t \in Spans, Fail(t) PROVE Spent'
  <2>1. /\ task[t] = "posting" /\ task'[t] = "backoff"
        /\ \A u \in Spans \ {t} : task'[u] = task[u]
        /\ UNCHANGED <<attempt, arrived, buffer, draining, fate, posts, copies>>
    BY <1>0, <1>5 DEF Fail, TypeOK
  <2>2. ASSUME NEW s \in Spans PROVE Cost(s)'
    BY <1>0, <2>1 DEF Cost
  <2>3. ~Awaiting(t)'
    BY <2>1 DEF Awaiting
  <2>4. \A u \in Spans \ {t} : \/ ~Awaiting(u)'
                               \/ /\ Awaiting(u) /\ arrived'[u] = arrived[u]
                                  /\ Current(u)' = Current(u)
    BY <2>1, SameTask
  <2>5. \A s \in Spans : fate'[s] = "delivered" => fate[s] = "delivered"
    BY <2>1
  <2> QED BY <2>1, <2>2, <2>3, <2>4, <2>5, SpentQuiet
<1>6. ASSUME NEW t \in Spans, Retry(t) PROVE Spent'
  <2>1. /\ task[t] = "backoff" /\ Post(t, t) /\ fate[t] = "sending" /\ attempt[t] < Attempts
        /\ task'[t] = "posting" /\ \A u \in Spans \ {t} : task'[u] = task[u]
        /\ attempt'[t] = attempt[t] + 1 /\ \A u \in Spans \ {t} : attempt'[u] = attempt[u]
        /\ UNCHANGED <<buffer, draining, fate, copies>>
    BY <1>0, <1>6 DEF Retry, TimerFires, TypeOK, OnePlace, RetriesLeft
  <2>2. /\ \A x \in Spans : posts'[x] = IF x \in {t} THEN posts[x] + 1 ELSE posts[x]
        /\ ~arrived'[t] /\ \A u \in Spans \ {t} : arrived'[u] = arrived[u]
    BY <1>p, <2>1
  <2>3. Current(t)' = t
    BY <2>1 DEF Current
  <2>4. ASSUME NEW s \in Spans PROVE Cost(s)'
    <3>1. CASE s = t
      <4>1. \A u \in Spans : ~Occurs(t, draining[u])
        BY <1>0, <2>1 DEF OnePlace
      <4> QED BY <1>0, <2>1, <2>2, <3>1, <4>1 DEF Cost
    <3>2. CASE s # t
      BY <1>0, <2>1, <2>2, <3>2 DEF Cost
    <3> QED BY <3>1, <3>2
  <2>5. \A u \in Spans \ {t} : \/ ~Awaiting(u)'
                               \/ /\ Awaiting(u) /\ arrived'[u] = arrived[u]
                                  /\ Current(u)' = Current(u)
    BY <2>1, <2>2, SameTask
  <2> QED BY <2>1, <2>2, <2>3, <2>4, <2>5, SpentStep
<1>7. ASSUME NEW t \in Spans, Keep(t) PROVE Spent'
  <2>1. /\ task[t] = "posting" /\ fate[t] = "sending" /\ attempt[t] = Attempts
        /\ task'[t] = "done" /\ \A u \in Spans \ {t} : task'[u] = task[u]
        /\ \A s \in Spans : fate'[s] = IF s = t THEN "buffered"
                                       ELSE IF s \in Overflow THEN "evicted" ELSE fate[s]
        /\ UNCHANGED <<attempt, arrived, draining, posts, copies>>
    BY <1>0, <1>7 DEF Keep, LastAttempt, TypeOK, OnePlace
  <2>2. ASSUME NEW s \in Spans PROVE Cost(s)'
    BY <1>0, <2>1 DEF Cost
  <2>3. ~Awaiting(t)'
    BY <2>1 DEF Awaiting
  <2>4. \A u \in Spans \ {t} : \/ ~Awaiting(u)'
                               \/ /\ Awaiting(u) /\ arrived'[u] = arrived[u]
                                  /\ Current(u)' = Current(u)
    BY <2>1, SameTask
  <2>5. \A s \in Spans : fate'[s] = "delivered" => fate[s] = "delivered"
    BY <2>1
  <2> QED BY <2>1, <2>2, <2>3, <2>4, <2>5, SpentQuiet
<1>8. ASSUME NEW t \in Spans, NEW outcome \in {"delivered", "dropped"}, FlushNext(t, outcome),
             outcome = "delivered" => arrived[t]
      PROVE  Spent'
  <2> DEFINE h == Head(draining[t])
             rest == Tail(draining[t])
             P == IF rest = <<>> THEN {} ELSE {Head(rest)}
  <2>1. /\ task[t] = "flushing" /\ Awaiting(t) /\ Current(t) = h
        /\ draining[t] # <<>> /\ draining[t] \in Seq(Spans)
        /\ Distinct(draining[t]) /\ Len(draining[t]) \in Nat
    BY <1>0, <1>8, LenProperties
       DEF FlushNext, OnePlace, TasksFit, TypeOK, Awaiting, Current
  <2>2. /\ rest \in Seq(Spans) /\ Len(rest) = Len(draining[t]) - 1 /\ Distinct(rest)
        /\ h \in Spans /\ Occurs(h, draining[t])
        /\ \A s : Occurs(s, rest) <=> Occurs(s, draining[t]) /\ s # h
    BY <2>1, TailOccurs
  <2>3. rest = <<>> <=> Len(draining[t]) = 1
    <3>1. rest = <<>> <=> Len(rest) = 0
      BY <2>2, EmptySeq
    <3> HIDE DEF rest
    <3> QED BY <2>1, <2>2, <3>1
  <2>4. rest # <<>> => Head(rest) \in Spans /\ Occurs(Head(rest), rest)
    BY <2>2, TailOccurs
  <2>5. /\ draining' = [draining EXCEPT ![t] = rest]
        /\ fate' = [fate EXCEPT ![h] = outcome]
        /\ UNCHANGED <<attempt, buffer, copies>>
        /\ IF rest = <<>>
           THEN task' = [task EXCEPT ![t] = "done"] /\ UNCHANGED <<arrived, posts>>
           ELSE Post(t, Head(rest)) /\ UNCHANGED task
    BY <1>8, <2>3 DEF FlushNext
  <2> HIDE DEF h, rest
  <2>6. /\ draining'[t] = rest /\ \A u \in Spans \ {t} : draining'[u] = draining[u]
        /\ fate'[h] = outcome /\ \A s \in Spans \ {h} : fate'[s] = fate[s]
        /\ task'[t] = IF rest = <<>> THEN "done" ELSE "flushing"
        /\ \A u \in Spans \ {t} : task'[u] = task[u]
    BY <1>0, <2>1, <2>2, <2>5 DEF TypeOK
  <2>7. /\ P \in SUBSET Spans
        /\ \A x \in Spans : posts'[x] = IF x \in P THEN posts[x] + 1 ELSE posts[x]
        /\ rest # <<>> => ~arrived'[t]
        /\ \A u \in Spans \ {t} : arrived'[u] = arrived[u]
        /\ \A s \in P : s = Head(rest) /\ Occurs(s, rest)
        /\ rest # <<>> => Head(rest) \in P
    <3>1. CASE rest = <<>>
      BY <2>5, <3>1
    <3>2. CASE rest # <<>>
      BY <1>p, <2>4, <2>5, <3>2
    <3> QED BY <3>1, <3>2
  <2>8. \/ ~Awaiting(t)'
        \/ ~arrived'[t] /\ Current(t)' \in P
    BY <2>6, <2>7 DEF Awaiting, Current
  <2>9. \A u \in Spans \ {t} : \/ ~Awaiting(u)'
                               \/ /\ Awaiting(u) /\ arrived'[u] = arrived[u]
                                  /\ Current(u)' = Current(u)
    BY <2>6, <2>7, SameTask
  <2> HIDE DEF P
  <2>10. ASSUME NEW s \in Spans PROVE Cost(s)'
    <3>1. \A u \in Spans : Occurs(s, draining[u]) => fate[s] = "flushing"
      BY <1>0 DEF OnePlace
    <3>2. task'[s] \in {"posting", "backoff"} => task[s] = task'[s] /\ fate[s] = "sending"
      BY <1>0, <2>6 DEF OnePlace
    <3>3. CASE Occurs(s, draining[t])
      <4>1. /\ fate[s] = "flushing" /\ posts[s] = IF s = h THEN Attempts + 1 ELSE Attempts
            /\ \A u \in Spans : Occurs(s, draining[u]) => u = t
        BY <1>0, <3>1, <3>3 DEF Cost, OnePlace, h
      <4>2. CASE s = h
        <5>1. ~Occurs(s, rest) /\ s \notin P /\ posts'[s] = Attempts + 1
          BY <1>0, <2>2, <2>7, <4>1, <4>2
        <5>2. \A u \in Spans : ~Occurs(s, draining'[u])
          BY <2>6, <4>1, <5>1
        <5>3. fate'[s] \in {"delivered", "dropped"} /\ task'[s] \notin {"posting", "backoff"}
          BY <2>6, <3>2, <4>1, <4>2
        <5> QED BY <1>0, <5>1, <5>2, <5>3 DEF Cost
      <4>3. CASE s # h
        <5>1. /\ Occurs(s, rest) /\ rest # <<>> /\ fate'[s] = "flushing"
              /\ posts'[s] = IF s = Head(rest) THEN Attempts + 1 ELSE Attempts
          BY <1>0, <2>2, <2>6, <2>7, <3>3, <4>1, <4>3, NothingOccurs
        <5>2. \A u \in Spans : Occurs(s, draining'[u]) => draining'[u] = rest
          BY <2>6, <4>1
        <5>3. task'[s] \notin {"posting", "backoff"}
          BY <3>2, <4>1
        <5> QED BY <1>0, <5>1, <5>2, <5>3 DEF Cost
      <4> QED BY <4>2, <4>3
    <3>4. CASE ~Occurs(s, draining[t])
      <4>1. s # h /\ ~Occurs(s, rest) /\ fate'[s] = fate[s] /\ posts'[s] = posts[s]
        BY <2>2, <2>6, <2>7, <3>4
      <4>2. \A u \in Spans : Occurs(s, draining'[u]) =>
                               draining'[u] = draining[u] /\ Occurs(s, draining[u])
        BY <2>6, <4>1
      <4> QED BY <1>0, <2>5, <3>2, <4>1, <4>2 DEF Cost
    <3> QED BY <3>3, <3>4
  <2>11. \A s \in Spans : fate'[s] = "delivered" =>
            fate[s] = "delivered" \/ (s = Current(t) /\ arrived[t])
    BY <1>8, <2>1, <2>6
  <2> QED BY <2>1, <2>5, <2>7, <2>8, <2>9, <2>10, <2>11, SpentStep
<1>9. ASSUME NEW t \in Spans, Cancel(t) PROVE Spent'
  <2>1. /\ task'[t] = "done" /\ \A u \in Spans \ {t} : task'[u] = task[u]
        /\ draining'[t] = <<>> /\ \A u \in Spans \ {t} : draining'[u] = draining[u]
        /\ \A s \in Spans : fate'[s] = IF Holds(t, s) THEN "lost" ELSE fate[s]
        /\ UNCHANGED <<attempt, arrived, buffer, posts, copies>>
    BY <1>0, <1>9 DEF Cancel, TypeOK
  <2>2. ASSUME NEW s \in Spans PROVE Cost(s)'
    <3>1. \A u \in Spans : Occurs(s, draining'[u]) =>
                             draining'[u] = draining[u] /\ Occurs(s, draining[u])
      BY <2>1, NothingOccurs
    <3> QED BY <1>0, <2>1, <3>1 DEF Cost
  <2>3. ~Awaiting(t)'
    BY <2>1 DEF Awaiting
  <2>4. \A u \in Spans \ {t} : \/ ~Awaiting(u)'
                               \/ /\ Awaiting(u) /\ arrived'[u] = arrived[u]
                                  /\ Current(u)' = Current(u)
    BY <2>1, SameTask
  <2>5. \A s \in Spans : fate'[s] = "delivered" => fate[s] = "delivered"
    BY <2>1
  <2> QED BY <2>1, <2>2, <2>3, <2>4, <2>5, SpentQuiet
<1>10. CASE Evict
  <2>1. /\ UNCHANGED <<attempt, arrived, posts, copies>>
        /\ \A t \in Spans : /\ task'[t] = IF task[t] = "idle" THEN "idle" ELSE "done"
                            /\ draining'[t] = <<>>
                            /\ fate'[t] = IF fate[t] \in {"sending", "buffered", "flushing"}
                                          THEN "lost" ELSE fate[t]
    BY <1>10 DEF Evict
  <2>2. ASSUME NEW s \in Spans PROVE Cost(s)'
    <3>1. \A u \in Spans : ~Occurs(s, draining'[u])
      BY <2>1, NothingOccurs
    <3> QED BY <1>0, <2>1, <3>1 DEF Cost
  <2>3. \A u \in Spans : ~Awaiting(u)'
    BY <2>1 DEF Awaiting
  <2>4. \A s \in Spans : fate'[s] = "delivered" => fate[s] = "delivered"
    BY <2>1
  <2> QED BY <2>1, <2>2, <2>3, <2>4, SpentQuiet
<1>11. CASE UNCHANGED vars
  BY <1>11 DEF vars, Spent, Cost, Received, Answered, Awaiting, Current, Underway
<1> QED BY <1>1, <1>2, <1>3, <1>4, <1>5, <1>6, <1>7, <1>8, <1>9, <1>10, <1>11
        DEF Next, Resume, Flushed, FlushFailed

LEMMA Invariant == Spec => []Inductive
<1>1. Inductive /\ [Next]_vars => Inductive'
  BY PlacedInductive, SpentInductive DEF Inductive
<1> QED BY <1>1, InitInductive, PTL DEF Spec

(* Each span is in one place, whatever the number of requests, their interleaving      *)
(* and the losses.                                                                     *)
THEOREM SpansInOnePlace == Spec => []OnePlace
<1>1. Inductive => OnePlace
  BY DEF Inductive, Placed
<1> QED BY <1>1, Invariant, PTL

(* Every variable keeps its type, and SPAN_BUFFER never outgrows its bound, however *)
(* long the collector is down.                                                      *)
THEOREM MemoryIsBounded == Spec => []TypeOK
<1>1. Inductive => TypeOK
  BY DEF Inductive, Placed
<1> QED BY <1>1, Invariant, PTL

(* No span is posted more than Attempts + 1 times nor received more often than posted; *)
(* one dropped by a flush had all its POSTs, and one reported delivered was received.  *)
THEOREM PostsWithinBudget == Spec => []PostBudget
<1>1. Inductive => PostBudget
  <2> SUFFICES ASSUME Inductive, NEW s \in Spans
               PROVE  /\ copies[s] <= posts[s] /\ posts[s] <= Attempts + 1
                      /\ fate[s] = "dropped" => posts[s] = Attempts + 1
                      /\ fate[s] = "delivered" => copies[s] > 0
    BY DEF PostBudget
  <2>1. Cost(s) /\ Received(s) /\ copies[s] \in Nat /\ posts[s] \in Nat
    BY DEF Inductive, Placed, Spent, TypeOK
  <2> QED BY <2>1 DEF Cost, Received
<1> QED BY <1>1, Invariant, PTL

(* A span whose fate is settled is never posted again nor settled otherwise: no step *)
(* of any task touches a span that is delivered, evicted, dropped or lost.           *)
THEOREM SettledSpansFinal == Spec => SettledIsFinal
<1>1. ASSUME Inductive, [Next]_vars, NEW s \in Spans, fate[s] \in Resolved
      PROVE  fate'[s] = fate[s] /\ posts'[s] = posts[s]
  <2>0. /\ TypeOK /\ OnePlace /\ TasksFit /\ Placed
        /\ fate[s] \notin {"new", "sending", "buffered", "flushing"}
        /\ task[s] \notin {"idle", "posting", "backoff"}
        /\ ~Occurs(s, buffer) /\ \A t \in Spans : ~Occurs(s, draining[t])
    BY <1>1 DEF Inductive, Placed, OnePlace, TasksFit, Resolved
  <2>1. ASSUME NEW t \in Spans, NEW x \in Spans, Post(t, x), x # s
        PROVE  posts'[s] = posts[s]
    BY <2>0, <2>1 DEF Post, TypeOK
  <2>2. ASSUME NEW t \in Spans, Begin(t) \/ Retry(t) \/ Fail(t)
        PROVE  fate'[s] = fate[s] /\ posts'[s] = posts[s]
    BY <2>0, <2>1, <2>2 DEF Begin, Retry, TimerFires, Fail, TypeOK
  <2>3. ASSUME NEW t \in Spans, Arrive(t) \/ ArriveLate(t)
        PROVE  fate'[s] = fate[s] /\ posts'[s] = posts[s]
    BY <2>3 DEF Arrive, ArriveLate
  <2>4. ASSUME NEW t \in Spans, Sent(t) PROVE fate'[s] = fate[s] /\ posts'[s] = posts[s]
    <3>1. fate'[s] = fate[s]
      BY <2>0, <2>4 DEF Sent
    <3>2. CASE buffer = <<>>
      BY <2>4, <3>1, <3>2 DEF Sent
    <3>3. CASE buffer # <<>>
      <4>1. Head(buffer) \in Spans /\ Head(buffer) # s
        BY <2>0, <3>3, TailOccurs DEF TypeOK, OnePlace
      <4> QED BY <2>1, <2>4, <3>1, <3>3, <4>1 DEF Sent
    <3> QED BY <3>2, <3>3
  <2>5. ASSUME NEW t \in Spans, Keep(t) PROVE fate'[s] = fate[s] /\ posts'[s] = posts[s]
    <3>1. t # s
      BY <2>0, <2>5 DEF Keep
    <3>2. s \notin Overflow
      <4>1. CASE Full
        <5>1. buffer # <<>>
          BY <2>0, <4>1, ExportAssumption, EmptySeq DEF Full
        <5>2. Occurs(Head(buffer), buffer)
          BY <2>0, <5>1, TailOccurs DEF TypeOK, OnePlace
        <5> QED BY <2>0, <4>1, <5>2 DEF Overflow
      <4>2. CASE ~Full
        BY <4>2 DEF Overflow
      <4> QED BY <4>1, <4>2
    <3> QED BY <2>5, <3>1, <3>2 DEF Keep
  <2>6. ASSUME NEW t \in Spans, Flushed(t) \/ FlushFailed(t)
        PROVE  fate'[s] = fate[s] /\ posts'[s] = posts[s]
    <3> DEFINE rest == Tail(draining[t])
    <3>1. PICK outcome : FlushNext(t, outcome)
      BY <2>6 DEF Flushed, FlushFailed
    <3>2. draining[t] # <<>> /\ draining[t] \in Seq(Spans) /\ Distinct(draining[t])
      BY <2>0, <3>1 DEF FlushNext, TasksFit, TypeOK, OnePlace
    <3>3. /\ Occurs(Head(draining[t]), draining[t]) /\ Len(rest) = Len(draining[t]) - 1
          /\ rest \in Seq(Spans) /\ Distinct(rest)
          /\ \A x : Occurs(x, rest) => Occurs(x, draining[t])
      BY <3>2, TailOccurs
    <3>4. fate'[s] = fate[s]
      BY <2>0, <3>1, <3>3 DEF FlushNext, TypeOK
    <3>5. CASE Len(draining[t]) = 1
      BY <3>1, <3>4, <3>5 DEF FlushNext
    <3>6. CASE Len(draining[t]) # 1
      <4>1. rest # <<>>
        <5>1. rest = <<>> => Len(rest) = 0
          BY EmptySeq
        <5>2. Len(draining[t]) \in Nat
          BY <3>2, LenProperties
        <5> HIDE DEF rest
        <5> QED BY <3>3, <3>6, <5>1, <5>2
      <4>2. Head(rest) \in Spans /\ Occurs(Head(rest), rest)
        BY <3>3, <4>1, TailOccurs
      <4> QED BY <2>0, <2>1, <3>1, <3>3, <3>4, <3>6, <4>2 DEF FlushNext
    <3> QED BY <3>5, <3>6
  <2>7. ASSUME NEW t \in Spans, Cancel(t) PROVE fate'[s] = fate[s] /\ posts'[s] = posts[s]
    BY <2>0, <2>7 DEF Cancel, Holds
  <2>8. CASE Evict
    BY <2>0, <2>8 DEF Evict
  <2>9. CASE UNCHANGED vars
    BY <2>9 DEF vars
  <2> QED BY <1>1, <2>2, <2>3, <2>4, <2>5, <2>6, <2>7, <2>8, <2>9 DEF Next, Resume
<1>2. Inductive /\ [Next]_vars =>
        [\A s \in Spans : fate[s] \in Resolved => fate'[s] = fate[s] /\ posts'[s] = posts[s]]_vars
  BY <1>1
<1> QED BY <1>2, Invariant, PTL DEF Spec, SettledIsFinal

-----------------------------------------------------------------------------
(* How often the task of t can still wait for something: for the answer to a POST, for *)
(* a backoff, and for the answers to a flush of the whole buffer.                      *)
AwaitsLeft(t) ==
    CASE task[t] = "idle" -> 2 * Attempts + MaxBuffered
      [] task[t] = "posting" -> 2 * (Attempts - attempt[t]) + 1 + MaxBuffered
      [] task[t] = "backoff" -> 2 * (Attempts - attempt[t]) + MaxBuffered
      [] task[t] = "flushing" -> Len(draining[t])
      [] task[t] = "done" -> 0

(* Whatever the other tasks do to the buffer, every step of an export task leaves it    *)
(* fewer awaits, and no step of another leaves it more: it waits 2 * Attempts - 1 times *)
(* and once per buffered span at most, which is what wait_until has to be patient for.  *)
AwaitsRunOut ==
    [][\A t \in Spans :
        /\ AwaitsLeft(t)' <= AwaitsLeft(t)
        /\ Begin(t) \/ Resume(t) \/ Cancel(t) => AwaitsLeft(t)' < AwaitsLeft(t)]_vars

(* The measure at every place of a task. *)
LEMMA AwaitsAtEachPlace ==
    ASSUME Placed, NEW t \in Spans
    PROVE  /\ AwaitsLeft(t) \in Nat
           /\ task[t] \in {"posting", "backoff", "flushing"} => AwaitsLeft(t) > 0
           /\ task[t] = "posting" => AwaitsLeft(t) > MaxBuffered
<1>1. /\ task[t] \in TaskStates /\ attempt[t] \in 0..Attempts
      /\ Attempts \in Nat /\ MaxBuffered \in Nat
      /\ Len(draining[t]) \in Nat
      /\ task[t] = "flushing" => Len(draining[t]) > 0
      /\ task[t] = "backoff" => attempt[t] < Attempts
  BY ExportAssumption, LenProperties, EmptySeq DEF Placed, TypeOK, TasksFit, RetriesLeft
<1>2. CASE task[t] = "posting"
  BY <1>1, <1>2 DEF AwaitsLeft
<1>3. CASE task[t] = "backoff"
  BY <1>1, <1>3 DEF AwaitsLeft
<1>4. CASE task[t] = "flushing"
  BY <1>1, <1>4 DEF AwaitsLeft
<1>5. CASE task[t] \in {"idle", "done"}
  BY <1>1, <1>5 DEF AwaitsLeft
<1> QED BY <1>1, <1>2, <1>3, <1>4, <1>5 DEF TaskStates

(* A step of one task uses up awaits of it, and is none of the others' business. *)
LEMMA TaskUsesUp ==
    ASSUME Placed, NEW t \in Spans, Begin(t) \/ Resume(t) \/ Cancel(t)
    PROVE  /\ AwaitsLeft(t)' < AwaitsLeft(t)
           /\ \A u \in Spans \ {t} : AwaitsLeft(u)' = AwaitsLeft(u)
<1> DEFINE others == \A u \in Spans \ {t} : /\ task'[u] = task[u] /\ attempt'[u] = attempt[u]
                                           /\ draining'[u] = draining[u]
<1>0. /\ TypeOK /\ RetriesLeft /\ MaxBuffered \in Nat \ {0} /\ Attempts \in Nat \ {0}
      /\ attempt[t] \in 0..Attempts
      /\ AwaitsLeft(t) \in Nat
      /\ task[t] \in {"posting", "backoff", "flushing"} => AwaitsLeft(t) > 0
      /\ task[t] = "posting" => AwaitsLeft(t) > MaxBuffered
  BY ExportAssumption, AwaitsAtEachPlace DEF Placed, TypeOK
<1>1. ASSUME others PROVE \A u \in Spans \ {t} : AwaitsLeft(u)' = AwaitsLeft(u)
  BY <1>1 DEF AwaitsLeft
<1>2. ASSUME task'[t] = "done" PROVE AwaitsLeft(t)' = 0
  BY <1>2 DEF AwaitsLeft
<1>3. CASE Begin(t)
  <2>1. others /\ task[t] = "idle" /\ task'[t] = "posting" /\ attempt'[t] = 1
    BY <1>0, <1>3 DEF Begin, TypeOK
  <2>2. AwaitsLeft(t) = 2 * Attempts + MaxBuffered
    BY <2>1 DEF AwaitsLeft
  <2>3. AwaitsLeft(t)' = 2 * (Attempts - 1) + 1 + MaxBuffered
    BY <2>1 DEF AwaitsLeft
  <2> QED BY <1>0, <1>1, <2>1, <2>2, <2>3
<1>4. CASE Sent(t)
  <2>1. /\ others /\ task[t] = "posting" /\ draining'[t] = buffer
        /\ task'[t] = IF buffer = <<>> THEN "done" ELSE "flushing"
        /\ Len(buffer) \in Nat /\ Len(buffer) <= MaxBuffered
    BY <1>0, <1>4, LenProperties DEF Sent, TypeOK
  <2>2. AwaitsLeft(t)' = IF buffer = <<>> THEN 0 ELSE Len(buffer)
    BY <2>1 DEF AwaitsLeft
  <2> QED BY <1>0, <1>1, <2>1, <2>2
<1>5. CASE Fail(t)
  <2>1. others /\ task[t] = "posting" /\ task'[t] = "backoff" /\ attempt'[t] = attempt[t]
    BY <1>0, <1>5 DEF Fail, TypeOK
  <2>2. AwaitsLeft(t) = 2 * (Attempts - attempt[t]) + 1 + MaxBuffered
    BY <2>1 DEF AwaitsLeft
  <2>3. AwaitsLeft(t)' = 2 * (Attempts - attempt[t]) + MaxBuffered
    BY <2>1 DEF AwaitsLeft
  <2> QED BY <1>0, <1>1, <2>1, <2>2, <2>3
<1>6. CASE Retry(t)
  <2>1. /\ others /\ task[t] = "backoff" /\ task'[t] = "posting"
        /\ attempt'[t] = attempt[t] + 1
    BY <1>0, <1>6 DEF Retry, TimerFires, TypeOK
  <2>2. AwaitsLeft(t) = 2 * (Attempts - attempt[t]) + MaxBuffered
    BY <2>1 DEF AwaitsLeft
  <2>3. AwaitsLeft(t)' = 2 * (Attempts - (attempt[t] + 1)) + 1 + MaxBuffered
    BY <2>1 DEF AwaitsLeft
  <2> QED BY <1>0, <1>1, <2>1, <2>2, <2>3
<1>7. CASE Keep(t) \/ Cancel(t)
  <2>1. /\ others /\ task'[t] = "done" /\ task[t] \in {"posting", "backoff", "flushing"}
    BY <1>0, <1>7 DEF Keep, Cancel, TypeOK
  <2> QED BY <1>0, <1>1, <1>2, <2>1
<1>8. CASE Flushed(t) \/ FlushFailed(t)
  <2>1. PICK outcome : FlushNext(t, outcome)
    BY <1>8 DEF Flushed, FlushFailed
  <2>2. /\ others /\ task[t] = "flushing" /\ draining'[t] = Tail(draining[t])
        /\ task'[t] = IF Len(draining[t]) = 1 THEN "done" ELSE "flushing"
    BY <1>0, <2>1 DEF FlushNext, TypeOK
  <2>3. AwaitsLeft(t) = Len(draining[t])
    BY <2>2 DEF AwaitsLeft
  <2>4. Len(Tail(draining[t])) = Len(draining[t]) - 1
    BY <2>2, HeadTailProperties DEF Placed, TypeOK, TasksFit
  <2>5. AwaitsLeft(t)' = IF Len(draining[t]) = 1 THEN 0 ELSE Len(Tail(draining[t]))
    BY <2>2 DEF AwaitsLeft
  <2> QED BY <1>0, <1>1, <2>2, <2>3, <2>4, <2>5
<1> QED BY <1>3, <1>4, <1>5, <1>6, <1>7, <1>8 DEF Resume

(* Of EveryTaskEnds, all but the fairness: no number of requests, no order of failures *)
(* and flushes keeps an export task going for longer than its attempts and one buffer. *)
THEOREM TasksRunOut == Spec => AwaitsRunOut
<1>1. ASSUME Inductive, Next, NEW t \in Spans
      PROVE  /\ AwaitsLeft(t)' <= AwaitsLeft(t)
             /\ Begin(t) \/ Resume(t) \/ Cancel(t) => AwaitsLeft(t)' < AwaitsLeft(t)
  <2>0. Placed /\ TypeOK /\ AwaitsLeft(t) \in Nat
    BY <1>1, AwaitsAtEachPlace DEF Inductive, Placed
  <2>1. Begin(t) \/ Resume(t) \/ Cancel(t) => AwaitsLeft(t)' < AwaitsLeft(t)
    BY <2>0, TaskUsesUp
  <2>2. AwaitsLeft(t)' \in Int
    <3>1. TypeOK'
      BY <1>1, <2>0, PlacedInductive DEF Placed
    <3>2. /\ task'[t] \in TaskStates /\ attempt'[t] \in Int /\ Len(draining'[t]) \in Int
          /\ Attempts \in Int /\ MaxBuffered \in Int
      BY <3>1, ExportAssumption, LenProperties DEF TypeOK
    <3> QED BY <3>2 DEF AwaitsLeft, TaskStates
  <2>3. ASSUME NEW u \in Spans, Begin(u) \/ Resume(u) \/ Cancel(u)
        PROVE  AwaitsLeft(t)' <= AwaitsLeft(t)
    <3>1. AwaitsLeft(t)' < AwaitsLeft(t) \/ AwaitsLeft(t)' = AwaitsLeft(t)
      BY <2>0, <2>3, TaskUsesUp
    <3> QED BY <2>0, <2>2, <3>1
  <2>4. ASSUME NEW u \in Spans, Arrive(u) \/ ArriveLate(u)
        PROVE  AwaitsLeft(t)' <= AwaitsLeft(t)
    <3>1. AwaitsLeft(t)' = AwaitsLeft(t)
      BY <2>4 DEF Arrive, ArriveLate, AwaitsLeft
    <3> QED BY <2>0, <3>1
  <2>5. ASSUME Evict PROVE AwaitsLeft(t)' <= AwaitsLeft(t)
    <3>1. task'[t] = (IF task[t] = "idle" THEN "idle" ELSE "done")
      BY <2>5 DEF Evict
    <3>2. CASE task[t] = "idle"
      <4>1. AwaitsLeft(t)' = AwaitsLeft(t)
        BY <3>1, <3>2 DEF AwaitsLeft
      <4> QED BY <2>0, <4>1
    <3>3. CASE task[t] # "idle"
      <4>1. AwaitsLeft(t)' = 0
        BY <3>1, <3>3 DEF AwaitsLeft
      <4> QED BY <2>0, <4>1
    <3> QED BY <3>2, <3>3
  <2>6. \/ \E u \in Spans : Begin(u) \/ Resume(u) \/ Cancel(u)
        \/ \E u \in Spans : Arrive(u) \/ ArriveLate(u)
        \/ Evict
    BY <1>1 DEF Next
  <2> QED BY <2>1, <2>3, <2>4, <2>5, <2>6
<1>2. Inductive /\ [Next]_vars =>
        [\A t \in Spans :
            /\ AwaitsLeft(t)' <= AwaitsLeft(t)
            /\ Begin(t) \/ Resume(t) \/ Cancel(t) => AwaitsLeft(t)' < AwaitsLeft(t)]_vars
  BY <1>1
<1> QED BY <1>2, Invariant, PTL DEF Spec, AwaitsRunOut

-----------------------------------------------------------------------------
(* The channel's view of the exporter. *)
status == [s \in Spans |-> Status(fate[s])]

LEMMA StatusOf ==
    /\ Status("new") = "new" /\ Status("delivered") = "delivered"
    /\ \A f \in {"sending", "buffered", "flushing"} : Status(f) = "pending"
    /\ \A f \in {"evicted", "dropped", "lost"} : Status(f) = "gone"
  BY DEF Status

(* Some spans are settled together. *)
LEMMA Settles ==
    ASSUME NEW S \in SUBSET Spans, copies' = copies,
           \A s \in S : Status(fate[s]) = "pending",
           \A s \in Spans \ S : Status(fate'[s]) = Status(fate[s]),
           \/ \A s \in S : Status(fate'[s]) = "gone"
           \/ \A s \in S : Status(fate'[s]) = "delivered" /\ copies[s] > 0
    PROVE  Channel!Next
<1>1. CASE \A s \in S : Status(fate'[s]) = "gone"
  <2>1. Channel!GiveUp(S)
    BY <1>1 DEF Channel!GiveUp
  <2> QED BY <2>1 DEF Channel!Next
<1>2. CASE \A s \in S : Status(fate'[s]) = "delivered" /\ copies[s] > 0
  <2>1. Channel!Deliver(S)
    BY <1>2 DEF Channel!Deliver
  <2> QED BY <2>1 DEF Channel!Next
<1> QED BY <1>1, <1>2

(* A copy of a span that was posted arrives. *)
LEMMA CopyArrives ==
    ASSUME Inductive, NEW c \in Spans, copies[c] < posts[c], fate' = fate,
           copies' = [copies EXCEPT ![c] = @ + 1]
    PROVE  Channel!Next
<1>1. /\ Cost(c) /\ copies[c] \in Nat /\ posts[c] \in Nat /\ Attempts \in Nat
      /\ fate[c] \in Fates /\ copies \in [Spans -> Nat]
  BY ExportAssumption DEF Inductive, Placed, TypeOK, Spent
<1>2. copies[c] < Attempts + 1 /\ fate[c] # "new"
  BY <1>1 DEF Cost
<1>3. Status(fate[c]) # "new"
  BY <1>1, <1>2, StatusOf DEF Fates, Resolved
<1>4. copies' = [i \in Spans |-> IF i \in {c} THEN copies[i] + 1 ELSE copies[i]]
  BY <1>1
<1>5. Channel!Receive({c})
  BY <1>2, <1>3, <1>4 DEF Channel!Receive
<1> QED BY <1>5 DEF Channel!Next

(* Every step of the exporter is a step of the channel, or none of its business. *)
LEMMA StepRefines ==
    Inductive /\ [Next]_vars => Channel!Next \/ UNCHANGED <<status, copies>>
<1> SUFFICES ASSUME Inductive, [Next]_vars
             PROVE  Channel!Next \/ UNCHANGED <<status, copies>>
  OBVIOUS
<1>0. /\ TypeOK /\ OnePlace /\ TasksFit /\ Placed
      /\ \A s \in Spans : /\ Cost(s) /\ Received(s) /\ Answered(s)
                          /\ posts[s] \in Nat /\ copies[s] \in Nat
  BY DEF Inductive, Placed, Spent, TypeOK
<1>1. ASSUME NEW t \in Spans, Begin(t) PROVE Channel!Next
  <2>1. /\ fate[t] = "new" /\ fate'[t] = "sending" /\ copies' = copies
        /\ \A s \in Spans \ {t} : fate'[s] = fate[s]
    BY <1>0, <1>1 DEF Begin, TasksFit, TypeOK
  <2>2. Channel!Offer(t, {})
    BY <2>1, StatusOf DEF Channel!Offer
  <2> QED BY <2>2 DEF Channel!Next
<1>2. ASSUME NEW t \in Spans, Arrive(t) PROVE Channel!Next
  <2> PICK c \in Spans : c = Current(t)
    BY <1>0, <1>2, CurrentSpan DEF Arrive
  <2>1. Underway(c) /\ fate' = fate /\ copies' = [copies EXCEPT ![c] = @ + 1]
    BY <1>2 DEF Arrive, Underway
  <2>2. copies[c] < posts[c]
    BY <1>0, <2>1 DEF Received
  <2> QED BY <2>1, <2>2, CopyArrives
<1>3. ASSUME NEW s \in Spans, ArriveLate(s) PROVE Channel!Next
  <2>1. copies[s] < posts[s] /\ fate' = fate /\ copies' = [copies EXCEPT ![s] = @ + 1]
    BY <1>0, <1>3 DEF ArriveLate
  <2> QED BY <2>1, CopyArrives
<1>4. ASSUME NEW t \in Spans, Sent(t) PROVE Channel!Next
  <2>1. /\ fate[t] = "sending" /\ fate'[t] = "delivered" /\ copies' = copies
        /\ Awaiting(t) /\ arrived[t] /\ Current(t) = t
        /\ \A s \in Spans \ {t} : \/ fate'[s] = fate[s]
                                  \/ fate[s] = "buffered" /\ fate'[s] = "flushing"
    BY <1>0, <1>4 DEF Sent, OnePlace, Awaiting, Current
  <2>2. copies[t] > 0
    BY <1>0, <2>1 DEF Answered
  <2>3. /\ Status(fate[t]) = "pending" /\ Status(fate'[t]) = "delivered"
        /\ \A s \in Spans \ {t} : Status(fate'[s]) = Status(fate[s])
    BY <2>1, StatusOf
  <2> DEFINE S == {t}
  <2>4. /\ S \in SUBSET Spans /\ \A s \in Spans \ S : Status(fate'[s]) = Status(fate[s])
        /\ \A s \in S : /\ Status(fate[s]) = "pending"
                        /\ Status(fate'[s]) = "delivered" /\ copies[s] > 0
    BY <2>2, <2>3
  <2> HIDE DEF S
  <2> QED BY <2>1, <2>4, Settles
<1>5. ASSUME NEW t \in Spans, Fail(t) \/ Retry(t) PROVE UNCHANGED <<status, copies>>
  BY <1>5 DEF Fail, Retry, status
<1>6. ASSUME NEW t \in Spans, Keep(t) PROVE Channel!Next
  <2>1. /\ fate[t] = "sending" /\ fate'[t] = "buffered" /\ copies' = copies
        /\ \A s \in Spans \ {t} : fate'[s] = IF s \in Overflow THEN "evicted" ELSE fate[s]
    BY <1>0, <1>6 DEF Keep, OnePlace
  <2>2. \A s \in Overflow : s \in Spans /\ fate[s] = "buffered"
    <3>1. CASE Full
      <4>1. buffer # <<>> /\ buffer \in Seq(Spans) /\ Distinct(buffer)
        BY <1>0, <3>1, ExportAssumption, EmptySeq DEF Full, TypeOK, OnePlace
      <4>2. Overflow = {Head(buffer)} /\ Head(buffer) \in Spans /\ Occurs(Head(buffer), buffer)
        BY <3>1, <4>1, TailOccurs DEF Overflow
      <4> QED BY <1>0, <4>2 DEF OnePlace
    <3>2. CASE ~Full
      BY <3>2 DEF Overflow
    <3> QED BY <3>1, <3>2
  <2>3. /\ \A s \in Overflow : Status(fate[s]) = "pending" /\ Status(fate'[s]) = "gone"
        /\ \A s \in Spans \ Overflow : Status(fate'[s]) = Status(fate[s])
    BY <2>1, <2>2, StatusOf
  <2> QED BY <2>1, <2>2, <2>3, Settles
<1>7. ASSUME NEW t \in Spans, Flushed(t) \/ FlushFailed(t) PROVE Channel!Next
  <2> PICK h \in Spans : h = Head(draining[t]) /\ Occurs(h, draining[t])
    <3>1. draining[t] # <<>> /\ draining[t] \in Seq(Spans) /\ Distinct(draining[t])
      BY <1>0, <1>7 DEF Flushed, FlushFailed, FlushNext, TasksFit, TypeOK, OnePlace
    <3> QED BY <3>1, TailOccurs
  <2>1. /\ task[t] = "flushing" /\ fate[h] = "flushing" /\ copies' = copies
        /\ \/ fate'[h] = "delivered" /\ arrived[t]
           \/ fate'[h] = "dropped"
        /\ \A s \in Spans \ {h} : fate'[s] = fate[s]
    BY <1>0, <1>7 DEF Flushed, FlushFailed, FlushNext, TypeOK, OnePlace
  <2>2. arrived[t] => copies[h] > 0
    BY <1>0, <2>1 DEF Answered, Awaiting, Current
  <2> DEFINE S == {h}
  <2>3. /\ S \in SUBSET Spans /\ \A s \in Spans \ S : Status(fate'[s]) = Status(fate[s])
        /\ \A s \in S : Status(fate[s]) = "pending"
        /\ \/ \A s \in S : Status(fate'[s]) = "gone"
           \/ \A s \in S : Status(fate'[s]) = "delivered" /\ copies[s] > 0
    BY <2>1, <2>2, StatusOf
  <2> HIDE DEF S
  <2> QED BY <2>1, <2>3, Settles
<1>8. ASSUME NEW t \in Spans, Cancel(t) PROVE Channel!Next
  <2> DEFINE S == {s \in Spans : Holds(t, s)}
  <2>1. /\ copies' = copies /\ S \in SUBSET Spans
        /\ \A s \in Spans : fate'[s] = IF s \in S THEN "lost" ELSE fate[s]
    BY <1>8 DEF Cancel
  <2>2. \A s \in S : fate[s] \in {"sending", "flushing"}
    BY <1>0 DEF Holds, OnePlace
  <2> HIDE DEF S
  <2>3. /\ \A s \in S : Status(fate[s]) = "pending" /\ Status(fate'[s]) = "gone"
        /\ \A s \in Spans \ S : Status(fate'[s]) = Status(fate[s])
    BY <2>1, <2>2, StatusOf
  <2> QED BY <2>1, <2>3, Settles
<1>9. CASE Evict
  <2> DEFINE S == {s \in Spans : fate[s] \in {"sending", "buffered", "flushing"}}
  <2>1. /\ copies' = copies /\ S \in SUBSET Spans
        /\ \A s \in Spans : fate'[s] = IF s \in S THEN "lost" ELSE fate[s]
        /\ \A s \in S : fate[s] \in {"sending", "buffered", "flushing"}
    BY <1>9 DEF Evict
  <2> HIDE DEF S
  <2>2. /\ \A s \in S : Status(fate[s]) = "pending" /\ Status(fate'[s]) = "gone"
        /\ \A s \in Spans \ S : Status(fate'[s]) = Status(fate[s])
    BY <2>1, StatusOf
  <2> QED BY <2>1, <2>2, Settles
<1>10. CASE UNCHANGED vars
  BY <1>10 DEF vars, status
<1> QED BY <1>1, <1>2, <1>3, <1>4, <1>5, <1>6, <1>7, <1>8, <1>9, <1>10 DEF Next, Resume

(* The exporter promises no more, and no less, than a best-effort channel with at most *)
(* Attempts + 1 copies of a span, for every number of requests and whatever is lost.   *)
THEOREM ImplementsChannel == Spec => ImplementsBestEffort
<1>1. Init => Channel!Init
  BY StatusOf DEF Init, Channel!Init
<1>2. Inductive /\ [Next]_vars => [Channel!Next]_(Channel!vars)
  BY StepRefines DEF Channel!vars, status
<1> QED BY <1>1, <1>2, Invariant, PTL DEF Spec, ImplementsBestEffort, Channel!Spec
=============================================================================
