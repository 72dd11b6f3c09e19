--------------------------- MODULE LokiExportProofs ---------------------------
(* The Loki exporter for every set of requests, every buffer size and number of    *)
(* attempts. What its pushes share with the span exporter is proved there; here is *)
(* what the event buffer in front of them adds.                                    *)
EXTENDS LokiExport, SequenceTheorems, FiniteSetTheorems, TLAPS

P == INSTANCE SpanExportProofs WITH Spans <- Requests, MaxBuffered <- MaxPushes

(* An event is in one place, and in none before it is logged. *)
Carried(e) == \E r \in Requests : Contains(batch[r], e)

Whereabouts(e) ==
    /\ \A r, q \in Requests : Contains(batch[r], e) /\ Contains(batch[q], e) => r = q
    /\ Carried(e) => ~Contains(events, e) /\ e \notin expelled
    /\ Contains(events, e) => e \notin expelled
    /\ stage[e] # "new" <=> Carried(e) \/ Contains(events, e) \/ e \in expelled

(* A payload is built once, by the task that posts it. *)
Built(r) == /\ batch[r] # <<>> => stage[r] = "pushed"
            /\ fate[r] = "new" <=> batch[r] = <<>>

EventTypes == /\ endpoint \in BOOLEAN
              /\ events \in Seq(Requests) /\ Len(events) <= MaxEvents
              /\ stage \in [Requests -> {"new", "scheduled", "left", "pushed"}]
              /\ batch \in [Requests -> Seq(Requests)]
              /\ expelled \subseteq Requests

Events == /\ EventTypes
          /\ IsInjective(events)
          /\ \A e \in Requests : Whereabouts(e) /\ Built(e)
          /\ NothingStranded

Inductive == P!Inductive /\ Events
-----------------------------------------------------------------------------
(* The pushes take the steps of SpanExport and no others. *)
LEMMA SameStep ==
    ASSUME NEW r \in Requests
    PROVE  /\ Pushes!Begin(r) => P!Begin(r)
           /\ Pushes!Arrive(r) => P!Arrive(r)
           /\ Pushes!Resume(r) => P!Resume(r)
           /\ Pushes!Cancel(r) => P!Cancel(r)
           /\ Pushes!Evict => P!Evict
<1>1. Pushes!Begin(r) => P!Begin(r)
  BY DEF Pushes!Begin, P!Begin, Pushes!Post, P!Post
<1>2. Pushes!Arrive(r) => P!Arrive(r)
  BY DEF Pushes!Arrive, P!Arrive, Pushes!Awaiting, P!Awaiting, Pushes!Current, P!Current
<1>3. Pushes!Sent(r) => P!Sent(r)
  BY DEF Pushes!Sent, P!Sent, Pushes!Post, P!Post, Pushes!Drained, P!Drained,
         Pushes!Occurs, P!Occurs
<1>4. /\ Pushes!Fail(r) => P!Fail(r)
      /\ Pushes!Retry(r) => P!Retry(r)
      /\ Pushes!Keep(r) => P!Keep(r)
  BY DEF Pushes!Fail, P!Fail, Pushes!Retry, P!Retry, Pushes!Keep, P!Keep, Pushes!Post, P!Post,
         Pushes!LastAttempt, P!LastAttempt, Pushes!TimerFires, P!TimerFires,
         Pushes!Full, P!Full, Pushes!Room, P!Room, Pushes!Overflow, P!Overflow
<1>5. /\ Pushes!Flushed(r) => P!Flushed(r)
      /\ Pushes!FlushFailed(r) => P!FlushFailed(r)
  BY DEF Pushes!Flushed, P!Flushed, Pushes!FlushFailed, P!FlushFailed,
         Pushes!FlushNext, P!FlushNext, Pushes!Post, P!Post
<1>6. Pushes!Cancel(r) => P!Cancel(r)
  BY DEF Pushes!Cancel, P!Cancel, Pushes!Holds, P!Holds, Pushes!Occurs, P!Occurs
<1>7. Pushes!Evict => P!Evict
  BY DEF Pushes!Evict, P!Evict
<1> QED BY <1>1, <1>2, <1>3, <1>4, <1>5, <1>6, <1>7 DEF Pushes!Resume, P!Resume

LEMMA PushesSpec == Spec => P!Spec
<1>1. Init => P!Init
  BY DEF Init, Pushes!Init, P!Init
<1>2. [Next]_vars => [P!Next]_(P!vars)
  <2> SUFFICES ASSUME [Next]_vars PROVE P!Next \/ UNCHANGED exporter
    BY DEF P!vars, exporter
  <2>1. ASSUME NEW r \in Requests, Log(r) \/ Push(r) \/ Transport(r)
        PROVE  P!Next \/ UNCHANGED exporter
    BY <2>1, SameStep DEF Log, Push, Transport, P!Next
  <2>2. CASE Evict
    BY <2>2, SameStep DEF Evict, Pushes!Evict, P!Evict, P!Next
  <2>3. CASE UNCHANGED vars
    BY <2>3 DEF vars
  <2> QED BY <2>1, <2>2, <2>3 DEF Next
<1> QED BY <1>1, <1>2, PTL DEF Spec, P!Spec

LEMMA PushesInvariant == Spec => []P!Inductive
  BY PushesSpec, P!Invariant, LokiAssumption, PTL DEF P!ExportAssumption

-----------------------------------------------------------------------------
(* Contains and IsInjective are what SpanExport calls Occurs and Distinct. *)
LEMMA ContainsOccurs ==
    ASSUME NEW S, NEW seq \in Seq(S)
    PROVE  /\ \A e : Contains(seq, e) <=> P!Occurs(e, seq)
           /\ IsInjective(seq) <=> P!Distinct(seq)
  BY LenProperties DEF Contains, IsInjective, P!Occurs, P!Distinct

LEMMA NothingContained == IsInjective(<<>>) /\ \A e : ~Contains(<<>>, e)
  BY DEF Contains, IsInjective

(* Which requests' events there are once the oldest has made room, and at the end. *)
Rest == IF EventsFull THEN Tail(events) ELSE events
Outgoing == IF EventsFull THEN {Head(events)} ELSE {}

LEMMA RestContains ==
    ASSUME EventTypes, IsInjective(events)
    PROVE  /\ Rest \in Seq(Requests) /\ Len(Rest) < MaxEvents /\ IsInjective(Rest)
           /\ Outgoing \subseteq Requests
           /\ \A e : Contains(Rest, e) <=> Contains(events, e) /\ e \notin Outgoing
           /\ \A e \in Outgoing : Contains(events, e)
<1>0. /\ events \in Seq(Requests) /\ Len(events) \in Nat /\ Len(events) <= MaxEvents
      /\ MaxEvents \in Nat \ {0} /\ P!Distinct(events)
  BY LokiAssumption, LenProperties, ContainsOccurs DEF EventTypes
<1>1. CASE EventsFull
  <2>1. events # <<>>
    BY <1>0, <1>1, EmptySeq DEF EventsFull
  <2>2. /\ Tail(events) \in Seq(Requests) /\ Len(Tail(events)) = Len(events) - 1
        /\ Head(events) \in Requests /\ P!Occurs(Head(events), events)
        /\ P!Distinct(Tail(events))
        /\ \A e : P!Occurs(e, Tail(events)) <=> P!Occurs(e, events) /\ e # Head(events)
    BY <1>0, <2>1, P!TailOccurs, LokiAssumption
  <2>3. /\ IsInjective(Tail(events)) /\ Contains(events, Head(events))
        /\ \A e : Contains(Tail(events), e) <=> Contains(events, e) /\ e # Head(events)
    BY <1>0, <2>2, ContainsOccurs
  <2> QED BY <1>0, <1>1, <2>2, <2>3 DEF Rest, Outgoing
<1>2. CASE ~EventsFull
  BY <1>0, <1>2 DEF Rest, Outgoing, EventsFull
<1> QED BY <1>1, <1>2

LEMMA AppendContains ==
    ASSUME NEW S, NEW seq \in Seq(S), NEW e \in S, IsInjective(seq), ~Contains(seq, e)
    PROVE  /\ Append(seq, e) \in Seq(S) /\ Len(Append(seq, e)) = Len(seq) + 1
           /\ IsInjective(Append(seq, e))
           /\ \A x : Contains(Append(seq, e), x) <=> Contains(seq, x) \/ x = e
<1>1. P!Distinct(seq) /\ ~P!Occurs(e, seq)
  BY ContainsOccurs
<1>2. /\ Append(seq, e) \in Seq(S) /\ Len(Append(seq, e)) = Len(seq) + 1
      /\ P!Distinct(Append(seq, e))
      /\ \A x : P!Occurs(x, Append(seq, e)) <=> P!Occurs(x, seq) \/ x = e
  BY <1>1, P!AppendOccurs, LokiAssumption
<1> QED BY <1>2, ContainsOccurs

-----------------------------------------------------------------------------
LEMMA InitEvents == Init => Events
<1> SUFFICES ASSUME Init PROVE Events
  OBVIOUS
<1>1. /\ endpoint \in BOOLEAN /\ events = <<>> /\ expelled = {}
      /\ stage = [r \in Requests |-> "new"] /\ batch = [r \in Requests |-> <<>>]
      /\ \A r \in Requests : fate[r] = "new" /\ batch[r] = <<>> /\ stage[r] = "new"
  BY DEF Init, Pushes!Init
<1>2. EventTypes
  BY <1>1, EmptySeq, LokiAssumption DEF EventTypes
<1>3. ASSUME NEW e \in Requests PROVE Whereabouts(e) /\ Built(e)
  <2>1. ~Carried(e)
    BY <1>1, NothingContained DEF Carried
  <2> QED BY <1>1, <2>1, NothingContained DEF Whereabouts, Built, Carried
<1> QED BY <1>1, <1>2, <1>3, NothingContained DEF Events, NothingStranded

(* The transport of payloads begins no payload. *)
LEMMA TransportKeepsNew ==
    ASSUME P!Inductive, P!Inductive', NEW r \in Requests, Transport(r), NEW q \in Requests
    PROVE  fate'[q] = "new" <=> fate[q] = "new"
<1>1. task'[q] = "idle" <=> task[q] = "idle"
  <2>1. task \in [Requests -> P!TaskStates]
    BY DEF P!Inductive, P!Placed, P!TypeOK
  <2>2. Pushes!Sent(r) => task[r] = "posting" /\ \E w \in {"done", "flushing"} :
                                                     task' = [task EXCEPT ![r] = w]
    BY DEF Pushes!Sent
  <2>3. /\ Pushes!Fail(r) => task[r] = "posting" /\ task' = [task EXCEPT ![r] = "backoff"]
        /\ Pushes!Retry(r) => task[r] = "backoff" /\ task' = [task EXCEPT ![r] = "posting"]
        /\ Pushes!Keep(r) => task[r] = "posting" /\ task' = [task EXCEPT ![r] = "done"]
        /\ Pushes!Flushed(r) \/ Pushes!FlushFailed(r) =>
             task[r] = "flushing" /\ (task' = [task EXCEPT ![r] = "done"] \/ task' = task)
        /\ Pushes!Cancel(r) => task[r] # "idle" /\ task' = [task EXCEPT ![r] = "done"]
        /\ Pushes!Arrive(r) => task' = task
    BY DEF Pushes!Fail, Pushes!Retry, Pushes!TimerFires, Pushes!Keep, Pushes!Flushed,
           Pushes!FlushFailed, Pushes!FlushNext, Pushes!Cancel, Pushes!Arrive
  <2>4. \/ task' = task
        \/ task[r] # "idle" /\ \E w : w # "idle" /\ task' = [task EXCEPT ![r] = w]
    BY <2>2, <2>3 DEF Transport, Pushes!Resume
  <2> QED BY <2>1, <2>4
<1>2. P!TasksFit /\ P!TasksFit'
  BY DEF P!Inductive, P!Placed
<1> QED BY <1>1, <1>2 DEF P!TasksFit

(* However logging and pushing interleave, a step keeps each event in one place. *)
LEMMA EventsInductive == Inductive /\ P!Inductive' /\ [Next]_vars => Events'
<1> SUFFICES ASSUME Inductive, P!Inductive', [Next]_vars PROVE Events'
  OBVIOUS
<1>0. /\ EventTypes /\ IsInjective(events) /\ NothingStranded
      /\ \A e \in Requests : Whereabouts(e) /\ Built(e)
  BY DEF Inductive, Events
<1>1. ASSUME NEW r \in Requests, Log(r) PROVE Events'
  <2>1. /\ stage[r] = "new"
        /\ \E after \in {"scheduled", "left"} : stage' = [stage EXCEPT ![r] = after]
        /\ events' = Append(Rest, r) /\ expelled' = expelled \cup Outgoing
        /\ UNCHANGED <<endpoint, batch, fate>>
    BY <1>1 DEF Log, Buffer, Rest, Outgoing, exporter
  <2>2. /\ stage'[r] \in {"scheduled", "left"} /\ \A e \in Requests \ {r} : stage'[e] = stage[e]
        /\ ~Contains(events, r) /\ ~Carried(r) /\ r \notin expelled
    BY <1>0, <2>1 DEF EventTypes, Whereabouts
  <2>3. ~Contains(Rest, r) /\ r \notin Outgoing
    BY <1>0, <2>2, RestContains
  <2>4. /\ events' \in Seq(Requests) /\ Len(events') = Len(Rest) + 1 /\ IsInjective(events')
        /\ \A x : Contains(events', x) <=> Contains(Rest, x) \/ x = r
        /\ Len(Rest) \in Nat
    BY <1>0, <2>1, <2>3, RestContains, AppendContains, LenProperties
  <2>5. EventTypes'
    <3>1. Len(events') <= MaxEvents
      BY <1>0, <2>4, RestContains, LokiAssumption
    <3> QED BY <1>0, <2>1, <2>4, <3>1, RestContains DEF EventTypes
  <2>6. ASSUME NEW e \in Requests PROVE Whereabouts(e)' /\ Built(e)'
    <3>1. Carried(e)' <=> Carried(e)
      BY <2>1 DEF Carried
    <3>2. /\ Contains(events', e) <=> (Contains(events, e) /\ e \notin Outgoing) \/ e = r
          /\ e \in Outgoing => Contains(events, e)
      BY <1>0, <2>4, RestContains
    <3>3. Whereabouts(e) /\ Built(e)
      BY <1>0
    <3>4. Whereabouts(e)'
      BY <2>1, <2>2, <2>3, <3>1, <3>2, <3>3 DEF Whereabouts
    <3>5. Built(e)'
      BY <2>1, <2>2, <3>3 DEF Built
    <3> QED BY <3>4, <3>5
  <2>7. NothingStranded'
    <3>1. \A e \in Requests : Contains(events', e) => e = r \/ Contains(events, e)
      BY <1>0, <2>4, RestContains
    <3> QED BY <1>0, <2>2, <3>1 DEF NothingStranded
  <2> QED BY <2>4, <2>5, <2>6, <2>7 DEF Events
<1>2. ASSUME NEW r \in Requests, Push(r), events = <<>> PROVE Events'
  <2>1. /\ stage[r] = "scheduled" /\ UNCHANGED <<endpoint, events, batch, fate, expelled>>
        /\ stage' \in [Requests -> {"new", "scheduled", "left", "pushed"}]
        /\ stage'[r] = "pushed" /\ \A e \in Requests \ {r} : stage'[e] = stage[e]
    BY <1>0, <1>2 DEF Push, FindsNone, exporter, EventTypes
  <2>2. EventTypes'
    BY <1>0, <2>1 DEF EventTypes
  <2>3. ASSUME NEW e \in Requests PROVE Whereabouts(e)' /\ Built(e)'
    <3>1. Whereabouts(e) /\ Built(e) /\ (Carried(e)' <=> Carried(e))
      BY <1>0, <2>1 DEF Carried
    <3> QED BY <2>1, <3>1 DEF Whereabouts, Built
  <2>4. NothingStranded'
    BY <1>2, <2>1, NothingContained DEF NothingStranded
  <2> QED BY <1>0, <2>1, <2>2, <2>3, <2>4 DEF Events
<1>3. ASSUME NEW r \in Requests, Push(r), events # <<>> PROVE Events'
  <2>1. /\ stage[r] = "scheduled" /\ events' = <<>> /\ UNCHANGED <<endpoint, expelled>>
        /\ stage' = [stage EXCEPT ![r] = "pushed"] /\ batch' = [batch EXCEPT ![r] = events]
        /\ fate' = [fate EXCEPT ![r] = "sending"]
    BY <1>3 DEF Push, FindsNone, EventsDrained, Pushes!Begin
  <2>2. /\ stage'[r] = "pushed" /\ \A e \in Requests \ {r} : stage'[e] = stage[e]
        /\ batch'[r] = events /\ \A q \in Requests \ {r} : batch'[q] = batch[q]
        /\ fate \in [Requests -> P!Fates]
    BY <1>0, <2>1 DEF EventTypes, Inductive, P!Inductive, P!Placed, P!TypeOK
  <2>3. batch[r] = <<>>
    BY <1>0, <2>1 DEF Built
  <2>4. EventTypes'
    BY <1>0, <2>1, EmptySeq, LokiAssumption DEF EventTypes
  <2>5. ASSUME NEW e \in Requests PROVE Whereabouts(e)' /\ Built(e)'
    <3>1. /\ \A q \in Requests : Contains(batch'[q], e) <=>
                IF q = r THEN Contains(events, e) ELSE Contains(batch[q], e)
          /\ ~Contains(batch[r], e) /\ ~Contains(events', e)
      BY <2>1, <2>2, <2>3, NothingContained
    <3>2. Carried(e)' <=> Carried(e) \/ Contains(events, e)
      BY <3>1 DEF Carried
    <3>3. \A q \in Requests : Contains(batch[q], e) => Carried(e)
      BY DEF Carried
    <3>4. Whereabouts(e)'
      BY <1>0, <2>1, <2>2, <3>1, <3>2, <3>3 DEF Whereabouts
    <3>5. Built(e)'
      BY <1>0, <1>3, <2>1, <2>2 DEF Built
    <3> QED BY <3>4, <3>5
  <2>6. IsInjective(events') /\ NothingStranded'
    BY <2>1, NothingContained DEF NothingStranded
  <2> QED BY <2>4, <2>5, <2>6 DEF Events
<1>4. ASSUME NEW r \in Requests, Transport(r) PROVE Events'
  <2>1. UNCHANGED <<endpoint, events, stage, batch, expelled>>
    BY <1>4 DEF Transport
  <2>2. ASSUME NEW e \in Requests PROVE Whereabouts(e)' /\ Built(e)'
    <3>1. Whereabouts(e) /\ Built(e) /\ (Carried(e)' <=> Carried(e))
      BY <1>0, <2>1 DEF Carried
    <3>2. fate'[e] = "new" <=> fate[e] = "new"
      BY <1>4, TransportKeepsNew DEF Inductive
    <3> QED BY <2>1, <3>1, <3>2 DEF Whereabouts, Built
  <2> QED BY <1>0, <2>1, <2>2 DEF Events, EventTypes, NothingStranded
<1>5. CASE Evict
  <2>1. /\ events' = <<>> /\ expelled' = expelled \cup ToSet(events) /\ batch' = batch
        /\ endpoint' \in BOOLEAN
        /\ \A e \in Requests : /\ stage'[e] = IF stage[e] = "scheduled" THEN "pushed" ELSE stage[e]
                               /\ fate'[e] = "new" <=> fate[e] = "new"
        /\ stage' \in [Requests -> {"new", "scheduled", "left", "pushed"}]
    BY <1>0, <1>5 DEF Evict, Pushes!Evict, EventTypes
  <2>2. \A e : e \in ToSet(events) <=> Contains(events, e)
    BY <1>0, LenProperties DEF ToSet, Contains, EventTypes
  <2>3. ToSet(events) \subseteq Requests
    BY <1>0, LenProperties DEF ToSet, EventTypes
  <2>4. EventTypes'
    BY <1>0, <2>1, <2>3, EmptySeq, LokiAssumption DEF EventTypes
  <2>5. ASSUME NEW e \in Requests PROVE Whereabouts(e)' /\ Built(e)'
    <3>1. /\ Whereabouts(e) /\ Built(e) /\ (Carried(e)' <=> Carried(e))
          /\ ~Contains(events', e)
      BY <1>0, <2>1, NothingContained DEF Carried
    <3> QED BY <2>1, <2>2, <3>1 DEF Whereabouts, Built
  <2>6. IsInjective(events') /\ NothingStranded'
    BY <2>1, NothingContained DEF NothingStranded
  <2> QED BY <2>4, <2>5, <2>6 DEF Events
<1>6. CASE UNCHANGED vars
  <2>1. UNCHANGED <<endpoint, events, stage, batch, expelled, fate>>
    BY <1>6 DEF vars, exporter
  <2>2. ASSUME NEW e \in Requests PROVE Whereabouts(e)' /\ Built(e)'
    BY <1>0, <2>1 DEF Whereabouts, Built, Carried
  <2> QED BY <1>0, <2>1, <2>2 DEF Events, EventTypes, NothingStranded
<1> QED BY <1>1, <1>2, <1>3, <1>4, <1>5, <1>6 DEF Next

LEMMA Invariant == Spec => []Inductive
<1>1. Init /\ P!Inductive => Inductive
  BY InitEvents DEF Inductive
<1>2. Inductive /\ P!Inductive' /\ [Next]_vars => Inductive'
  BY EventsInductive DEF Inductive
<1> QED BY <1>1, <1>2, PushesInvariant, PTL DEF Spec

(* Every variable keeps its type; neither the event buffer nor the buffer of failed *)
(* pushes outgrows its bound, however long Loki is down.                            *)
THEOREM MemoryIsBounded == Spec => []TypeOK
<1>1. Inductive => TypeOK
  BY DEF Inductive, Events, EventTypes, TypeOK, P!Inductive, P!Placed, P!TypeOK,
         Pushes!TypeOK, P!TaskStates, Pushes!TaskStates, P!Fates, Pushes!Fates,
         P!Resolved, Pushes!Resolved
<1> QED BY <1>1, Invariant, PTL

(* Every event logged is in exactly one place: the event buffer, one payload, or among *)
(* the expelled; and no payload is in two places.                                      *)
THEOREM EventsOnce == Spec => []EventOnce
<1>1. Inductive => EventOnce
  <2> SUFFICES ASSUME Inductive PROVE EventOnce
    OBVIOUS
  <2>1. Pushes!OnePlace /\ IsInjective(events)
    BY DEF Inductive, Events, P!Inductive, P!Placed, P!OnePlace, Pushes!OnePlace,
           P!Distinct, Pushes!Distinct, P!Occurs, Pushes!Occurs
  <2>2. ASSUME NEW e \in Requests
        PROVE  Cardinality(Carriers(e)) + (IF Contains(events, e) THEN 1 ELSE 0)
                                        + (IF e \in expelled THEN 1 ELSE 0)
                 = IF stage[e] = "new" THEN 0 ELSE 1
    <3>1. Whereabouts(e)
      BY DEF Inductive, Events
    <3>2. CASE Carried(e)
      <4>1. PICK r \in Requests : Contains(batch[r], e)
        BY <3>2 DEF Carried
      <4>2. Carriers(e) = {r}
        BY <3>1, <4>1 DEF Carriers, Whereabouts
      <4>3. Cardinality(Carriers(e)) = 1
        BY <4>2, FS_Singleton
      <4>4. ~Contains(events, e) /\ e \notin expelled /\ stage[e] # "new"
        BY <3>1, <3>2 DEF Whereabouts
      <4> QED BY <4>3, <4>4
    <3>3. CASE ~Carried(e)
      <4>1. Carriers(e) = {}
        BY <3>3 DEF Carriers, Carried
      <4> QED BY <3>1, <3>3, <4>1, FS_EmptySet DEF Whereabouts
    <3> QED BY <3>2, <3>3
  <2> QED BY <2>1, <2>2 DEF EventOnce
<1> QED BY <1>1, Invariant, PTL

(* No event outstays the push of its own request: while it is in the buffer that   *)
(* push is still to start, or the request scheduled none.                          *)
THEOREM NoEventStranded == Spec => []NothingStranded
<1>1. Inductive => NothingStranded
  BY DEF Inductive, Events
<1> QED BY <1>1, Invariant, PTL

-----------------------------------------------------------------------------
(* How an event stands: as its payload does, once it is in one. *)
View(e) ==
    /\ \A r \in Requests : Contains(batch[r], e) =>
          EventStatus(e) = P!Status(fate[r]) /\ EventCopies(e) = copies[r]
    /\ ~Carried(e) =>
          /\ EventCopies(e) = 0
          /\ EventStatus(e) = IF stage[e] = "new" THEN "new"
                              ELSE IF e \in expelled THEN "gone" ELSE "pending"

LEMMA ViewHolds == Inductive => \A e \in Requests : View(e)
<1> SUFFICES ASSUME Inductive, NEW e \in Requests PROVE View(e)
  OBVIOUS
<1>0. Whereabouts(e)
  BY DEF Inductive, Events
<1>1. ASSUME NEW r \in Requests, Contains(batch[r], e)
      PROVE  EventStatus(e) = P!Status(fate[r]) /\ EventCopies(e) = copies[r]
  <2>1. Carriers(e) = {r}
    BY <1>0, <1>1 DEF Carriers, Whereabouts
  <2>2. stage[e] # "new" /\ e \notin expelled /\ ~Contains(events, e)
    BY <1>0, <1>1 DEF Whereabouts, Carried
  <2>3. (CHOOSE q \in Carriers(e) : TRUE) = r /\ Carriers(e) # {}
    BY <2>1
  <2> QED BY <2>2, <2>3 DEF EventStatus, EventCopies, P!Status, Pushes!Status
<1>2. ASSUME ~Carried(e)
      PROVE  /\ EventCopies(e) = 0
             /\ EventStatus(e) = IF stage[e] = "new" THEN "new"
                                 ELSE IF e \in expelled THEN "gone" ELSE "pending"
  <2>1. Carriers(e) = {}
    BY <1>2 DEF Carriers, Carried
  <2> QED BY <1>0, <1>2, <2>1 DEF EventStatus, EventCopies, Whereabouts
<1> QED BY <1>1, <1>2 DEF View

(* What the channel sees of an event, before and after a step. *)
LEMMA StatusOf ==
    /\ P!Status("new") = "new" /\ P!Status("delivered") = "delivered"
    /\ \A f \in {"sending", "buffered", "flushing"} : P!Status(f) = "pending"
    /\ \A f \in {"evicted", "dropped", "lost"} : P!Status(f) = "gone"
  BY DEF P!Status

(* A step on payloads is the same step on the events they carry. *)
LEMMA PayloadStep ==
    ASSUME Inductive, \A e \in Requests : View(e) /\ View(e)', P!Channel!Next,
           UNCHANGED <<events, stage, batch, expelled>>
    PROVE  Channel!Next
<1> DEFINE Load(S) == {e \in Requests : \E r \in S : Contains(batch[r], e)}
<1>1. PICK S \in SUBSET Requests :
        \/ \E i \in Requests : P!Channel!Offer(i, S)
        \/ P!Channel!Receive(S) \/ P!Channel!Deliver(S) \/ P!Channel!GiveUp(S)
  BY DEF P!Channel!Next
<1>2. /\ Load(S) \in SUBSET Requests
      /\ \A e \in Load(S) : \E r \in S : Contains(batch[r], e)
      /\ \A e \in Requests, r \in Requests :
           Contains(batch[r], e) => (e \in Load(S) <=> r \in S)
  BY DEF Inductive, Events, Whereabouts
<1>3. /\ \A e \in Requests : \A r \in Requests : Contains(batch[r], e) =>
           /\ EventStatus(e) = P!Status(fate[r]) /\ EventCopies(e) = copies[r]
           /\ EventStatus(e)' = P!Status(fate'[r]) /\ EventCopies(e)' = copies'[r]
      /\ \A e \in Requests : ~Carried(e) =>
           EventStatus(e)' = EventStatus(e) /\ EventCopies(e)' = EventCopies(e)
  BY DEF View, Carried
<1> HIDE DEF Load
<1>s. /\ \A r \in Requests : [s \in Requests |-> P!Status(fate[s])][r] = P!Status(fate[r])
      /\ \A r \in Requests : [s \in Requests |-> P!Status(fate[s])]'[r] = P!Status(fate'[r])
  OBVIOUS
<1>c. ASSUME NEW e \in Requests
      PROVE  \/ ~Carried(e) /\ e \notin Load(S)
             \/ \E r \in Requests : Contains(batch[r], e) /\ (e \in Load(S) <=> r \in S)
  BY <1>2 DEF Carried
<1>4. CASE P!Channel!Receive(S)
  <2>1. /\ \A r \in S : P!Status(fate[r]) # "new" /\ copies[r] < Attempts + 1
        /\ \A r \in Requests : /\ P!Status(fate'[r]) = P!Status(fate[r])
                               /\ copies'[r] = IF r \in S THEN copies[r] + 1 ELSE copies[r]
    BY <1>4, <1>s DEF P!Channel!Receive
  <2>2. \A e \in Load(S) : EventStatus(e) # "new" /\ EventCopies(e) < Attempts + 1
    BY <1>2, <1>3, <2>1
  <2>3. ASSUME NEW e \in Requests
        PROVE  /\ EventStatus(e)' = EventStatus(e)
               /\ EventCopies(e)' = IF e \in Load(S) THEN EventCopies(e) + 1 ELSE EventCopies(e)
    BY <1>3, <1>c, <2>1
  <2>4. Channel!Receive(Load(S))
    BY <1>2, <2>2, <2>3 DEF Channel!Receive
  <2> QED BY <1>2, <2>4 DEF Channel!Next
<1>5. CASE P!Channel!Deliver(S)
  <2>1. /\ \A r \in S : P!Status(fate[r]) = "pending" /\ copies[r] > 0
        /\ \A r \in Requests :
             /\ P!Status(fate'[r]) = IF r \in S THEN "delivered" ELSE P!Status(fate[r])
             /\ copies'[r] = copies[r]
    BY <1>5, <1>s DEF P!Channel!Deliver
  <2>2. \A e \in Load(S) : EventStatus(e) = "pending" /\ EventCopies(e) > 0
    BY <1>2, <1>3, <2>1
  <2>3. ASSUME NEW e \in Requests
        PROVE  /\ EventStatus(e)' = IF e \in Load(S) THEN "delivered" ELSE EventStatus(e)
               /\ EventCopies(e)' = EventCopies(e)
    BY <1>3, <1>c, <2>1
  <2>4. Channel!Deliver(Load(S))
    BY <1>2, <2>2, <2>3 DEF Channel!Deliver
  <2> QED BY <1>2, <2>4 DEF Channel!Next
<1>g. ASSUME \A r \in Requests :
               /\ r \in S => P!Status(fate[r]) = "pending"
               /\ \A e \in Requests : Contains(batch[r], e) =>
                    P!Status(fate'[r]) = IF r \in S THEN "gone" ELSE P!Status(fate[r])
               /\ copies'[r] = copies[r]
      PROVE  Channel!Next
  <2>1. \A e \in Load(S) : EventStatus(e) = "pending"
    BY <1>2, <1>3, <1>g
  <2>2. ASSUME NEW e \in Requests
        PROVE  /\ EventStatus(e)' = IF e \in Load(S) THEN "gone" ELSE EventStatus(e)
               /\ EventCopies(e)' = EventCopies(e)
    BY <1>3, <1>c, <1>g
  <2>3. Channel!GiveUp(Load(S))
    BY <1>2, <2>1, <2>2 DEF Channel!GiveUp
  <2> QED BY <1>2, <2>3 DEF Channel!Next
<1>6. CASE P!Channel!GiveUp(S)
  <2>1. \A r \in Requests :
          /\ r \in S => P!Status(fate[r]) = "pending"
          /\ P!Status(fate'[r]) = IF r \in S THEN "gone" ELSE P!Status(fate[r])
          /\ copies'[r] = copies[r]
    BY <1>6, <1>s DEF P!Channel!GiveUp
  <2> QED BY <1>g, <2>1
<1>7. ASSUME NEW i \in Requests, P!Channel!Offer(i, S) PROVE Channel!Next
  <2>1. \A e \in Requests : ~Contains(batch[i], e)
    <3>1. P!Status(fate[i]) = "new" /\ fate[i] \in P!Fates
      BY <1>7, <1>s DEF P!Channel!Offer, Inductive, P!Inductive, P!Placed, P!TypeOK
    <3>2. fate[i] = "new"
      BY <3>1, StatusOf DEF P!Fates, P!Resolved
    <3> QED BY <3>2, NothingContained DEF Inductive, Events, Built
  <2>2. \A r \in Requests :
          /\ r \in S => P!Status(fate[r]) = "pending"
          /\ r # i => P!Status(fate'[r]) = IF r \in S THEN "gone" ELSE P!Status(fate[r])
          /\ copies'[r] = copies[r]
    BY <1>7, <1>s DEF P!Channel!Offer
  <2> QED BY <1>g, <2>1, <2>2
<1> QED BY <1>1, <1>4, <1>5, <1>6, <1>7

(* Every step of the exporter is a step of the channel, or none of its business. *)
LEMMA StepRefines ==
    Inductive /\ Inductive' /\ [Next]_vars =>
        Channel!Next \/ UNCHANGED <<[e \in Requests |-> EventStatus(e)],
                                    [e \in Requests |-> EventCopies(e)]>>
<1> DEFINE Quiet == \A e \in Requests : /\ EventStatus(e)' = EventStatus(e)
                                        /\ EventCopies(e)' = EventCopies(e)
<1> SUFFICES ASSUME Inductive, Inductive', [Next]_vars
             PROVE  Channel!Next \/ Quiet
  OBVIOUS
<1>v. \A e \in Requests : View(e) /\ View(e)'
  <2>1. (Inductive => \A e \in Requests : View(e))'
    BY ViewHolds, PTL
  <2> QED BY <2>1, ViewHolds
<1>0. /\ EventTypes /\ IsInjective(events) /\ P!Inductive
      /\ \A e \in Requests : Whereabouts(e) /\ Built(e)
  BY DEF Inductive, Events
<1>u. ASSUME NEW e \in Requests, ~Carried(e), ~Carried(e)'
      PROVE  /\ EventCopies(e) = 0 /\ EventCopies(e)' = 0
             /\ EventStatus(e) = IF stage[e] = "new" THEN "new"
                                 ELSE IF e \in expelled THEN "gone" ELSE "pending"
             /\ EventStatus(e)' = IF stage'[e] = "new" THEN "new"
                                  ELSE IF e \in expelled' THEN "gone" ELSE "pending"
  BY <1>u, <1>v DEF View
<1>c. ASSUME NEW e \in Requests, NEW r \in Requests, Contains(batch[r], e), batch' = batch
      PROVE  /\ EventCopies(e) = copies[r] /\ EventCopies(e)' = copies'[r]
             /\ EventStatus(e) = P!Status(fate[r]) /\ EventStatus(e)' = P!Status(fate'[r])
  BY <1>c, <1>v DEF View
<1>1. ASSUME NEW r \in Requests, Log(r) PROVE Channel!Next
  <2>1. /\ stage[r] = "new" /\ expelled' = expelled \cup Outgoing
        /\ \E after \in {"scheduled", "left"} : stage' = [stage EXCEPT ![r] = after]
        /\ UNCHANGED <<batch, fate, copies>>
    BY <1>1 DEF Log, Buffer, Outgoing, exporter
  <2>2. /\ stage'[r] # "new" /\ \A e \in Requests \ {r} : stage'[e] = stage[e]
        /\ ~Contains(events, r) /\ ~Carried(r) /\ r \notin expelled
    BY <1>0, <2>1 DEF EventTypes, Whereabouts
  <2>3. /\ Outgoing \in SUBSET Requests
        /\ \A e \in Outgoing : e # r /\ ~Carried(e) /\ e \notin expelled /\ stage[e] # "new"
    BY <1>0, <2>2, RestContains DEF Whereabouts
  <2>4. \A e \in Requests : Carried(e)' <=> Carried(e)
    BY <2>1 DEF Carried
  <2>5. ASSUME NEW e \in Requests
        PROVE  /\ EventCopies(e)' = EventCopies(e)
               /\ EventStatus(e)' = IF e = r THEN "pending"
                                    ELSE IF e \in Outgoing THEN "gone" ELSE EventStatus(e)
    <3>1. CASE Carried(e)
      <4>1. PICK q \in Requests : Contains(batch[q], e)
        BY <3>1 DEF Carried
      <4> QED BY <1>c, <2>1, <2>2, <2>3, <3>1, <4>1
    <3>2. CASE ~Carried(e)
      BY <1>u, <2>1, <2>2, <2>3, <2>4, <3>2
    <3> QED BY <3>1, <3>2
  <2>6. EventStatus(r) = "new" /\ \A e \in Outgoing : EventStatus(e) = "pending"
    BY <1>u, <2>1, <2>2, <2>3, <2>4
  <2>7. Channel!Offer(r, Outgoing)
    <3>1. [e \in Requests |-> EventStatus(e)]' =
            [j \in Requests |-> IF j = r THEN "pending"
                                ELSE IF j \in Outgoing THEN "gone"
                                ELSE [e \in Requests |-> EventStatus(e)][j]]
      BY <2>5
    <3>2. UNCHANGED [e \in Requests |-> EventCopies(e)]
      BY <2>5
    <3> QED BY <2>3, <2>6, <3>1, <3>2 DEF Channel!Offer
  <2> QED BY <2>3, <2>7 DEF Channel!Next
<1>2. ASSUME NEW r \in Requests, Push(r) PROVE Quiet
  <2>1. /\ stage[r] = "scheduled" /\ stage' = [stage EXCEPT ![r] = "pushed"]
        /\ expelled' = expelled /\ copies' = copies
    BY <1>2 DEF Push, exporter, Pushes!Begin
  <2>2. \A e \in Requests : (stage'[e] = "new" <=> stage[e] = "new")
    BY <1>0, <2>1 DEF EventTypes
  <2>3. CASE events = <<>>
    <3>1. batch' = batch /\ fate' = fate
      BY <1>2, <2>3 DEF Push, FindsNone, exporter
    <3>2. ASSUME NEW e \in Requests
          PROVE  EventStatus(e)' = EventStatus(e) /\ EventCopies(e)' = EventCopies(e)
      <4>1. CASE Carried(e)
        <5>1. PICK q \in Requests : Contains(batch[q], e)
          BY <4>1 DEF Carried
        <5> QED BY <1>c, <2>1, <3>1, <5>1
      <4>2. CASE ~Carried(e)
        <5>1. ~Carried(e)'
          BY <3>1, <4>2 DEF Carried
        <5> QED BY <1>u, <2>1, <2>2, <4>2, <5>1
      <4> QED BY <4>1, <4>2
    <3> QED BY <3>2
  <2>4. CASE events # <<>>
    <3>1. /\ batch' = [batch EXCEPT ![r] = events] /\ fate' = [fate EXCEPT ![r] = "sending"]
      BY <1>2, <2>4 DEF Push, FindsNone, Pushes!Begin
    <3>2. /\ batch'[r] = events /\ \A q \in Requests \ {r} : batch'[q] = batch[q]
          /\ fate'[r] = "sending" /\ \A q \in Requests \ {r} : fate'[q] = fate[q]
      BY <1>0, <3>1 DEF EventTypes, P!Inductive, P!Placed, P!TypeOK
    <3>3. batch[r] = <<>> /\ fate[r] = "new"
      BY <1>0, <2>1 DEF Built
    <3>4. copies[r] = 0
      <4>1. P!Cost(r) /\ P!Received(r) /\ copies[r] \in Nat /\ posts[r] \in Nat
        BY <1>0 DEF P!Inductive, P!Placed, P!TypeOK, P!Spent
      <4>2. posts[r] = 0
        BY <3>3, <4>1 DEF P!Cost
      <4> QED BY <4>1, <4>2 DEF P!Received
    <3>5. ASSUME NEW e \in Requests
          PROVE  EventStatus(e)' = EventStatus(e) /\ EventCopies(e)' = EventCopies(e)
      <4>1. CASE Carried(e)
        <5>1. PICK q \in Requests : Contains(batch[q], e)
          BY <4>1 DEF Carried
        <5>2. q # r
          BY <3>3, <5>1, NothingContained
        <5> QED BY <1>v, <2>1, <3>2, <5>1, <5>2 DEF View
      <4>2. CASE Contains(events, e)
        <5>1. ~Carried(e) /\ e \notin expelled /\ stage[e] # "new"
          BY <1>0, <4>2 DEF Whereabouts
        <5>2. EventStatus(e) = "pending" /\ EventCopies(e) = 0
          BY <1>v, <5>1 DEF View
        <5>3. EventStatus(e)' = P!Status("sending") /\ EventCopies(e)' = 0
          BY <1>v, <2>1, <3>2, <3>4, <4>2 DEF View
        <5> QED BY <5>2, <5>3, StatusOf
      <4>3. CASE ~Carried(e) /\ ~Contains(events, e)
        <5>1. ~Carried(e)'
          BY <3>2, <4>3 DEF Carried
        <5> QED BY <1>u, <2>1, <2>2, <4>3, <5>1
      <4> QED BY <4>1, <4>2, <4>3
    <3> QED BY <3>5
  <2> QED BY <2>3, <2>4
<1>3. ASSUME NEW r \in Requests, Transport(r) PROVE Channel!Next \/ Quiet
  <2>1. UNCHANGED <<events, stage, batch, expelled>>
    BY <1>3 DEF Transport
  <2>2. [P!Next]_(P!vars)
    BY <1>3, SameStep DEF Transport, P!Next
  <2>3. P!Channel!Next \/ UNCHANGED <<P!status, copies>>
    BY <1>0, <2>2, P!StepRefines, LokiAssumption
  <2>4. CASE P!Channel!Next
    BY <1>v, <2>1, <2>4, PayloadStep
  <2>5. CASE UNCHANGED <<P!status, copies>>
    <3>1. \A q \in Requests : P!Status(fate'[q]) = P!Status(fate[q]) /\ copies'[q] = copies[q]
      <4>1. /\ \A q \in Requests : P!status[q] = P!Status(fate[q])
            /\ \A q \in Requests : P!status'[q] = P!Status(fate'[q])
        BY DEF P!status
      <4> QED BY <2>5, <4>1
    <3>2. ASSUME NEW e \in Requests
          PROVE  EventStatus(e)' = EventStatus(e) /\ EventCopies(e)' = EventCopies(e)
      <4>1. CASE Carried(e)
        <5>1. PICK q \in Requests : Contains(batch[q], e)
          BY <4>1 DEF Carried
        <5> QED BY <1>c, <2>1, <3>1, <5>1
      <4>2. CASE ~Carried(e)
        <5>1. ~Carried(e)'
          BY <2>1, <4>2 DEF Carried
        <5> QED BY <1>u, <2>1, <4>2, <5>1
      <4> QED BY <4>1, <4>2
    <3> QED BY <3>2
  <2> QED BY <2>3, <2>4, <2>5
<1>4. CASE Evict
  <2> DEFINE S == {e \in Requests : EventStatus(e) = "pending"}
  <2>1. /\ expelled' = expelled \cup ToSet(events) /\ batch' = batch /\ copies' = copies
        /\ \A e \in Requests : /\ stage'[e] = "new" <=> stage[e] = "new"
                               /\ fate'[e] = IF fate[e] \in {"sending", "buffered", "flushing"}
                                             THEN "lost" ELSE fate[e]
    BY <1>4 DEF Evict, Pushes!Evict
  <2>2. \A e : e \in ToSet(events) <=> Contains(events, e)
    BY <1>0, LenProperties DEF ToSet, Contains, EventTypes
  <2>3. \A q \in Requests : /\ fate[q] \in P!Fates
                            /\ P!Status(fate'[q]) = IF P!Status(fate[q]) = "pending"
                                                    THEN "gone" ELSE P!Status(fate[q])
    <3>1. \A q \in Requests : fate[q] \in P!Fates
      BY <1>0 DEF P!Inductive, P!Placed, P!TypeOK
    <3> QED BY <2>1, <3>1, StatusOf DEF P!Fates, P!Resolved
  <2>4. ASSUME NEW e \in Requests
        PROVE  /\ EventStatus(e)' = IF EventStatus(e) = "pending" THEN "gone" ELSE EventStatus(e)
               /\ EventCopies(e)' = EventCopies(e)
    <3>1. CASE Carried(e)
      <4>1. PICK q \in Requests : Contains(batch[q], e)
        BY <3>1 DEF Carried
      <4> QED BY <1>c, <2>1, <2>3, <4>1
    <3>2. CASE ~Carried(e)
      <4>1. ~Carried(e)'
        BY <2>1, <3>2 DEF Carried
      <4>2. stage[e] # "new" /\ e \notin expelled => e \in expelled'
        BY <1>0, <2>1, <2>2, <3>2 DEF Whereabouts
      <4> QED BY <1>u, <2>1, <2>2, <3>2, <4>1, <4>2
    <3> QED BY <3>1, <3>2
  <2>5. S \in SUBSET Requests
    OBVIOUS
  <2>6. Channel!GiveUp(S)
    BY <2>4 DEF Channel!GiveUp
  <2> QED BY <2>5, <2>6 DEF Channel!Next
<1>5. CASE UNCHANGED vars
  <2>1. UNCHANGED <<events, stage, batch, expelled, fate, copies>>
    BY <1>5 DEF vars, exporter
  <2> QED BY <2>1 DEF EventStatus, EventCopies, Carriers
<1> QED BY <1>1, <1>2, <1>3, <1>4, <1>5 DEF Next

(* Seen from one event the exporter is a best-effort channel, for every number of    *)
(* requests and every size of its two buffers: what is settled stays settled, and an *)
(* event reaches Loki at most Attempts + 1 times.                                    *)
THEOREM EventsImplementChannel == Spec => ImplementsBestEffort
<1>1. Init => Channel!Init
  <2> SUFFICES ASSUME Init, NEW e \in Requests
               PROVE  EventStatus(e) = "new" /\ EventCopies(e) = 0
    BY DEF Channel!Init
  <2>1. Inductive
    <3>1. P!Init
      BY DEF Init, Pushes!Init, P!Init
    <3> QED BY <3>1, InitEvents, P!InitInductive, LokiAssumption DEF Inductive
  <2>2. stage[e] = "new" /\ ~Carried(e)
    BY NothingContained DEF Init, Carried
  <2> QED BY <2>1, <2>2, ViewHolds DEF View
<1>2. Inductive /\ Inductive' /\ [Next]_vars => [Channel!Next]_(Channel!vars)
  BY StepRefines DEF Channel!vars
<1> QED BY <1>1, <1>2, Invariant, PTL DEF Spec, ImplementsBestEffort, Channel!Spec

(* Of the push tasks of EventsMoveOn, all but the fairness: behind the event buffer a *)
(* push waits for its attempts and one flush of the failed payloads at most, whatever *)
(* the other requests log, push and take from it.                                     *)
THEOREM PushesRunOut == Spec => P!AwaitsRunOut
  BY PushesSpec, P!TasksRunOut, LokiAssumption, PTL DEF P!ExportAssumption
=============================================================================
