--------------------------- MODULE EventPagingProofs ---------------------------
(* Paging through /events and reading /summary for every limit and first cursor, *)
(* every size of the table and every width of the offset that has room for it.   *)
EXTENDS EventPaging, SequenceTheorems, FiniteSetTheorems, TLAPS

(* A first cursor no table reaches: all that a scan from there sees is a bonus. *)
Beyond == began >= MaxRows

(* What the cursor has passed and the client was not shown. *)
Missed(k) == {i \in present : Position(i) < k /\ i \notin seen}

ScanFits ==
    /\ Len(created) <= MaxRows
    /\ ~Beyond => cursor < MaxRows
    /\ phase # "done" /\ ~Beyond => Cardinality(Missed(cursor)) <= began
    /\ phase = "selecting" => total + raced = Len(created)
    /\ ScanMissesOnlyRaced

SummaryFits ==
    /\ summary.phase # "counting" => summary.total <= Len(created)
    /\ SummaryNeverShort

Inductive == TypeOK /\ ScanFits /\ SummaryFits
-----------------------------------------------------------------------------
(* Rows have positions: no two the same, none beyond the table. *)
Earlier(i) == {j \in Ids : Before(j, i)}

LEMMA CountInterval ==
    /\ \A k \in Nat : /\ IsFiniteSet(1..k) /\ Cardinality(1..k) = k
                      /\ IsFiniteSet(0..(k - 1)) /\ Cardinality(0..(k - 1)) = k
    /\ \A k, n \in Nat :
         /\ IsFiniteSet(k..(n - 1))
         /\ Cardinality(k..(n - 1)) = IF k > n - 1 THEN 0 ELSE n - k
<1>1. ASSUME NEW a \in Int, NEW b \in Int
      PROVE  IsFiniteSet(a..b) /\ Cardinality(a..b) = IF a > b THEN 0 ELSE b - a + 1
  BY <1>1, FS_Interval
<1>2. ASSUME NEW k \in Nat
      PROVE  /\ IsFiniteSet(1..k) /\ Cardinality(1..k) = k
             /\ IsFiniteSet(0..(k - 1)) /\ Cardinality(0..(k - 1)) = k
  <2>1. 1 \in Int /\ k \in Int /\ 0 \in Int /\ k - 1 \in Int
    OBVIOUS
  <2>2. /\ IsFiniteSet(1..k) /\ Cardinality(1..k) = IF 1 > k THEN 0 ELSE k - 1 + 1
        /\ IsFiniteSet(0..(k - 1))
        /\ Cardinality(0..(k - 1)) = IF 0 > k - 1 THEN 0 ELSE (k - 1) - 0 + 1
    BY <1>1, <2>1, Zenon
  <2> QED BY <2>2
<1>3. ASSUME NEW k \in Nat, NEW n \in Nat
      PROVE  /\ IsFiniteSet(k..(n - 1))
             /\ Cardinality(k..(n - 1)) = IF k > n - 1 THEN 0 ELSE n - k
  <2>1. k \in Int /\ n - 1 \in Int
    OBVIOUS
  <2>2. /\ IsFiniteSet(k..(n - 1))
        /\ Cardinality(k..(n - 1)) = IF k > n - 1 THEN 0 ELSE (n - 1) - k + 1
    BY <1>1, <2>1, Zenon
  <2> QED BY <2>2
<1> QED BY <1>2, <1>3

LEMMA Ranked ==
    ASSUME created \in Seq(0..MaxSeconds)
    PROVE  /\ IsFiniteSet(Ids) /\ Cardinality(Ids) = Len(created) /\ Len(created) \in Nat
           /\ \A i \in Ids : /\ IsFiniteSet(Earlier(i)) /\ Position(i) = Cardinality(Earlier(i))
                             /\ Position(i) \in 0..(Len(created) - 1)
           /\ \A i, j \in Ids : Position(i) = Position(j) => i = j
<1>1. /\ Ids = 1..Len(created) /\ Len(created) \in Nat
      /\ \A i \in Ids : created[i] \in Nat
  BY LenProperties, PagingAssumption DEF Ids
<1>2. IsFiniteSet(Ids) /\ Cardinality(Ids) = Len(created)
  <2>1. IsFiniteSet(1..Len(created)) /\ Cardinality(1..Len(created)) = Len(created)
    BY <1>1, CountInterval
  <2> QED BY <1>1, <2>1
<1>3. \A i \in Ids : /\ IsFiniteSet(Earlier(i)) /\ Cardinality(Earlier(i)) \in Nat
                     /\ Position(i) = Cardinality(Earlier(i))
  BY <1>2, FS_Subset, FS_CardinalityType DEF Earlier, Position
<1>4. ASSUME NEW i \in Ids PROVE Position(i) \in 0..(Len(created) - 1)
  <2>1. Earlier(i) \in SUBSET Ids /\ i \notin Earlier(i)
    BY <1>1 DEF Earlier, Before
  <2>2. Cardinality(Earlier(i)) <= Cardinality(Ids) /\ Cardinality(Earlier(i)) # Cardinality(Ids)
    BY <1>2, <2>1, FS_Subset
  <2> QED BY <1>1, <1>2, <1>3, <2>2
<1>5. ASSUME NEW i \in Ids, NEW j \in Ids, Before(i, j) PROVE Position(i) # Position(j)
  <2>1. Earlier(i) \in SUBSET Earlier(j) /\ i \in Earlier(j) /\ i \notin Earlier(i)
    BY <1>1, <1>5 DEF Earlier, Before
  <2>2. Cardinality(Earlier(i)) # Cardinality(Earlier(j))
    BY <1>3, <2>1, FS_Subset
  <2> QED BY <1>3, <2>2
<1>6. ASSUME NEW i \in Ids, NEW j \in Ids, i # j PROVE Before(i, j) \/ Before(j, i)
  BY <1>1, <1>6 DEF Before
<1> QED BY <1>1, <1>2, <1>3, <1>4, <1>5, <1>6

(* So at most k rows come before position k ... *)
LEMMA RowsBelow ==
    ASSUME created \in Seq(0..MaxSeconds), NEW T \in SUBSET Ids, NEW k \in Nat,
           \A i \in T : Position(i) < k
    PROVE  IsFiniteSet(T) /\ Cardinality(T) \in Nat /\ Cardinality(T) <= k
<1> DEFINE f == [i \in T |-> Position(i)]
<1>1. \A i \in T : Position(i) \in 0..(k - 1)
  BY Ranked
<1>2. f \in Injection(T, 0..(k - 1))
  BY <1>1, Ranked DEF Injection, IsInjective
<1>3. IsFiniteSet(0..(k - 1)) /\ Cardinality(0..(k - 1)) = k
  BY CountInterval
<1> HIDE DEF f
<1>4. IsFiniteSet(T) /\ Cardinality(T) <= k
  BY <1>2, <1>3, FS_Injection
<1> QED BY <1>4, FS_CardinalityType

(* ... and no more come from it on than the table is longer. *)
LEMMA RowsFrom ==
    ASSUME created \in Seq(0..MaxSeconds), NEW T \in SUBSET Ids, NEW k \in Nat,
           \A i \in T : Position(i) >= k
    PROVE  /\ IsFiniteSet(T) /\ Cardinality(T) \in Nat
           /\ Cardinality(T) <= IF k > Len(created) THEN 0 ELSE Len(created) - k
<1> DEFINE n == Len(created)
           f == [i \in T |-> Position(i)]
<1>0. n \in Nat
  BY Ranked
<1>1. \A i \in T : Position(i) \in k..(n - 1)
  BY Ranked
<1>2. f \in Injection(T, k..(n - 1))
  BY <1>1, Ranked DEF Injection, IsInjective
<1>3. IsFiniteSet(k..(n - 1)) /\ Cardinality(k..(n - 1)) = IF k > n - 1 THEN 0 ELSE n - k
  BY <1>0, CountInterval
<1> HIDE DEF f, n
<1>4. IsFiniteSet(T) /\ Cardinality(T) <= Cardinality(k..(n - 1))
  BY <1>2, <1>3, FS_Injection
<1>5. Cardinality(T) \in Nat
  BY <1>4, FS_CardinalityType
<1> QED BY <1>0, <1>3, <1>4, <1>5 DEF n

(* An insert moves rows back, or leaves them where they are. *)
LEMMA PositionsGrow ==
    ASSUME created \in Seq(0..MaxSeconds), NEW x \in 0..MaxSeconds,
           created' = Append(created, x), NEW i \in Ids
    PROVE  i \in Ids' /\ Position(i) <= Position(i)'
<1>1. /\ created' \in Seq(0..MaxSeconds) /\ Len(created') = Len(created) + 1
      /\ \A j \in 1..Len(created) : created'[j] = created[j]
      /\ Ids = 1..Len(created) /\ Ids' = 1..(Len(created) + 1) /\ Len(created) \in Nat
  BY AppendProperties, LenProperties DEF Ids
<1>2. /\ Ids \subseteq Ids' /\ \A j \in Ids : created'[j] = created[j]
  BY <1>1
<1>3. Earlier(i) \subseteq Earlier(i)'
  BY <1>2 DEF Earlier, Before
<1>4. IsFiniteSet(Ids')
  BY <1>1, FS_Interval
<1>5. IsFiniteSet(Earlier(i)') /\ Position(i)' = Cardinality(Earlier(i)')
  BY <1>4, FS_Subset DEF Earlier, Position
<1>6. Cardinality(Earlier(i)) <= Cardinality(Earlier(i)')
  BY <1>3, <1>5, FS_Subset
<1> QED BY <1>2, <1>5, <1>6, Ranked

LEMMA Offsets == /\ \A x \in Nat : x % Width \in 0..(Width - 1)
                 /\ \A x \in 0..(Width - 1) : x % Width = x
  BY PagingAssumption

-----------------------------------------------------------------------------
LEMMA Bounds ==
    ASSUME TypeOK
    PROVE  /\ Limit \in 1..MaxLimit /\ cursor \in Nat /\ began \in Nat /\ next_offset \in Nat
           /\ next_offset \in 0..(Width - 1)
           /\ Limit \in Nat /\ MaxRows \in Nat /\ MaxLimit \in Nat /\ Width \in Nat
           /\ MaxRows + MaxLimit <= Width
           /\ cursor < MaxRows => next_offset = cursor + Limit
<1>1. /\ Limit \in 1..MaxLimit /\ cursor \in 0..(Width - 1) /\ began \in 0..(Width - 1)
      /\ MaxRows \in Nat /\ MaxLimit \in Nat /\ Width \in Nat /\ MaxRows + MaxLimit <= Width
  BY PagingAssumption DEF TypeOK, Limit
<1>2. cursor + Limit \in Nat /\ (cursor < MaxRows => cursor + Limit \in 0..(Width - 1))
  BY <1>1
<1>3. next_offset \in 0..(Width - 1) /\ (cursor < MaxRows => next_offset = cursor + Limit)
  BY <1>2, Offsets DEF next_offset
<1> QED BY <1>1, <1>3

LEMMA InitInductive == Init => Inductive
<1> SUFFICES ASSUME Init PROVE Inductive
  OBVIOUS
<1>1. PICK n \in 0..MaxRows : created \in [1..n -> {0}]
  BY DEF Init
<1>2. created \in Seq(0..MaxSeconds) /\ Len(created) = n
  <2>1. n \in Nat /\ created \in [1..n -> 0..MaxSeconds]
    BY <1>1, PagingAssumption
  <2>2. created \in Seq(0..MaxSeconds)
    BY <2>1, SeqDef
  <2>3. DOMAIN created = 1..n /\ DOMAIN created = 1..Len(created) /\ Len(created) \in Nat
    BY <2>1, <2>2, LenProperties
  <2> QED BY <2>1, <2>2, <2>3
<1>3. TypeOK
  BY <1>2, PagingAssumption DEF Init, TypeOK
<1>4. Cardinality(Missed(cursor)) <= began
  BY <1>2, <1>3, Bounds, RowsBelow DEF Init, Missed
<1>5. ScanFits
  BY <1>1, <1>2, <1>3, <1>4, Bounds DEF Init, ScanFits, Beyond, ScanMissesOnlyRaced
<1> QED BY <1>3, <1>5 DEF Init, Inductive, SummaryFits, SummaryNeverShort

(* However inserts, pages and failures interleave, the scan's account holds. *)
LEMMA StepInductive == Inductive /\ [Next]_vars => Inductive'
<1> SUFFICES ASSUME Inductive, [Next]_vars PROVE Inductive'
  OBVIOUS
<1>0. /\ TypeOK /\ ScanFits /\ SummaryFits /\ created \in Seq(0..MaxSeconds)
      /\ Len(created) \in Nat /\ IsFiniteSet(Ids) /\ present \subseteq Ids
  BY Ranked DEF Inductive, TypeOK
<1>1. CASE Tick
  <2>1. TypeOK'
    BY <1>0, <1>1, PagingAssumption DEF Tick, scan, TypeOK, Ids
  <2>2. ScanFits' /\ SummaryFits'
    BY <1>0, <1>1 DEF Tick, scan, ScanFits, SummaryFits, Beyond, Missed, Position, Before, Ids,
                      ScanMissesOnlyRaced, SummaryNeverShort
  <2> QED BY <2>1, <2>2 DEF Inductive
<1>2. CASE Track
  <2>1. /\ Len(created) < MaxRows /\ created' = Append(created, second) /\ second \in 0..MaxSeconds
        /\ raced' = IF phase = "selecting" THEN raced + 1 ELSE raced
        /\ UNCHANGED <<second, asked, began, phase, cursor, total, seen, present, summary>>
    BY <1>0, <1>2 DEF Track, Stamp, TypeOK
  <2>2. created' \in Seq(0..MaxSeconds) /\ Len(created') = Len(created) + 1
    BY <1>0, <2>1, AppendProperties
  <2>3. \A i \in Ids : i \in Ids' /\ Position(i) <= Position(i)'
    BY <1>0, <2>1, PositionsGrow
  <2>4. TypeOK'
    <3>1. seen \subseteq Ids' /\ present \subseteq Ids'
      BY <1>0, <2>3 DEF TypeOK
    <3> QED BY <1>0, <2>1, <2>2, <3>1 DEF TypeOK
  <2>5. ASSUME phase # "done", ~Beyond PROVE Cardinality(Missed(cursor)') <= began
    <3>1. Missed(cursor)' \in SUBSET Missed(cursor)
      <4>1. ASSUME NEW i \in Missed(cursor)' PROVE i \in Missed(cursor)
        <5>1. i \in present /\ i \notin seen /\ Position(i)' < cursor /\ i \in Ids
          BY <1>0, <2>1 DEF Missed
        <5>2. Position(i) \in Nat /\ Position(i)' \in Nat /\ cursor \in Nat
          <6>1. Position(i) \in Nat /\ cursor \in Nat
            BY <1>0, <5>1, Ranked, Bounds
          <6>2. IsFiniteSet(Ids')
            BY <2>2, LenProperties, CountInterval DEF Ids
          <6>3. Position(i)' \in Nat
            BY <6>2, FS_Subset, FS_CardinalityType DEF Position
          <6> QED BY <6>1, <6>3
        <5> QED BY <2>3, <5>1, <5>2 DEF Missed
      <4> QED BY <4>1
    <3>2. IsFiniteSet(Missed(cursor)) /\ Missed(cursor) \subseteq Ids
      BY <1>0, FS_Subset DEF Missed
    <3>3. Cardinality(Missed(cursor)') <= Cardinality(Missed(cursor))
      BY <3>1, <3>2, FS_Subset
    <3>4. /\ Cardinality(Missed(cursor)) \in Nat /\ Cardinality(Missed(cursor)') \in Nat
          /\ Cardinality(Missed(cursor)) <= began /\ began \in Nat
      BY <1>0, <2>5, <3>1, <3>2, FS_Subset, FS_CardinalityType, Bounds DEF ScanFits
    <3> QED BY <3>3, <3>4
  <2>6. ScanFits'
    <3>1. Len(created') <= MaxRows
      BY <1>0, <2>1, <2>2, Bounds
    <3>2. (~Beyond => cursor < MaxRows)'
      BY <1>0, <2>1 DEF ScanFits, Beyond
    <3>3. (phase # "done" /\ ~Beyond => Cardinality(Missed(cursor)) <= began)'
      BY <2>1, <2>5 DEF Beyond, Missed
    <3>4. phase' = "selecting" => total' + raced' = Len(created')
      BY <1>0, <2>1, <2>2 DEF ScanFits, TypeOK
    <3>5. ScanMissesOnlyRaced'
      BY <1>0, <2>1 DEF ScanFits, ScanMissesOnlyRaced
    <3> QED BY <3>1, <3>2, <3>3, <3>4, <3>5 DEF ScanFits
  <2>7. SummaryFits'
    BY <1>0, <2>1, <2>2 DEF SummaryFits, SummaryNeverShort, TypeOK
  <2> QED BY <2>4, <2>6, <2>7 DEF Inductive
<1>3. CASE Count
  <2>1. TypeOK'
    BY <1>0, <1>3 DEF Count, TypeOK, Ids
  <2>2. ScanFits' /\ SummaryFits'
    BY <1>0, <1>3 DEF Count, ScanFits, SummaryFits, Beyond, Missed, Position, Before, Ids,
                      ScanMissesOnlyRaced, SummaryNeverShort
  <2> QED BY <2>1, <2>2 DEF Inductive
<1>4. CASE Select
  <2>1. /\ phase = "selecting" /\ seen' = seen \cup Page
        /\ IF has_more THEN phase' = "counting" /\ cursor' = next_offset
                       ELSE phase' = "done" /\ UNCHANGED cursor
        /\ UNCHANGED <<second, created, asked, began, total, present, raced, summary>>
    BY <1>4 DEF Select
  <2>2. /\ Page \subseteq Ids /\ Ids' = Ids
        /\ \A i \in Ids : Position(i)' = Position(i) /\ Position(i) \in Nat
        /\ \A i \in Ids : i \in Page <=> Position(i) \in cursor..(cursor + Limit - 1)
    <3>1. Page \subseteq Ids /\ \A i \in Ids : i \in Page <=> Position(i) \in cursor..(cursor + Limit - 1)
      BY DEF Page
    <3>2. Ids' = Ids /\ \A i \in Ids : Position(i)' = Position(i)
      BY <2>1 DEF Position, Before, Ids
    <3>3. \A i \in Ids : Position(i) \in Nat
      BY <1>0, Ranked
    <3> QED BY <3>1, <3>2, <3>3
  <2>3. TypeOK'
    BY <1>0, <2>1, <2>2, Bounds DEF TypeOK
  <2>4. /\ total \in Nat /\ raced \in Nat /\ total + raced = Len(created)
        /\ Len(created) <= MaxRows
    BY <1>0, <2>1 DEF ScanFits, TypeOK
  <2>5. IsFiniteSet(Missed(cursor)) /\ Cardinality(Missed(cursor)) \in Nat
    BY <1>0, FS_Subset, FS_CardinalityType DEF Missed
  <2>6. ASSUME ~Beyond PROVE Cardinality(Missed(cursor)) <= began /\ next_offset = cursor + Limit
    BY <1>0, <2>1, <2>6, Bounds DEF ScanFits
  <2>7. ASSUME has_more, ~Beyond
        PROVE  cursor' < MaxRows /\ Cardinality(Missed(cursor)') <= began
    <3>1. cursor' = cursor + Limit /\ cursor' < total
      BY <2>1, <2>6, <2>7 DEF has_more
    <3>2. Missed(cursor)' \in SUBSET Missed(cursor)
      <4>1. ASSUME NEW i \in Missed(cursor)' PROVE i \in Missed(cursor)
        <5>1. /\ i \in present /\ i \in Ids /\ i \notin seen /\ i \notin Page
              /\ Position(i) < cursor + Limit
          BY <1>0, <2>1, <2>2, <3>1 DEF Missed
        <5>2. Position(i) < cursor
          BY <1>0, <2>2, <5>1, Bounds
        <5> QED BY <5>1, <5>2 DEF Missed
      <4> QED BY <4>1
    <3>3. Cardinality(Missed(cursor)') <= Cardinality(Missed(cursor))
      BY <2>5, <3>2, FS_Subset
    <3>4. Cardinality(Missed(cursor)') \in Nat
      BY <2>5, <3>2, FS_Subset, FS_CardinalityType
    <3> QED BY <1>0, <2>4, <2>5, <2>6, <2>7, <3>1, <3>3, <3>4, Bounds
  <2>8. ASSUME ~has_more PROVE Cardinality(present \ seen') <= raced + began
    <3>1. CASE Beyond
      <4>1. present \ seen' \in SUBSET Ids
        BY <1>0
      <4>2. Cardinality(present \ seen') <= Len(created) /\ Cardinality(present \ seen') \in Nat
        BY <1>0, <4>1, FS_Subset, FS_CardinalityType, Ranked
      <4> QED BY <1>0, <2>4, <3>1, <4>2, Bounds DEF Beyond
    <3>2. CASE ~Beyond
      <4> DEFINE Later == {i \in Ids : Position(i) >= cursor + Limit}
      <4>1. cursor + Limit >= total /\ cursor + Limit \in Nat
        BY <1>0, <2>4, <2>6, <2>8, <3>2, Bounds DEF has_more
      <4>2. /\ IsFiniteSet(Later) /\ Cardinality(Later) \in Nat
            /\ Cardinality(Later) <= IF cursor + Limit > Len(created) THEN 0
                                     ELSE Len(created) - (cursor + Limit)
        <5>1. Later \in SUBSET Ids /\ \A i \in Later : Position(i) >= cursor + Limit
          OBVIOUS
        <5> HIDE DEF Later
        <5> QED BY <1>0, <4>1, <5>1, RowsFrom
      <4>3. Cardinality(Later) <= raced
        BY <1>0, <2>4, <4>1, <4>2
      <4>4. present \ seen' \in SUBSET (Missed(cursor) \cup Later)
        <5>1. ASSUME NEW i \in present \ seen' PROVE i \in Missed(cursor) \cup Later
          <6>1. i \in present /\ i \in Ids /\ i \notin seen /\ i \notin Page
            BY <1>0, <2>1
          <6>2. Position(i) < cursor \/ Position(i) >= cursor + Limit
            BY <1>0, <2>2, <6>1, Bounds
          <6> QED BY <6>1, <6>2 DEF Missed
        <5> QED BY <5>1
      <4> HIDE DEF Later
      <4>5. /\ IsFiniteSet(Missed(cursor) \cup Later)
            /\ Cardinality(Missed(cursor) \cup Later) =
                 Cardinality(Missed(cursor)) + Cardinality(Later)
                   - Cardinality(Missed(cursor) \cap Later)
        BY <2>5, <4>2, FS_Union
      <4>6. Cardinality(Missed(cursor) \cap Later) \in Nat
        BY <2>5, FS_Intersection, FS_CardinalityType
      <4>7. /\ Cardinality(present \ seen') <= Cardinality(Missed(cursor) \cup Later)
            /\ Cardinality(present \ seen') \in Nat
        BY <4>4, <4>5, FS_Subset, FS_CardinalityType
      <4>8. Cardinality(Missed(cursor)) <= began /\ began \in Nat
        BY <1>0, <2>6, <3>2, Bounds
      <4> QED BY <2>4, <2>5, <4>2, <4>3, <4>5, <4>6, <4>7, <4>8
    <3> QED BY <3>1, <3>2
  <2>9. ScanFits'
    <3>1. CASE has_more
      BY <2>1, <2>4, <2>7, <3>1 DEF ScanFits, Beyond, ScanMissesOnlyRaced
    <3>2. CASE ~has_more
      BY <1>0, <2>1, <2>4, <2>8, <3>2 DEF ScanFits, Beyond, ScanMissesOnlyRaced
    <3> QED BY <3>1, <3>2
  <2>10. SummaryFits'
    BY <1>0, <2>1 DEF SummaryFits, SummaryNeverShort
  <2> QED BY <2>3, <2>9, <2>10 DEF Inductive
<1>5. CASE PageFails
  <2>1. TypeOK'
    BY <1>0, <1>5 DEF PageFails, TypeOK, Ids
  <2>2. ScanFits' /\ SummaryFits'
    BY <1>0, <1>5 DEF PageFails, ScanFits, SummaryFits, Beyond, Missed, Position, Before, Ids,
                      ScanMissesOnlyRaced, SummaryNeverShort
  <2> QED BY <2>1, <2>2 DEF Inductive
<1>6. CASE SummaryCount \/ SummaryGroup
  <2>1. UNCHANGED <<second, created, asked, began, phase, cursor, total, seen, present, raced>>
    BY <1>6 DEF SummaryCount, SummaryGroup, scan
  <2>2. TypeOK' /\ SummaryFits'
    <3>0. /\ summary \in [phase : {"counting", "grouping", "done"}, total : Nat, grouped : Nat]
          /\ Len(created) \in Nat
      BY <1>0 DEF TypeOK
    <3>1. CASE SummaryCount
      <4>1. /\ summary' \in [phase : {"counting", "grouping", "done"}, total : Nat, grouped : Nat]
            /\ summary'.phase = "grouping" /\ summary'.total = Len(created)
        BY <3>0, <3>1 DEF SummaryCount
      <4>2. TypeOK'
        BY <1>0, <2>1, <4>1 DEF TypeOK, Ids
      <4>3. SummaryFits'
        BY <2>1, <3>0, <4>1 DEF SummaryFits, SummaryNeverShort
      <4> QED BY <4>2, <4>3
    <3>2. CASE SummaryGroup
      BY <1>0, <2>1, <3>0, <3>2
         DEF SummaryGroup, Grouped, TypeOK, Ids, SummaryFits, SummaryNeverShort
    <3> QED BY <1>6, <3>1, <3>2
  <2>3. ScanFits'
    BY <1>0, <2>1 DEF ScanFits, Beyond, Missed, Position, Before, Ids, ScanMissesOnlyRaced
  <2> QED BY <2>2, <2>3 DEF Inductive
<1>7. CASE UNCHANGED vars
  BY <1>0, <1>7 DEF vars, Inductive, TypeOK, ScanFits, SummaryFits, Beyond, Missed, Position,
                    Before, Ids, ScanMissesOnlyRaced, SummaryNeverShort
<1> QED BY <1>1, <1>2, <1>3, <1>4, <1>5, <1>6, <1>7 DEF Next

LEMMA Invariant == Spec => []Inductive
  BY InitInductive, StepInductive, PTL DEF Spec

(* Types hold: every cursor, wrapped or not, fits its width, and no count is negative. *)
THEOREM PagingTypes == Spec => []TypeOK
<1>1. Inductive => TypeOK
  BY DEF Inductive
<1> QED BY <1>1, Invariant, PTL

(* A client that follows next_cursor to the end was shown every row that was there when  *)
(* it began, but for the rows its first cursor skipped and as many as were inserted      *)
(* between the COUNT and the SELECT of its last page: for every table, limit and cursor. *)
THEOREM ScansMissOnlyRaced == Spec => []ScanMissesOnlyRaced
<1>1. Inductive => ScanMissesOnlyRaced
  BY DEF Inductive, ScanFits
<1> QED BY <1>1, Invariant, PTL

(* The parts of a summary never add up to less than its total. *)
THEOREM SummariesNeverShort == Spec => []SummaryNeverShort
<1>1. Inductive => SummaryNeverShort
  BY DEF Inductive, SummaryFits
<1> QED BY <1>1, Invariant, PTL

(* Of ScanEnds, all but the fairness: every answered page ends the scan or leads further *)
(* down the table, and only a first cursor beyond every row leads back. The cursor is    *)
(* u32 arithmetic: it wraps from no cursor within the table, for every width with room   *)
(* for the table and one page.                                                           *)
THEOREM PagesAlwaysAdvance == Spec => PagesAdvance
<1> DEFINE onward == \/ phase' = "done"
                     \/ cursor' < Len(created) /\ (cursor' > cursor \/ cursor >= Len(created))
<1>1. ASSUME Inductive, Select PROVE onward
  <2>1. /\ phase = "selecting"
        /\ IF has_more THEN cursor' = next_offset ELSE phase' = "done"
    BY <1>1 DEF Select
  <2>2. /\ total \in Nat /\ raced \in Nat /\ total + raced = Len(created)
        /\ Len(created) \in Nat /\ Len(created) <= MaxRows
    BY <1>1, <2>1, LenProperties DEF Inductive, ScanFits, TypeOK
  <2>3. CASE has_more
    <3>1. cursor' = next_offset /\ cursor' < Len(created)
      BY <1>1, <2>1, <2>2, <2>3, Bounds DEF has_more, Inductive
    <3>2. CASE cursor < MaxRows
      BY <1>1, <3>1, <3>2, Bounds DEF Inductive
    <3>3. CASE ~(cursor < MaxRows)
      BY <1>1, <2>2, <3>1, <3>3, Bounds DEF Inductive
    <3> QED BY <3>2, <3>3
  <2> QED BY <2>1, <2>3
<1>2. Inductive /\ [Next]_vars =>
        [Select => \/ phase' = "done"
                   \/ /\ cursor' < Len(created)
                      /\ cursor' > cursor \/ cursor >= Len(created)]_vars
  BY <1>1
<1> QED BY <1>2, Invariant, PTL DEF Spec, PagesAdvance
=============================================================================
