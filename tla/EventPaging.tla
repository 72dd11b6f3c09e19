------------------------------ MODULE EventPaging ------------------------------
(* Reading analytics_events while it grows (workers/analytics/src/lib.rs): a       *)
(* client pages through GET /events by following next_cursor, another asks for     *)
(* GET /summary, and /track or the queue consumer insert in between.               *)
(*                                                                                 *)
(* Each answer is made of two statements, a COUNT and a SELECT, with an await      *)
(* between them; D1 executes each against the table of its moment. Rows are never  *)
(* deleted. created_at has a resolution of one second, and rows of one second come *)
(* back in rowid order. Both handlers have authenticated their caller before.      *)
EXTENDS Naturals, Sequences, SequencesExt

CONSTANTS Limits,      \* values of ?limit= a client may send
          Cursors,     \* cursors a client may begin with
          Width,       \* 2^32: offset and limit are u32, and a release build wraps
          MaxLimit,    \* the upper bound of clamp(1, 100)
          MaxRows,     \* bound: inserts stop here
          MaxSeconds   \* bound: the clock stops here

ASSUME PagingAssumption == /\ Limits \subseteq Nat /\ MaxLimit \in Nat \ {0}
                           /\ MaxRows \in Nat /\ MaxSeconds \in Nat
                           /\ Width \in Nat /\ Cursors \subseteq 0..(Width - 1)
                           /\ MaxRows + MaxLimit <= Width \* no table comes near 2^32 rows

VARIABLES second,    \* the database clock
          created,   \* the table: created_at by rowid
          asked,     \* the client's ?limit=
          phase,     \* the scan: counting, selecting or done
          began,     \* the client's first ?cursor=
          cursor,    \* the cursor of the page being read
          total,     \* what COUNT answered for this page
          seen,      \* rowids the client received so far
          present,   \* history: rowids in the table when the scan began
          raced,     \* history: inserts since the last COUNT
          summary    \* the /summary request: phase and its two answers

vars == <<second, created, asked, began, phase, cursor, total, seen, present, raced, summary>>
scan == <<asked, began, phase, cursor, total, seen, present, raced>>

Ids == DOMAIN created

Init == /\ second = 0
        /\ created \in UNION {[1..n -> {0}] : n \in 0..MaxRows}
        /\ asked \in Limits
        /\ began \in Cursors /\ cursor = began
        /\ phase = "counting" /\ total = 0
        /\ seen = {} /\ present = Ids /\ raced = 0
        /\ summary = [phase |-> "counting", total |-> 0, grouped |-> 0]

Tick == /\ second < MaxSeconds
        /\ second' = second + 1
        /\ UNCHANGED <<created, scan, summary>>

(* DEFAULT CURRENT_TIMESTAMP *)
StampAhead == second + 1 \* mutant: a stamp from a clock that runs ahead
Stamp == second

(* track's INSERT, or the queue consumer's *)
Track == /\ Len(created) < MaxRows
         /\ created' = Append(created, Stamp)
         /\ raced' = IF phase = "selecting" THEN raced + 1 ELSE raced
         /\ UNCHANGED <<second, asked, began, phase, cursor, total, seen, present, summary>>

LimitUnclamped == IF asked > MaxLimit THEN MaxLimit ELSE asked \* mutant: no lower bound

(* the effective page size *)
Limit == IF asked < 1 THEN 1 ELSE IF asked > MaxLimit THEN MaxLimit ELSE asked

(* ORDER BY created_at DESC, ties by rowid *)
Before(i, j) == created[i] > created[j] \/ (created[i] = created[j] /\ i < j)
Position(i) == Cardinality({j \in Ids : Before(j, i)})

(* LIMIT ?1 OFFSET ?2 *)
Page == {i \in Ids : Position(i) \in cursor..(cursor + Limit - 1)}

Count == /\ phase = "counting"
         /\ total' = Len(created)
         /\ raced' = 0
         /\ phase' = "selecting"
         /\ UNCHANGED <<second, created, asked, began, cursor, seen, present, summary>>

next_offset == (cursor + Limit) % Width
has_more_Late == next_offset <= total \* mutant: a page after the last row
has_more_Early == next_offset + 1 < total \* mutant: off by one
has_more == next_offset < total

(* the SELECT and the answer; the client follows next_cursor or stops *)
Select == /\ phase = "selecting"
          /\ seen' = seen \cup Page
          /\ IF has_more THEN phase' = "counting" /\ cursor' = next_offset
                         ELSE phase' = "done" /\ UNCHANGED cursor
          /\ UNCHANGED <<second, created, asked, began, total, present, raced, summary>>

(* either statement fails: 500, and the client asks for the same page again *)
PageFails == /\ phase = "selecting"
             /\ phase' = "counting"
             /\ UNCHANGED <<second, created, asked, began, cursor, total, seen, present, raced, summary>>

(* summary: COUNT, then GROUP BY event_type *)
SummaryCount == /\ summary.phase = "counting"
                /\ summary' = [summary EXCEPT !.phase = "grouping", !.total = Len(created)]
                /\ UNCHANGED <<second, created, scan>>

(* the rows the GROUP BY sees *)
GroupedLagging == Cardinality({i \in Ids : created[i] < second}) \* mutant: a lagging replica
Grouped == Len(created)

SummaryGroup == /\ summary.phase = "grouping"
                /\ summary' = [summary EXCEPT !.phase = "done", !.grouped = Grouped]
                /\ UNCHANGED <<second, created, scan>>

Next == \/ Tick \/ Track
        \/ Count \/ Select \/ PageFails
        \/ SummaryCount \/ SummaryGroup

Spec == Init /\ [][Next]_vars

(* The client keeps paging, and D1 answers often enough. *)
FairSpec == Spec /\ WF_vars(Count) /\ SF_vars(Select)
-----------------------------------------------------------------------------
(* Every variable keeps its type. *)
TypeOK == /\ second \in 0..MaxSeconds
          /\ created \in Seq(0..MaxSeconds)
          /\ asked \in Limits /\ began \in Cursors
          /\ phase \in {"counting", "selecting", "done"}
          /\ cursor \in 0..(Width - 1) /\ total \in Nat /\ raced \in Nat
          /\ seen \subseteq Ids /\ present \subseteq Ids
          /\ summary \in [phase : {"counting", "grouping", "done"}, total : Nat, grouped : Nat]

(* A finished scan has shown every row that was there when it began, except the      *)
(* first rows a client skipped with its first cursor, and at most as many as were    *)
(* inserted between the COUNT and the SELECT of its last page: inserts anywhere else *)
(* only repeat rows, they never hide one, and neither does a cursor that wraps.      *)
ScanMissesOnlyRaced ==
    phase = "done" => Cardinality(present \ seen) <= raced + began

(* /summary may count a row in by_type that total_events misses, never the reverse. *)
SummaryNeverShort == summary.phase = "done" => summary.grouped >= summary.total

(* A page that is answered ends the scan or leads on, to a place within the table and *)
(* further down it, unless its own cursor was past every row: so a client is led back *)
(* once at most, by a cursor it chose itself, and no answered page is followed by the *)
(* same page again, whatever is inserted meanwhile.                                   *)
PagesAdvance ==
    [][Select => \/ phase' = "done"
                 \/ /\ cursor' < Len(created)
                    /\ cursor' > cursor \/ cursor >= Len(created)]_vars

(* A scan ends, whatever limit and first cursor the client asks for, once inserts *)
(* do not outrun it: a cursor near 2^32 wraps to the front of the table once, and *)
(* never turns paging into a cycle.                                               *)
ScanEnds == <>(phase = "done")
=============================================================================
