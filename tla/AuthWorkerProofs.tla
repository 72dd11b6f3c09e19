--------------------------- MODULE AuthWorkerProofs ---------------------------
(* The auth worker's accounts for every set of requests, isolates, names,         *)
(* passwords and legacy users, with or without a failing D1.                      *)
EXTENDS AuthWorker, TLAPS

(* What a request waits for fits what it asked: it is answered only at its end, it *)
(* is past its validation, an UPDATE is that of a login whose password was the     *)
(* account's at the SELECT and still is, and only a registration is told 201.      *)
PendingFits ==
    \A r \in Requests :
        /\ pc[r] # "done" => answer[r] = 0
        /\ pc[r] \in {"select", "insert", "update"} => Valid(call[r])
        /\ pc[r] = "select" => call[r].route \in {"/register", "/login"}
        /\ pc[r] = "insert" => call[r].route \in {"/register", "/debug/insert"}
        /\ pc[r] = "update" => /\ call[r].route = "/login"
                               /\ Exists(call[r].name) /\ Matches(r)
        /\ answer[r] = 201 => call[r].route = "/register"

(* A statement nobody awaits any more is that of a request that ended in an error or   *)
(* unanswered, or of a debug insert; and it is one the request was entitled to.        *)
LateFit(r) ==
    late[r] # "none" =>
        /\ pc[r] = "done" /\ answer[r] \in {0, 200, 500}
        /\ late[r] = "insert" =>
             /\ Valid(call[r]) /\ call[r].route \in {"/register", "/debug/insert"}
             /\ answer[r] = 200 => call[r].route = "/debug/insert"
        /\ late[r] = "update" => Exists(call[r].name) /\ Matches(r)
LateFits == \A r \in Requests : LateFit(r)

Inductive == TypeOK /\ PendingFits /\ LateFits /\ TableBeforeUse /\ RegisteredOnce

(* A step that writes at most one row, with the password of a request that is *)
(* entitled to it, keeps every row that exists and its password.              *)
RowsKept == \A n \in Names : Exists(n) => /\ users'[n].password = users[n].password
                                          /\ users'[n].scheme # "none"
                                          /\ users[n].scheme = "pbkdf2" => users'[n] = users[n]

LEMMA StoreKeepsRows ==
    ASSUME TypeOK, NEW r \in Requests, StoreRow(r),
           ~Exists(call[r].name) \/ Matches(r)
    PROVE  /\ RowsKept
           /\ users' \in [Names -> Rows]
           /\ users'[call[r].name] = Hash(call[r].password)
<1>1. call[r].name \in Names /\ call[r].password \in Passwords
  BY DEF TypeOK, Calls
<1>2. Hash(call[r].password) \in Rows
  BY <1>1 DEF Hash, Rows
<1>3. users' = [users EXCEPT ![call[r].name] = Hash(call[r].password)]
  BY DEF StoreRow
<1>4. users' \in [Names -> Rows] /\ users'[call[r].name] = Hash(call[r].password)
  BY <1>1, <1>2, <1>3 DEF TypeOK
<1>5. RowsKept
  <2> SUFFICES ASSUME NEW n \in Names, Exists(n)
               PROVE  /\ users'[n].password = users[n].password
                      /\ users'[n].scheme # "none"
                      /\ users[n].scheme = "pbkdf2" => users'[n] = users[n]
    BY DEF RowsKept
  <2>1. CASE n # call[r].name
    BY <1>1, <1>3, <2>1 DEF TypeOK, Exists
  <2>2. CASE n = call[r].name
    <3>1. users[n].password = call[r].password
      BY <2>2 DEF Matches, Row
    <3>2. users'[n].scheme = "pbkdf2" /\ users'[n].password = call[r].password
      BY <1>4, <2>2 DEF Hash
    <3>3. users[n] \in Rows
      BY DEF TypeOK
    <3>4. users[n].scheme = "pbkdf2" => users[n] = Hash(call[r].password)
      BY <3>1, <3>3 DEF Rows, Hash
    <3> QED BY <1>4, <2>2, <3>1, <3>2, <3>4
  <2> QED BY <2>1, <2>2
<1> QED BY <1>4, <1>5

(* What each step does to the users table. *)
LEMMA StepKeepsRows ==
    ASSUME TypeOK, PendingFits, LateFits, [Next]_vars
    PROVE  RowsKept /\ users' \in [Names -> Rows]
<1>1. CASE UNCHANGED users
  BY <1>1 DEF RowsKept, Exists, TypeOK
<1>2. ASSUME NEW r \in Requests, Step(r)
      PROVE  RowsKept /\ users' \in [Names -> Rows]
  <2>1. CASE UNCHANGED users
    BY <1>1, <2>1
  <2>2. CASE Insert(r) /\ ~Violates(r) /\ StoreRow(r)
    BY <2>2, StoreKeepsRows DEF Violates
  <2>3. CASE Update(r)
    <3>1. Matches(r) /\ StoreRow(r)
      BY <2>3 DEF Update, PendingFits
    <3> QED BY <3>1, StoreKeepsRows
  <2> QED BY <1>2, <2>1, <2>2, <2>3
          DEF Step, Bootstrap, BootstrapFails, SelectId, SelectPassword,
              SelectFails, Insert, InsertFails, UpdateFails
<1>3. ASSUME NEW r \in Requests, ExecuteLate(r)
      PROVE  RowsKept /\ users' \in [Names -> Rows]
  <2>1. CASE UNCHANGED users
    BY <1>1, <2>1
  <2>2. CASE StoreRow(r) /\ (~Violates(r) \/ late[r] = "update")
    <3>1. ~Exists(call[r].name) \/ Matches(r)
      BY <2>2 DEF Violates, LateFits, LateFit
    <3> QED BY <2>2, <3>1, StoreKeepsRows
  <2> QED BY <1>3, <2>1, <2>2 DEF ExecuteLate
<1>4. CASE UNCHANGED vars
  BY <1>1, <1>4 DEF vars
<1>5. ASSUME NEW r \in Requests, NEW c \in Calls, Fetch(r, c) PROVE UNCHANGED users
  BY <1>5 DEF Fetch
<1>6. ASSUME NEW i \in Isolates, Restart(i) PROVE UNCHANGED users
  BY <1>6 DEF Restart
<1> QED BY <1>1, <1>2, <1>3, <1>4, <1>5, <1>6 DEF Next

(* The statements left behind stay fitting while a step leaves a request as it was,    *)
(* ends one that was pending, or rids it of its statement.                             *)
Lates == {"none", "bootstrap", "insert", "update"}

LEMMA LatesKept ==
    ASSUME TypeOK, PendingFits, LateFits, RowsKept, UNCHANGED call, NEW r \in Requests,
           \/ late'[r] = "none"
           \/ late'[r] = late[r] /\ pc'[r] = pc[r] /\ answer'[r] = answer[r]
           \/ /\ pc[r] \in Awaits /\ late'[r] = Sent(r) /\ pc'[r] = "done"
              /\ answer'[r] \in {0, 200, 500}
              /\ answer'[r] = 200 => call[r].route = "/debug/insert"
    PROVE  LateFit(r)'
<1>1. call[r].name \in Names
  BY DEF TypeOK, Calls
<1>2. Exists(call[r].name) /\ Matches(r) => Exists(call[r].name)' /\ Matches(r)'
  BY <1>1 DEF RowsKept, Exists, Matches, Row
<1>3. CASE late'[r] = "none"
  BY <1>3 DEF LateFit
<1>4. CASE late'[r] = late[r] /\ pc'[r] = pc[r] /\ answer'[r] = answer[r]
  BY <1>2, <1>4 DEF LateFits, LateFit, Valid
<1>5. CASE /\ pc[r] \in Awaits /\ late'[r] = Sent(r) /\ pc'[r] = "done"
           /\ answer'[r] \in {0, 200, 500}
           /\ answer'[r] = 200 => call[r].route = "/debug/insert"
  BY <1>2, <1>5 DEF Sent, PendingFits, LateFit, Valid, Awaits
<1> QED BY <1>3, <1>4, <1>5

(* A step of one request preserves the invariant if what it leaves that request with *)
(* fits, and every row it meets is kept.                                             *)
Statuses == {0, 200, 201, 400, 401, 409, 500}

Leaves(r, c, w, a) ==
    /\ c \in Calls /\ w \in Awaits \cup {"done"} /\ a \in Statuses
    /\ call' = [call EXCEPT ![r] = c]
    /\ pc' = [pc EXCEPT ![r] = w]
    /\ answer' = [answer EXCEPT ![r] = a]
    /\ w # "done" => a = 0
    /\ w \in {"select", "insert", "update"} => table' /\ Valid(c)
    /\ w = "select" => c.route \in {"/register", "/login"}
    /\ w = "insert" => c.route \in {"/register", "/debug/insert"}
    /\ w = "update" => /\ c.route = "/login" /\ users'[c.name].scheme # "none"
                       /\ users'[c.name].password = c.password
    /\ a = 201 => /\ c.route = "/register" /\ ~Exists(c.name)
                  /\ users'[c.name] = Hash(c.password)

TableKept == /\ late' \in [Requests -> Lates] /\ LateFits'
             /\ table' \in BOOLEAN /\ (table => table')
             /\ ready' \in [Isolates -> BOOLEAN]
             /\ \A i \in Isolates : ready'[i] => table'
             /\ home' = home

LEMMA OneRequest ==
    ASSUME Inductive, RowsKept, users' \in [Names -> Rows], TableKept,
           NEW r \in Requests, NEW c, NEW w, NEW a, Leaves(r, c, w, a)
    PROVE  Inductive'
<1> USE DEF Leaves, TableKept
<1>1. TypeOK'
  BY DEF Inductive, TypeOK, Statuses, Lates
<1>2. /\ call'[r] = c /\ pc'[r] = w /\ answer'[r] = a
      /\ \A q \in Requests \ {r} :
            call'[q] = call[q] /\ pc'[q] = pc[q] /\ answer'[q] = answer[q]
  BY DEF Inductive, TypeOK
<1>3. PendingFits'
  <2> SUFFICES ASSUME NEW q \in Requests
               PROVE  /\ pc'[q] # "done" => answer'[q] = 0
                      /\ pc'[q] \in {"select", "insert", "update"} => Valid(call'[q])
                      /\ pc'[q] = "select" => call'[q].route \in {"/register", "/login"}
                      /\ pc'[q] = "insert" => call'[q].route \in {"/register", "/debug/insert"}
                      /\ pc'[q] = "update" =>
                            /\ call'[q].route = "/login"
                            /\ users'[call'[q].name].scheme # "none"
                            /\ users'[call'[q].name].password = call'[q].password
                      /\ answer'[q] = 201 => call'[q].route = "/register"
    BY DEF PendingFits, Valid, Exists, Matches, Row
  <2>1. CASE q = r
    BY <1>2, <2>1
  <2>2. CASE q # r
    <3>1. call[q].name \in Names
      BY DEF Inductive, TypeOK, Calls
    <3>2. pc[q] = "update" => /\ users'[call[q].name].scheme # "none"
                              /\ users'[call[q].name].password = call[q].password
      BY <3>1 DEF Inductive, PendingFits, RowsKept, Matches, Row
    <3> QED BY <1>2, <2>2, <3>2 DEF Inductive, PendingFits
  <2> QED BY <2>1, <2>2
<1>4. TableBeforeUse'
  BY <1>2 DEF Inductive, TableBeforeUse
<1>5. RegisteredOnce'
  <2>1. \A q \in Requests \ {r} : answer'[q] = 201 =>
            /\ call[q].route = "/register" /\ Exists(call[q].name)
            /\ users'[call[q].name] = Hash(call[q].password)
    <3> SUFFICES ASSUME NEW q \in Requests \ {r}, answer[q] = 201
                 PROVE  /\ call[q].route = "/register" /\ Exists(call[q].name)
                        /\ users'[call[q].name] = Hash(call[q].password)
      BY <1>2
    <3>1. call[q].route = "/register" /\ users[call[q].name] = Hash(call[q].password)
      BY DEF Inductive, PendingFits, RegisteredOnce
    <3>2. call[q].name \in Names
      BY DEF Inductive, TypeOK, Calls
    <3> QED BY <3>1, <3>2 DEF RowsKept, Exists, Hash
  <2>2. a = 201 => \A q \in Requests \ {r} : answer'[q] = 201 => call[q].name # c.name
    BY <2>1
  <2>3. \A p, q \in Requests \ {r} :
            p # q /\ answer'[p] = 201 /\ answer'[q] = 201 => call[p].name # call[q].name
    BY <1>2, <2>1 DEF Inductive, RegisteredOnce
  <2> QED BY <1>2, <2>1, <2>2, <2>3 DEF RegisteredOnce
<1> QED BY <1>1, <1>3, <1>4, <1>5 DEF Inductive

LEMMA InitInductive == Init => Inductive
<1> SUFFICES ASSUME Init PROVE Inductive
  OBVIOUS
<1>1. NoCall \in Calls
  BY AuthAssumption DEF NoCall, Calls, Routes
<1>2. users \in [Names -> Rows]
  BY AuthAssumption DEF Init, Rows, Absent, Legacy
<1>3. TypeOK
  BY <1>1, <1>2 DEF Init, TypeOK
<1> QED BY <1>3 DEF Init, Inductive, PendingFits, LateFits, LateFit, TableBeforeUse, RegisteredOnce

LEMMA DispatchLeaves ==
    ASSUME NEW r \in Requests, NEW c \in Calls, Dispatch(r, c), table',
           call' = [call EXCEPT ![r] = c], answer = [answer EXCEPT ![r] = 0]
    PROVE  \E w, a : Leaves(r, c, w, a)
<1> USE DEF Statuses, Awaits
<1>1. CASE ~Valid(c) /\ Reply(r, 400)
  <2>1. Leaves(r, c, "done", 400)
    BY <1>1 DEF Leaves, Reply
  <2> QED BY <2>1
<1>2. CASE Valid(c) /\ c.route = "/debug/insert" /\ Await(r, "insert")
  <2>1. Leaves(r, c, "insert", 0)
    BY <1>2 DEF Leaves, Await
  <2> QED BY <2>1
<1>3. CASE Valid(c) /\ c.route # "/debug/insert" /\ Await(r, "select")
  <2>1. c.route \in {"/register", "/login"}
    BY <1>3 DEF Calls, Routes
  <2>2. Leaves(r, c, "select", 0)
    BY <1>3, <2>1 DEF Leaves, Await
  <2> QED BY <2>2
<1> QED BY <1>1, <1>2, <1>3 DEF Dispatch

(* One step per action: what it leaves its request with, then OneRequest. *)
LEMMA NextInductive == Inductive /\ [Next]_vars => Inductive'
<1> SUFFICES ASSUME Inductive, [Next]_vars PROVE Inductive'
  OBVIOUS
<1>0. TypeOK /\ PendingFits /\ LateFits /\ TableBeforeUse
  BY DEF Inductive
<1>k. RowsKept /\ users' \in [Names -> Rows]
  BY <1>0, StepKeepsRows
<1> USE DEF Statuses, Awaits
<1>1. ASSUME NEW r \in Requests, NEW c \in Calls, Fetch(r, c) PROVE Inductive'
  <2>0. call' = [call EXCEPT ![r] = c] /\ answer[r] = 0
        /\ UNCHANGED <<table, users, ready, home, late>>
        /\ late[r] = "none" /\ \A q \in Requests \ {r} : /\ call'[q] = call[q] /\ pc'[q] = pc[q]
                                                        /\ answer'[q] = answer[q]
    BY <1>0, <1>1 DEF Fetch, PendingFits, LateFits, LateFit, Dispatch, Reply, Await, TypeOK
  <2>l. LateFits'
    BY <1>0, <2>0 DEF LateFits, LateFit, Valid, Exists, Matches, Row
  <2>t. TableKept
    BY <1>0, <2>0, <2>l DEF TableKept, TypeOK, TableBeforeUse, Lates
  <2>a. answer = [answer EXCEPT ![r] = 0]
    BY <1>0, <2>0 DEF TypeOK
  <2>1. CASE ready[home[r]]
    <3>1. table'
      BY <1>0, <2>0, <2>1 DEF TypeOK, TableBeforeUse
    <3>2. \E w, a : Leaves(r, c, w, a)
      BY <1>1, <2>1, <2>0, <2>a, <3>1, DispatchLeaves DEF Fetch
    <3> QED BY <1>k, <2>t, <3>2, OneRequest
  <2>2. CASE ~ready[home[r]]
    <3>1. Await(r, "bootstrap")
      BY <1>1, <2>2 DEF Fetch
    <3>2. Leaves(r, c, "bootstrap", 0)
      BY <2>0, <2>a, <3>1 DEF Leaves, Await
    <3> QED BY <1>k, <2>t, <3>2, OneRequest
  <2> QED BY <2>1, <2>2
<1>2. ASSUME NEW r \in Requests, Step(r) PROVE Inductive'
  <2> DEFINE c == call[r]
  <2>0. /\ c \in Calls /\ call' = [call EXCEPT ![r] = c]
        /\ answer[r] = 0 /\ answer = [answer EXCEPT ![r] = 0]
    <3>1. UNCHANGED call /\ pc[r] \in Awaits
      BY <1>2 DEF Step, Bootstrap, BootstrapFails, SelectId, SelectPassword,
                     SelectFails, Insert, InsertFails, Update, UpdateFails
    <3> QED BY <1>0, <3>1 DEF TypeOK, PendingFits
  <2>m. /\ UNCHANGED call /\ pc[r] \in Awaits
        /\ \A q \in Requests \ {r} : pc'[q] = pc[q] /\ answer'[q] = answer[q]
    <3>1. UNCHANGED call /\ pc[r] \in Awaits
      BY <1>2 DEF Step, Bootstrap, BootstrapFails, SelectId, SelectPassword, SelectFails,
                  Insert, InsertFails, Update, UpdateFails
    <3>2. (\E status : Reply(r, status)) \/ (\E where : Await(r, where))
      <4>1. \/ \E status \in Statuses : Reply(r, status)
            \/ \E where \in Awaits : Await(r, where)
        BY <1>2 DEF Step, Bootstrap, BootstrapFails, SelectId, SelectPassword, SelectFails,
                    Insert, InsertFails, InsertReply, Update, UpdateFails, Fails, Dispatch
      <4> QED BY <4>1
    <3>3. \A q \in Requests \ {r} : pc'[q] = pc[q] /\ answer'[q] = answer[q]
      BY <1>0, <3>2 DEF Reply, Await, TypeOK
    <3> QED BY <3>1, <3>3
  <2>l. late' \in [Requests -> Lates] /\ LateFits'
    <3>1. late[r] = "none"
      BY <1>0, <2>m DEF LateFits, LateFit
    <3>2. \/ late' = late
          \/ /\ late' = [late EXCEPT ![r] = Sent(r)]
             /\ pc' = [pc EXCEPT ![r] = "done"]
             /\ \/ answer' = [answer EXCEPT ![r] = 500]
                \/ answer' = [answer EXCEPT ![r] = 200] /\ call[r].route = "/debug/insert"
      BY <1>2 DEF Step, Bootstrap, BootstrapFails, SelectId, SelectPassword, SelectFails,
                  Insert, InsertFails, Update, UpdateFails, Fails, Reply, InsertReply, Sent
    <3>3. late' \in [Requests -> Lates]
      BY <1>0, <2>m, <3>2 DEF TypeOK, Lates, Sent
    <3>4. ASSUME NEW q \in Requests PROVE LateFit(q)'
      <4>1. CASE q # r
        <5>1. late'[q] = late[q] /\ pc'[q] = pc[q] /\ answer'[q] = answer[q]
          BY <1>0, <2>m, <3>2, <4>1 DEF TypeOK
        <5> QED BY <1>0, <1>k, <2>m, <5>1, LatesKept
      <4>2. CASE q = r
        <5>1. \/ late'[r] = "none"
              \/ /\ late'[r] = Sent(r) /\ pc'[r] = "done" /\ answer'[r] \in {0, 200, 500}
                 /\ answer'[r] = 200 => call[r].route = "/debug/insert"
          BY <1>0, <3>1, <3>2 DEF TypeOK
        <5> QED BY <1>0, <1>k, <2>m, <4>2, <5>1, LatesKept
      <4> QED BY <4>1, <4>2
    <3> QED BY <3>3, <3>4 DEF LateFits
  <2>t. TableKept
    <3>1. CASE Bootstrap(r)
      BY <1>0, <2>l, <3>1 DEF Bootstrap, TypeOK, TableKept
    <3>2. CASE UNCHANGED <<table, ready, home>>
      BY <1>0, <2>l, <3>2 DEF TypeOK, TableBeforeUse, TableKept
    <3> QED BY <1>2, <3>1, <3>2
            DEF Step, BootstrapFails, SelectId, SelectPassword,
                SelectFails, Insert, InsertFails, Update, UpdateFails
  <2>p. pc[r] \in {"select", "insert", "update"} => table'
    BY <1>0, <2>t DEF TableBeforeUse, TableKept
  <2>f. /\ pc[r] \in {"select", "insert", "update"} => Valid(c)
        /\ pc[r] = "select" => c.route \in {"/register", "/login"}
        /\ pc[r] = "insert" => c.route \in {"/register", "/debug/insert"}
    BY <1>0 DEF PendingFits
  <2>e. ASSUME NEW status \in Statuses \ {201}, Reply(r, status) PROVE Inductive'
    <3>1. Leaves(r, c, "done", status)
      BY <2>0, <2>e DEF Leaves, Reply
    <3> QED BY <1>k, <2>t, <3>1, OneRequest
  <2>1. CASE Bootstrap(r)
    <3>1. \E w, a : Leaves(r, c, w, a)
      BY <2>0, <2>1, DispatchLeaves DEF Bootstrap
    <3> QED BY <1>k, <2>t, <3>1, OneRequest
  <2>2. CASE BootstrapFails(r) \/ SelectFails(r) \/ Update(r) \/ UpdateFails(r)
    <3>1. Reply(r, 500) \/ Reply(r, 200)
      BY <2>2 DEF BootstrapFails, SelectFails, Update, UpdateFails, Fails
    <3> QED BY <2>e, <3>1
  <2>3. CASE SelectId(r)
    <3>1. CASE Reply(r, 409)
      BY <2>e, <3>1
    <3>2. CASE Await(r, "insert")
      <4>1. Leaves(r, c, "insert", 0)
        BY <2>0, <2>p, <2>f, <2>3, <3>2 DEF SelectId, Await, Leaves
      <4> QED BY <1>k, <2>t, <4>1, OneRequest
    <3> QED BY <2>3, <3>1, <3>2 DEF SelectId
  <2>4. CASE SelectPassword(r)
    <3>1. CASE Reply(r, 200) \/ Reply(r, 401)
      BY <2>e, <3>1
    <3>2. CASE Verifies(r, "sha256") /\ Await(r, "update")
      <4>1. users'[c.name].scheme # "none" /\ users'[c.name].password = c.password
        BY <2>4, <3>2 DEF SelectPassword, Verifies, Matches, Row
      <4>2. Leaves(r, c, "update", 0)
        BY <2>0, <2>p, <2>f, <2>4, <3>2, <4>1 DEF SelectPassword, Await, Leaves
      <4> QED BY <1>k, <2>t, <4>2, OneRequest
    <3> QED BY <2>4, <3>1, <3>2 DEF SelectPassword
  <2>5. CASE Insert(r) \/ InsertFails(r)
    <3>1. CASE Reply(r, 200) \/ Reply(r, 500)
      BY <2>e, <3>1
    <3>2. CASE ~Violates(r) /\ StoreRow(r) /\ c.route = "/register" /\ Reply(r, 201)
      <4>1. ~Exists(c.name) /\ users'[c.name] = Hash(c.password)
        BY <1>0, <3>2, StoreKeepsRows DEF Violates
      <4>2. Leaves(r, c, "done", 201)
        BY <2>0, <3>2, <4>1 DEF Reply, Leaves
      <4> QED BY <1>k, <2>t, <4>2, OneRequest
    <3>3. pc[r] = "insert"
      BY <2>5 DEF Insert, InsertFails
    <3> QED BY <2>5, <2>f, <3>1, <3>2, <3>3 DEF Insert, InsertFails, InsertReply
  <2> QED BY <1>2, <2>1, <2>2, <2>3, <2>4, <2>5 DEF Step
<1>3. ASSUME NEW i \in Isolates, Restart(i) PROVE Inductive'
  <2>1. pc' \in [Requests -> Awaits \cup {"new", "done"}]
    BY <1>0, <1>3 DEF Restart, TypeOK
  <2>2. \A r \in Requests : pc'[r] = pc[r] \/ pc'[r] = "done"
    BY <1>3 DEF Restart
  <2>3. ready' \in [Isolates -> BOOLEAN] /\ \A j \in Isolates : ready'[j] => ready[j]
    BY <1>0, <1>3 DEF Restart, TypeOK
  <2>4. UNCHANGED <<table, users, call, home, answer>>
    BY <1>3 DEF Restart
  <2>l. late' \in [Requests -> Lates]
    BY <1>0, <1>3 DEF Restart, TypeOK, Lates, Sent, Killed
  <2>f. ASSUME NEW r \in Requests PROVE LateFit(r)'
    <3>1. CASE Killed(r, i)
      <4>1. /\ pc[r] \in Awaits /\ late'[r] = Sent(r) /\ pc'[r] = "done"
            /\ answer'[r] = 0
        BY <1>0, <1>3, <3>1 DEF Restart, Killed, PendingFits
      <4> QED BY <1>0, <1>k, <2>4, <4>1, LatesKept
    <3>2. CASE ~Killed(r, i)
      <4>1. late'[r] = late[r] /\ pc'[r] = pc[r] /\ answer'[r] = answer[r]
        BY <1>3, <3>2 DEF Restart
      <4> QED BY <1>0, <1>k, <2>4, <4>1, LatesKept
    <3> QED BY <3>1, <3>2
  <2>5. TypeOK'
    BY <1>0, <2>1, <2>3, <2>4, <2>l DEF TypeOK, Lates
  <2>6. PendingFits'
    BY <1>0, <2>1, <2>2, <2>4 DEF PendingFits, Valid, Exists, Matches, Row
  <2>7. TableBeforeUse'
    BY <1>0, <2>2, <2>3, <2>4 DEF TableBeforeUse
  <2>8. RegisteredOnce'
    BY <2>4 DEF Inductive, RegisteredOnce
  <2> QED BY <2>5, <2>6, <2>7, <2>8, <2>f DEF Inductive, LateFits
<1>5. ASSUME NEW r \in Requests, ExecuteLate(r) PROVE Inductive'
  <2>1. /\ late[r] # "none" /\ late' = [late EXCEPT ![r] = "none"]
        /\ UNCHANGED <<ready, pc, call, home, answer>>
    BY <1>5 DEF ExecuteLate
  <2>2. LateFits' /\ late' \in [Requests -> Lates]
    <3>1. ASSUME NEW q \in Requests PROVE LateFit(q)'
      <4>1. late'[q] = "none" \/ late'[q] = late[q]
        BY <1>0, <2>1 DEF TypeOK
      <4> QED BY <1>0, <1>k, <2>1, <4>1, LatesKept
    <3> QED BY <1>0, <2>1, <3>1 DEF LateFits, TypeOK, Lates
  <2>3. TableKept
    <3>1. table' = table \/ table' = TRUE
      BY <1>5 DEF ExecuteLate
    <3>2. table' \in BOOLEAN /\ (table => table')
      BY <1>0, <3>1 DEF TypeOK
    <3> QED BY <1>0, <2>1, <2>2, <3>2 DEF TableKept, TypeOK, TableBeforeUse
  <2>4. Leaves(r, call[r], "done", answer[r])
    <3>1. pc[r] = "done" /\ answer[r] \in {0, 200, 500}
      BY <1>0, <2>1 DEF LateFits, LateFit
    <3> QED BY <1>0, <2>1, <3>1 DEF Leaves, TypeOK
  <2> QED BY <1>k, <2>3, <2>4, OneRequest
<1>4. CASE UNCHANGED vars
  BY <1>4 DEF vars, Inductive, TypeOK, PendingFits, LateFits, LateFit, TableBeforeUse, RegisteredOnce,
              Valid, Exists, Matches, Row
<1> QED BY <1>1, <1>2, <1>3, <1>4, <1>5 DEF Next

(* Types hold, and no handler reaches a statement on a table that does not exist,   *)
(* for every number of isolates that bootstrap, fail to or restart.                 *)
THEOREM StatementsHaveTable == Spec => [](TypeOK /\ TableBeforeUse)
<1>1. Inductive => TypeOK /\ TableBeforeUse
  BY DEF Inductive
<1> QED BY <1>1, InitInductive, NextInductive, PTL DEF Spec

(* Types hold: a row is one register or the migration writes, an answer one of those  *)
(* the routes give.                                                                   *)
THEOREM WorkerTypes == Spec => []TypeOK
<1>1. Inductive => TypeOK
  BY DEF Inductive
<1> QED BY <1>1, InitInductive, NextInductive, PTL DEF Spec

(* However many registrations of a name interleave, one at most is told 201 and its *)
(* row still holds the password it chose.                                           *)
THEOREM RegistrationsUnique == Spec => []RegisteredOnce
<1>1. Inductive => RegisteredOnce
  BY DEF Inductive
<1> QED BY <1>1, InitInductive, NextInductive, PTL DEF Spec

(* No step of any request changes the password of an account that exists, or takes *)
(* a migrated hash back.                                                           *)
THEOREM PasswordsStable == Spec => PasswordStable
<1> DEFINE Kept == \A n \in Names :
                     Exists(n) => /\ users'[n].password = users[n].password
                                  /\ users[n].scheme = "pbkdf2" => users'[n].scheme = "pbkdf2"
<1>1. Inductive /\ [Next]_vars => Kept
  BY StepKeepsRows DEF Inductive, RowsKept
<1>2. Inductive /\ [Next]_vars => [Kept]_vars
  BY <1>1
<1> QED BY <1>2, InitInductive, NextInductive, PTL DEF Spec, PasswordStable

(* The worker seen through the refinement mapping. *)
opens == [n \in Names |-> IF Exists(n) THEN {users[n].password} ELSE {}]
asked == [r \in Requests |-> IF pc[r] = "new" \/ ~Valid(call[r])
                              THEN [route |-> "none"] ELSE call[r]]
outcome == [r \in Requests |-> IF Unanswered(r) THEN "unanswered"
                               ELSE Outcome(answer[r], call[r])]

(* An answer tells the client that asked, and nobody else. *)
LEMMA ReplyTells ==
    ASSUME Inductive, NEW r \in Requests, pc[r] \in Awaits, UNCHANGED call,
           NEW status \in Statuses \ {0}, Reply(r, status)
    PROVE  /\ asked' = asked
           /\ outcome[r] = "nothing"
           /\ outcome' = [outcome EXCEPT ![r] = Outcome(status, call[r])]
<1>1. answer[r] = 0
  BY DEF Inductive, PendingFits, Awaits
<1>2. /\ answer' = [answer EXCEPT ![r] = status]
      /\ \A q \in Requests : pc'[q] = "new" <=> pc[q] = "new"
      /\ \A q \in Requests \ {r} : pc'[q] = pc[q]
      /\ pc[r] # "done"
  BY DEF Reply, Inductive, TypeOK, Awaits
<1>3. asked' = asked
  BY <1>2 DEF asked, Valid
<1>4. outcome[r] = "nothing"
  BY <1>1, <1>2 DEF outcome, Outcome, Unanswered
<1>5. outcome' = [outcome EXCEPT ![r] = Outcome(status, call[r])]
  <2>1. /\ answer'[r] = status /\ status # 0
        /\ \A q \in Requests \ {r} : answer'[q] = answer[q]
    BY <1>2 DEF Inductive, TypeOK, Statuses
  <2>2. /\ pc'[r] = "done" /\ Unanswered(r)' = FALSE
        /\ \A q \in Requests \ {r} : Unanswered(q)' = Unanswered(q)
    <3>1. pc'[r] = "done"
      BY DEF Reply, Inductive, TypeOK
    <3> QED BY <1>2, <2>1, <3>1 DEF Unanswered, Valid
  <2>3. ASSUME NEW q \in Requests
        PROVE  outcome'[q] = IF q = r THEN Outcome(status, call[r]) ELSE outcome[q]
    BY <2>1, <2>2 DEF outcome
  <2> QED BY <2>3 DEF outcome
<1> QED BY <1>3, <1>4, <1>5

(* Going on to the next statement tells nobody anything. *)
LEMMA AwaitTellsNothing ==
    ASSUME Inductive, NEW r \in Requests, pc[r] \in Awaits, UNCHANGED call,
           NEW where \in Awaits, Await(r, where)
    PROVE  asked' = asked /\ outcome' = outcome
<1>1. answer' = answer /\ \A q \in Requests : /\ pc'[q] = "new" <=> pc[q] = "new"
                                              /\ pc'[q] = "done" <=> pc[q] = "done"
  BY DEF Await, Inductive, TypeOK, Awaits
<1>2. \A q \in Requests : Unanswered(q)' = Unanswered(q)
  BY <1>1 DEF Unanswered, Valid
<1>3. outcome' = outcome
  BY <1>1, <1>2 DEF outcome
<1> QED BY <1>1, <1>3 DEF asked, Valid

(* A row stored for a name without one opens that account; stored over a row with *)
(* the same password, it changes nothing.                                         *)
LEMMA StoreOpens ==
    ASSUME TypeOK, NEW r \in Requests, StoreRow(r)
    PROVE  /\ ~Exists(call[r].name) =>
                /\ opens[call[r].name] = {}
                /\ opens' = [opens EXCEPT ![call[r].name] = {call[r].password}]
           /\ Exists(call[r].name) /\ Matches(r) => opens' = opens
<1>1. call[r].name \in Names
  BY DEF TypeOK, Calls
<1>2. /\ users'[call[r].name].scheme # "none"
      /\ users'[call[r].name].password = call[r].password
      /\ \A n \in Names : n # call[r].name => users'[n] = users[n]
  BY <1>1 DEF StoreRow, Hash, TypeOK
<1>3. CASE ~Exists(call[r].name)
  <2>1. opens[call[r].name] = {}
    BY <1>1, <1>3 DEF opens
  <2>2. opens' = [opens EXCEPT ![call[r].name] = {call[r].password}]
    BY <1>1, <1>2, <1>3 DEF opens, Exists
  <2> QED BY <1>3, <2>1, <2>2
<1>4. CASE Exists(call[r].name) /\ Matches(r)
  <2>1. opens' = opens
    BY <1>1, <1>2, <1>4 DEF opens, Exists, Matches, Row
  <2> QED BY <1>4, <2>1
<1> QED BY <1>3, <1>4

(* Every step of the worker is a step of the registry or none. *)
LEMMA StepRefines ==
    ASSUME Inductive, [Next]_vars
    PROVE  Registry!Next \/ UNCHANGED <<opens, asked, outcome>>
<1>0. TypeOK /\ PendingFits /\ LateFits
  BY DEF Inductive
<1>u. users' = users => opens' = opens
  BY DEF opens, Exists
<1>1. ASSUME NEW r \in Requests, NEW c \in Calls, Fetch(r, c)
      PROVE  Registry!Ask(r) \/ UNCHANGED <<opens, asked, outcome>>
  <2>1. /\ pc[r] = "new" /\ answer[r] = 0 /\ users' = users
        /\ call' = [call EXCEPT ![r] = c]
    BY <1>0, <1>1 DEF Fetch, PendingFits
  <2>2. (Reply(r, 400) /\ ~Valid(c)) \/ \E w \in Awaits : Await(r, w)
    BY <1>1 DEF Fetch, Dispatch, Awaits
  <2>3. /\ answer'[r] \in {0, 400} /\ pc'[r] # "new" /\ call'[r] = c
        /\ \A q \in Requests \ {r} :
             answer'[q] = answer[q] /\ pc'[q] = pc[q] /\ call'[q] = call[q]
    BY <1>0, <2>1, <2>2 DEF Reply, Await, TypeOK, Awaits
  <2>4. outcome' = outcome
    <3>1. Outcome(answer[r], call[r]) = "nothing" /\ Outcome(answer'[r], c) = "nothing"
      BY <2>1, <2>3 DEF Outcome
    <3>2. ~Unanswered(r) /\ ~Unanswered(r)'
      <4>1. pc'[r] = "done" => answer'[r] = 400
        BY <1>0, <2>1, <2>2 DEF Reply, Await, TypeOK, Awaits
      <4> QED BY <2>1, <4>1 DEF Unanswered
    <3>3. \A q \in Requests \ {r} : Unanswered(q)' <=> Unanswered(q)
      BY <2>3 DEF Unanswered, Valid
    <3> QED BY <2>3, <3>1, <3>2, <3>3 DEF outcome
  <2>5. CASE ~Valid(c)
    <3>1. asked' = asked
      BY <2>1, <2>3, <2>5 DEF asked, Valid
    <3> QED BY <1>u, <2>1, <2>4, <3>1
  <2>6. CASE Valid(c)
    <3>1. asked[r] = [route |-> "none"]
      BY <2>1 DEF asked
    <3>2. asked'[r] = c /\ asked' = [asked EXCEPT ![r] = c]
      <4>1. pc'[r] # "new" /\ Valid(call'[r])
        BY <2>3, <2>6
      <4>2. asked'[r] = c
        BY <2>3, <4>1 DEF asked
      <4>3. \A q \in Requests \ {r} : asked'[q] = asked[q]
        BY <2>3 DEF asked
      <4> QED BY <4>2, <4>3 DEF asked
    <3>3. c \in Registry!Calls
      BY DEF Calls, Routes, Registry!Calls
    <3> QED BY <1>u, <2>1, <2>4, <3>1, <3>2, <3>3
            DEF Registry!Ask, Registry!Nothing, opens, asked, outcome
  <2> QED BY <2>5, <2>6
<1>2. ASSUME NEW r \in Requests, Step(r)
      PROVE  Registry!Answer(r) \/ UNCHANGED <<opens, asked, outcome>>
  <2>1. pc[r] \in Awaits /\ UNCHANGED call /\ call[r] \in Calls /\ call[r].name \in Names
    <3>1. pc[r] \in Awaits /\ UNCHANGED call
      BY <1>2 DEF Step, Bootstrap, BootstrapFails, SelectId, SelectPassword, SelectFails,
                  Insert, InsertFails, Update, UpdateFails, Awaits
    <3>2. call[r] \in Calls
      BY <1>0 DEF TypeOK
    <3> QED BY <3>1, <3>2 DEF Calls
  <2>a. ASSUME NEW w \in Awaits, Await(r, w), UNCHANGED users
        PROVE  UNCHANGED <<opens, asked, outcome>>
    BY <1>u, <2>1, <2>a, AwaitTellsNothing
  <2>v. pc[r] \in {"select", "insert", "update"} => asked[r] = call[r]
    BY <1>0 DEF PendingFits, asked
  <2> DEFINE Told(what) == /\ asked' = asked /\ outcome[r] = "nothing"
                           /\ outcome' = [outcome EXCEPT ![r] = what]
                           /\ outcome'[r] = what
  <2>w. ASSUME Reply(r, 200), call[r].route = "/login", asked[r] = call[r],
               call[r].password \in opens[call[r].name], opens' = opens
        PROVE  Registry!Answer(r)
    <3>1. Outcome(200, call[r]) = "admitted"
      BY <2>w DEF Outcome
    <3>2. Told("admitted")
      BY <2>1, <2>w, <3>1, ReplyTells DEF outcome, Statuses
    <3> QED BY <2>w, <3>2
            DEF Registry!Answer, Registry!Admit, Registry!Tell, Registry!Asks,
                Registry!Opens, opens, asked, outcome
  <2>e. ASSUME Reply(r, 500), opens' = opens
        PROVE  Registry!Answer(r)
    <3>1. Told("error")
      <4>1. Outcome(500, call[r]) = "error"
        BY <2>e DEF Outcome
      <4> QED BY <2>1, <2>e, <4>1, ReplyTells DEF outcome, Statuses
    <3> QED BY <2>e, <3>1 DEF Registry!Answer, Registry!Error, Registry!Tell, opens, asked, outcome
  <2>b. CASE Bootstrap(r)
    <3>1. CASE ~Valid(call[r]) /\ Reply(r, 400)
      <4>1. Outcome(400, call[r]) = "nothing"
        BY <3>1 DEF Outcome
      <4>2. asked' = asked /\ outcome[r] = "nothing"
            /\ outcome' = [outcome EXCEPT ![r] = "nothing"]
        BY <2>1, <3>1, <4>1, ReplyTells DEF Statuses
      <4>3. outcome' = outcome
        BY <4>2 DEF outcome
      <4> QED BY <1>u, <2>b, <4>2, <4>3 DEF Bootstrap
    <3>2. CASE Await(r, "insert") \/ Await(r, "select")
      BY <2>a, <2>b, <3>2 DEF Bootstrap, Awaits
    <3> QED BY <2>b, <3>1, <3>2 DEF Bootstrap, Dispatch
  <2>c. CASE BootstrapFails(r) \/ SelectFails(r) \/ UpdateFails(r)
    BY <1>u, <2>c, <2>e DEF BootstrapFails, SelectFails, UpdateFails, Fails
  <2>d. CASE SelectId(r)
    <3>0. call[r].route = "/register" /\ asked[r] = call[r] /\ users' = users
      BY <2>d, <2>v DEF SelectId
    <3>1. CASE Exists(call[r].name) /\ Reply(r, 409)
      <4>1. Outcome(409, call[r]) = "taken"
        BY <3>1 DEF Outcome
      <4>2. Told("taken")
        BY <2>1, <3>1, <4>1, ReplyTells DEF outcome, Statuses
      <4>3. opens[call[r].name] # {}
        BY <2>1, <3>1 DEF opens
      <4> QED BY <1>u, <3>0, <4>2, <4>3
              DEF Registry!Answer, Registry!Taken, Registry!Tell, Registry!Asks,
                  Registry!Opens, opens, asked, outcome
    <3>2. CASE Await(r, "insert")
      BY <2>a, <3>0, <3>2 DEF Awaits
    <3> QED BY <2>d, <3>1, <3>2 DEF SelectId
  <2>g. CASE SelectPassword(r)
    <3>0. call[r].route = "/login" /\ asked[r] = call[r] /\ users' = users
      BY <2>g, <2>v DEF SelectPassword
    <3>1. CASE Verifies(r, "pbkdf2") /\ Reply(r, 200)
      <4>1. call[r].password \in opens[call[r].name]
        BY <2>1, <3>1 DEF opens, Verifies, Exists, Matches, Row
      <4> QED BY <1>u, <2>w, <3>0, <3>1, <4>1
    <3>2. CASE Await(r, "update")
      BY <2>a, <3>0, <3>2 DEF Awaits
    <3>3. CASE ~Verifies(r, "pbkdf2") /\ ~Verifies(r, "sha256") /\ Reply(r, 401)
      <4>1. Outcome(401, call[r]) = "refused"
        BY <3>3 DEF Outcome
      <4>2. Told("refused")
        BY <2>1, <3>3, <4>1, ReplyTells DEF outcome, Statuses
      <4>3. users[call[r].name] \in Rows
        BY <1>0, <2>1 DEF TypeOK
      <4>4. call[r].password \notin opens[call[r].name]
        BY <2>1, <3>3, <4>3 DEF opens, Rows, Verifies, Exists, Matches, Row
      <4> QED BY <1>u, <3>0, <4>2, <4>4
              DEF Registry!Answer, Registry!Refuse, Registry!Tell, Registry!Asks,
                  Registry!Opens, opens, asked, outcome
    <3> QED BY <2>g, <3>1, <3>2, <3>3 DEF SelectPassword
  <2>h. CASE Insert(r) \/ InsertFails(r)
    <3>0. /\ asked[r] = call[r] /\ pc[r] = "insert"
          /\ call[r].route \in {"/register", "/debug/insert"}
      BY <1>0, <2>h, <2>v DEF Insert, InsertFails, PendingFits
    <3>1. \/ opens' = opens
          \/ /\ ~Exists(call[r].name) /\ StoreRow(r)
             /\ opens[call[r].name] = {}
             /\ opens' = [opens EXCEPT ![call[r].name] = {call[r].password}]
      BY <1>0, <1>u, <2>h, StoreOpens DEF Insert, InsertFails, Violates
    <3>2. CASE call[r].route = "/debug/insert" /\ Reply(r, 200)
      <4>1. Outcome(200, call[r]) = "reported"
        BY <3>2 DEF Outcome
      <4>2. Told("reported")
        BY <2>1, <3>2, <4>1, ReplyTells DEF outcome, Statuses
      <4> QED BY <3>0, <3>1, <3>2, <4>2
              DEF Registry!Answer, Registry!Report, Registry!Tell, Registry!Asks,
                  Registry!Open, Registry!Opens, opens, asked, outcome
    <3>3. CASE opens' = opens /\ Reply(r, 500)
      BY <2>e, <3>3
    <3>4. CASE /\ call[r].route = "/register" /\ Reply(r, 201)
               /\ ~Violates(r) /\ StoreRow(r)
      <4>1. Outcome(201, call[r]) = "created"
        BY <3>4 DEF Outcome
      <4>2. Told("created")
        BY <2>1, <3>4, <4>1, ReplyTells DEF outcome, Statuses
      <4>3. /\ opens[call[r].name] = {}
            /\ opens' = [opens EXCEPT ![call[r].name] = {call[r].password}]
        BY <1>0, <3>4, StoreOpens DEF Violates
      <4> QED BY <3>0, <3>4, <4>2, <4>3
              DEF Registry!Answer, Registry!Register, Registry!Tell, Registry!Asks,
                  Registry!Open, Registry!Opens, opens, asked, outcome
    <3> QED BY <1>u, <2>h, <3>0, <3>2, <3>3, <3>4 DEF Insert, InsertFails, InsertReply
  <2>i. CASE Update(r)
    <3>1. /\ call[r].route = "/login" /\ Exists(call[r].name) /\ Matches(r)
          /\ asked[r] = call[r]
      BY <1>0, <2>i, <2>v DEF Update, PendingFits
    <3>2. opens' = opens /\ Reply(r, 200)
      BY <1>0, <2>i, <3>1, StoreOpens DEF Update
    <3>3. call[r].password \in opens[call[r].name]
      BY <2>1, <3>1 DEF opens, Matches, Row
    <3> QED BY <2>w, <3>1, <3>2, <3>3
  <2> QED BY <1>2, <2>b, <2>c, <2>d, <2>g, <2>h, <2>i DEF Step
<1>3. ASSUME NEW i \in Isolates, Restart(i)
      PROVE  \E S \in SUBSET Requests : Registry!Abandon(S)
  <2> DEFINE S == {q \in Requests : Killed(q, i) /\ Valid(call[q])}
  <2>1. /\ UNCHANGED <<users, call, answer>>
        /\ \A q \in Requests : pc'[q] = IF Killed(q, i) THEN "done" ELSE pc[q]
        /\ \A q \in Requests : pc'[q] = "new" <=> pc[q] = "new"
    BY <1>3 DEF Restart, Killed, Awaits
  <2>2. asked' = asked
    BY <2>1 DEF asked, Valid
  <2>3. \A q \in S : asked[q] # [route |-> "none"] /\ outcome[q] = "nothing"
    <3> SUFFICES ASSUME NEW q \in S
                 PROVE  asked[q] # [route |-> "none"] /\ outcome[q] = "nothing"
      OBVIOUS
    <3>1. pc[q] \in Awaits /\ Valid(call[q])
      BY DEF Killed
    <3>2. call[q].route \in Routes /\ answer[q] = 0
      BY <1>0, <3>1 DEF TypeOK, Calls, PendingFits, Awaits
    <3>3. asked[q] = call[q] /\ call[q] # [route |-> "none"]
      <4>1. [route |-> "none"].route = "none" /\ "none" \notin Routes
        BY DEF Routes
      <4> QED BY <3>1, <3>2, <4>1 DEF asked, Awaits
    <3>4. outcome[q] = "nothing"
      BY <3>1, <3>2 DEF outcome, Outcome, Unanswered, Awaits
    <3> QED BY <3>3, <3>4
  <2>4. outcome' = [q \in Requests |-> IF q \in S THEN "unanswered" ELSE outcome[q]]
    <3> SUFFICES ASSUME NEW q \in Requests
                 PROVE  outcome'[q] = IF q \in S THEN "unanswered" ELSE outcome[q]
      BY DEF outcome
    <3>1. CASE q \in S
      <4>1. answer[q] = 0
        BY <1>0, <3>1 DEF PendingFits, Killed, Awaits
      <4> QED BY <2>1, <3>1, <4>1 DEF outcome, Unanswered, Valid
    <3>2. CASE q \notin S
      <4>1. Unanswered(q)' <=> Unanswered(q)
        BY <2>1, <3>2 DEF Unanswered, Valid, Killed, Awaits
      <4> QED BY <2>1, <3>2, <4>1 DEF outcome
    <3> QED BY <3>1, <3>2
  <2>5. Registry!Abandon(S)
    <3> HIDE DEF S
    <3> QED BY <1>u, <2>1, <2>2, <2>3, <2>4
            DEF Registry!Abandon, Registry!Nothing, opens, asked, outcome
  <2> QED BY <2>5
<1>5. ASSUME NEW r \in Requests, ExecuteLate(r)
      PROVE  Registry!Late(r) \/ UNCHANGED <<opens, asked, outcome>>
  <2>1. late[r] # "none" /\ UNCHANGED <<pc, call, answer>>
    BY <1>5 DEF ExecuteLate
  <2>2. asked' = asked /\ outcome' = outcome
    BY <2>1 DEF asked, outcome, Unanswered, Valid
  <2>3. CASE UNCHANGED users
    BY <1>u, <2>2, <2>3
  <2>4. CASE late[r] = "update" /\ StoreRow(r)
    <3>1. Exists(call[r].name) /\ Matches(r)
      BY <1>0, <2>4 DEF LateFits, LateFit
    <3> QED BY <1>0, <2>2, <2>4, <3>1, StoreOpens
  <2>5. CASE late[r] = "insert" /\ ~Violates(r) /\ StoreRow(r)
    <3>1. /\ pc[r] = "done" /\ answer[r] \in {0, 200, 500} /\ Valid(call[r])
          /\ call[r].route \in {"/register", "/debug/insert"}
          /\ answer[r] = 200 => call[r].route = "/debug/insert"
      BY <1>0, <2>5 DEF LateFits, LateFit
    <3>2. asked[r] = call[r]
      BY <3>1 DEF asked
    <3>3. outcome[r] \in {"error", "unanswered", "reported"}
      <4>1. CASE answer[r] = 0
        BY <3>1, <4>1 DEF outcome, Unanswered
      <4>2. CASE answer[r] = 200
        BY <3>1, <4>2 DEF outcome, Unanswered, Outcome
      <4>3. CASE answer[r] = 500
        BY <3>1, <4>3 DEF outcome, Unanswered, Outcome
      <4> QED BY <3>1, <4>1, <4>2, <4>3
    <3>4. /\ opens[call[r].name] = {}
          /\ opens' = [opens EXCEPT ![call[r].name] = {call[r].password}]
      BY <1>0, <2>5, StoreOpens DEF Violates
    <3> QED BY <2>2, <3>1, <3>2, <3>3, <3>4
            DEF Registry!Late, Registry!Asks, Registry!Open, Registry!Opens, opens, asked, outcome
  <2> QED BY <1>5, <2>3, <2>4, <2>5 DEF ExecuteLate
<1>4. CASE UNCHANGED vars
  BY <1>u, <1>4 DEF vars, asked, outcome, Outcome, Unanswered, Valid
<1> QED BY <1>1, <1>2, <1>3, <1>4, <1>5 DEF Next, Registry!Next

(* A new or an inherited database is a registry nobody has asked anything yet. *)
LEMMA InitRefines == Init => Registry!Init
<1> SUFFICES ASSUME Init PROVE Registry!Init
  OBVIOUS
<1>1. TypeOK
  BY InitInductive DEF Inductive
<1>2. opens \in [Names -> {{}} \cup {{p} : p \in Passwords}]
  BY <1>1 DEF TypeOK, Rows, opens
<1>3. /\ asked = [r \in Requests |-> [route |-> "none"]]
      /\ outcome = [r \in Requests |-> "nothing"]
  BY DEF Init, asked, outcome, Outcome, Unanswered
<1> QED BY <1>2, <1>3 DEF Registry!Init, Registry!Nothing, opens, asked, outcome

(* The worker implements the registry: every answer is one the registry could give  *)
(* at the step that gives it, however the requests' statements interleave, isolates *)
(* restart and D1 fails.                                                            *)
THEOREM WorkerImplementsAccounts == Spec => ImplementsAccounts
<1>1. Inductive /\ [Next]_vars => [Registry!Next]_(Registry!vars)
  BY StepRefines DEF Registry!vars, opens, asked, outcome
<1> QED BY <1>1, InitInductive, InitRefines, NextInductive, PTL
        DEF Spec, ImplementsAccounts, Registry!Spec
=============================================================================
