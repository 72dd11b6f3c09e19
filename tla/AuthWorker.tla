------------------------------ MODULE AuthWorker ------------------------------
(* The auth worker (workers/auth/src/lib.rs) over its D1 users table: lazy         *)
(* bootstrap, register, login with the migration of legacy hashes, and the debug   *)
(* insert.                                                                         *)
(*                                                                                 *)
(* A request runs in one isolate and gives way at every await; each D1 statement   *)
(* is atomic, the requests' statements interleave. A statement whose answer the    *)
(* worker does not see - it is reported as failed, or the isolate goes while it is *)
(* on its way - may still be executed, then or later. A stored hash is what it     *)
(* verifies: its scheme and the password behind it.                                *)
EXTENDS Naturals, FiniteSets

CONSTANTS Requests,    \* request identities
          Isolates,    \* the worker's isolates
          Names,       \* valid user names, and the debug handler's
          DebugName,   \* "debug_insert_user", which is no valid user name
          Passwords,   \* passwords, all valid, and the debug handler's
          DebugPassword,
          LegacyUsers, \* users created before pbkdf2 (name :> password)
          D1Fails      \* whether D1 statements may fail

ASSUME AuthAssumption == /\ DebugName \in Names /\ DebugPassword \in Passwords
                         /\ D1Fails \in BOOLEAN
                         /\ \A n \in DOMAIN LegacyUsers : LegacyUsers[n] \in Passwords

VARIABLES table,     \* the users table exists
          users,     \* its rows: username is UNIQUE
          ready,     \* DB_BOOTSTRAPPED, per isolate
          pc,        \* the await a request is suspended at
          call,      \* what the request asks: route, name, password
          home,      \* the isolate that serves it
          answer,    \* the HTTP status the client got, 0 for none
          late       \* a statement nobody awaits any more that D1 may still execute

vars == <<table, users, ready, pc, call, home, answer, late>>

Absent == [scheme |-> "none", password |-> DebugPassword]
PlainHash(p) == [scheme |-> "plain", password |-> p] \* mutant: stored as it came
Hash(p) == [scheme |-> "pbkdf2", password |-> p]
Legacy(p) == [scheme |-> "sha256", password |-> p]
Rows == [scheme : {"none", "pbkdf2", "sha256"}, password : Passwords]
Exists(n) == users[n].scheme # "none"

Routes == {"/register", "/login", "/debug/insert"}
Calls == {c \in [route : Routes, name : Names, password : Passwords] :
             c.route = "/debug/insert" => c.name = DebugName /\ c.password = DebugPassword}
NoCall == [route |-> "/debug/insert", name |-> DebugName, password |-> DebugPassword]

(* validate_username: the debug name's underscore is not alphanumeric *)
Valid(c) == c.route = "/debug/insert" \/ c.name # DebugName

Awaits == {"bootstrap", "select", "insert", "update"}

(* a new database, or one that older versions of the worker have left users in *)
Init == /\ table \in BOOLEAN
        /\ users = [n \in Names |-> IF table /\ n \in DOMAIN LegacyUsers
                                    THEN Legacy(LegacyUsers[n]) ELSE Absent]
        /\ ready = [i \in Isolates |-> FALSE]
        /\ pc = [r \in Requests |-> "new"]
        /\ call = [r \in Requests |-> NoCall]
        /\ home \in [Requests -> Isolates]
        /\ answer = [r \in Requests |-> 0]
        /\ late = [r \in Requests |-> "none"]

Row(r) == users[call[r].name]
Matches(r) == Row(r).password = call[r].password

Reply(r, status) == /\ pc' = [pc EXCEPT ![r] = "done"]
                    /\ answer' = [answer EXCEPT ![r] = status]
Await(r, where) == /\ pc' = [pc EXCEPT ![r] = where]
                   /\ UNCHANGED answer

(* the statement a request has sent, if executing it changes anything *)
Sent(r) == IF pc[r] = "select" THEN "none" ELSE pc[r]

(* The first statement of the handler of c, or the 400 of a failed validation. *)
Dispatch(r, c) ==
    \/ ~Valid(c) /\ Reply(r, 400)
    \/ Valid(c) /\ c.route = "/debug/insert" /\ Await(r, "insert")
    \/ Valid(c) /\ c.route # "/debug/insert" /\ Await(r, "select")

(* fetch: bootstrap first if this isolate has not done so *)
Fetch(r, c) == /\ pc[r] = "new"
               /\ call' = [call EXCEPT ![r] = c]
               /\ IF ready[home[r]] THEN Dispatch(r, c) ELSE Await(r, "bootstrap")
               /\ UNCHANGED <<table, users, ready, home, late>>

(* CREATE TABLE IF NOT EXISTS, then the flag, then the route *)
Bootstrap(r) == /\ pc[r] = "bootstrap"
                /\ table' = TRUE
                /\ ready' = [ready EXCEPT ![home[r]] = TRUE]
                /\ Dispatch(r, call[r])
                /\ UNCHANGED <<users, call, home, late>>

(* a statement that fails for the worker: `?` answers 500, D1 may yet execute it *)
Fails(r) == /\ D1Fails
            /\ late' = [late EXCEPT ![r] = Sent(r)]
            /\ Reply(r, 500)

BootstrapFailsReady(r) == \* mutant: the flag is set before the statement's answer
    /\ pc[r] = "bootstrap" /\ Fails(r)
    /\ ready' = [ready EXCEPT ![home[r]] = TRUE]
    /\ UNCHANGED <<table, users, call, home>>
BootstrapFails(r) == /\ pc[r] = "bootstrap" /\ Fails(r)
                     /\ UNCHANGED <<table, users, ready, call, home>>

(* register's SELECT: somebody has the name, or go on to the INSERT *)
SelectId(r) == /\ pc[r] = "select" /\ call[r].route = "/register"
               /\ IF Exists(call[r].name) THEN Reply(r, 409) ELSE Await(r, "insert")
               /\ UNCHANGED <<table, users, ready, call, home, late>>

(* verify_password (pbkdf2) and verify_legacy_sha256 *)
VerifiesAnything(r, scheme) == Row(r).scheme = scheme \* mutant: the password is not compared
VerifiesNew(r, scheme) == scheme = "pbkdf2" /\ Row(r).scheme = scheme /\ Matches(r) \* mutant: no legacy path
Verifies(r, scheme) == Row(r).scheme = scheme /\ Matches(r)

(* login's SELECT and the three arms of its match *)
SelectPassword(r) ==
    /\ pc[r] = "select" /\ call[r].route = "/login"
    /\ \/ Verifies(r, "pbkdf2") /\ Reply(r, 200)
       \/ Verifies(r, "sha256") /\ Await(r, "update")
       \/ ~Verifies(r, "pbkdf2") /\ ~Verifies(r, "sha256") /\ Reply(r, 401)
    /\ UNCHANGED <<table, users, ready, call, home, late>>

SelectFails(r) == /\ pc[r] = "select" /\ Fails(r)
                  /\ UNCHANGED <<table, users, ready, call, home>>

(* INSERT: UNIQUE(username) refuses a second row, as an error of the handler;   *)
(* the debug handler reports either outcome with a 200                          *)
InsertReply(r, ok) == IF call[r].route = "/debug/insert" THEN 200
                      ELSE IF ok THEN 201 ELSE 500

StoreRow(r) == users' = [users EXCEPT ![call[r].name] = Hash(call[r].password)]

NotUnique(r) == FALSE \* mutant: no UNIQUE constraint, the newer row counts
Violates(r) == Exists(call[r].name)

Insert(r) == /\ pc[r] = "insert"
             /\ IF Violates(r)
                THEN Reply(r, InsertReply(r, FALSE)) /\ UNCHANGED users
                ELSE Reply(r, InsertReply(r, TRUE)) /\ StoreRow(r)
             /\ UNCHANGED <<table, ready, call, home, late>>

(* an error of register, caught by the debug handler *)
InsertFails(r) == /\ D1Fails /\ pc[r] = "insert"
                  /\ Reply(r, InsertReply(r, FALSE))
                  /\ late' = [late EXCEPT ![r] = "insert"]
                  /\ UNCHANGED <<table, users, ready, call, home>>

(* UPDATE ... WHERE username: the legacy hash gives way to a pbkdf2 one *)
Update(r) == /\ pc[r] = "update"
             /\ StoreRow(r)
             /\ Reply(r, 200)
             /\ UNCHANGED <<table, ready, call, home, late>>

UpdateFails(r) == /\ pc[r] = "update" /\ Fails(r)
                  /\ UNCHANGED <<table, users, ready, call, home>>

(* An isolate goes: its flag and its requests with it, unanswered, but not the    *)
(* statements they have sent; the next one takes its place.                       *)
Killed(r, i) == home[r] = i /\ pc[r] \in Awaits
Restart(i) == /\ ready' = [ready EXCEPT ![i] = FALSE]
              /\ pc' = [r \in Requests |-> IF Killed(r, i) THEN "done" ELSE pc[r]]
              /\ late' = [r \in Requests |-> IF Killed(r, i) THEN Sent(r) ELSE late[r]]
              /\ UNCHANGED <<table, users, call, home, answer>>

(* D1 executes a statement whose answer reaches nobody; a second row for a name is *)
(* refused to it as to any other                                                   *)
ExecuteLate(r) == /\ \/ late[r] = "bootstrap" /\ table' = TRUE /\ UNCHANGED users
                     \/ late[r] = "insert" /\ ~Violates(r) /\ StoreRow(r) /\ UNCHANGED table
                     \/ late[r] = "update" /\ StoreRow(r) /\ UNCHANGED table
                  /\ late' = [late EXCEPT ![r] = "none"]
                  /\ UNCHANGED <<ready, pc, call, home, answer>>

Step(r) == \/ Bootstrap(r) \/ BootstrapFails(r)
           \/ SelectId(r) \/ SelectPassword(r) \/ SelectFails(r)
           \/ Insert(r) \/ InsertFails(r)
           \/ Update(r) \/ UpdateFails(r)

Next == \/ \E r \in Requests : Step(r) \/ ExecuteLate(r) \/ \E c \in Calls : Fetch(r, c)
        \/ \E i \in Isolates : Restart(i)

Spec == Init /\ [][Next]_vars
-----------------------------------------------------------------------------
(* Every variable keeps its type. *)
TypeOK == /\ table \in BOOLEAN
          /\ users \in [Names -> Rows]
          /\ ready \in [Isolates -> BOOLEAN]
          /\ pc \in [Requests -> Awaits \cup {"new", "done"}]
          /\ call \in [Requests -> Calls]
          /\ home \in [Requests -> Isolates]
          /\ answer \in [Requests -> {0, 200, 201, 400, 401, 409, 500}]
          /\ late \in [Requests -> {"none", "bootstrap", "insert", "update"}]

(* No handler reaches a statement on a table that does not exist yet, whichever  *)
(* isolates have bootstrapped, restarted or failed to.                           *)
TableBeforeUse ==
    /\ \A i \in Isolates : ready[i] => table
    /\ \A r \in Requests : pc[r] \in {"select", "insert", "update"} => table

(* However registrations of one name interleave between SELECT and INSERT, one    *)
(* client at most is told 201, and the row it was told of still holds the         *)
(* password it chose.                                                             *)
RegisteredOnce ==
    \A r \in Requests :
        call[r].route = "/register" /\ answer[r] = 201 =>
            /\ users[call[r].name] = Hash(call[r].password)
            /\ \A q \in Requests \ {r} :
                 answer[q] = 201 => call[q].name # call[r].name

(* An account's password never changes and a migrated hash never goes back to     *)
(* sha256, whatever stale row a login or a register read before its write.        *)
PasswordStable ==
    [][\A n \in Names :
         Exists(n) => /\ users'[n].password = users[n].password
                      /\ users[n].scheme = "pbkdf2" => users'[n].scheme = "pbkdf2"]_vars

(* Seen from its clients the worker is the registry of Accounts, although each        *)
(* request is several statements in one of several isolates: what a register or a     *)
(* login answers is true of the table at the instant it takes effect, a registration  *)
(* that ends in an error or without an answer opens its account later or never, and   *)
(* nothing else happens to an account. A name that fails validation never gets there. *)
Outcome(status, c) == CASE status \in {0, 400} -> "nothing"
                        [] status = 201 -> "created"
                        [] status = 409 -> "taken"
                        [] status = 200 /\ c.route = "/login" -> "admitted"
                        [] status = 200 /\ c.route = "/debug/insert" -> "reported"
                        [] status = 401 -> "refused"
                        [] status = 500 -> "error"

Unanswered(r) == pc[r] = "done" /\ answer[r] = 0 /\ Valid(call[r])

Registry == INSTANCE Accounts WITH
    opens <- [n \in Names |-> IF Exists(n) THEN {users[n].password} ELSE {}],
    asked <- [r \in Requests |-> IF pc[r] = "new" \/ ~Valid(call[r])
                                 THEN [route |-> "none"] ELSE call[r]],
    outcome <- [r \in Requests |-> IF Unanswered(r) THEN "unanswered"
                                   ELSE Outcome(answer[r], call[r])]

ImplementsAccounts == Registry!Spec

(* tests/integration/auth.sh:46 and tests/README.md:42: registering a taken name  *)
(* is answered 409, and register answers 201, 409 or 400.                         *)
RegisterAnswers ==
    \A r \in Requests :
        call[r].route = "/register" => answer[r] \in {0, 201, 409, 400}
=============================================================================
