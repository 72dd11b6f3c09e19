------------------------------- MODULE Accounts -------------------------------
(* What the auth worker promises its clients: a registry in which each request     *)
(* takes effect at one instant. A name belongs to whom was first, its password     *)
(* never changes, and an answer is what the registry says at that instant. Only an *)
(* error, or no answer at all, leaves open whether and when the request has its    *)
(* effect.                                                                         *)
CONSTANTS Requests,  \* request identities
          Names, Passwords

VARIABLES opens,     \* what opens each account: its password, or nothing
          asked,     \* what a request asks: route, name, password
          outcome    \* what its client was told

vars == <<opens, asked, outcome>>

Calls == [route : {"/register", "/login", "/debug/insert"},
          name : Names, password : Passwords]
Nothing == [route |-> "none"]

Init == /\ opens \in [Names -> {{}} \cup {{p} : p \in Passwords}]
        /\ asked = [r \in Requests |-> Nothing]
        /\ outcome = [r \in Requests |-> "nothing"]

Ask(r) == /\ asked[r] = Nothing /\ asked'[r] \in Calls
          /\ asked' = [asked EXCEPT ![r] = asked'[r]]
          /\ UNCHANGED <<opens, outcome>>

Asks(r, route) == asked[r].route = route
Tell(r, what) == outcome' = [outcome EXCEPT ![r] = what]
Opens(r) == opens[asked[r].name]
Open(r) == /\ Opens(r) = {}
           /\ opens' = [opens EXCEPT ![asked[r].name] = {asked[r].password}]

Register(r) == Asks(r, "/register") /\ Open(r) /\ Tell(r, "created")

Taken(r) == /\ Asks(r, "/register") /\ Opens(r) # {}
            /\ Tell(r, "taken") /\ UNCHANGED opens

Admit(r) == /\ Asks(r, "/login") /\ asked[r].password \in Opens(r)
            /\ Tell(r, "admitted") /\ UNCHANGED opens

Refuse(r) == /\ Asks(r, "/login") /\ asked[r].password \notin Opens(r)
             /\ Tell(r, "refused") /\ UNCHANGED opens

(* the debug handler answers alike whether it inserted or not *)
Report(r) == /\ Asks(r, "/debug/insert")
             /\ Open(r) \/ UNCHANGED opens
             /\ Tell(r, "reported")

Error(r) == Tell(r, "error") /\ UNCHANGED opens

Answer(r) == /\ outcome[r] = "nothing" /\ outcome'[r] # "nothing"
             /\ UNCHANGED asked
             /\ \/ Register(r) \/ Taken(r) \/ Admit(r) \/ Refuse(r)
                \/ Report(r) \/ Error(r)

(* the registry's front goes away, with everyone in it *)
Abandon(S) == /\ \A r \in S : asked[r] # Nothing /\ outcome[r] = "nothing"
              /\ outcome' = [r \in Requests |-> IF r \in S THEN "unanswered" ELSE outcome[r]]
              /\ UNCHANGED <<opens, asked>>

(* a registration whose client does not know what became of it has its effect *)
Late(r) == /\ Asks(r, "/register") \/ Asks(r, "/debug/insert")
           /\ outcome[r] \in {"error", "unanswered", "reported"}
           /\ Open(r)
           /\ UNCHANGED <<asked, outcome>>

Next == \/ \E r \in Requests : Ask(r) \/ Answer(r) \/ Late(r)
        \/ \E S \in SUBSET Requests : Abandon(S)

Spec == Init /\ [][Next]_vars
=============================================================================
