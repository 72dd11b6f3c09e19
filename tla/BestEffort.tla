------------------------------ MODULE BestEffort ------------------------------
(* What an in-process exporter with retries promises about each item handed to *)
(* it, and no more: its receiver sees a bounded number of copies, some perhaps *)
(* late; an item that is settled - delivered or given up - stays so; and what  *)
(* counts as delivered was received.                                           *)
EXTENDS Naturals

CONSTANTS Items,      \* what is exported
          MaxCopies   \* most copies of one item a receiver may see

VARIABLES status,     \* status[i]: how far item i has come
          copies      \* copies[i]: how many copies the receiver got

vars == <<status, copies>>

Init == /\ status = [i \in Items |-> "new"]
        /\ copies = [i \in Items |-> 0]

(* a newcomer may push pending items out of a full buffer *)
Offer(i, S) == /\ status[i] = "new"
               /\ \A j \in S : status[j] = "pending"
               /\ status' = [j \in Items |-> IF j = i THEN "pending"
                                             ELSE IF j \in S THEN "gone"
                                             ELSE status[j]]
               /\ UNCHANGED copies

(* items travel together when the exporter batches them *)
Receive(S) == /\ \A i \in S : status[i] # "new" /\ copies[i] < MaxCopies
              /\ copies' = [i \in Items |-> IF i \in S THEN copies[i] + 1
                                                       ELSE copies[i]]
              /\ UNCHANGED status

Deliver(S) == /\ \A i \in S : status[i] = "pending" /\ copies[i] > 0
              /\ status' = [i \in Items |-> IF i \in S THEN "delivered"
                                                       ELSE status[i]]
              /\ UNCHANGED copies

(* overflow, a failed last attempt, or the loss of the whole process *)
GiveUp(S) == /\ \A i \in S : status[i] = "pending"
             /\ status' = [i \in Items |-> IF i \in S THEN "gone" ELSE status[i]]
             /\ UNCHANGED copies

Next == \E S \in SUBSET Items : \/ \E i \in Items : Offer(i, S)
                                \/ Receive(S) \/ Deliver(S) \/ GiveUp(S)

Spec == Init /\ [][Next]_vars
=============================================================================
