---------------------------- MODULE MCQueueConsumer ----------------------------
(* Three messages, one of them the text the /queue route sends, two concurrent    *)
(* invocations, batches of two and one retry.                                     *)
EXTENDS QueueConsumer, TLC

CONSTANTS text, j1, j2, c1, c2

MCMessages == {text, j1, j2}
MCJson == {j1, j2}
MCConsumers == {c1, c2}

(* a database whose table is there from the start *)
TableSpec == Init /\ table = TRUE /\ [][Next]_vars
=============================================================================
