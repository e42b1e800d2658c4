------------------------------ MODULE MCGateway ------------------------------
(* Gateway on few requests.                                                 *)
EXTENDS Gateway

\* The worker's queue with either repository, background tasks, and no start at all.
Deployed ==
  [schedule : {TRUE}, use_queue : {TRUE}, postgres : BOOLEAN]
  \cup {[schedule |-> TRUE, use_queue |-> FALSE, postgres |-> FALSE],
        [schedule |-> FALSE, use_queue |-> FALSE, postgres |-> TRUE]}
=============================================================================
