--------------------------- MODULE MCWorkerBroker ---------------------------
(***************************************************************************)
(* Small instances of WorkerBroker for TLC: the sessions a1 and a2 belong  *)
(* to one worker, b1 to another.                                           *)
(***************************************************************************)
EXTENDS WorkerBroker, TLC

CONSTANTS a1, a2, b1

Workers    == [s \in Sessions |-> IF s = b1 THEN "worker-b" ELSE "worker-a"]
OneSlot    == [s \in Sessions |-> 1]
BunWorkers == [s \in Sessions |-> "bun"]
Names      == [s \in Sessions |-> {"a"}]

PowerBackoff == [r \in 0..20 |-> 2 * 2^r]

OneRequest ==
    {[task_name |-> "a", task_type |-> "bun", priority |-> 0, max_retries |-> 1]}
=============================================================================
