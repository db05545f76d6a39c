---------------------------- MODULE MCTaskQueue ----------------------------
(***************************************************************************)
(* Small instances of TaskQueue for TLC: sessions of one worker type,      *)
(* with one slot, or with one and two.                                     *)
(***************************************************************************)
EXTENDS TaskQueueRefinement, TLC

CONSTANTS w1, w2

MoreSlots  == [s \in Sessions |-> IF s = w2 THEN 2 ELSE 1]
OneSlot    == [s \in Sessions |-> 1]
BunWorkers == [s \in Sessions |-> "bun"]
Names      == [s \in Sessions |-> {"a"}]

\* 2.0f64.powi(capped_retry) * 2.0, in the clock's units.
PowerBackoff == [r \in 0..20 |-> 2 * 2^r]

Request(name, priority, max_retries) ==
    [task_name |-> name, task_type |-> "bun", priority |-> priority, max_retries |-> max_retries]

TwoTries == {Request("a", 0, 2)}

Symmetry == Permutations(Keys) \cup Permutations(Fingerprints)
=============================================================================
