--------------------------- MODULE TaskLifecycle ---------------------------
(***************************************************************************)
(* What the queue promises about one task, with no tables, clocks or       *)
(* deadlines: a task is submitted once, is lent to one worker at a time    *)
(* under a strictly increasing epoch, is finished at most once, and is     *)
(* forgotten only after it is finished.                                    *)
(***************************************************************************)
EXTENDS Naturals

CONSTANTS Ids, Workers, NoWorker

VARIABLES
    phase,      \* Ids -> where the task is in its life
    epoch,      \* Ids -> how often its ownership was decided
    holder,     \* Ids -> the worker it is lent to
    outcome     \* Ids -> how it ended

lifecycle == <<phase, epoch, holder, outcome>>

Init ==
    /\ phase = [t \in Ids |-> "unborn"]
    /\ epoch = [t \in Ids |-> 0]
    /\ holder = [t \in Ids |-> NoWorker]
    /\ outcome = [t \in Ids |-> "none"]

Submit(t) ==
    /\ phase[t] = "unborn"
    /\ phase' = [phase EXCEPT ![t] = "waiting"]
    /\ UNCHANGED <<epoch, holder, outcome>>

Lend(t, w) ==
    /\ phase[t] = "waiting"
    /\ phase' = [phase EXCEPT ![t] = "lent"]
    /\ epoch' = [epoch EXCEPT ![t] = @ + 1]
    /\ holder' = [holder EXCEPT ![t] = w]
    /\ UNCHANGED outcome

\* Tasks come back: one worker gives up, or the leases of several ran out.
TakeBack(T) ==
    /\ \A t \in T : phase[t] = "lent"
    /\ phase' = [t \in Ids |-> IF t \in T THEN "waiting" ELSE phase[t]]
    /\ holder' = [t \in Ids |-> IF t \in T THEN NoWorker ELSE holder[t]]
    /\ UNCHANGED <<epoch, outcome>>

\* The worker that holds the task reports how it ended.
Finish(t, o) ==
    /\ phase[t] = "lent"
    /\ phase' = [phase EXCEPT ![t] = "done"]
    /\ holder' = [holder EXCEPT ![t] = NoWorker]
    /\ outcome' = [outcome EXCEPT ![t] = o]
    /\ UNCHANGED epoch

\* Cancellation ends the task and the epoch of whoever held it.
Cancel(t) ==
    /\ phase[t] \in {"waiting", "lent"}
    /\ phase' = [phase EXCEPT ![t] = "done"]
    /\ epoch' = [epoch EXCEPT ![t] = @ + 1]
    /\ holder' = [holder EXCEPT ![t] = NoWorker]
    /\ outcome' = [outcome EXCEPT ![t] = "CANCELLED"]

Forget(T) ==
    /\ \A t \in T : phase[t] = "done"
    /\ phase' = [t \in Ids |-> IF t \in T THEN "gone" ELSE phase[t]]
    /\ epoch' = [t \in Ids |-> IF t \in T THEN 0 ELSE epoch[t]]
    /\ outcome' = [t \in Ids |-> IF t \in T THEN "none" ELSE outcome[t]]
    /\ UNCHANGED holder

Next ==
    \/ \E t \in Ids : Submit(t)
    \/ \E t \in Ids, w \in Workers : Lend(t, w)
    \/ \E T \in SUBSET Ids : TakeBack(T)
    \/ \E t \in Ids, o \in {"COMPLETED", "FAILED"} : Finish(t, o)
    \/ \E t \in Ids : Cancel(t)
    \/ \E T \in SUBSET Ids : Forget(T)

Spec == Init /\ [][Next]_lifecycle
=============================================================================
