------------------------ MODULE TaskQueueRefinement ------------------------
(***************************************************************************)
(* The queue implements TaskLifecycle.  An ASSIGNED task still waits: the  *)
(* dispatcher has chosen a session for it, but the task is lent, and its   *)
(* generation grows, only when that session claims it.                     *)
(***************************************************************************)
EXTENDS TaskQueue

Phase(t) ==
    CASE t > lastId                                          -> "unborn"
      [] t <= lastId /\ t \notin DOMAIN tasks                -> "gone"
      [] t \in DOMAIN tasks /\ tasks[t].status = "RUNNING"   -> "lent"
      [] t \in DOMAIN tasks /\ tasks[t].status \in Terminal  -> "done"
      [] OTHER                                               -> "waiting"

Holder(t) == IF Phase(t) = "lent" THEN tasks[t].locked_by ELSE NoSession

Outcome(t) == IF Phase(t) = "done" THEN tasks[t].status ELSE "none"

L == INSTANCE TaskLifecycle WITH
        Ids      <- 1..MaxId,
        Workers  <- Sessions,
        NoWorker <- NoSession,
        phase    <- [t \in 1..MaxId |-> Phase(t)],
        epoch    <- [t \in 1..MaxId |-> Generation(t)],
        holder   <- [t \in 1..MaxId |-> Holder(t)],
        outcome  <- [t \in 1..MaxId |-> Outcome(t)]

\* Every behaviour of the tables is a behaviour of the abstract life cycle:
\* each transaction lends, takes back, finishes, cancels or forgets tasks in
\* the one way the life cycle allows, or is invisible to it.
ImplementsLifecycle == L!Spec
=============================================================================
