--------------------------- MODULE WorkflowBodies ---------------------------
(***************************************************************************)
(* WorkflowRun with the one await of a workflow's worker that nothing      *)
(* bounds.  The timer of a request and the signal of a lost lease guard it *)
(* until the head of the answer is there: cancellationAwareFetch then      *)
(* takes its listeners off, and so does workerRequest with its timer.  The *)
(* body is read after that, and a body that does not come keeps the worker *)
(* waiting while its other loop goes on renewing the lease.                *)
(***************************************************************************)
EXTENDS WorkflowRun

VARIABLE stalled    \* workers that wait for the body of an answer

bodyVars == <<vars, stalled>>

-----------------------------------------------------------------------------
\* The calls of executeWorkflow that read a body: the status of a child, the
\* projections that a payload or the outputs refer to, and the answer to an
\* enqueue request.  None is begun once the signal is aborted.
ReadsBody(r) ==
    /\ ~ r.lost
    /\ \/ r.stage \in {"poll", "enqueue"}
       \/ r.stage = "submit" /\ Refs[r.at] # {}
       \/ r.stage = "pass" /\ r.done = Steps /\ Outputs # {}

\* The head of an answer has come and its body has not: in the handler, or in
\* claimTask, where the broker has lent the task already.
BodyBegins(w) ==
    /\ w \notin stalled
    /\ \/ ReadsBody(run[w]) /\ UNCHANGED vars
       \/ Claim(w) /\ UNCHANGED run
    /\ stalled' = stalled \cup {w}

\* A worker waits until its execution goes on (the body came, or broke off) or
\* the process dies.  That the lease is lost does not reach it.
StillWaiting(w) == run'[w] = [run[w] EXCEPT !.lost = run'[w].lost]

Waiting == stalled' = {w \in stalled : StillWaiting(w)}

-----------------------------------------------------------------------------
BodyInit == RunInit /\ stalled = {}

BodyNext ==
    \/ \E w \in Workers : BodyBegins(w)
    \/ RunNext /\ Waiting

BodySpec == BodyInit /\ [][BodyNext]_bodyVars

-----------------------------------------------------------------------------
\* Fairness: a worker that does not wait for a body takes its steps (its other
\* awaits are timed) and claims what waits; a run that keeps starting passes is
\* at some pass older than maxRunMs (strong fairness); heartbeats, whose bodies
\* nobody reads, find out that a lease is gone; requests are answered or time
\* out, and a lease nobody heartbeats runs out.  Nothing is assumed of bodies,
\* of the children, of crashes or of lost messages.
Believed == \E w \in Workers : run[w].stage # "idle" /\ HoldsLease(w, run[w].epoch)

Discovers(w) == ~ HoldsLease(w, run[w].epoch) /\ LoseLease(w)

BodyFairSpec ==
    /\ BodySpec
    /\ \A w \in Workers :
          /\ WF_bodyVars(w \notin stalled /\ Claim(w) /\ Waiting)
          /\ WF_bodyVars(w \notin stalled /\ Executes(w) /\ Waiting)
          /\ SF_bodyVars(w \notin stalled /\ TimeIsUp(w) /\ Waiting)
          /\ WF_bodyVars(Discovers(w) /\ Waiting)
    /\ WF_bodyVars((\E req \in net : RequestStep(req)) /\ Waiting)
    /\ WF_bodyVars(~ Believed /\ Recover /\ Waiting)

\* Whatever its children do, also if they never end, a workflow does not stay
\* with its workers for ever: it ends, or was claimed as often as the bound on
\* claims allows.  The exception is the code's own: a worker that holds the
\* lease, or every worker, waits for ever for a body that no timer guards.
WorkflowEnds ==
    \/ <>(phase \in {"done", "gone"} \/ epoch = MaxEpoch)
    \/ \E w \in Workers : <>[](w \in stalled /\ HoldsLease(w, run[w].epoch))
    \/ \A w \in Workers : <>[](w \in stalled)
=============================================================================
