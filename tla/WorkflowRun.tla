---------------------------- MODULE WorkflowRun ----------------------------
(***************************************************************************)
(* One workflow.run task and the worker processes that execute it.  A      *)
(* worker claims the task (runWorker, handleClaim), runs the step graph by *)
(* submitting one child task per step and polling them (executeWorkflow),  *)
(* and reports; a second loop in the same process heartbeats the lease and *)
(* aborts the first one when a heartbeat fails.  The lease can be gone     *)
(* long before the worker learns of it, so two workers may execute the     *)
(* workflow at the same time.                                              *)
(*                                                                         *)
(* The queue is what TaskLifecycle promises.  Requests to it may be lost,  *)
(* answered too late, or applied after their sender gave up.               *)
(***************************************************************************)
EXTENDS Naturals, FiniteSets, FiniteSetsExt

CONSTANTS
    Workers,        \* worker processes registered for workflow.run
    NoWorker,
    Steps,          \* 1..n, the steps in the order of the definition
    DependsOn,      \* [Steps -> SUBSET Steps]
    Refs,           \* [Steps -> SUBSET Steps], the $from sources of a payload
    Outputs,        \* the steps that declared outputs refer to
    Values,         \* what a projection holds at the referenced path
    NoValue,        \* no projection, or no such path in it
    NoResult,       \* the workflow has no result
    MaxRetries,     \* max_retries of the workflow task
    MaxEpoch,       \* bound on the claims and cancellations of the workflow
    MaxChild,       \* bound on the child tasks ever created
    MaxInFlight     \* bound on the requests in the network

\* ancestorsOf: the least set that contains the dependencies of s and those of
\* its members.
Ancestors(s) ==
    {d \in Steps : \A C \in SUBSET Steps :
        (DependsOn[s] \subseteq C /\ \A c \in C : DependsOn[c] \subseteq C) => d \in C}

\* validateResultReferencePayload: a payload refers to ancestors only.
ReferencesAccepted ==
    /\ Refs \in [Steps -> SUBSET Steps]
    /\ \A s \in Steps : Refs[s] \subseteq Ancestors(s)

\* parseWorkflowDefinition: there are steps, their dependencies exist and form
\* no cycle.
Accepted ==
    /\ Steps # {}
    /\ DependsOn \in [Steps -> SUBSET Steps]
    /\ \A s \in Steps : s \notin Ancestors(s)
    /\ ReferencesAccepted

\* parseDeclaredWorkflow: an output refers to one of the steps.
OutputsAccepted == Outputs \subseteq Steps

ASSUME DefinitionAssumption ==
    /\ IsFiniteSet(Steps)
    /\ Steps = 1..Cardinality(Steps)
    /\ Accepted
    /\ OutputsAccepted

ASSUME RunAssumption ==
    /\ NoWorker \notin Workers
    /\ NoValue \notin Values
    /\ MaxRetries \in Nat
    /\ MaxEpoch \in Nat
    /\ MaxChild \in Nat
    /\ MaxInFlight \in Nat \ {0}

VARIABLES
    phase, epoch, holder, outcome,  \* the workflow task, as in TaskLifecycle
    failures,   \* its retry_count
    result,     \* its projection: the task id of every step
    children,   \* child tasks: id -> step, resolved payload, status, projection
    lastChild,  \* the last child id
    forgotten,  \* steps of which retention deleted a child
    run,        \* worker -> its execution of handleClaim
    net         \* requests sent and not yet applied or dropped

task == <<phase, epoch, holder, outcome, failures, result>>
kids == <<children, lastChild, forgotten>>
vars == <<task, kids, run, net>>

Terminal == {"COMPLETED", "FAILED", "CANCELLED"}

\* runtime of executeWorkflow: child holds the taskId of a step (0 for null),
\* done the steps whose status is COMPLETED.  stage and at say which awaited
\* call comes next; lost is leaseLost.
NotRunning ==
    [stage |-> "idle", epoch |-> 0, at |-> 0, child |-> [s \in Steps |-> 0],
     done |-> {}, lost |-> FALSE]

-----------------------------------------------------------------------------
(* The two inner loops of executeWorkflow.                                 *)

Completed(r, s) == s \in r.done

Ready(r, s) == \A d \in DependsOn[s] : Completed(r, d)

\* The steps each loop still visits, from position at on.
ToPoll(r)   == {s \in Steps : s >= r.at /\ r.child[s] # 0 /\ ~ Completed(r, s)}
ToSubmit(r) == {s \in Steps : s >= r.at /\ r.child[s] = 0 /\ Ready(r, s)}

AtSubmit(r) ==
    IF ToSubmit(r) # {}
    THEN [r EXCEPT !.stage = "submit", !.at = Min(ToSubmit(r))]
    ELSE [r EXCEPT !.stage = "pass", !.at = 0]

AtPoll(r) ==
    IF ToPoll(r) # {}
    THEN [r EXCEPT !.stage = "poll", !.at = Min(ToPoll(r))]
    ELSE AtSubmit([r EXCEPT !.at = 1])

Threw(r) == [r EXCEPT !.stage = "threw", !.at = 0]

\* An exception leaves executeWorkflow: a refused or failed request, a request
\* timeout, or a fetch begun or pending when the signal is aborted.
Throws(w) ==
    /\ \/ run[w].stage \in {"poll", "submit", "enqueue"}
       \/ run[w].stage = "pass" /\ run[w].done = Steps
    /\ run' = [run EXCEPT ![w] = Threw(@)]
    /\ UNCHANGED <<task, kids, net>>

\* Mutant: a child that was cancelled counts as settled.
PollAcceptsCancelled(w) ==
    LET r == run[w]
        c == r.child[r.at]
    IN  /\ r.stage = "poll"
        /\ ~ r.lost
        /\ c \in DOMAIN children
        /\ children[c].status \in {"active", "COMPLETED", "CANCELLED"}
        /\ run' = [run EXCEPT ![w] =
                     AtPoll([r EXCEPT !.at = @ + 1,
                                      !.done = IF children[c].status # "active"
                                               THEN @ \cup {r.at} ELSE @])]
        /\ UNCHANGED <<task, kids, net>>

\* getChild: a FAILED child, a status it does not know (CANCELLED) and a 404
\* are exceptions (Throws).
Poll(w) ==
    LET r == run[w]
        c == r.child[r.at]
    IN  /\ r.stage = "poll"
        /\ ~ r.lost
        /\ c \in DOMAIN children
        /\ children[c].status \in {"active", "COMPLETED"}
        /\ run' = [run EXCEPT ![w] =
                     AtPoll([r EXCEPT !.at = @ + 1,
                                      !.done = IF children[c].status = "COMPLETED"
                                               THEN @ \cup {r.at} ELSE @])]
        /\ UNCHANGED <<task, kids, net>>

\* The value a reference to child c resolves to.
Projection(c) == IF c \in DOMAIN children THEN children[c].projection ELSE NoValue

\* Mutant: a reference that cannot be resolved is passed on as it is.
ResolvableAnyway(r, S) == TRUE

\* fetchProjection and selectPath succeed for the sources S.
Resolvable(r, S) == \A s \in S : Projection(r.child[s]) # NoValue

\* Mutant: no look at the signal before a request.
SubmitAfterAbort(w) ==
    LET r     == run[w]
        input == [s \in Refs[r.at] |-> Projection(r.child[s])]
    IN  /\ r.stage = "submit"
        /\ Resolvable(r, Refs[r.at])
        /\ Cardinality(net) < MaxInFlight
        /\ net' = net \cup {[kind |-> "enqueue", worker |-> w, epoch |-> r.epoch,
                             step |-> r.at, input |-> input]}
        /\ run' = [run EXCEPT ![w].stage = "enqueue"]
        /\ UNCHANGED <<task, kids>>

\* resolveStepPayload, then the request of enqueueChild.
Submit(w) ==
    LET r     == run[w]
        input == [s \in Refs[r.at] |-> Projection(r.child[s])]
    IN  /\ r.stage = "submit"
        /\ ~ r.lost
        /\ Resolvable(r, Refs[r.at])
        /\ Cardinality(net) < MaxInFlight
        /\ net' = net \cup {[kind |-> "enqueue", worker |-> w, epoch |-> r.epoch,
                             step |-> r.at, input |-> input]}
        /\ run' = [run EXCEPT ![w].stage = "enqueue"]
        /\ UNCHANGED <<task, kids>>

\* The end of a pass: every step is COMPLETED and the declared outputs
\* resolve, so the result file is written and the handler returns ...
Return(w) ==
    /\ run[w].stage = "pass"
    /\ run[w].done = Steps
    /\ Outputs # {} => ~ run[w].lost
    /\ Resolvable(run[w], Outputs)
    /\ run' = [run EXCEPT ![w].stage = "returned"]
    /\ UNCHANGED <<task, kids, net>>

\* ... or it sleeps and starts the next pass ...
NextPass(w) ==
    /\ run[w].stage = "pass"
    /\ run[w].done # Steps
    /\ run' = [run EXCEPT ![w] = AtPoll([@ EXCEPT !.at = 1])]
    /\ UNCHANGED <<task, kids, net>>

\* Mutant: the time limit starts again with every pass.
TimeIsNeverUp(w) ==
    /\ run[w].stage = "pass"
    /\ run[w].done # Steps
    /\ run' = [run EXCEPT ![w] = AtPoll([@ EXCEPT !.at = 1])]
    /\ UNCHANGED <<task, kids, net>>

\* ... unless maxRunMs has passed meanwhile.
TimeIsUp(w) ==
    /\ run[w].stage = "pass"
    /\ run[w].done # Steps
    /\ run' = [run EXCEPT ![w] = Threw(@)]
    /\ UNCHANGED <<task, kids, net>>

-----------------------------------------------------------------------------
(* The worker around the handler.                                          *)

\* claimTask.  An answer that does not arrive leaves the task lent to nobody.
Claim(w) ==
    /\ run[w].stage = "idle"
    /\ phase = "waiting"
    /\ epoch < MaxEpoch
    /\ phase' = "lent"
    /\ epoch' = epoch + 1
    /\ holder' = w
    /\ \/ run' = [run EXCEPT ![w] = AtPoll([NotRunning EXCEPT !.epoch = epoch', !.at = 1])]
       \/ UNCHANGED run
    /\ UNCHANGED <<outcome, failures, result, kids, net>>

HoldsLease(w, e) == phase = "lent" /\ holder = w /\ epoch = e

\* heartbeatLoop: an error of either heartbeat, the broker's 409 and a timeout
\* alike.  The loop runs until the handler returned or threw.
LoseLease(w) ==
    /\ run[w].stage # "idle"
    /\ run' = [run EXCEPT ![w].lost = TRUE]
    /\ UNCHANGED <<task, kids, net>>

\* The end of handleClaim: /v1/task/complete or /v1/task/fail, or nothing when
\* the lease was lost.  What comes of the request is only logged.
Report(w) ==
    LET r    == run[w]
        kind == IF r.stage = "returned" THEN "complete" ELSE "fail"
    IN  /\ r.stage \in {"returned", "threw"}
        /\ Cardinality(net) < MaxInFlight
        /\ net' = IF r.lost THEN net
                  ELSE net \cup {[kind |-> kind, worker |-> w, epoch |-> r.epoch,
                                  steps |-> r.child]}
        /\ run' = [run EXCEPT ![w] = NotRunning]
        /\ UNCHANGED <<task, kids>>

\* The process dies and is started again.
Crash(w) ==
    /\ run[w].stage # "idle"
    /\ run' = [run EXCEPT ![w] = NotRunning]
    /\ UNCHANGED <<task, kids, net>>

-----------------------------------------------------------------------------
(* The queue.                                                              *)

ChildOf(s) == {c \in DOMAIN children : children[c].step = s}

\* The answer to an enqueue request: it reaches its sender unless that has
\* given up or was aborted meanwhile, or the answer is lost.
Answer(req, r) ==
    \/ UNCHANGED run
    \/ /\ run[req.worker].stage = "enqueue"
       /\ run[req.worker].epoch = req.epoch
       /\ run[req.worker].at = req.step
       /\ ~ run[req.worker].lost
       /\ run' = [run EXCEPT ![req.worker] = r]

Accept(r, c) == AtSubmit([r EXCEPT !.child[r.at] = c, !.at = @ + 1])

\* Mutant: the key is new for every claim of the workflow.
EnqueueCreatedPerClaim(req) ==
    /\ req.kind = "enqueue"
    /\ lastChild < MaxChild
    /\ lastChild' = lastChild + 1
    /\ children' = [c \in DOMAIN children \cup {lastChild'} |->
                      IF c = lastChild'
                      THEN [step |-> req.step, input |-> req.input,
                            status |-> "active", projection |-> NoValue]
                      ELSE children[c]]
    /\ net' = net \ {req}
    /\ Answer(req, Accept(run[req.worker], lastChild'))
    /\ UNCHANGED <<task, forgotten>>

\* handleCreateTask under the key wf-<workflow>-<step>: created.
EnqueueCreated(req) ==
    /\ req.kind = "enqueue"
    /\ ChildOf(req.step) = {}
    /\ lastChild < MaxChild
    /\ lastChild' = lastChild + 1
    /\ children' = [c \in DOMAIN children \cup {lastChild'} |->
                      IF c = lastChild'
                      THEN [step |-> req.step, input |-> req.input,
                            status |-> "active", projection |-> NoValue]
                      ELSE children[c]]
    /\ net' = net \ {req}
    /\ Answer(req, Accept(run[req.worker], lastChild'))
    /\ UNCHANGED <<task, forgotten>>

\* Replayed, or refused (409) because the fingerprint is another one.
EnqueueKnown(req) ==
    /\ req.kind = "enqueue"
    /\ \E c \in ChildOf(req.step) :
          IF children[c].input = req.input
          THEN Answer(req, Accept(run[req.worker], c))
          ELSE Answer(req, Threw(run[req.worker]))
    /\ net' = net \ {req}
    /\ UNCHANGED <<task, kids>>

\* A request that never arrives, or is refused (429, 503, 409 of the fence).
Drop(req) ==
    /\ net' = net \ {req}
    /\ UNCHANGED <<task, kids, run>>

\* Mutant: a completion is applied to any task that has not ended.
CompleteUnfenced(req) ==
    /\ req.kind = "complete"
    /\ phase \in {"waiting", "lent"}
    /\ phase' = "done"
    /\ holder' = NoWorker
    /\ outcome' = "COMPLETED"
    /\ result' = req.steps
    /\ net' = net \ {req}
    /\ UNCHANGED <<epoch, failures, kids, run>>

Complete(req) ==
    /\ req.kind = "complete"
    /\ HoldsLease(req.worker, req.epoch)
    /\ phase' = "done"
    /\ holder' = NoWorker
    /\ outcome' = "COMPLETED"
    /\ result' = req.steps
    /\ net' = net \ {req}
    /\ UNCHANGED <<epoch, failures, kids, run>>

Fail(req) ==
    /\ req.kind = "fail"
    /\ HoldsLease(req.worker, req.epoch)
    /\ failures' = failures + 1
    /\ holder' = NoWorker
    /\ IF failures' >= MaxRetries
       THEN phase' = "done" /\ outcome' = "FAILED"
       ELSE phase' = "waiting" /\ UNCHANGED outcome
    /\ net' = net \ {req}
    /\ UNCHANGED <<epoch, result, kids, run>>

\* The lease ran out, with or without a worker that still believes in it.
Recover ==
    /\ phase = "lent"
    /\ phase' = "waiting"
    /\ holder' = NoWorker
    /\ UNCHANGED <<epoch, outcome, failures, result, kids, run, net>>

\* handleCancelWorkflow.  The children are left alone.
CancelWorkflow ==
    /\ phase \in {"waiting", "lent"}
    /\ epoch < MaxEpoch
    /\ phase' = "done"
    /\ epoch' = epoch + 1
    /\ holder' = NoWorker
    /\ outcome' = "CANCELLED"
    /\ UNCHANGED <<failures, result, kids, run, net>>

ForgetWorkflow ==
    /\ phase = "done"
    /\ phase' = "gone"
    /\ epoch' = 0
    /\ outcome' = "none"
    /\ result' = NoResult
    /\ UNCHANGED <<holder, failures, kids, run, net>>

\* Mutant: a late completion overwrites the projection.
ChildEndsAgain(c, status, value) ==
    /\ children[c].status \in {"active", status}
    /\ status # "COMPLETED" => value = NoValue
    /\ children' = [children EXCEPT ![c].status = status, ![c].projection = value]
    /\ UNCHANGED <<task, lastChild, forgotten, run, net>>

\* A child ends: its worker completes it, with or without a usable
\* projection, or it fails or is cancelled.
ChildEnds(c, status, value) ==
    /\ children[c].status = "active"
    /\ status # "COMPLETED" => value = NoValue
    /\ children' = [children EXCEPT ![c].status = status, ![c].projection = value]
    /\ UNCHANGED <<task, lastChild, forgotten, run, net>>

\* Retention deletes a finished child, with its result and its key.
ForgetChild(c) ==
    /\ children[c].status \in Terminal
    /\ forgotten' = forgotten \cup {children[c].step}
    /\ children' = [d \in DOMAIN children \ {c} |-> children[d]]
    /\ UNCHANGED <<task, lastChild, run, net>>

-----------------------------------------------------------------------------
\* handleCreateWorkflow has submitted the task.
RunInit ==
    /\ phase = "waiting" /\ epoch = 0 /\ holder = NoWorker /\ outcome = "none"
    /\ failures = 0
    /\ result = NoResult
    /\ children = [c \in {} |-> {}]
    /\ lastChild = 0
    /\ forgotten = {}
    /\ run = [w \in Workers |-> NotRunning]
    /\ net = {}

Executes(w) ==
    \/ Poll(w) \/ Submit(w) \/ Return(w) \/ NextPass(w) \/ TimeIsUp(w)
    \/ Throws(w) \/ Report(w)

WorkerStep(w) == Claim(w) \/ Executes(w) \/ LoseLease(w) \/ Crash(w)

RequestStep(req) ==
    \/ EnqueueCreated(req) \/ EnqueueKnown(req)
    \/ Complete(req) \/ Fail(req)
    \/ Drop(req)

QueueStep == Recover \/ CancelWorkflow \/ ForgetWorkflow

ChildStep ==
    \/ \E c \in DOMAIN children, status \in Terminal, value \in Values \cup {NoValue} :
          ChildEnds(c, status, value)
    \/ \E c \in DOMAIN children : ForgetChild(c)

RunNext ==
    \/ \E w \in Workers : WorkerStep(w)
    \/ \E req \in net : RequestStep(req)
    \/ QueueStep
    \/ ChildStep

RunSpec == RunInit /\ [][RunNext]_vars

-----------------------------------------------------------------------------
\* However often the workflow is claimed, by however many workers at once, and
\* whichever answers are lost, a step has one child task; a second one exists
\* only after retention deleted the first.
OneChildPerStep ==
    \A c, d \in DOMAIN children : children[c].step = children[d].step => c = d

\* No child was ever submitted before its dependencies were durably completed
\* (their tasks are COMPLETED, or were until retention deleted them), and its
\* payload holds, for each of its references, the projection its ancestor
\* durably has, also when the ancestor was executed for an earlier claim by
\* another worker.
InputsDurable ==
    \A c \in DOMAIN children, s \in Steps :
        /\ s \in DependsOn[children[c].step] =>
              s \in forgotten \/ \E d \in ChildOf(s) : children[d].status = "COMPLETED"
        /\ s \in Refs[children[c].step] =>
              /\ children[c].input[s] \in Values
              /\ s \in forgotten \/ \E d \in ChildOf(s) : children[d].projection = children[c].input[s]

\* A replay never meets the fingerprint conflict of its own key: all workers
\* compute the same payload for a step.  Only retention can break this, when
\* it deletes an ancestor and its second execution answers differently.
ReplayAgrees ==
    \A req \in net, c \in DOMAIN children :
        (req.kind = "enqueue" /\ children[c].step = req.step) =>
            \/ children[c].input = req.input
            \/ forgotten # {}

\* What a client reads of a completed workflow (handleResult): a task of each
\* step that really completed, whoever reported it and whenever.
PublicResult == IF phase = "done" /\ outcome = "COMPLETED" THEN result ELSE NoResult

ResultTrue ==
    PublicResult # NoResult =>
        \A s \in Steps :
            \/ s \in forgotten
            \/ /\ result[s] \in ChildOf(s)
               /\ children[result[s]].status = "COMPLETED"

\* A worker that knows it lost its lease begins no further child and reports
\* nothing (cancellation-propagation.test.ts; handleClaim after leaseLost).
LostRunStops ==
    [][\A w \in Workers : run[w].lost => {r \in net' : r.worker = w} \subseteq net]_vars

\* The workflow task moves only as the queue's life cycle allows, so that this
\* module relies on nothing that TaskQueue was not shown to implement.
L == INSTANCE TaskLifecycle WITH
        Ids     <- {1},
        phase   <- [t \in {1} |-> phase],
        epoch   <- [t \in {1} |-> epoch],
        holder  <- [t \in {1} |-> holder],
        outcome <- [t \in {1} |-> outcome]

QueueContract == [][L!Next]_(L!lifecycle)
=============================================================================
