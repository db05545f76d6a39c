----------------------------- MODULE TaskQueue -----------------------------
(***************************************************************************)
(* The durable task queue of the Rust core: the four SQLite tables tasks,  *)
(* task_lease_fences, task_results and task_idempotency, and the           *)
(* transactions that sync_queue.rs, lease_fence.rs, result_projection.rs,  *)
(* cancellation.rs, idempotency.rs, retention.rs and the dispatcher of     *)
(* worker_protocol.rs run on them.  Every transaction is opened with       *)
(* BEGIN IMMEDIATE, so one action per transaction is exact.  What is not   *)
(* atomic is the clock: every operation calls now_f64() BEFORE it obtains  *)
(* the write lock and uses the value afterwards, so each action takes a    *)
(* "now" that may lag behind the clock.                                    *)
(*                                                                         *)
(* A table is a function whose domain is the set of its primary keys.      *)
(***************************************************************************)
EXTENDS Integers, FiniteSets, FiniteSetsExt

CONSTANTS
    Sessions,       \* worker session ids, the owners written in locked_by
    NoSession,      \* SQL NULL in locked_by
    Capacity,       \* [Sessions -> Nat], slots a session registered with
    WorkerType,     \* [Sessions -> task types]
    TaskNames,      \* [Sessions -> sets of task names it advertises]
    TaskSpecs,      \* enqueue requests [task_name, task_type, priority, max_retries]
    Keys,           \* idempotency keys
    Fingerprints,   \* request fingerprints
    Lease,          \* lease_sec, the time a dispatch or a heartbeat grants
    Backoff,        \* [0..20 -> Nat], the retry delay by clamped retry_count
    MaxLag,         \* bound on how stale a now_f64() value may be when used
    MaxActive,      \* x-queue-max-active-tasks
    MaxTerminal,    \* --terminal-retention-max
    MaxId,          \* largest rowid AUTOINCREMENT can hand out
    MaxGeneration,  \* largest generation checked_add can produce
    MaxClock        \* bound on the model's clock

ASSUME SessionsAssumption ==
    /\ NoSession \notin Sessions
    /\ Capacity \in [Sessions -> Nat]

ASSUME SpecsAssumption ==
    \A spec \in TaskSpecs : spec.priority \in Int /\ spec.max_retries \in Nat

ASSUME TimeAssumption ==
    /\ Lease \in Nat \ {0}
    /\ MaxLag \in Nat
    /\ MaxClock \in Nat
    /\ Backoff \in [0..20 -> Nat]

ASSUME BoundsAssumption ==
    /\ MaxActive \in Nat \ {0}
    /\ MaxTerminal \in Nat \ {0}
    /\ MaxId \in Nat
    /\ MaxGeneration \in Nat

VARIABLES
    tasks,      \* table tasks: id -> row
    fences,     \* table task_lease_fences: task id -> generation
    results,    \* table task_results: task id -> lease_generation
    idem,       \* table task_idempotency: key -> [fingerprint, task]
    lastId,     \* sqlite_sequence entry of tasks (AUTOINCREMENT)
    clock,      \* real time, in lease units
    granted,    \* claim responses workers have been sent
    acks        \* enqueue responses clients have been sent

tables == <<tasks, fences, results, idem, lastId>>
vars == <<tasks, fences, results, idem, lastId, clock, granted, acks>>

-----------------------------------------------------------------------------
(* Rows and their states.                                                  *)

Held     == {"ASSIGNED", "RUNNING"}
Active   == {"PENDING"} \cup Held
Terminal == {"COMPLETED", "FAILED", "CANCELLED"}

\* SQL NULL in locked_until.
NoDeadline == -1

Row == [spec         : TaskSpecs,
        status       : Active \cup Terminal,
        retry_count  : Nat,
        locked_by    : Sessions \cup {NoSession},
        locked_until : Int,
        scheduled_at : Int,
        updated_at   : Int]

\* A claim response: the lease a worker believes it holds.  "at" is the time
\* the claim committed, before which the worker cannot act on it.
Grant == [task : Nat, generation : Nat, session : Sessions, at : Int]

TypeOK ==
    /\ lastId \in 0..MaxId
    /\ DOMAIN tasks \subseteq 1..lastId
    /\ tasks \in [DOMAIN tasks -> Row]
    /\ fences \in [DOMAIN fences -> 1..MaxGeneration]
    /\ results \in [DOMAIN results -> 1..MaxGeneration]
    /\ DOMAIN idem \subseteq Keys
    /\ idem \in [DOMAIN idem -> [fingerprint : Fingerprints, task : 1..lastId]]
    /\ clock \in 0..MaxClock
    /\ granted \subseteq Grant
    /\ acks \subseteq [key : Keys, fingerprint : Fingerprints, task : 1..lastId]

\* The values now_f64() can have returned to an operation that commits now.
ReadClock == {t \in 0..clock : clock - t <= MaxLag}

\* COALESCE(fence.generation, 0).
Generation(t) == IF t \in DOMAIN fences THEN fences[t] ELSE 0

\* INSERT ... ON CONFLICT(task_id) DO UPDATE SET generation.
SetFence(t, g) == [u \in DOMAIN fences \cup {t} |-> IF u = t THEN g ELSE fences[u]]

\* The columns that UPDATE tasks writes when it moves a row to a status.
SetLease(row, status, owner, until, now) ==
    [spec         |-> row.spec,
     status       |-> status,
     retry_count  |-> row.retry_count,
     locked_by    |-> owner,
     locked_until |-> until,
     scheduled_at |-> row.scheduled_at,
     updated_at   |-> now]

\* The transition out of a lease: locked_by = NULL, locked_until = NULL.
Unlocked(row, status, now) == SetLease(row, status, NoSession, NoDeadline, now)

\* ORDER BY priority DESC, id ASC.
Before(t, u) ==
    \/ tasks[t].spec.priority > tasks[u].spec.priority
    \/ tasks[t].spec.priority = tasks[u].spec.priority /\ t < u

-----------------------------------------------------------------------------
(* Submission.                                                             *)

NewRow(spec, now) ==
    [spec |-> spec, status |-> "PENDING", retry_count |-> 0,
     locked_by |-> NoSession, locked_until |-> NoDeadline,
     scheduled_at |-> now, updated_at |-> now]

\* INSERT INTO tasks: AUTOINCREMENT takes the next rowid never used before.
InsertTask(spec, now) ==
    /\ lastId < MaxId
    /\ lastId' = lastId + 1
    /\ tasks' = [t \in DOMAIN tasks \cup {lastId + 1} |->
                    IF t = lastId + 1 THEN NewRow(spec, now) ELSE tasks[t]]

\* RobustSinkhornQueue::enqueue, the local API without an idempotency key.
Enqueue(spec, now) ==
    /\ InsertTask(spec, now)
    /\ UNCHANGED <<fences, results, idem, clock, granted, acks>>

ActiveTasks == {t \in DOMAIN tasks : tasks[t].status \in Active}

\* enqueue_bounded when the key is unknown and there is room: Created.
EnqueueCreated(key, fp, spec, now) ==
    /\ key \notin DOMAIN idem
    /\ Cardinality(ActiveTasks) < MaxActive
    /\ InsertTask(spec, now)
    /\ idem' = [k \in DOMAIN idem \cup {key} |->
                   IF k = key THEN [fingerprint |-> fp, task |-> lastId'] ELSE idem[k]]
    /\ acks' = acks \cup {[key |-> key, fingerprint |-> fp, task |-> lastId']}
    /\ UNCHANGED <<fences, results, clock, granted>>

\* enqueue_bounded when the key is known: Replayed.  (Conflict and Full
\* change nothing and acknowledge no task.)
EnqueueReplayed(key, fp) ==
    /\ key \in DOMAIN idem
    /\ idem[key].fingerprint = fp
    /\ acks' = acks \cup {[key |-> key, fingerprint |-> fp, task |-> idem[key].task]}
    /\ UNCHANGED <<tables, clock, granted>>

-----------------------------------------------------------------------------
(* Dispatch.                                                               *)

\* Mutant: the load query counts RUNNING rows only.
LoadRunningOnly(s) ==
    Cardinality({t \in DOMAIN tasks : tasks[t].status = "RUNNING" /\ tasks[t].locked_by = s})

Load(s) == Cardinality({t \in DOMAIN tasks : tasks[t].status \in Held /\ tasks[t].locked_by = s})

AvailableSlots(s) == Capacity[s] - Load(s)

Supports(s, t) ==
    /\ WorkerType[s] = tasks[t].spec.task_type
    /\ tasks[t].spec.task_name \in TaskNames[s]

\* One iteration of the by_type loop, for the task type k: the SELECT's
\* WHERE clause, then its ORDER BY and LIMIT total_available.
Runnable(open, now) ==
    {t \in DOMAIN tasks : /\ tasks[t].status = "PENDING"
                          /\ tasks[t].scheduled_at <= now
                          /\ \E s \in open : Supports(s, t)}

Selected(S, k, now) ==
    LET open  == {s \in S : WorkerType[s] = k /\ AvailableSlots(s) > 0}
        ready == Runnable(open, now)
        total == MapThenSumSet(AvailableSlots, open)
    IN  {t \in ready : Cardinality({u \in ready : Before(u, t)}) < total}

SelectedTasks(S, now) == UNION {Selected(S, WorkerType[s], now) : s \in S}

\* What round_transport_plan_bounded can return: the scores of the Sinkhorn
\* plan decide who gets which task, and for any scores the greedy rounding
\* yields an assignment of compatible tasks within capacity to which no
\* further task can be added.
AssignedTo(a, s) == {t \in DOMAIN a : a[t] = s}

Rounded(a, S) ==
    /\ \A t \in DOMAIN a : a[t] # NoSession => Supports(a[t], t)
    /\ \A s \in S : Cardinality(AssignedTo(a, s)) <=
                        (IF AvailableSlots(s) > 0 THEN AvailableSlots(s) ELSE 0)
    /\ \A t \in AssignedTo(a, NoSession), s \in S :
           Supports(s, t) => Cardinality(AssignedTo(a, s)) >= AvailableSlots(s)

\* dispatch_registered for a snapshot S of the sessions.
Dispatch(S, now) ==
    /\ SelectedTasks(S, now) # {}
    /\ \E a \in [SelectedTasks(S, now) -> S \cup {NoSession}] :
          /\ Rounded(a, S)
          /\ tasks' = [t \in DOMAIN tasks |->
                         IF t \in DOMAIN a /\ a[t] # NoSession
                         THEN SetLease(tasks[t], "ASSIGNED", a[t], now + Lease, now)
                         ELSE tasks[t]]
    /\ UNCHANGED <<fences, results, idem, lastId, clock, granted, acks>>

-----------------------------------------------------------------------------
(* The lease of one task.                                                  *)

Claimable(s, now) ==
    {t \in DOMAIN tasks : /\ tasks[t].status = "ASSIGNED"
                          /\ tasks[t].locked_by = s
                          /\ tasks[t].locked_until >= now}

\* LeaseFence::claim_task: a new generation for the first claimable task.
\* checked_add refuses the generation after the last one.
Claim(s, now) ==
    \E t \in Claimable(s, now) :
        /\ \A u \in Claimable(s, now) \ {t} : Before(t, u)
        /\ Generation(t) < MaxGeneration
        /\ tasks' = [tasks EXCEPT ![t] = SetLease(@, "RUNNING", s, @.locked_until, now)]
        /\ fences' = SetFence(t, Generation(t) + 1)
        /\ granted' = granted \cup {[task |-> t, generation |-> Generation(t) + 1,
                                     session |-> s, at |-> clock]}
        /\ UNCHANGED <<results, idem, lastId, clock, acks>>

\* Mutant: ownership is checked by session alone, as the unfenced
\* RobustSinkhornQueue methods do.
HoldsLeaseUnfenced(s, g, now) ==
    /\ g.task \in DOMAIN tasks
    /\ tasks[g.task].locked_by = s
    /\ tasks[g.task].status = "RUNNING"
    /\ tasks[g.task].locked_until >= now

\* The WHERE clause shared by heartbeat, completion and failure: session s
\* presents the task id and generation of the grant g.
HoldsLease(s, g, now) ==
    /\ g.task \in DOMAIN tasks
    /\ tasks[g.task].locked_by = s
    /\ tasks[g.task].status = "RUNNING"
    /\ tasks[g.task].locked_until >= now
    /\ g.task \in DOMAIN fences
    /\ fences[g.task] = g.generation

\* LeaseFence::heartbeat, applied.
Heartbeat(s, g, now) ==
    /\ HoldsLease(s, g, now)
    /\ tasks' = [tasks EXCEPT ![g.task] = SetLease(@, "RUNNING", s, now + Lease, now)]
    /\ UNCHANGED <<fences, results, idem, lastId, clock, granted, acks>>

\* LeaseFence::complete_task, applied.
CompleteTask(s, g, now) ==
    /\ HoldsLease(s, g, now)
    /\ tasks' = [tasks EXCEPT ![g.task] = Unlocked(@, "COMPLETED", now)]
    /\ UNCHANGED <<fences, results, idem, lastId, clock, granted, acks>>

\* TaskResultStore::complete_with_projection, applied: the plain INSERT fails,
\* and rolls the completion back, when the task already has a result row.
CompleteWithProjection(s, g, now) ==
    /\ HoldsLease(s, g, now)
    /\ g.task \notin DOMAIN results
    /\ tasks' = [tasks EXCEPT ![g.task] = Unlocked(@, "COMPLETED", now)]
    /\ results' = [t \in DOMAIN results \cup {g.task} |->
                      IF t = g.task THEN g.generation ELSE results[t]]
    /\ UNCHANGED <<fences, idem, lastId, clock, granted, acks>>

\* retry_count.clamp(0, 20); the column is never negative.
ClampRetry(n) == IF n > 20 THEN 20 ELSE n

\* The row LeaseFence::fail_task leaves: FAILED when the retries are used up,
\* otherwise PENDING again after the backoff.
FailedRow(row, now) ==
    LET failed == [row EXCEPT !.retry_count = @ + 1]
        next   == now + Backoff[ClampRetry(row.retry_count)]
    IN  IF row.retry_count + 1 >= row.spec.max_retries
        THEN Unlocked(failed, "FAILED", now)
        ELSE Unlocked([failed EXCEPT !.scheduled_at = next], "PENDING", now)

FailTask(s, g, now) ==
    /\ HoldsLease(s, g, now)
    /\ tasks' = [tasks EXCEPT ![g.task] = FailedRow(@, now)]
    /\ UNCHANGED <<fences, results, idem, lastId, clock, granted, acks>>

\* A worker acts on a grant, under any session, after it received it.
WorkerStep ==
    \E s \in Sessions, g \in granted, now \in ReadClock :
        /\ now >= g.at
        /\ \/ Heartbeat(s, g, now)
           \/ CompleteTask(s, g, now)
           \/ CompleteWithProjection(s, g, now)
           \/ FailTask(s, g, now)

-----------------------------------------------------------------------------
(* Cancellation and maintenance.                                           *)

\* Mutant: a cancellation leaves the fence alone.
CancelTaskUnfenced(t, now) ==
    /\ tasks[t].status \in Active
    /\ tasks' = [tasks EXCEPT ![t] = Unlocked(@, "CANCELLED", now)]
    /\ UNCHANGED <<fences, results, idem, lastId, clock, granted, acks>>

\* CancellationStore::cancel_task, applied.  (Replayed, NotFound and
\* Terminal change nothing.)
CancelTask(t, now) ==
    /\ tasks[t].status \in Active
    /\ Generation(t) < MaxGeneration
    /\ fences' = SetFence(t, Generation(t) + 1)
    /\ tasks' = [tasks EXCEPT ![t] = Unlocked(@, "CANCELLED", now)]
    /\ UNCHANGED <<results, idem, lastId, clock, granted, acks>>

\* Mutant: a lease is over at its deadline instead of after it.
ExpiredAtDeadline(now) ==
    {t \in DOMAIN tasks : tasks[t].status \in Held /\ tasks[t].locked_until <= now}

\* Mutant: assigned tasks that nobody claimed are forgotten.
ExpiredRunningOnly(now) ==
    {t \in DOMAIN tasks : tasks[t].status = "RUNNING" /\ tasks[t].locked_until < now}

Expired(now) ==
    {t \in DOMAIN tasks : tasks[t].status \in Held /\ tasks[t].locked_until < now}

\* RobustSinkhornQueue::recover_expired_leases.
RecoverExpired(now) ==
    /\ Expired(now) # {}
    /\ tasks' = [t \in DOMAIN tasks |->
                   IF t \in Expired(now) THEN Unlocked(tasks[t], "PENDING", now) ELSE tasks[t]]
    /\ UNCHANGED <<fences, results, idem, lastId, clock, granted, acks>>

TerminalTasks == {t \in DOMAIN tasks : tasks[t].status \in Terminal}

\* ORDER BY updated_at ASC, id ASC among the terminal rows.
Older(t, u) ==
    \/ tasks[t].updated_at < tasks[u].updated_at
    \/ tasks[t].updated_at = tasks[u].updated_at /\ t < u

\* Mutant: retention keeps one task too few.
PrunableOneTooMany ==
    {t \in TerminalTasks :
        Cardinality({u \in TerminalTasks : Older(u, t)}) <=
            Cardinality(TerminalTasks) - MaxTerminal}

Prunable ==
    {t \in TerminalTasks :
        Cardinality({u \in TerminalTasks : Older(u, t)}) <
            Cardinality(TerminalTasks) - MaxTerminal}

\* Mutant: the fences of pruned tasks are left behind.
PruneToMaxKeepsFences ==
    /\ Cardinality(TerminalTasks) > MaxTerminal
    /\ idem' = [k \in {k \in DOMAIN idem : idem[k].task \notin Prunable} |-> idem[k]]
    /\ results' = [t \in DOMAIN results \ Prunable |-> results[t]]
    /\ tasks' = [t \in DOMAIN tasks \ Prunable |-> tasks[t]]
    /\ UNCHANGED <<fences, lastId, clock, granted, acks>>

\* Mutant: the keys of all finished tasks are dropped, not only the pruned ones.
PruneToMaxDropsKeys ==
    /\ Cardinality(TerminalTasks) > MaxTerminal
    /\ idem' = [k \in {k \in DOMAIN idem : idem[k].task \notin TerminalTasks} |-> idem[k]]
    /\ fences' = [t \in DOMAIN fences \ Prunable |-> fences[t]]
    /\ results' = [t \in DOMAIN results \ Prunable |-> results[t]]
    /\ tasks' = [t \in DOMAIN tasks \ Prunable |-> tasks[t]]
    /\ UNCHANGED <<lastId, clock, granted, acks>>

\* TerminalRetentionStore::prune_to_max.  The four DELETEs share one
\* sub-select; the first three leave tasks alone, so it returns the same rows.
PruneToMax ==
    /\ Cardinality(TerminalTasks) > MaxTerminal
    /\ idem' = [k \in {k \in DOMAIN idem : idem[k].task \notin Prunable} |-> idem[k]]
    /\ fences' = [t \in DOMAIN fences \ Prunable |-> fences[t]]
    /\ results' = [t \in DOMAIN results \ Prunable |-> results[t]]
    /\ tasks' = [t \in DOMAIN tasks \ Prunable |-> tasks[t]]
    /\ UNCHANGED <<lastId, clock, granted, acks>>

Tick ==
    /\ clock < MaxClock
    /\ clock' = clock + 1
    /\ UNCHANGED <<tables, granted, acks>>

-----------------------------------------------------------------------------
Init ==
    /\ tasks = [t \in {} |-> {}]
    /\ fences = [t \in {} |-> 0]
    /\ results = [t \in {} |-> 0]
    /\ idem = [k \in {} |-> {}]
    /\ lastId = 0
    /\ clock = 0
    /\ granted = {}
    /\ acks = {}

ClientStep ==
    \/ \E now \in ReadClock, spec \in TaskSpecs : Enqueue(spec, now)
    \/ \E now \in ReadClock, spec \in TaskSpecs, key \in Keys, fp \in Fingerprints :
          EnqueueCreated(key, fp, spec, now)
    \/ \E key \in Keys, fp \in Fingerprints : EnqueueReplayed(key, fp)
    \/ \E now \in ReadClock, t \in DOMAIN tasks : CancelTask(t, now)

BrokerStep ==
    \/ \E now \in ReadClock, S \in SUBSET Sessions : Dispatch(S, now)
    \/ \E now \in ReadClock, s \in Sessions : Claim(s, now)

Maintenance ==
    \/ \E now \in ReadClock : RecoverExpired(now)
    \/ PruneToMax

Next == ClientStep \/ BrokerStep \/ WorkerStep \/ Maintenance \/ Tick

Spec == Init /\ [][Next]_vars

-----------------------------------------------------------------------------
(* What the queue promises.                                                *)

\* Every state a lease can be in agrees with the columns that describe it: a
\* row is ASSIGNED or RUNNING exactly when it names an owner and a deadline.
\* A row that kept an owner after its lease ended would count against the
\* capacity of that session for ever (loads in dispatch_registered).
RowCoherent(row) ==
    /\ row.status \in Held <=> row.locked_by # NoSession
    /\ row.status \in Held <=> row.locked_until # NoDeadline

LockCoherent == \A t \in DOMAIN tasks : RowCoherent(tasks[t])

\* The rows of the three side tables belong to a task that still exists: what
\* prune_to_max deletes it deletes everywhere, and nothing is recreated for a
\* task that is gone.
Referential ==
    /\ DOMAIN fences \subseteq DOMAIN tasks
    /\ DOMAIN results \subseteq DOMAIN tasks
    /\ \A k \in DOMAIN idem : idem[k].task \in DOMAIN tasks

\* A (task id, generation) pair is a capability given out once, over the whole
\* life of the database: retention deletes fences, and only because the id of
\* a pruned task is never reused can an old claim response not match a new
\* task's first generation.
GrantUnique ==
    \A g, h \in granted : g.task = h.task /\ g.generation = h.generation => g = h

\* The lease fence: whoever can still heartbeat, complete or fail a task, with
\* whatever session and claim response, is the session that claimed it last,
\* presenting the response of that claim.  No worker that lost its lease to a
\* recovery, a retry or a cancellation can ever act on the task again, even
\* when the task went back to that very worker.
LeaseExclusive ==
    \A g \in granted, s \in Sessions, now \in ReadClock :
        HoldsLease(s, g, now) =>
            /\ s = g.session
            /\ \A h \in granted : h.task = g.task => h.generation <= g.generation

\* A running task can be finished by somebody: its generation was handed to
\* the session that owns the row.
RunningIsGranted ==
    \A t \in DOMAIN tasks : tasks[t].status = "RUNNING" =>
        \E g \in granted : /\ g.task = t
                           /\ g.generation = Generation(t)
                           /\ g.session = tasks[t].locked_by

\* Cancellation fences off every worker that ever claimed the task.
CancelledIsFenced ==
    \A t \in DOMAIN tasks, g \in granted :
        tasks[t].status = "CANCELLED" /\ g.task = t => g.generation < Generation(t)

\* A stored result was written by the claim that completed the task: the task
\* is COMPLETED and the result carries its final generation.
ResultIntegrity ==
    \A t \in DOMAIN results :
        /\ t \in DOMAIN tasks
        /\ tasks[t].status = "COMPLETED"
        /\ results[t] = Generation(t)

\* Two answers for one idempotency key name one task, unless retention deleted
\* the first task before the second request came.
IdempotentAcks ==
    \A a, b \in acks : a.key = b.key /\ a.task < b.task => a.task \notin DOMAIN tasks

\* No session is ever given more tasks than it registered slots for, counting
\* the assigned tasks it has not claimed yet.
CapacityRespected ==
    \A s \in Sessions :
        Cardinality({t \in DOMAIN tasks : tasks[t].status \in Held /\ tasks[t].locked_by = s})
            <= Capacity[s]

\* A task fails at most max_retries times (once when max_retries is 0), and is
\* FAILED exactly when it used them up; a recovered lease costs no retry.
RowWithinBudget(row) ==
    IF row.status = "FAILED"
    THEN /\ row.retry_count >= row.spec.max_retries
         /\ row.retry_count = 1 \/ row.retry_count = row.spec.max_retries
    ELSE row.retry_count = 0 \/ row.retry_count < row.spec.max_retries

RetryBudget == \A t \in DOMAIN tasks : RowWithinBudget(tasks[t])

\* A live lease is not taken away: while its deadline lies ahead, a task
\* leaves RUNNING only through its holder or a cancellation, never back to
\* PENDING by lease recovery (which leaves retry_count alone).
LiveLeaseKept ==
    [][\A t \in DOMAIN tasks \cap DOMAIN tasks' :
          /\ tasks[t].status \in Held
          /\ tasks[t].locked_until >= clock
          /\ tasks'[t].status = "PENDING"
          => tasks'[t].retry_count = tasks[t].retry_count + 1]_vars

\* Retention keeps the newest MaxTerminal finished tasks and never an older
\* one instead of a newer one; it leaves unfinished tasks alone.
RetentionKeepsNewest ==
    [][\A t \in DOMAIN tasks \ DOMAIN tasks' :
          /\ tasks[t].status \in Terminal
          /\ Cardinality({u \in TerminalTasks : Older(t, u)}) >= MaxTerminal]_vars

-----------------------------------------------------------------------------
(* The inductive invariant: what the promises above rest on.               *)

\* A claim response never runs ahead of the fence of its task.
GrantsBounded ==
    \A g \in granted :
        /\ g.task \in 1..lastId
        /\ g.task \in DOMAIN tasks => g.generation <= Generation(g.task)

\* While the task of an acknowledgement exists its key still leads to it, and
\* no acknowledgement is newer than what its key leads to.
AcksBacked ==
    \A a \in acks :
        /\ a.task \in DOMAIN tasks => a.key \in DOMAIN idem /\ idem[a.key].task = a.task
        /\ a.key \in DOMAIN idem => a.task <= idem[a.key].task

\* The fencing protocol as one invariant: locks, fences, grants, results and
\* idempotency keys agree with each other after every transaction.
SafetyInv ==
    /\ LockCoherent
    /\ Referential
    /\ GrantsBounded
    /\ GrantUnique
    /\ RunningIsGranted
    /\ CancelledIsFenced
    /\ ResultIntegrity
    /\ AcksBacked
    /\ RetryBudget

-----------------------------------------------------------------------------
(* Liveness.  The daemon and the broker run their maintenance on a timer for *)
(* as long as they live; their modules state the fairness.                   *)

RecoveryStep == \E now \in ReadClock : RecoverExpired(now)

\* Whatever happens to its worker, a lease that is not renewed ends: a task
\* does not keep one deadline for ever, whether it was claimed or not.  (The
\* deadlines considered are those the model's clock passes.)
LeaseEnds ==
    \A t \in 1..MaxId, d \in 0..(MaxClock - MaxLag - 1) :
        (t \in DOMAIN tasks /\ tasks[t].status \in Held /\ tasks[t].locked_until = d)
        ~> ~ (t \in DOMAIN tasks /\ tasks[t].status \in Held /\ tasks[t].locked_until = d)
=============================================================================
