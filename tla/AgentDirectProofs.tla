------------------------- MODULE AgentDirectProofs -------------------------
(***************************************************************************)
(* The claims of polling agents and the leases of workers, beside each     *)
(* other, for any number of agents, tasks and sessions, any lag of the     *)
(* clock and any restart.  The two sides know nothing of each other: no    *)
(* Rust statement names CLAIMED, and the gateway never looks at a fence.   *)
(*   - A live claim is the agent's: an id is not handed out twice, and a   *)
(*     deadline is a number, so a clock read late cannot pass it early.    *)
(*   - The lease fence of the workers stands, though agents break the      *)
(*     invariant it is proved from in TaskQueueProofs: the weaker FenceInv *)
(*     survives them.                                                      *)
(*   - A worker's live lease is not sent back to PENDING by a poll.        *)
(***************************************************************************)
EXTENDS AgentDirect, TLAPS

\* Ids come from the sequence, deadlines are times.
ClaimInv ==
  /\ lastId \in Nat
  /\ clock \in Nat
  /\ DOMAIN tasks \subseteq 1..lastId
  /\ \A t \in DOMAIN tasks : tasks[t].locked_until \in Int

\* What a transaction may do to the rows that are there: a row that is CLAIMED
\* stays as it is.
ClaimedUntouched ==
  \A t \in DOMAIN tasks : tasks[t].status = "CLAIMED" =>
    t \in DOMAIN tasks' /\ tasks'[t] = tasks[t]

\* Rows keep ids of the sequence and deadlines that are times.
RowsTimed ==
  /\ lastId' \in Nat /\ lastId <= lastId'
  /\ DOMAIN tasks' \subseteq 1..lastId'
  /\ \A t \in DOMAIN tasks' : tasks'[t].locked_until \in Int

-----------------------------------------------------------------------------
(* The Rust side.                                                          *)

\* A late reading of the clock is a time that has passed.
LEMMA ReadsPast ==
  ASSUME ClaimInv, NEW now \in ReadClock
  PROVE  now \in Nat /\ now <= clock
  BY DEF ClaimInv, ReadClock

\* The deadline of a rewritten row.
LEMMA LeaseDeadline ==
  ASSUME NEW row, NEW status, NEW owner, NEW until, NEW now
  PROVE  SetLease(row, status, owner, until, now).locked_until = until
  BY DEF SetLease

\* The deadline of a released row.
LEMMA UnlockedDeadline ==
  ASSUME NEW row, NEW status, NEW now
  PROVE  Unlocked(row, status, now).locked_until = NoDeadline
  BY LeaseDeadline DEF Unlocked

\* SQL NULL is modelled by a number.
LEMMA NullDeadline == NoDeadline \in Int
  BY DEF NoDeadline

\* The rows stay, and one that is rewritten was not CLAIMED and has a time in
\* its deadline.
Rewritten(t) ==
  tasks'[t] = tasks[t] \/ (tasks[t].status # "CLAIMED" /\ tasks'[t].locked_until \in Int)

RowsRewritten ==
  /\ lastId' = lastId
  /\ DOMAIN tasks' = DOMAIN tasks
  /\ \A t \in DOMAIN tasks : Rewritten(t)

\* That is all that is asked of such a transaction.
LEMMA RewrittenKeeps ==
  ASSUME ClaimInv, RowsRewritten
  PROVE  ClaimedUntouched /\ RowsTimed
<1>1. ClaimedUntouched
  BY DEF RowsRewritten, Rewritten, ClaimedUntouched
<1>2. RowsTimed
  BY DEF RowsRewritten, Rewritten, RowsTimed, ClaimInv
<1> QED
  BY <1>1, <1>2

\* One row is rewritten.
LEMMA OneRow ==
  ASSUME NEW u, u \in DOMAIN tasks => tasks[u].status # "CLAIMED",
         NEW row, row.locked_until \in Int,
         tasks' = [tasks EXCEPT ![u] = row], lastId' = lastId
  PROVE  RowsRewritten
  BY DEF RowsRewritten, Rewritten

\* A new task gets an id that no row has.
LEMMA InsertKeeps ==
  ASSUME ClaimInv, NEW spec, NEW now, InsertTask(spec, now)
  PROVE  ClaimedUntouched /\ RowsTimed
<1>1. PICK n : n = lastId + 1
  OBVIOUS
<1>2. n \in Nat /\ n \notin DOMAIN tasks /\ lastId' = n /\ lastId <= n
  BY <1>1 DEF ClaimInv, InsertTask
<1>3. tasks' = [t \in DOMAIN tasks \cup {n} |-> IF t = n THEN NewRow(spec, now) ELSE tasks[t]]
  BY <1>1 DEF InsertTask
<1>4. NewRow(spec, now).locked_until \in Int
  BY NullDeadline DEF NewRow
<1>5. ClaimedUntouched
  BY <1>2, <1>3 DEF ClaimedUntouched
<1>6. RowsTimed
  <2>1. DOMAIN tasks' = DOMAIN tasks \cup {n}
    BY <1>3
  <2>2. DOMAIN tasks' \subseteq 1..n
    BY <1>1, <1>2, <2>1 DEF ClaimInv
  <2>3. \A t \in DOMAIN tasks' : tasks'[t].locked_until \in Int
    BY <1>3, <1>4, <2>1 DEF ClaimInv
  <2> QED
    BY <1>2, <2>2, <2>3 DEF RowsTimed
<1> QED
  BY <1>5, <1>6

\* Clients.
LEMMA ClientKeeps ==
  ASSUME ClaimInv, ClientStep
  PROVE  ClaimedUntouched /\ RowsTimed /\ clock' = clock
<1>1. ASSUME NEW now, NEW spec, InsertTask(spec, now), clock' = clock
      PROVE  ClaimedUntouched /\ RowsTimed /\ clock' = clock
  BY <1>1, InsertKeeps
<1>2. ASSUME NEW key, NEW fp, EnqueueReplayed(key, fp)
      PROVE  ClaimedUntouched /\ RowsTimed /\ clock' = clock
  BY <1>2 DEF EnqueueReplayed, tables, ClaimedUntouched, RowsTimed, ClaimInv
<1>3. ASSUME NEW now, NEW t \in DOMAIN tasks, CancelTask(t, now)
      PROVE  ClaimedUntouched /\ RowsTimed /\ clock' = clock
  <2>1. PICK row : row = Unlocked(tasks[t], "CANCELLED", now)
    OBVIOUS
  <2>2. tasks' = [tasks EXCEPT ![t] = row] /\ lastId' = lastId /\ clock' = clock
        /\ tasks[t].status \in Active
    BY <1>3, <2>1 DEF CancelTask
  <2>3. row.locked_until \in Int
    BY <2>1, UnlockedDeadline, NullDeadline
  <2>4. tasks[t].status # "CLAIMED"
    BY <2>2 DEF Active, Held
  <2>5. RowsRewritten
    BY <2>2, <2>3, <2>4, OneRow
  <2> QED
    BY <2>2, <2>5, RewrittenKeeps
<1> QED
  BY <1>1, <1>2, <1>3 DEF ClientStep, Enqueue, EnqueueCreated

\* The dispatcher and the claims of workers.
LEMMA BrokerKeeps ==
  ASSUME ClaimInv, BrokerStep
  PROVE  ClaimedUntouched /\ RowsTimed /\ clock' = clock
<1>1. ASSUME NEW now \in ReadClock, NEW S \in SUBSET Sessions, Dispatch(S, now)
      PROVE  ClaimedUntouched /\ RowsTimed /\ clock' = clock
  <2>1. PICK a \in [SelectedTasks(S, now) -> S \cup {NoSession}] :
          tasks' = [t \in DOMAIN tasks |->
                      IF t \in DOMAIN a /\ a[t] # NoSession
                      THEN SetLease(tasks[t], "ASSIGNED", a[t], now + Lease, now)
                      ELSE tasks[t]]
    BY <1>1 DEF Dispatch
  <2>2. lastId' = lastId /\ clock' = clock
    BY <1>1 DEF Dispatch
  <2>3. \A t \in SelectedTasks(S, now) : tasks[t].status = "PENDING"
    BY DEF SelectedTasks, Selected, Runnable
  <2>4. now + Lease \in Int
    BY <1>1, ReadsPast, TimeAssumption
  <2>5. DOMAIN tasks' = DOMAIN tasks
    BY <2>1
  <2>6. ASSUME NEW t \in DOMAIN tasks
        PROVE  Rewritten(t)
    <3>1. CASE t \in DOMAIN a /\ a[t] # NoSession
      <4>1. tasks'[t].locked_until = now + Lease
        BY <2>1, <3>1, LeaseDeadline
      <4>2. tasks[t].status = "PENDING"
        BY <2>3, <3>1
      <4> QED
        BY <2>4, <4>1, <4>2 DEF Rewritten
    <3>2. CASE ~ (t \in DOMAIN a /\ a[t] # NoSession)
      BY <2>1, <3>2 DEF Rewritten
    <3> QED
      BY <3>1, <3>2
  <2>7. RowsRewritten
    BY <2>2, <2>5, <2>6 DEF RowsRewritten
  <2> QED
    BY <2>2, <2>7, RewrittenKeeps
<1>2. ASSUME NEW now \in ReadClock, NEW s \in Sessions, Claim(s, now)
      PROVE  ClaimedUntouched /\ RowsTimed /\ clock' = clock
  <2>1. PICK t \in Claimable(s, now) :
          /\ tasks' = [tasks EXCEPT ![t] = SetLease(@, "RUNNING", s, @.locked_until, now)]
          /\ lastId' = lastId /\ clock' = clock
    BY <1>2 DEF Claim
  <2>2. t \in DOMAIN tasks /\ tasks[t].status = "ASSIGNED"
    BY DEF Claimable
  <2>3. PICK row : row = SetLease(tasks[t], "RUNNING", s, tasks[t].locked_until, now)
    OBVIOUS
  <2>4. row.locked_until \in Int
    BY <2>2, <2>3, LeaseDeadline DEF ClaimInv
  <2>5. tasks' = [tasks EXCEPT ![t] = row]
    BY <2>1, <2>3
  <2>6. RowsRewritten
    BY <2>1, <2>2, <2>4, <2>5, OneRow
  <2> QED
    BY <2>1, <2>6, RewrittenKeeps
<1> QED
  BY <1>1, <1>2 DEF BrokerStep

\* Workers: only a RUNNING row.
LEMMA WorkerKeeps ==
  ASSUME ClaimInv, WorkerStep
  PROVE  ClaimedUntouched /\ RowsTimed /\ clock' = clock
<1>1. PICK s \in Sessions, g \in granted, now \in ReadClock :
        \/ Heartbeat(s, g, now) \/ CompleteTask(s, g, now)
        \/ CompleteWithProjection(s, g, now) \/ FailTask(s, g, now)
  BY DEF WorkerStep
<1>2. tasks[g.task].status = "RUNNING" /\ lastId' = lastId /\ clock' = clock
  BY <1>1 DEF Heartbeat, CompleteTask, CompleteWithProjection, FailTask, HoldsLease
<1>3. ASSUME NEW row, row.locked_until \in Int, tasks' = [tasks EXCEPT ![g.task] = row]
      PROVE  ClaimedUntouched /\ RowsTimed /\ clock' = clock
  <2>1. PICK u : u = g.task
    OBVIOUS
  <2>2. RowsRewritten
    BY <1>2, <1>3, <2>1, OneRow
  <2> QED
    BY <1>2, <2>2, RewrittenKeeps
<1>4. CASE Heartbeat(s, g, now)
  <2>1. PICK row : row = SetLease(tasks[g.task], "RUNNING", s, now + Lease, now)
    OBVIOUS
  <2>2. now + Lease \in Int
    BY ReadsPast, TimeAssumption
  <2>3. row.locked_until \in Int
    BY <2>1, <2>2, LeaseDeadline
  <2>4. tasks' = [tasks EXCEPT ![g.task] = row]
    BY <1>4, <2>1 DEF Heartbeat
  <2> QED
    BY <1>3, <2>3, <2>4
<1>5. CASE CompleteTask(s, g, now) \/ CompleteWithProjection(s, g, now)
  <2>1. PICK row : row = Unlocked(tasks[g.task], "COMPLETED", now)
    OBVIOUS
  <2>2. row.locked_until \in Int
    BY <2>1, UnlockedDeadline, NullDeadline
  <2>3. tasks' = [tasks EXCEPT ![g.task] = row]
    BY <1>5, <2>1 DEF CompleteTask, CompleteWithProjection
  <2> QED
    BY <1>3, <2>2, <2>3
<1>6. CASE FailTask(s, g, now)
  <2>1. PICK row : row = FailedRow(tasks[g.task], now)
    OBVIOUS
  <2>2. row.locked_until = NoDeadline
    BY <2>1, UnlockedDeadline DEF FailedRow
  <2>3. tasks' = [tasks EXCEPT ![g.task] = row]
    BY <1>6, <2>1 DEF FailTask
  <2> QED
    BY <1>3, <2>2, <2>3, NullDeadline
<1> QED
  BY <1>1, <1>4, <1>5, <1>6

\* The daemon: recovery names ASSIGNED and RUNNING, retention finished tasks.
LEMMA MaintenanceKeeps ==
  ASSUME ClaimInv, Maintenance
  PROVE  ClaimedUntouched /\ RowsTimed /\ clock' = clock
<1>1. ASSUME NEW now, RecoverExpired(now)
      PROVE  ClaimedUntouched /\ RowsTimed /\ clock' = clock
  <2>1. /\ tasks' = [t \in DOMAIN tasks |->
                       IF t \in Expired(now) THEN Unlocked(tasks[t], "PENDING", now)
                       ELSE tasks[t]]
        /\ lastId' = lastId /\ clock' = clock
    BY <1>1 DEF RecoverExpired
  <2>2. ASSUME NEW t \in DOMAIN tasks
        PROVE  Rewritten(t)
    <3>1. CASE t \in Expired(now)
      <4>1. tasks'[t].locked_until = NoDeadline
        BY <2>1, <3>1, UnlockedDeadline
      <4>2. tasks[t].status # "CLAIMED"
        BY <3>1 DEF Expired, Held
      <4> QED
        BY <4>1, <4>2, NullDeadline DEF Rewritten
    <3>2. CASE t \notin Expired(now)
      BY <2>1, <3>2 DEF Rewritten
    <3> QED
      BY <3>1, <3>2
  <2>3. RowsRewritten
    BY <2>1, <2>2 DEF RowsRewritten
  <2> QED
    BY <2>1, <2>3, RewrittenKeeps
<1>2. CASE PruneToMax
  <2>1. /\ tasks' = [t \in DOMAIN tasks \ Prunable |-> tasks[t]]
        /\ lastId' = lastId /\ clock' = clock
    BY <1>2 DEF PruneToMax
  <2>2. \A t \in Prunable : tasks[t].status # "CLAIMED"
    BY DEF Prunable, TerminalTasks, Terminal
  <2>3. ClaimedUntouched
    BY <2>1, <2>2 DEF ClaimedUntouched
  <2>4. RowsTimed
    BY <2>1 DEF RowsTimed, ClaimInv
  <2> QED
    BY <2>1, <2>3, <2>4
<1> QED
  BY <1>1, <1>2 DEF Maintenance

\* No transaction of the Rust processes touches a CLAIMED row, live or not.
LEMMA QueueKeepsClaims ==
  ASSUME ClaimInv, Next
  PROVE  ClaimedUntouched /\ ClaimInv'
<1>1. CASE Tick
  BY <1>1 DEF Tick, tables, ClaimedUntouched, ClaimInv
<1>2. ASSUME ClaimedUntouched, RowsTimed, clock' = clock
      PROVE  ClaimedUntouched /\ ClaimInv'
  BY <1>2 DEF RowsTimed, ClaimInv
<1> QED
  BY <1>1, <1>2, ClientKeeps, BrokerKeeps, WorkerKeeps, MaintenanceKeeps DEF Next

-----------------------------------------------------------------------------
(* The gateway's side.                                                     *)

\* What the gateway's statements may do to a live claim.
LiveClaimKept ==
  \A t \in DOMAIN tasks :
    /\ tasks[t].status = "CLAIMED"
    /\ tasks[t].locked_until >= clock
    => /\ t \in DOMAIN tasks'
       /\ \/ tasks'[t] = tasks[t]
          \/ handler.next = "deliver" /\ handler.task = t
          \/ handler'.next = "store"

\* The rows, after a statement of the gateway.
RowsKept ==
  /\ lastId' = lastId /\ clock' = clock
  /\ DOMAIN tasks' = DOMAIN tasks
  /\ \A t \in DOMAIN tasks : tasks'[t].locked_until \in Int

\* Nothing but the agents' own state changes.
LEMMA TablesKept ==
  ASSUME ClaimInv, UNCHANGED vars
  PROVE  LiveClaimKept /\ RowsKept
  BY DEF vars, LiveClaimKept, RowsKept, ClaimInv

\* The release at the start of a poll leaves a live claim alone, however late
\* the poll read its clock.
LEMMA ReleaseKeeps ==
  ASSUME ClaimInv, NEW a, NEW now \in ReadClock, PollRelease(a, now)
  PROVE  LiveClaimKept /\ RowsKept
<1>1. /\ tasks' = [t \in DOMAIN tasks |-> IF t \in ExpiredClaims(now)
                                          THEN SetLock(tasks[t], "PENDING", NoSession, NoDeadline)
                                          ELSE tasks[t]]
      /\ lastId' = lastId /\ clock' = clock
  BY DEF PollRelease, AutoRelease
<1>2. now \in Nat /\ now <= clock
  BY ReadsPast
<1>3. ASSUME NEW t \in DOMAIN tasks, tasks[t].locked_until >= clock
      PROVE  tasks'[t] = tasks[t]
  <2>1. ~ (tasks[t].locked_until < now)
    BY <1>2, <1>3 DEF ClaimInv
  <2>2. t \notin ExpiredClaims(now)
    BY <2>1 DEF ExpiredClaims
  <2> QED
    BY <1>1, <2>2
<1>4. \A t \in DOMAIN tasks : tasks'[t].locked_until \in Int
  <2> SUFFICES ASSUME NEW t \in DOMAIN tasks PROVE tasks'[t].locked_until \in Int
    OBVIOUS
  <2>1. CASE t \in ExpiredClaims(now)
    BY <1>1, <2>1, LeaseDeadline, NullDeadline DEF SetLock
  <2>2. CASE t \notin ExpiredClaims(now)
    BY <1>1, <2>2 DEF ClaimInv
  <2> QED
    BY <2>1, <2>2
<1>5. DOMAIN tasks' = DOMAIN tasks
  BY <1>1
<1> QED
  BY <1>1, <1>3, <1>4, <1>5 DEF LiveClaimKept, RowsKept

\* A poll claims a task that is PENDING.
LEMMA ClaimKeeps ==
  ASSUME ClaimInv, NEW now \in ReadClock, PollClaim(now)
  PROVE  LiveClaimKept /\ RowsKept
<1>1. PICK first : first = {t \in Pollable(now) : \A u \in Pollable(now) \ {t} : Before(t, u)}
  OBVIOUS
<1>2. /\ tasks' = [t \in DOMAIN tasks |->
                     IF t \in first
                     THEN SetLock(tasks[t], "CLAIMED", handler.agent, now + AgentLease)
                     ELSE tasks[t]]
      /\ lastId' = lastId /\ clock' = clock
  BY <1>1 DEF PollClaim
<1>3. \A t \in first : tasks[t].status = "PENDING"
  BY <1>1 DEF Pollable
<1>4. now + AgentLease \in Int
  BY ReadsPast, AgentsAssumption
<1>5. \A t \in DOMAIN tasks : tasks'[t].locked_until \in Int
  <2> SUFFICES ASSUME NEW t \in DOMAIN tasks PROVE tasks'[t].locked_until \in Int
    OBVIOUS
  <2>1. CASE t \in first
    BY <1>2, <1>4, <2>1, LeaseDeadline DEF SetLock
  <2>2. CASE t \notin first
    BY <1>2, <2>2 DEF ClaimInv
  <2> QED
    BY <2>1, <2>2
<1>6. DOMAIN tasks' = DOMAIN tasks
  BY <1>2
<1>7. \A t \in DOMAIN tasks : tasks[t].status = "CLAIMED" => tasks'[t] = tasks[t]
  BY <1>2, <1>3
<1> QED
  BY <1>2, <1>5, <1>6, <1>7 DEF LiveClaimKept, RowsKept

\* A poll puts back only the task it has just claimed.
LEMMA PutBackKeeps ==
  ASSUME ClaimInv, PollPutBack
  PROVE  LiveClaimKept /\ RowsKept
<1>1. PICK u, row : u = handler.task
                    /\ row = SetLock(tasks[handler.task], "PENDING", NoSession, NoDeadline)
  OBVIOUS
<1>2. /\ tasks' = [tasks EXCEPT ![u] = row]
      /\ handler.next = "deliver" /\ lastId' = lastId /\ clock' = clock
  BY <1>1 DEF PollPutBack
<1>3. row.locked_until \in Int
  BY <1>1, LeaseDeadline, NullDeadline DEF SetLock
<1>4. DOMAIN tasks' = DOMAIN tasks
  BY <1>2
<1>5. \A t \in DOMAIN tasks : tasks'[t] = IF t = u THEN row ELSE tasks[t]
  BY <1>2
<1>6. LiveClaimKept
  BY <1>1, <1>2, <1>4, <1>5 DEF LiveClaimKept
<1>7. RowsKept
  BY <1>2, <1>3, <1>4, <1>5 DEF RowsKept, ClaimInv
<1> QED
  BY <1>6, <1>7

\* A report changes the status of one row, and is a report.
LEMMA ReportKeeps ==
  ASSUME ClaimInv, NEW w, NEW status, Report(w, status)
  PROVE  LiveClaimKept /\ RowsKept
<1>1. /\ tasks' = [t \in DOMAIN tasks |->
                     IF t = w.task
                     THEN SetLock(tasks[t], status, tasks[t].locked_by, tasks[t].locked_until)
                     ELSE tasks[t]]
      /\ handler' = [next |-> "store", agent |-> w.agent, task |-> w.task]
      /\ lastId' = lastId /\ clock' = clock
  BY DEF Report
<1>2. DOMAIN tasks' = DOMAIN tasks /\ handler'.next = "store"
  BY <1>1
<1>3. \A t \in DOMAIN tasks : tasks'[t].locked_until = tasks[t].locked_until
  BY <1>1, LeaseDeadline DEF SetLock
<1> QED
  BY <1>1, <1>2, <1>3 DEF LiveClaimKept, RowsKept, ClaimInv

\* Every step of the gateway and of an agent.
LEMMA AgentKeeps ==
  ASSUME ClaimInv, AgentStep
  PROVE  LiveClaimKept /\ RowsKept
<1>1. ASSUME NEW a, RegisterAgent(a) \/ AgentGivesUp(a) \/ AgentStops(a) PROVE LiveClaimKept /\ RowsKept
  BY <1>1, TablesKept DEF RegisterAgent, AgentGivesUp, AgentStops
<1>2. CASE GatewayRestart \/ PollDeliver \/ HandlerThrows
  BY <1>2, TablesKept DEF GatewayRestart, PollDeliver, HandlerThrows
<1>3. CASE PollStep
  BY <1>3, ReleaseKeeps DEF PollStep
<1>4. ASSUME NEW now \in ReadClock, PollClaim(now) PROVE LiveClaimKept /\ RowsKept
  BY <1>4, ClaimKeeps
<1>5. CASE PollPutBack
  BY <1>5, PutBackKeeps
<1>6. CASE StoreResult
  BY <1>6 DEF StoreResult, LiveClaimKept, RowsKept, ClaimInv
<1>7. ASSUME NEW w \in working, NEW status \in {"COMPLETED", "FAILED"}, Report(w, status)
      PROVE  LiveClaimKept /\ RowsKept
  BY <1>7, ReportKeeps
<1> QED
  BY <1>1, <1>2, <1>3, <1>4, <1>5, <1>6, <1>7 DEF AgentStep, StatementStep

\* A claim belongs to its agent until its deadline: no poll of another agent
\* and no transaction of the Rust processes takes it away, whatever they read
\* from their clocks, and restarts do not either.  It ends by a report, or by
\* the poll that made it.
THEOREM ClaimsKept == AgentSpec => ClaimKept
<1>1. AgentInit => ClaimInv
  BY DEF AgentInit, Init, ClaimInv
<1>2. ClaimInv /\ [AgentNext]_agentVars => ClaimInv'
  <2> SUFFICES ASSUME ClaimInv, [AgentNext]_agentVars PROVE ClaimInv'
    OBVIOUS
  <2>1. CASE AgentStep
    BY <2>1, AgentKeeps DEF RowsKept, ClaimInv
  <2>2. CASE QueueStep
    BY <2>2, QueueKeepsClaims DEF QueueStep
  <2>3. CASE UNCHANGED agentVars
    BY <2>3 DEF agentVars, vars, ClaimInv
  <2> QED
    BY <2>1, <2>2, <2>3 DEF AgentNext
<1>3. ClaimInv /\ [AgentNext]_agentVars => [LiveClaimKept]_agentVars
  <2> SUFFICES ASSUME ClaimInv, AgentNext PROVE LiveClaimKept
    OBVIOUS
  <2>1. CASE AgentStep
    BY <2>1, AgentKeeps
  <2>2. CASE QueueStep
    BY <2>2, QueueKeepsClaims DEF QueueStep, ClaimedUntouched, LiveClaimKept
  <2> QED
    BY <2>1, <2>2 DEF AgentNext
<1> QED
  BY <1>1, <1>2, <1>3, PTL DEF AgentSpec, ClaimKept, LiveClaimKept

-----------------------------------------------------------------------------
(* The lease fence, with agents about.                                     *)

\* What the fence rests on: SafetyInv without what the agents do break (a row
\* with an owner that is not lent, a result without a claim).
FenceInv ==
  /\ \A t \in DOMAIN fences : fences[t] \in Nat
  /\ \A g \in granted : g.generation \in Nat
  /\ DOMAIN fences \subseteq DOMAIN tasks
  /\ GrantsBounded
  /\ GrantUnique
  /\ RunningIsGranted
  /\ CancelledIsFenced

\* A row that is lent or cancelled was so before, to the same owner.
LentBefore(t) ==
  tasks'[t].status \in {"RUNNING", "CANCELLED"} =>
    /\ t \in DOMAIN tasks
    /\ tasks'[t].status = tasks[t].status
    /\ tasks'[t].locked_by = tasks[t].locked_by

\* Neither fences nor claim responses change, nothing is lent or cancelled,
\* and a new row has a new id.
Lendless ==
  /\ fences' = fences /\ granted' = granted
  /\ \A t \in DOMAIN tasks : t \in DOMAIN tasks'
  /\ \A t \in DOMAIN tasks' : t \in DOMAIN tasks \/ ~ (t \in 1..lastId)
  /\ \A t \in DOMAIN tasks' : LentBefore(t)

\* Fences are numbers, and a task without one is in generation 0.
LEMMA GenerationNat ==
  ASSUME FenceInv, NEW t
  PROVE  Generation(t) \in Nat
  BY DEF FenceInv, Generation

\* Such a step keeps the fence.
LEMMA LendlessKeeps ==
  ASSUME ClaimInv, FenceInv, Lendless, lastId' \in Nat, lastId <= lastId'
  PROVE  FenceInv'
<1>1. fences' = fences /\ granted' = granted /\ \A t : Generation(t)' = Generation(t)
  BY DEF Lendless, Generation
<1>2. DOMAIN fences' \subseteq DOMAIN tasks'
  BY <1>1 DEF Lendless, FenceInv
<1>3. GrantsBounded'
  <2> SUFFICES ASSUME NEW g \in granted
               PROVE  /\ g.task \in 1..lastId'
                      /\ g.task \in DOMAIN tasks' => g.generation <= Generation(g.task)
    BY <1>1 DEF GrantsBounded
  <2>1. g.task \in 1..lastId /\ (g.task \in DOMAIN tasks => g.generation <= Generation(g.task))
    BY DEF FenceInv, GrantsBounded
  <2>2. g.task \in 1..lastId'
    BY <2>1 DEF ClaimInv
  <2>3. g.task \in DOMAIN tasks' => g.task \in DOMAIN tasks
    BY <2>1 DEF Lendless
  <2> QED
    BY <2>1, <2>2, <2>3
<1>4. GrantUnique'
  BY <1>1 DEF FenceInv, GrantUnique
<1>5. RunningIsGranted'
  <2> SUFFICES ASSUME NEW t \in DOMAIN tasks', tasks'[t].status = "RUNNING"
               PROVE  \E g \in granted : /\ g.task = t
                                         /\ g.generation = Generation(t)
                                         /\ g.session = tasks'[t].locked_by
    BY <1>1 DEF RunningIsGranted
  <2>1. LentBefore(t)
    BY DEF Lendless
  <2>2. t \in DOMAIN tasks /\ tasks[t].status = "RUNNING" /\ tasks'[t].locked_by = tasks[t].locked_by
    BY <2>1 DEF LentBefore
  <2> QED
    BY <2>2 DEF FenceInv, RunningIsGranted
<1>6. CancelledIsFenced'
  <2> SUFFICES ASSUME NEW t \in DOMAIN tasks', NEW g \in granted,
                      tasks'[t].status = "CANCELLED", g.task = t
               PROVE  g.generation < Generation(t)
    BY <1>1 DEF CancelledIsFenced
  <2>1. LentBefore(t)
    BY DEF Lendless
  <2>2. t \in DOMAIN tasks /\ tasks[t].status = "CANCELLED"
    BY <2>1 DEF LentBefore
  <2> QED
    BY <2>2 DEF FenceInv, CancelledIsFenced
<1> QED
  BY <1>1, <1>2, <1>3, <1>4, <1>5, <1>6 DEF FenceInv

\* The fence of one task moves on.
LEMMA FenceMoves ==
  ASSUME FenceInv, NEW t, fences' = SetFence(t, Generation(t) + 1)
  PROVE  /\ DOMAIN fences' = DOMAIN fences \cup {t}
         /\ \A u \in DOMAIN fences' : fences'[u] \in Nat
         /\ Generation(t)' = Generation(t) + 1
         /\ \A u : u # t => Generation(u)' = Generation(u)
<1>1. PICK n \in Nat : n = Generation(t) + 1
  BY GenerationNat
<1>2. fences' = [u \in DOMAIN fences \cup {t} |-> IF u = t THEN n ELSE fences[u]]
  BY <1>1 DEF SetFence
<1>3. DOMAIN fences' = DOMAIN fences \cup {t}
  BY <1>2
<1>4. fences'[t] = n /\ \A u \in DOMAIN fences : u # t => fences'[u] = fences[u]
  BY <1>2
<1>5. \A u \in DOMAIN fences' : fences'[u] \in Nat
  BY <1>3, <1>4 DEF FenceInv
<1>6. Generation(t)' = n
  BY <1>3, <1>4 DEF Generation
<1>7. \A u : u # t => Generation(u)' = Generation(u)
  BY <1>3, <1>4 DEF Generation
<1> QED
  BY <1>1, <1>3, <1>5, <1>6, <1>7

\* A claim: the generation it hands out was never handed out before.
LEMMA ClaimFenced ==
  ASSUME ClaimInv, FenceInv, NEW s, NEW now, Claim(s, now)
  PROVE  FenceInv'
<1>1. PICK t \in Claimable(s, now) :
        /\ tasks' = [tasks EXCEPT ![t] = SetLease(@, "RUNNING", s, @.locked_until, now)]
        /\ fences' = SetFence(t, Generation(t) + 1)
        /\ granted' = granted \cup {[task |-> t, generation |-> Generation(t) + 1,
                                     session |-> s, at |-> clock]}
        /\ lastId' = lastId
  BY DEF Claim
<1>2. t \in DOMAIN tasks /\ tasks[t].status = "ASSIGNED"
  BY DEF Claimable
<1>3. PICK n, r : n = Generation(t) + 1
                  /\ r = [task |-> t, generation |-> n, session |-> s, at |-> clock]
  OBVIOUS
<1>4. /\ n \in Nat /\ Generation(t) \in Nat /\ n = Generation(t) + 1
      /\ r.task = t /\ r.generation = n /\ r.session = s
      /\ granted' = granted \cup {r}
  BY <1>1, <1>3, GenerationNat
<1>5. /\ DOMAIN fences' = DOMAIN fences \cup {t}
      /\ \A u \in DOMAIN fences' : fences'[u] \in Nat
      /\ Generation(t)' = n
      /\ \A u : u # t => Generation(u)' = Generation(u)
  BY <1>1, <1>4, FenceMoves
<1>6. /\ DOMAIN tasks' = DOMAIN tasks
      /\ tasks'[t].status = "RUNNING" /\ tasks'[t].locked_by = s
      /\ \A u \in DOMAIN tasks : u # t => tasks'[u] = tasks[u]
  BY <1>1, <1>2 DEF SetLease
<1>7. \A g \in granted : g.task = t => g.generation \in Nat /\ g.generation < n
  BY <1>2, <1>4 DEF FenceInv, GrantsBounded
<1>8. GrantsBounded'
  <2> SUFFICES ASSUME NEW g \in granted'
               PROVE  /\ g.task \in 1..lastId
                      /\ g.task \in DOMAIN tasks => g.generation <= Generation(g.task)'
    BY <1>1, <1>6 DEF GrantsBounded
  <2>1. CASE g = r
    BY <1>2, <1>4, <1>5, <2>1 DEF ClaimInv
  <2>2. CASE g \in granted /\ g.task = t
    BY <1>4, <1>5, <1>7, <2>2 DEF FenceInv, GrantsBounded
  <2>3. CASE g \in granted /\ g.task # t
    BY <1>5, <2>3 DEF FenceInv, GrantsBounded
  <2> QED
    BY <1>4, <2>1, <2>2, <2>3
<1>9. GrantUnique'
  <2> SUFFICES ASSUME NEW g \in granted', NEW h \in granted',
                      g.task = h.task, g.generation = h.generation
               PROVE  g = h
    BY DEF GrantUnique
  <2>1. CASE g \in granted /\ h \in granted
    BY <2>1 DEF FenceInv, GrantUnique
  <2>2. CASE g = r /\ h \in granted
    BY <1>4, <1>7, <2>2
  <2>3. CASE h = r /\ g \in granted
    BY <1>4, <1>7, <2>3
  <2> QED
    BY <1>4, <2>1, <2>2, <2>3
<1>10. RunningIsGranted'
  <2> SUFFICES ASSUME NEW u \in DOMAIN tasks, tasks'[u].status = "RUNNING"
               PROVE  \E g \in granted' : /\ g.task = u
                                          /\ g.generation = Generation(u)'
                                          /\ g.session = tasks'[u].locked_by
    BY <1>6 DEF RunningIsGranted
  <2>1. CASE u = t
    BY <1>4, <1>5, <1>6, <2>1
  <2>2. CASE u # t
    BY <1>4, <1>5, <1>6, <2>2 DEF FenceInv, RunningIsGranted
  <2> QED
    BY <2>1, <2>2
<1>11. CancelledIsFenced'
  <2> SUFFICES ASSUME NEW u \in DOMAIN tasks, NEW g \in granted',
                      tasks'[u].status = "CANCELLED", g.task = u
               PROVE  g.generation < Generation(u)'
    BY <1>6 DEF CancelledIsFenced
  <2>1. u # t
    BY <1>6
  <2>2. g \in granted
    BY <1>4, <2>1
  <2> QED
    BY <1>5, <1>6, <2>1, <2>2 DEF FenceInv, CancelledIsFenced
<1>12. \A g \in granted' : g.generation \in Nat
  BY <1>4 DEF FenceInv
<1>13. DOMAIN fences' \subseteq DOMAIN tasks'
  BY <1>2, <1>5, <1>6 DEF FenceInv
<1> QED
  BY <1>5, <1>8, <1>9, <1>10, <1>11, <1>12, <1>13 DEF FenceInv

\* A cancellation: every generation handed out before is behind the fence.
LEMMA CancelFenced ==
  ASSUME ClaimInv, FenceInv, NEW t \in DOMAIN tasks, NEW now, CancelTask(t, now)
  PROVE  FenceInv'
<1>1. /\ tasks' = [tasks EXCEPT ![t] = Unlocked(@, "CANCELLED", now)]
      /\ fences' = SetFence(t, Generation(t) + 1)
      /\ granted' = granted /\ lastId' = lastId
  BY DEF CancelTask
<1>2. Generation(t) \in Nat
  BY GenerationNat
<1>3. /\ DOMAIN fences' = DOMAIN fences \cup {t}
      /\ \A u \in DOMAIN fences' : fences'[u] \in Nat
      /\ Generation(t)' = Generation(t) + 1
      /\ \A u : u # t => Generation(u)' = Generation(u)
  BY <1>1, FenceMoves
<1>4. /\ DOMAIN tasks' = DOMAIN tasks
      /\ tasks'[t].status = "CANCELLED"
      /\ \A u \in DOMAIN tasks : u # t => tasks'[u] = tasks[u]
  BY <1>1 DEF Unlocked, SetLease
<1>5. \A g \in granted : g.task = t =>
        g.generation <= Generation(t)' /\ g.generation < Generation(t)'
  BY <1>2, <1>3 DEF FenceInv, GrantsBounded
<1>6. GrantsBounded'
  <2> SUFFICES ASSUME NEW g \in granted
               PROVE  /\ g.task \in 1..lastId
                      /\ g.task \in DOMAIN tasks => g.generation <= Generation(g.task)'
    BY <1>1, <1>4 DEF GrantsBounded
  <2>1. g.task \in 1..lastId
    BY DEF FenceInv, GrantsBounded
  <2>2. CASE g.task = t
    BY <1>5, <2>1, <2>2
  <2>3. CASE g.task # t
    BY <1>3, <2>1, <2>3 DEF FenceInv, GrantsBounded
  <2> QED
    BY <2>2, <2>3
<1>7. GrantUnique'
  BY <1>1 DEF FenceInv, GrantUnique
<1>8. RunningIsGranted'
  <2> SUFFICES ASSUME NEW u \in DOMAIN tasks, tasks'[u].status = "RUNNING"
               PROVE  \E g \in granted : /\ g.task = u
                                         /\ g.generation = Generation(u)'
                                         /\ g.session = tasks'[u].locked_by
    BY <1>1, <1>4 DEF RunningIsGranted
  <2>1. u # t
    BY <1>4
  <2> QED
    BY <1>3, <1>4, <2>1 DEF FenceInv, RunningIsGranted
<1>9. CancelledIsFenced'
  <2> SUFFICES ASSUME NEW u \in DOMAIN tasks, NEW g \in granted,
                      tasks'[u].status = "CANCELLED", g.task = u
               PROVE  g.generation < Generation(u)'
    BY <1>1, <1>4 DEF CancelledIsFenced
  <2>1. CASE u = t
    BY <1>5, <2>1
  <2>2. CASE u # t
    BY <1>3, <1>4, <2>2 DEF FenceInv, CancelledIsFenced
  <2> QED
    BY <2>1, <2>2
<1>10. DOMAIN fences' \subseteq DOMAIN tasks' /\ \A g \in granted' : g.generation \in Nat
  BY <1>1, <1>3, <1>4 DEF FenceInv
<1> QED
  BY <1>3, <1>6, <1>7, <1>8, <1>9, <1>10 DEF FenceInv

\* Retention: a fence goes with its task.
LEMMA PruneFenced ==
  ASSUME ClaimInv, FenceInv, PruneToMax
  PROVE  FenceInv'
<1>1. PICK P : P = Prunable
  OBVIOUS
<1>2. /\ fences' = [t \in DOMAIN fences \ P |-> fences[t]]
      /\ tasks' = [t \in DOMAIN tasks \ P |-> tasks[t]]
      /\ granted' = granted /\ lastId' = lastId
  BY <1>1 DEF PruneToMax
<1>3. /\ DOMAIN tasks' = DOMAIN tasks \ P /\ DOMAIN fences' = DOMAIN fences \ P
      /\ \A t \in DOMAIN tasks' : t \in DOMAIN tasks /\ tasks'[t] = tasks[t]
      /\ \A t \in DOMAIN fences' : t \in DOMAIN fences /\ fences'[t] = fences[t]
  BY <1>2
<1>4. \A t \in DOMAIN tasks' : Generation(t)' = Generation(t)
  BY <1>3 DEF Generation
<1>5. GrantsBounded'
  BY <1>2, <1>3, <1>4 DEF FenceInv, GrantsBounded
<1>6. GrantUnique'
  BY <1>2 DEF FenceInv, GrantUnique
<1>7. RunningIsGranted'
  BY <1>2, <1>3, <1>4 DEF FenceInv, RunningIsGranted
<1>8. CancelledIsFenced'
  BY <1>2, <1>3, <1>4 DEF FenceInv, CancelledIsFenced
<1>9. DOMAIN fences' \subseteq DOMAIN tasks' /\ \A t \in DOMAIN fences' : fences'[t] \in Nat
  BY <1>3 DEF FenceInv
<1> QED
  BY <1>2, <1>5, <1>6, <1>7, <1>8, <1>9 DEF FenceInv

\* Rows are rewritten, and none of them is lent or cancelled by that.
RowsLendless ==
  /\ fences' = fences /\ granted' = granted
  /\ DOMAIN tasks' = DOMAIN tasks
  /\ \A t \in DOMAIN tasks : LentBefore(t)

\* They are steps of that kind.
LEMMA RowsAreLendless ==
  ASSUME RowsLendless
  PROVE  Lendless
  BY DEF RowsLendless, Lendless

\* The status and the owner of a rewritten row.
LEMMA LeaseOwner ==
  ASSUME NEW row, NEW status, NEW owner, NEW until, NEW now
  PROVE  /\ SetLease(row, status, owner, until, now).status = status
         /\ SetLease(row, status, owner, until, now).locked_by = owner
  BY DEF SetLease

\* A row is rewritten to a status other than RUNNING and CANCELLED, or to
\* its own with its own owner.
LEMMA OneRowLendless ==
  ASSUME NEW u, NEW row, tasks' = [tasks EXCEPT ![u] = row],
         fences' = fences, granted' = granted,
         \/ row.status \notin {"RUNNING", "CANCELLED"}
         \/ u \in DOMAIN tasks /\ row.status = tasks[u].status /\ row.locked_by = tasks[u].locked_by
  PROVE  Lendless
<1>1. DOMAIN tasks' = DOMAIN tasks
  OBVIOUS
<1>2. ASSUME NEW t \in DOMAIN tasks
      PROVE  LentBefore(t)
  <2>1. CASE t = u
    BY <2>1 DEF LentBefore
  <2>2. CASE t # u
    BY <2>2 DEF LentBefore
  <2> QED
    BY <2>1, <2>2
<1> QED
  BY <1>1, <1>2, RowsAreLendless DEF RowsLendless

\* Workers, whose transactions need the lease, lend nothing to anybody.
LEMMA WorkerLendless ==
  ASSUME ClaimInv, WorkerStep
  PROVE  Lendless
<1>1. PICK s \in Sessions, g \in granted, now \in ReadClock :
        \/ Heartbeat(s, g, now) \/ CompleteTask(s, g, now)
        \/ CompleteWithProjection(s, g, now) \/ FailTask(s, g, now)
  BY DEF WorkerStep
<1>2. /\ g.task \in DOMAIN tasks /\ tasks[g.task].status = "RUNNING" /\ tasks[g.task].locked_by = s
      /\ fences' = fences /\ granted' = granted
  BY <1>1 DEF Heartbeat, CompleteTask, CompleteWithProjection, FailTask, HoldsLease
<1>3. PICK u : u = g.task
  OBVIOUS
<1>4. CASE Heartbeat(s, g, now)
  <2>1. PICK row : row = SetLease(tasks[u], "RUNNING", s, now + Lease, now)
    OBVIOUS
  <2>2. tasks' = [tasks EXCEPT ![u] = row]
    BY <1>3, <1>4, <2>1 DEF Heartbeat
  <2>3. row.status = tasks[u].status /\ row.locked_by = tasks[u].locked_by
    BY <1>2, <1>3, <2>1, LeaseOwner
  <2> QED
    BY <1>2, <1>3, <2>2, <2>3, OneRowLendless
<1>5. CASE CompleteTask(s, g, now) \/ CompleteWithProjection(s, g, now)
  <2>1. PICK row : row = Unlocked(tasks[u], "COMPLETED", now)
    OBVIOUS
  <2>2. tasks' = [tasks EXCEPT ![u] = row]
    BY <1>3, <1>5, <2>1 DEF CompleteTask, CompleteWithProjection
  <2>3. row.status = "COMPLETED"
    BY <2>1, LeaseOwner DEF Unlocked
  <2> QED
    BY <1>2, <2>2, <2>3, OneRowLendless
<1>6. CASE FailTask(s, g, now)
  <2>1. PICK row : row = FailedRow(tasks[u], now)
    OBVIOUS
  <2>2. tasks' = [tasks EXCEPT ![u] = row]
    BY <1>3, <1>6, <2>1 DEF FailTask
  <2>3. row.status \in {"FAILED", "PENDING"}
    BY <2>1, LeaseOwner DEF FailedRow, Unlocked
  <2> QED
    BY <1>2, <2>2, <2>3, OneRowLendless
<1> QED
  BY <1>1, <1>4, <1>5, <1>6

\* A new task is PENDING.
LEMMA InsertLendless ==
  ASSUME ClaimInv, NEW spec, NEW now, InsertTask(spec, now),
         fences' = fences, granted' = granted
  PROVE  Lendless
<1>1. PICK n : n = lastId + 1
  OBVIOUS
<1>2. n \notin 1..lastId /\ n \notin DOMAIN tasks
  BY <1>1 DEF ClaimInv
<1>3. tasks' = [t \in DOMAIN tasks \cup {n} |-> IF t = n THEN NewRow(spec, now) ELSE tasks[t]]
  BY <1>1 DEF InsertTask
<1>4. DOMAIN tasks' = DOMAIN tasks \cup {n}
  BY <1>3
<1>5. ASSUME NEW t \in DOMAIN tasks'
      PROVE  LentBefore(t)
  <2>1. CASE t = n
    <3>1. tasks'[t].status = "PENDING"
      BY <1>3, <2>1 DEF NewRow
    <3> QED
      BY <3>1 DEF LentBefore
  <2>2. CASE t # n
    BY <1>3, <1>4, <2>2 DEF LentBefore
  <2> QED
    BY <2>1, <2>2
<1> QED
  BY <1>2, <1>4, <1>5 DEF Lendless

\* Nothing happens to the rows.
LEMMA SameRowsLendless ==
  ASSUME tasks' = tasks, fences' = fences, granted' = granted
  PROVE  Lendless
  BY RowsAreLendless DEF RowsLendless, LentBefore

\* The dispatcher assigns, recovery releases: neither lends.
LEMMA SweepLendless ==
  ASSUME (\E now \in ReadClock, S \in SUBSET Sessions : Dispatch(S, now))
         \/ (\E now \in ReadClock : RecoverExpired(now))
  PROVE  Lendless
<1>1. ASSUME NEW now, NEW S, Dispatch(S, now)
      PROVE  Lendless
  <2>1. PICK a \in [SelectedTasks(S, now) -> S \cup {NoSession}] :
          tasks' = [t \in DOMAIN tasks |->
                      IF t \in DOMAIN a /\ a[t] # NoSession
                      THEN SetLease(tasks[t], "ASSIGNED", a[t], now + Lease, now)
                      ELSE tasks[t]]
    BY <1>1 DEF Dispatch
  <2>2. DOMAIN tasks' = DOMAIN tasks /\ fences' = fences /\ granted' = granted
    BY <1>1, <2>1 DEF Dispatch
  <2>3. ASSUME NEW t \in DOMAIN tasks
        PROVE  LentBefore(t)
    <3>1. tasks'[t] = tasks[t] \/ tasks'[t].status = "ASSIGNED"
      BY <2>1, LeaseOwner
    <3> QED
      BY <3>1 DEF LentBefore
  <2> QED
    BY <2>2, <2>3, RowsAreLendless DEF RowsLendless
<1>2. ASSUME NEW now, RecoverExpired(now)
      PROVE  Lendless
  <2>1. /\ tasks' = [t \in DOMAIN tasks |->
                       IF t \in Expired(now) THEN Unlocked(tasks[t], "PENDING", now)
                       ELSE tasks[t]]
        /\ fences' = fences /\ granted' = granted
    BY <1>2 DEF RecoverExpired
  <2>2. DOMAIN tasks' = DOMAIN tasks
    BY <2>1
  <2>3. ASSUME NEW t \in DOMAIN tasks
        PROVE  LentBefore(t)
    <3>1. tasks'[t] = tasks[t] \/ tasks'[t].status = "PENDING"
      BY <2>1, LeaseOwner DEF Unlocked
    <3> QED
      BY <3>1 DEF LentBefore
  <2> QED
    BY <2>1, <2>2, <2>3, RowsAreLendless DEF RowsLendless
<1> QED
  BY <1>1, <1>2

\* Every transaction of the Rust processes keeps the fence, although rows may
\* be in states that only the agents' statements write.
LEMMA QueueFenced ==
  ASSUME ClaimInv, FenceInv, Next
  PROVE  FenceInv'
<1>0. lastId' \in Nat /\ lastId <= lastId'
  <2>1. CASE Tick
    BY <2>1 DEF Tick, tables, ClaimInv
  <2> QED
    BY <2>1, ClientKeeps, BrokerKeeps, WorkerKeeps, MaintenanceKeeps DEF Next, RowsTimed
<1>1. CASE Lendless
  BY <1>0, <1>1, LendlessKeeps
<1>2. CASE ClientStep
  <2>1. ASSUME NEW now, NEW spec, InsertTask(spec, now), fences' = fences, granted' = granted
        PROVE  FenceInv'
    BY <1>1, <2>1, InsertLendless
  <2>2. ASSUME NEW key, NEW fp, EnqueueReplayed(key, fp)
        PROVE  FenceInv'
    BY <1>1, <2>2, SameRowsLendless DEF EnqueueReplayed, tables
  <2>3. ASSUME NEW now, NEW t \in DOMAIN tasks, CancelTask(t, now)
        PROVE  FenceInv'
    BY <2>3, CancelFenced
  <2> QED
    BY <1>2, <2>1, <2>2, <2>3 DEF ClientStep, Enqueue, EnqueueCreated
<1>3. CASE BrokerStep
  BY <1>1, <1>3, SweepLendless, ClaimFenced DEF BrokerStep
<1>4. CASE WorkerStep
  BY <1>1, <1>4, WorkerLendless
<1>5. CASE Maintenance
  BY <1>1, <1>5, SweepLendless, PruneFenced DEF Maintenance
<1>6. CASE Tick
  BY <1>1, <1>6, SameRowsLendless DEF Tick, tables
<1> QED
  BY <1>2, <1>3, <1>4, <1>5, <1>6 DEF Next

\* No statement of the gateway lends or cancels: a report writes COMPLETED or
\* FAILED over whatever the row was.
LEMMA AgentLendless ==
  ASSUME ClaimInv, AgentStep
  PROVE  Lendless
<1>1. ASSUME UNCHANGED vars PROVE Lendless
  BY <1>1, SameRowsLendless DEF vars
<1>2. ASSUME NEW a, NEW now, PollRelease(a, now) PROVE Lendless
  <2>1. /\ tasks' = [t \in DOMAIN tasks |->
                       IF t \in ExpiredClaims(now)
                       THEN SetLock(tasks[t], "PENDING", NoSession, NoDeadline)
                       ELSE tasks[t]]
        /\ fences' = fences /\ granted' = granted
    BY <1>2 DEF PollRelease, AutoRelease
  <2>2. \A t \in DOMAIN tasks : tasks'[t] = tasks[t] \/ tasks'[t].status = "PENDING"
    BY <2>1, LeaseOwner DEF SetLock
  <2>3. DOMAIN tasks' = DOMAIN tasks
    BY <2>1
  <2> QED
    BY <2>1, <2>2, <2>3, RowsAreLendless DEF RowsLendless, LentBefore
<1>3. ASSUME NEW now, PollClaim(now) PROVE Lendless
  <2>1. PICK first : tasks' = [t \in DOMAIN tasks |->
                       IF t \in first
                       THEN SetLock(tasks[t], "CLAIMED", handler.agent, now + AgentLease)
                       ELSE tasks[t]]
    BY <1>3 DEF PollClaim
  <2>2. \A t \in DOMAIN tasks : tasks'[t] = tasks[t] \/ tasks'[t].status = "CLAIMED"
    BY <2>1, LeaseOwner DEF SetLock
  <2>3. DOMAIN tasks' = DOMAIN tasks /\ fences' = fences /\ granted' = granted
    BY <1>3, <2>1 DEF PollClaim
  <2> QED
    BY <2>2, <2>3, RowsAreLendless DEF RowsLendless, LentBefore
<1>4. CASE PollPutBack
  <2>1. PICK u, row : u = handler.task
                      /\ row = SetLock(tasks[handler.task], "PENDING", NoSession, NoDeadline)
    OBVIOUS
  <2>2. tasks' = [tasks EXCEPT ![u] = row] /\ fences' = fences /\ granted' = granted
    BY <1>4, <2>1 DEF PollPutBack
  <2>3. row.status = "PENDING"
    BY <2>1, LeaseOwner DEF SetLock
  <2> QED
    BY <2>2, <2>3, OneRowLendless
<1>5. CASE StoreResult
  BY <1>5, SameRowsLendless DEF StoreResult
<1>6. ASSUME NEW w, NEW status \in {"COMPLETED", "FAILED"}, Report(w, status) PROVE Lendless
  <2>1. /\ tasks' = [t \in DOMAIN tasks |->
                       IF t = w.task
                       THEN SetLock(tasks[t], status, tasks[t].locked_by, tasks[t].locked_until)
                       ELSE tasks[t]]
        /\ fences' = fences /\ granted' = granted
    BY <1>6 DEF Report
  <2>2. \A t \in DOMAIN tasks : tasks'[t] = tasks[t] \/ tasks'[t].status = status
    BY <2>1, LeaseOwner DEF SetLock
  <2>3. DOMAIN tasks' = DOMAIN tasks
    BY <2>1
  <2> QED
    BY <1>6, <2>1, <2>2, <2>3, RowsAreLendless DEF RowsLendless, LentBefore
<1>7. ASSUME NEW a, RegisterAgent(a) \/ AgentGivesUp(a) \/ AgentStops(a) PROVE Lendless
  BY <1>1, <1>7 DEF RegisterAgent, AgentGivesUp, AgentStops
<1>8. CASE GatewayRestart \/ PollDeliver \/ HandlerThrows
  BY <1>1, <1>8 DEF GatewayRestart, PollDeliver, HandlerThrows
<1> QED
  BY <1>2, <1>3, <1>4, <1>5, <1>6, <1>7, <1>8 DEF AgentStep, PollStep, StatementStep

\* Agents cannot break the lease fence of the workers, although they neither
\* read nor write it and a report of theirs may finish a task that a worker is
\* running: whoever can still act on a lease is the session that claimed the
\* task last, and a cancelled task stays out of reach of every worker.
THEOREM FenceBesideAgents == AgentSpec => [](LeaseExclusive /\ CancelledIsFenced)
<1>1. AgentInit => ClaimInv /\ FenceInv
  BY DEF AgentInit, Init, ClaimInv, FenceInv, GrantsBounded, GrantUnique, RunningIsGranted,
         CancelledIsFenced
<1>2. ClaimInv /\ FenceInv /\ [AgentNext]_agentVars => ClaimInv' /\ FenceInv'
  <2> SUFFICES ASSUME ClaimInv, FenceInv, [AgentNext]_agentVars PROVE ClaimInv' /\ FenceInv'
    OBVIOUS
  <2>1. CASE AgentStep
    <3>1. ClaimInv' /\ lastId' \in Nat /\ lastId <= lastId'
      BY <2>1, AgentKeeps DEF RowsKept, ClaimInv
    <3> QED
      BY <2>1, <3>1, AgentLendless, LendlessKeeps
  <2>2. CASE QueueStep
    BY <2>2, QueueKeepsClaims, QueueFenced DEF QueueStep
  <2>3. CASE UNCHANGED agentVars
    BY <2>3 DEF agentVars, vars, ClaimInv, FenceInv, GrantsBounded, GrantUnique,
                RunningIsGranted, CancelledIsFenced, Generation
  <2> QED
    BY <2>1, <2>2, <2>3 DEF AgentNext
<1>3. FenceInv => LeaseExclusive
  <2> SUFFICES ASSUME FenceInv, NEW g \in granted, NEW s, NEW now, HoldsLease(s, g, now)
               PROVE  /\ s = g.session
                      /\ \A h \in granted : h.task = g.task => h.generation <= g.generation
    BY DEF LeaseExclusive
  <2>1. /\ g.task \in DOMAIN tasks /\ tasks[g.task].status = "RUNNING"
        /\ tasks[g.task].locked_by = s /\ Generation(g.task) = g.generation
    BY DEF HoldsLease, Generation
  <2>2. PICK r \in granted : r.task = g.task /\ r.generation = g.generation /\ r.session = s
    BY <2>1 DEF FenceInv, RunningIsGranted
  <2>3. r = g
    BY <2>2 DEF FenceInv, GrantUnique
  <2>4. \A h \in granted : h.task = g.task => h.generation <= g.generation
    BY <2>1 DEF FenceInv, GrantsBounded
  <2> QED
    BY <2>2, <2>3, <2>4
<1>4. FenceInv => CancelledIsFenced
  BY DEF FenceInv
<1> QED
  BY <1>1, <1>2, <1>3, <1>4, PTL DEF AgentSpec

-----------------------------------------------------------------------------
(* Live leases of workers, with agents about.                              *)

\* A row has a count of its retries.
Counted(row) == "retry_count" \in DOMAIN row

\* Rows have counts, and a poll that is about to look at the task it claimed
\* still has the claim.
HandInv ==
  /\ \A t \in DOMAIN tasks : Counted(tasks[t])
  /\ "task" \in DOMAIN handler
  /\ handler.next = "deliver" =>
       handler.task \in DOMAIN tasks /\ tasks[handler.task].status = "CLAIMED"

\* LiveLeaseKept of one step.
LeaseKept ==
  \A t \in DOMAIN tasks \cap DOMAIN tasks' :
    /\ tasks[t].status \in Held
    /\ tasks[t].locked_until >= clock
    /\ tasks'[t].status = "PENDING"
    => tasks'[t].retry_count = tasks[t].retry_count + 1

\* A row that is written is in one of these cases.
Returned(t) ==
  \/ tasks'[t] = tasks[t]
  \/ /\ Counted(tasks'[t])
     /\ \/ tasks'[t].status # "PENDING"
        \/ tasks[t].status \notin Held
        \/ tasks[t].locked_until < clock
        \/ tasks'[t].retry_count = tasks[t].retry_count + 1

\* Every row that stays is, and a new row has a count.
RowsReturned ==
  \A t \in DOMAIN tasks' :
    (t \in DOMAIN tasks /\ Returned(t)) \/ (t \notin DOMAIN tasks /\ Counted(tasks'[t]))

\* The rows are counted after every step.
RowsCounted == \A t \in DOMAIN tasks' : Counted(tasks'[t])

\* That is all that is asked of a step.
LEMMA ReturnedKeeps ==
  ASSUME ClaimInv, HandInv, RowsReturned
  PROVE  LeaseKept /\ RowsCounted
<1>1. RowsCounted
  BY DEF HandInv, RowsReturned, Returned, RowsCounted
<1>2. ASSUME NEW t \in DOMAIN tasks, t \in DOMAIN tasks',
             tasks[t].status \in Held, tasks[t].locked_until >= clock,
             tasks'[t].status = "PENDING"
      PROVE  tasks'[t].retry_count = tasks[t].retry_count + 1
  <2>1. Returned(t)
    BY <1>2 DEF RowsReturned
  <2>2. ~ (tasks[t].locked_until < clock)
    BY <1>2 DEF ClaimInv
  <2>3. tasks'[t] # tasks[t]
    BY <1>2 DEF Held
  <2> QED
    BY <1>2, <2>1, <2>2, <2>3 DEF Returned
<1> QED
  BY <1>1, <1>2 DEF LeaseKept

\* What is written by SetLease.
LEMMA LeaseCount ==
  ASSUME NEW row, NEW status, NEW owner, NEW until, NEW now
  PROVE  /\ Counted(SetLease(row, status, owner, until, now))
         /\ SetLease(row, status, owner, until, now).retry_count = row.retry_count
  BY DEF SetLease, Counted

\* A failure counts one retry.
LEMMA FailureCounts ==
  ASSUME NEW row, Counted(row), NEW now, NEW r, r = FailedRow(row, now)
  PROVE  Counted(r) /\ r.retry_count = row.retry_count + 1
<1>1. PICK failed : failed = [row EXCEPT !.retry_count = row.retry_count + 1]
  OBVIOUS
<1>2. failed.retry_count = row.retry_count + 1
  BY <1>1 DEF Counted
<1>3. PICK later : later = [failed EXCEPT !.scheduled_at =
                               now + Backoff[ClampRetry(row.retry_count)]]
  OBVIOUS
<1>4. later.retry_count = failed.retry_count
  BY <1>1, <1>3 DEF Counted
<1>5. r = Unlocked(failed, "FAILED", now) \/ r = Unlocked(later, "PENDING", now)
  BY <1>1, <1>3 DEF FailedRow
<1> QED
  BY <1>2, <1>4, <1>5, LeaseCount DEF Unlocked

\* One row is written.
LEMMA OneReturned ==
  ASSUME NEW u, NEW row, Counted(row), tasks' = [tasks EXCEPT ![u] = row],
         u \in DOMAIN tasks => \/ row.status # "PENDING"
                               \/ tasks[u].status \notin Held
                               \/ row.retry_count = tasks[u].retry_count + 1
  PROVE  RowsReturned
<1>1. DOMAIN tasks' = DOMAIN tasks
  OBVIOUS
<1>2. \A t \in DOMAIN tasks : tasks'[t] = IF t = u THEN row ELSE tasks[t]
  OBVIOUS
<1> QED
  BY <1>1, <1>2 DEF RowsReturned, Returned

\* Nothing is written.
LEMMA NoneReturned ==
  ASSUME tasks' = tasks
  PROVE  RowsReturned
  BY DEF RowsReturned, Returned

\* Clients and claims of workers.
LEMMA ClientReturns ==
  ASSUME ClaimInv, HandInv, ClientStep \/ (\E now \in ReadClock, s \in Sessions : Claim(s, now))
  PROVE  RowsReturned
<1>1. ASSUME NEW now, NEW spec, InsertTask(spec, now) PROVE RowsReturned
  <2>1. PICK n : n = lastId + 1
    OBVIOUS
  <2>2. n \notin DOMAIN tasks
    BY <2>1 DEF ClaimInv
  <2>3. tasks' = [t \in DOMAIN tasks \cup {n} |-> IF t = n THEN NewRow(spec, now) ELSE tasks[t]]
    BY <1>1, <2>1 DEF InsertTask
  <2>4. Counted(NewRow(spec, now))
    BY DEF NewRow, Counted
  <2> QED
    BY <2>2, <2>3, <2>4 DEF RowsReturned, Returned
<1>2. ASSUME NEW key, NEW fp, EnqueueReplayed(key, fp) PROVE RowsReturned
  BY <1>2, NoneReturned DEF EnqueueReplayed, tables
<1>3. ASSUME NEW now, NEW t \in DOMAIN tasks, CancelTask(t, now) PROVE RowsReturned
  <2>1. PICK row : row = Unlocked(tasks[t], "CANCELLED", now)
    OBVIOUS
  <2>2. tasks' = [tasks EXCEPT ![t] = row]
    BY <1>3, <2>1 DEF CancelTask
  <2>3. Counted(row) /\ row.status = "CANCELLED"
    BY <2>1, LeaseCount, LeaseOwner DEF Unlocked
  <2> QED
    BY <2>2, <2>3, OneReturned
<1>4. ASSUME NEW now, NEW s, Claim(s, now) PROVE RowsReturned
  <2>1. PICK t \in Claimable(s, now) :
          tasks' = [tasks EXCEPT ![t] = SetLease(@, "RUNNING", s, @.locked_until, now)]
    BY <1>4 DEF Claim
  <2>2. PICK row : row = SetLease(tasks[t], "RUNNING", s, tasks[t].locked_until, now)
    OBVIOUS
  <2>3. tasks' = [tasks EXCEPT ![t] = row]
    BY <2>1, <2>2
  <2>4. Counted(row) /\ row.status = "RUNNING"
    BY <2>2, LeaseCount, LeaseOwner
  <2> QED
    BY <2>3, <2>4, OneReturned
<1> QED
  BY <1>1, <1>2, <1>3, <1>4 DEF ClientStep, Enqueue, EnqueueCreated

\* Workers.
LEMMA WorkerReturns ==
  ASSUME ClaimInv, HandInv, WorkerStep
  PROVE  RowsReturned
<1>1. PICK s \in Sessions, g \in granted, now \in ReadClock :
        \/ Heartbeat(s, g, now) \/ CompleteTask(s, g, now)
        \/ CompleteWithProjection(s, g, now) \/ FailTask(s, g, now)
  BY DEF WorkerStep
<1>2. PICK u : u = g.task
  OBVIOUS
<1>3. u \in DOMAIN tasks
  BY <1>1, <1>2 DEF Heartbeat, CompleteTask, CompleteWithProjection, FailTask, HoldsLease
<1>4. CASE Heartbeat(s, g, now)
  <2>1. PICK row : row = SetLease(tasks[u], "RUNNING", s, now + Lease, now)
    OBVIOUS
  <2>2. tasks' = [tasks EXCEPT ![u] = row]
    BY <1>2, <1>4, <2>1 DEF Heartbeat
  <2>3. Counted(row) /\ row.status = "RUNNING"
    BY <2>1, LeaseCount, LeaseOwner
  <2> QED
    BY <2>2, <2>3, OneReturned
<1>5. CASE CompleteTask(s, g, now) \/ CompleteWithProjection(s, g, now)
  <2>1. PICK row : row = Unlocked(tasks[u], "COMPLETED", now)
    OBVIOUS
  <2>2. tasks' = [tasks EXCEPT ![u] = row]
    BY <1>2, <1>5, <2>1 DEF CompleteTask, CompleteWithProjection
  <2>3. Counted(row) /\ row.status = "COMPLETED"
    BY <2>1, LeaseCount, LeaseOwner DEF Unlocked
  <2> QED
    BY <2>2, <2>3, OneReturned
<1>6. CASE FailTask(s, g, now)
  <2>1. PICK old, row : old = tasks[u] /\ row = FailedRow(old, now)
    OBVIOUS
  <2>2. tasks' = [tasks EXCEPT ![u] = row]
    BY <1>2, <1>6, <2>1 DEF FailTask
  <2>3. Counted(old)
    BY <1>3, <2>1 DEF HandInv
  <2>4. Counted(row) /\ row.retry_count = old.retry_count + 1
    BY <2>1, <2>3, FailureCounts
  <2> QED
    BY <2>1, <2>2, <2>4, OneReturned
<1> QED
  BY <1>1, <1>4, <1>5, <1>6

\* The rows stay, and each is in one of the cases.
LEMMA EachReturned ==
  ASSUME DOMAIN tasks' = DOMAIN tasks, \A t \in DOMAIN tasks : Returned(t)
  PROVE  RowsReturned
  BY DEF RowsReturned

\* The dispatcher writes ASSIGNED, recovery waits for the deadline to pass,
\* retention deletes.
LEMMA SweepReturns ==
  ASSUME ClaimInv,
         \/ \E now \in ReadClock, S \in SUBSET Sessions : Dispatch(S, now)
         \/ Maintenance
  PROVE  RowsReturned
<1>1. ASSUME NEW now, NEW S, Dispatch(S, now)
      PROVE  RowsReturned
  <2>1. PICK a \in [SelectedTasks(S, now) -> S \cup {NoSession}] :
          tasks' = [t \in DOMAIN tasks |->
                      IF t \in DOMAIN a /\ a[t] # NoSession
                      THEN SetLease(tasks[t], "ASSIGNED", a[t], now + Lease, now)
                      ELSE tasks[t]]
    BY <1>1 DEF Dispatch
  <2>2. DOMAIN tasks' = DOMAIN tasks
    BY <2>1
  <2>3. ASSUME NEW t \in DOMAIN tasks
        PROVE  Returned(t)
    <3>1. CASE t \in DOMAIN a /\ a[t] # NoSession
      <4>1. tasks'[t] = SetLease(tasks[t], "ASSIGNED", a[t], now + Lease, now)
        BY <2>1, <3>1
      <4>2. tasks'[t].status = "ASSIGNED" /\ Counted(tasks'[t])
        BY <4>1, LeaseOwner, LeaseCount
      <4> QED
        BY <4>2 DEF Returned
    <3>2. CASE ~ (t \in DOMAIN a /\ a[t] # NoSession)
      BY <2>1, <3>2 DEF Returned
    <3> QED
      BY <3>1, <3>2
  <2> QED
    BY <2>2, <2>3, EachReturned
<1>2. ASSUME NEW now \in ReadClock, RecoverExpired(now)
      PROVE  RowsReturned
  <2>1. tasks' = [t \in DOMAIN tasks |->
                    IF t \in Expired(now) THEN Unlocked(tasks[t], "PENDING", now) ELSE tasks[t]]
    BY <1>2 DEF RecoverExpired
  <2>2. DOMAIN tasks' = DOMAIN tasks
    BY <2>1
  <2>3. ASSUME NEW t \in DOMAIN tasks
        PROVE  Returned(t)
    <3>1. CASE t \in Expired(now)
      <4>1. tasks[t].locked_until < clock
        BY <1>2, <3>1, ReadsPast DEF Expired, ClaimInv
      <4>2. tasks'[t] = Unlocked(tasks[t], "PENDING", now)
        BY <2>1, <3>1
      <4>3. Counted(tasks'[t])
        BY <4>2, LeaseCount DEF Unlocked
      <4> QED
        BY <4>1, <4>3 DEF Returned
    <3>2. CASE t \notin Expired(now)
      BY <2>1, <3>2 DEF Returned
    <3> QED
      BY <3>1, <3>2
  <2> QED
    BY <2>2, <2>3, EachReturned
<1>3. CASE PruneToMax
  <2>1. tasks' = [t \in DOMAIN tasks \ Prunable |-> tasks[t]]
    BY <1>3 DEF PruneToMax
  <2> QED
    BY <2>1 DEF RowsReturned, Returned
<1> QED
  BY <1>1, <1>2, <1>3 DEF Maintenance

\* The Rust processes.
LEMMA QueueReturns ==
  ASSUME ClaimInv, HandInv, Next
  PROVE  RowsReturned
<1>1. CASE Tick
  BY <1>1, NoneReturned DEF Tick, tables
<1> QED
  BY <1>1, ClientReturns, WorkerReturns, SweepReturns DEF Next, BrokerStep

\* The gateway: the release names CLAIMED, the put-back the task that this poll
\* claimed, and a report never writes PENDING.
LEMMA AgentReturns ==
  ASSUME HandInv, AgentStep
  PROVE  RowsReturned
<1>1. ASSUME UNCHANGED vars PROVE RowsReturned
  BY <1>1, NoneReturned DEF vars
<1>2. ASSUME NEW a, NEW now, PollRelease(a, now) PROVE RowsReturned
  <2>1. tasks' = [t \in DOMAIN tasks |->
                    IF t \in ExpiredClaims(now)
                    THEN SetLock(tasks[t], "PENDING", NoSession, NoDeadline)
                    ELSE tasks[t]]
    BY <1>2 DEF PollRelease, AutoRelease
  <2>2. ASSUME NEW t \in DOMAIN tasks PROVE Returned(t)
    <3>1. CASE t \in ExpiredClaims(now)
      <4>1. tasks[t].status \notin Held
        BY <3>1 DEF ExpiredClaims, Held
      <4>2. Counted(tasks'[t])
        BY <2>1, <3>1, LeaseCount DEF SetLock
      <4> QED
        BY <4>1, <4>2 DEF Returned
    <3>2. CASE t \notin ExpiredClaims(now)
      BY <2>1, <3>2 DEF Returned
    <3> QED
      BY <3>1, <3>2
  <2>3. DOMAIN tasks' = DOMAIN tasks
    BY <2>1
  <2> QED
    BY <2>2, <2>3, EachReturned
<1>3. ASSUME NEW now, PollClaim(now) PROVE RowsReturned
  <2>1. PICK first : tasks' = [t \in DOMAIN tasks |->
                       IF t \in first
                       THEN SetLock(tasks[t], "CLAIMED", handler.agent, now + AgentLease)
                       ELSE tasks[t]]
    BY <1>3 DEF PollClaim
  <2>2. ASSUME NEW t \in DOMAIN tasks PROVE Returned(t)
    <3>1. \/ tasks'[t] = tasks[t]
          \/ tasks'[t] = SetLock(tasks[t], "CLAIMED", handler.agent, now + AgentLease)
      BY <2>1
    <3>2. tasks'[t] = tasks[t] \/ (tasks'[t].status = "CLAIMED" /\ Counted(tasks'[t]))
      BY <3>1, LeaseOwner, LeaseCount DEF SetLock
    <3> QED
      BY <3>2 DEF Returned
  <2>3. DOMAIN tasks' = DOMAIN tasks
    BY <2>1
  <2> QED
    BY <2>2, <2>3, EachReturned
<1>4. CASE PollPutBack
  <2>1. PICK u, row : u = handler.task
                      /\ row = SetLock(tasks[handler.task], "PENDING", NoSession, NoDeadline)
    OBVIOUS
  <2>2. tasks' = [tasks EXCEPT ![u] = row] /\ handler.next = "deliver"
    BY <1>4, <2>1 DEF PollPutBack
  <2>3. Counted(row)
    BY <2>1, LeaseCount DEF SetLock
  <2>4. tasks[u].status \notin Held
    BY <2>1, <2>2 DEF HandInv, Held
  <2> QED
    BY <2>2, <2>3, <2>4, OneReturned
<1>5. CASE StoreResult
  BY <1>5, NoneReturned DEF StoreResult
<1>6. ASSUME NEW w, NEW status \in {"COMPLETED", "FAILED"}, Report(w, status) PROVE RowsReturned
  <2>1. tasks' = [t \in DOMAIN tasks |->
                    IF t = w.task
                    THEN SetLock(tasks[t], status, tasks[t].locked_by, tasks[t].locked_until)
                    ELSE tasks[t]]
    BY <1>6 DEF Report
  <2>2. ASSUME NEW t \in DOMAIN tasks PROVE Returned(t)
    <3>1. \/ tasks'[t] = tasks[t]
          \/ tasks'[t] = SetLock(tasks[t], status, tasks[t].locked_by, tasks[t].locked_until)
      BY <2>1
    <3>2. tasks'[t] = tasks[t] \/ (tasks'[t].status = status /\ Counted(tasks'[t]))
      BY <3>1, LeaseOwner, LeaseCount DEF SetLock
    <3> QED
      BY <1>6, <3>2 DEF Returned
  <2>3. DOMAIN tasks' = DOMAIN tasks
    BY <2>1
  <2> QED
    BY <2>2, <2>3, EachReturned
<1>7. ASSUME NEW a, RegisterAgent(a) \/ AgentGivesUp(a) \/ AgentStops(a) PROVE RowsReturned
  BY <1>1, <1>7 DEF RegisterAgent, AgentGivesUp, AgentStops
<1>8. CASE GatewayRestart \/ PollDeliver \/ HandlerThrows
  BY <1>1, <1>8 DEF GatewayRestart, PollDeliver, HandlerThrows
<1> QED
  BY <1>2, <1>3, <1>4, <1>5, <1>6, <1>7, <1>8 DEF AgentStep, PollStep, StatementStep

\* What HandInv says of the handler.
HandlerClaims ==
  /\ "task" \in DOMAIN handler
  /\ handler.next = "deliver" =>
       handler.task \in DOMAIN tasks /\ tasks[handler.task].status = "CLAIMED"

\* A handler that is not between its claim and its delivery owes nothing.
LEMMA HandlerElsewhere ==
  ASSUME NEW n, NEW a, NEW t, handler' = [next |-> n, agent |-> a, task |-> t], n # "deliver"
  PROVE  HandlerClaims'
  BY DEF HandlerClaims

\* Statements of the gateway: only a poll's claim hands over a task, and that
\* row it has just written.
LEMMA AgentHands ==
  ASSUME HandInv, AgentStep
  PROVE  HandlerClaims'
<1>1. ASSUME handler' = Idle PROVE HandlerClaims'
  BY <1>1, HandlerElsewhere DEF Idle
<1>2. ASSUME UNCHANGED <<tasks, handler>> PROVE HandlerClaims'
  BY <1>2 DEF HandlerClaims, HandInv
<1>3. ASSUME NEW a, NEW now, PollRelease(a, now) PROVE HandlerClaims'
  BY <1>3, HandlerElsewhere DEF PollRelease
<1>4. ASSUME NEW w, NEW status, Report(w, status) PROVE HandlerClaims'
  BY <1>4, HandlerElsewhere DEF Report
<1>5. ASSUME NEW now, PollClaim(now) PROVE HandlerClaims'
  <2>1. PICK first :
          /\ first = {t \in Pollable(now) : \A u \in Pollable(now) \ {t} : Before(t, u)}
          /\ tasks' = [t \in DOMAIN tasks |->
                         IF t \in first
                         THEN SetLock(tasks[t], "CLAIMED", handler.agent, now + AgentLease)
                         ELSE tasks[t]]
          /\ \/ handler' = Idle
             \/ \E t \in first : handler' = [handler EXCEPT !.next = "deliver", !.task = t]
    BY <1>5 DEF PollClaim
  <2>2. CASE handler' = Idle
    BY <1>1, <2>2
  <2>3. ASSUME NEW t \in first, handler' = [handler EXCEPT !.next = "deliver", !.task = t]
        PROVE  HandlerClaims'
    <3>1. t \in DOMAIN tasks
      BY <2>1 DEF Pollable
    <3>2. t \in DOMAIN tasks' /\ tasks'[t].status = "CLAIMED"
      <4>1. tasks'[t] = SetLock(tasks[t], "CLAIMED", handler.agent, now + AgentLease)
        BY <2>1, <2>3, <3>1
      <4>2. tasks'[t].status = "CLAIMED"
        BY <4>1, LeaseOwner DEF SetLock
      <4> QED
        BY <2>1, <3>1, <4>2
    <3>3. "task" \in DOMAIN handler' /\ handler'.task = t
      BY <2>3 DEF HandInv
    <3> QED
      BY <3>2, <3>3 DEF HandlerClaims
  <2> QED
    BY <2>1, <2>2, <2>3
<1>6. ASSUME NEW a, RegisterAgent(a) \/ AgentGivesUp(a) \/ AgentStops(a) PROVE HandlerClaims'
  BY <1>2, <1>6 DEF RegisterAgent, AgentGivesUp, AgentStops, vars
<1>7. CASE GatewayRestart \/ PollDeliver \/ PollPutBack \/ StoreResult \/ HandlerThrows
  BY <1>1, <1>7 DEF GatewayRestart, PollDeliver, PollPutBack, StoreResult, HandlerThrows
<1> QED
  BY <1>3, <1>4, <1>5, <1>6, <1>7 DEF AgentStep, PollStep, StatementStep

\* A worker's live lease is as safe with agents about as without: no statement
\* of the gateway sends a row that is ASSIGNED or RUNNING back to PENDING,
\* since the put-back of a poll, which names its row by id alone, comes while
\* the row is still claimed; and lease recovery, on a clock read late, does not
\* come before the deadline.
THEOREM LiveLeaseBesideAgents == AgentSpec => LiveLeaseKept
<1>1. AgentInit => ClaimInv /\ HandInv
  BY DEF AgentInit, Init, ClaimInv, HandInv, Idle
<1>2. ClaimInv /\ HandInv /\ [AgentNext]_agentVars =>
        ClaimInv' /\ HandInv' /\ [LeaseKept]_vars
  <2> SUFFICES ASSUME ClaimInv, HandInv, [AgentNext]_agentVars
               PROVE  ClaimInv' /\ HandInv' /\ [LeaseKept]_vars
    OBVIOUS
  <2>1. ASSUME RowsReturned, HandlerClaims' PROVE HandInv' /\ LeaseKept
    BY <2>1, ReturnedKeeps DEF HandInv, HandlerClaims, RowsCounted
  <2>2. CASE AgentStep
    <3>1. ClaimInv'
      BY <2>2, AgentKeeps DEF RowsKept, ClaimInv
    <3> QED
      BY <2>1, <2>2, <3>1, AgentReturns, AgentHands
  <2>3. CASE QueueStep
    <3>1. ClaimInv' /\ ClaimedUntouched /\ handler' = handler
      BY <2>3, QueueKeepsClaims DEF QueueStep, agents
    <3>2. HandlerClaims'
      BY <3>1 DEF HandInv, HandlerClaims, ClaimedUntouched
    <3> QED
      BY <2>1, <2>3, <3>1, <3>2, QueueReturns DEF QueueStep
  <2>4. CASE UNCHANGED agentVars
    BY <2>4 DEF agentVars, vars, agents, ClaimInv, HandInv
  <2> QED
    BY <2>2, <2>3, <2>4 DEF AgentNext
<1> QED
  BY <1>1, <1>2, PTL DEF AgentSpec, LiveLeaseKept, LeaseKept
=============================================================================
