-------------------------- MODULE TaskQueueProofs --------------------------
(***************************************************************************)
(* Proofs about TaskQueue for every set of sessions, every request and     *)
(* every bound: its invariants, its action properties, and that it         *)
(* implements TaskLifecycle (the empty tables are the initial state of the *)
(* life cycle, and each transaction is one of its steps or invisible to    *)
(* it; the proof goes through what the life cycle sees of one task id).    *)
(***************************************************************************)
EXTENDS TaskQueueRefinement, FiniteSetTheorems, TLAPS

USE SessionsAssumption, SpecsAssumption, TimeAssumption, BoundsAssumption

-----------------------------------------------------------------------------
(* Facts about the helpers.                                                *)

\* The status sets of TaskStatus: what each one contains.
LEMMA StatusSets ==
  /\ Held \subseteq Active
  /\ Active \cap Terminal = {}
  /\ "PENDING" \in Active /\ "PENDING" \notin Held
  /\ "ASSIGNED" \in Held /\ "RUNNING" \in Held
  /\ "COMPLETED" \in Terminal /\ "FAILED" \in Terminal /\ "CANCELLED" \in Terminal
  BY DEF Held, Active, Terminal

\* A row stays a row when its lease columns are rewritten.
LEMMA SetLeaseIsRow ==
  ASSUME NEW row \in Row, NEW status \in Active \cup Terminal,
         NEW owner \in Sessions \cup {NoSession}, NEW until \in Int, NEW now \in Int
  PROVE  SetLease(row, status, owner, until, now) \in Row
  BY DEF SetLease, Row

\* A row stays a row when its lease is cleared.
LEMMA UnlockedIsRow ==
  ASSUME NEW row \in Row, NEW status \in Active \cup Terminal, NEW now \in Int
  PROVE  Unlocked(row, status, now) \in Row
  BY SetLeaseIsRow DEF Unlocked, NoDeadline

\* fail_task leaves a row.
LEMMA FailedRowIsRow ==
  ASSUME NEW row \in Row, NEW now \in Int
  PROVE  FailedRow(row, now) \in Row
  <1> DEFINE failed == [row EXCEPT !.retry_count = @ + 1]
             next   == now + Backoff[ClampRetry(row.retry_count)]
  <1>1. row.retry_count \in Nat
    BY DEF Row
  <1>2. ClampRetry(row.retry_count) \in 0..20
    BY <1>1 DEF ClampRetry
  <1>3. failed \in Row
    BY <1>1 DEF Row
  <1>4. next \in Int
    BY <1>2
  <1>5. [failed EXCEPT !.scheduled_at = next] \in Row
    <2> HIDE DEF failed, next
    <2> QED
      BY <1>3, <1>4 DEF Row
  <1> QED
    BY <1>3, <1>5, UnlockedIsRow, StatusSets DEF FailedRow

\* Every task has a row.
LEMMA TaskIsRow ==
  ASSUME TypeOK, NEW t \in DOMAIN tasks
  PROVE  tasks[t] \in Row /\ t \in Nat
  BY DEF TypeOK

\* A clock reading is an integer of the clock's range.
LEMMA ReadClockInt ==
  ASSUME TypeOK, NEW now \in ReadClock
  PROVE  now \in Nat /\ now <= clock
  BY DEF TypeOK, ReadClock

\* The generation of a task, read through COALESCE.
LEMMA GenerationType ==
  ASSUME TypeOK, NEW t
  PROVE  Generation(t) \in 0..MaxGeneration
  BY DEF TypeOK, Generation

\* The upsert of a fence changes that fence only.
LEMMA SetFenceType ==
  ASSUME TypeOK, NEW t, NEW g \in 1..MaxGeneration
  PROVE  SetFence(t, g) \in [DOMAIN SetFence(t, g) -> 1..MaxGeneration]
  BY DEF TypeOK, SetFence

-----------------------------------------------------------------------------
(* Type correctness.                                                       *)

\* The tables ensure_schema creates are empty.
LEMMA InitTypeOK == Init => TypeOK
  BY DEF Init, TypeOK

\* Every transaction keeps the types of the tables.
LEMMA NextTypeOK == TypeOK /\ [Next]_vars => TypeOK'
  <1> SUFFICES ASSUME TypeOK, [Next]_vars PROVE TypeOK'
    OBVIOUS
  <1> USE StatusSets
  <1>1. ASSUME NEW now \in ReadClock, NEW spec \in TaskSpecs, Enqueue(spec, now)
        PROVE  TypeOK'
    BY <1>1 DEF TypeOK, Enqueue, InsertTask, NewRow, ReadClock, Row, NoDeadline
  <1>2. ASSUME NEW now \in ReadClock, NEW spec \in TaskSpecs, NEW key \in Keys,
               NEW fp \in Fingerprints, EnqueueCreated(key, fp, spec, now)
        PROVE  TypeOK'
    BY <1>2 DEF TypeOK, EnqueueCreated, InsertTask, NewRow, ReadClock, Row, NoDeadline
  <1>3. ASSUME NEW key \in Keys, NEW fp \in Fingerprints, EnqueueReplayed(key, fp)
        PROVE  TypeOK'
    BY <1>3 DEF TypeOK, EnqueueReplayed, tables
  <1>4. ASSUME NEW now \in ReadClock, NEW t \in DOMAIN tasks, CancelTask(t, now)
        PROVE  TypeOK'
    <2>1. Unlocked(tasks[t], "CANCELLED", now) \in Row
      BY TaskIsRow, UnlockedIsRow, ReadClockInt
    <2>2. Generation(t) + 1 \in 1..MaxGeneration
      BY <1>4, GenerationType DEF CancelTask
    <2> QED
      BY <1>4, <2>1, <2>2, SetFenceType DEF TypeOK, CancelTask
  <1>5. ASSUME NEW now \in ReadClock, NEW S \in SUBSET Sessions, Dispatch(S, now)
        PROVE  TypeOK'
    <2>1. PICK a \in [SelectedTasks(S, now) -> S \cup {NoSession}] :
            tasks' = [t \in DOMAIN tasks |->
                         IF t \in DOMAIN a /\ a[t] # NoSession
                         THEN SetLease(tasks[t], "ASSIGNED", a[t], now + Lease, now)
                         ELSE tasks[t]]
      BY <1>5 DEF Dispatch
    <2>2. now \in Int /\ now + Lease \in Int
      BY ReadClockInt
    <2>3. tasks' \in [DOMAIN tasks -> Row]
      BY <2>1, <2>2, SetLeaseIsRow DEF TypeOK
    <2> QED
      BY <1>5, <2>3 DEF TypeOK, Dispatch
  <1>6. ASSUME NEW now \in ReadClock, NEW s \in Sessions, Claim(s, now)
        PROVE  TypeOK'
    <2>1. PICK t \in Claimable(s, now) :
            /\ Generation(t) < MaxGeneration
            /\ tasks' = [tasks EXCEPT ![t] = SetLease(@, "RUNNING", s, @.locked_until, now)]
            /\ fences' = SetFence(t, Generation(t) + 1)
            /\ granted' = granted \cup {[task |-> t, generation |-> Generation(t) + 1,
                                         session |-> s, at |-> clock]}
      BY <1>6 DEF Claim
    <2>2. t \in DOMAIN tasks /\ t \in Nat
      BY DEF Claimable, TypeOK
    <2>3. Generation(t) + 1 \in 1..MaxGeneration
      BY <2>1, GenerationType
    <2>4. tasks' \in [DOMAIN tasks -> Row]
      BY <2>1, <2>2, ReadClockInt, SetLeaseIsRow DEF TypeOK, Row
    <2>5. granted' \subseteq Grant
      BY <2>1, <2>2, <2>3 DEF TypeOK, Grant
    <2> QED
      BY <1>6, <2>1, <2>3, <2>4, <2>5, SetFenceType DEF TypeOK, Claim
  <1>7. ASSUME NEW s \in Sessions, NEW g \in granted, NEW now \in ReadClock,
               \/ Heartbeat(s, g, now)
               \/ CompleteTask(s, g, now)
               \/ CompleteWithProjection(s, g, now)
               \/ FailTask(s, g, now)
        PROVE  TypeOK'
    <2>0. /\ g.task \in DOMAIN tasks
          /\ tasks[g.task] \in Row
          /\ g.task \in DOMAIN fences
          /\ g.generation \in 1..MaxGeneration
          /\ now \in Int
      BY <1>7, ReadClockInt
         DEF Heartbeat, CompleteTask, CompleteWithProjection, FailTask, HoldsLease, TypeOK
    <2>1. CASE Heartbeat(s, g, now)
      <3>1. SetLease(tasks[g.task], "RUNNING", s, now + Lease, now) \in Row
        BY <2>0, SetLeaseIsRow
      <3> QED
        BY <2>0, <2>1, <3>1 DEF TypeOK, Heartbeat
    <2>2. CASE CompleteTask(s, g, now)
      BY <2>0, <2>2, UnlockedIsRow DEF TypeOK, CompleteTask
    <2>3. CASE CompleteWithProjection(s, g, now)
      BY <2>0, <2>3, UnlockedIsRow DEF TypeOK, CompleteWithProjection
    <2>4. CASE FailTask(s, g, now)
      BY <2>0, <2>4, FailedRowIsRow DEF TypeOK, FailTask
    <2> QED
      BY <1>7, <2>1, <2>2, <2>3, <2>4
  <1>8. ASSUME NEW now \in ReadClock, RecoverExpired(now)
        PROVE  TypeOK'
    <2>1. \A t \in DOMAIN tasks : Unlocked(tasks[t], "PENDING", now) \in Row
      BY TaskIsRow, UnlockedIsRow, ReadClockInt
    <2> QED
      BY <1>8, <2>1 DEF TypeOK, RecoverExpired
  <1>9. CASE PruneToMax
    BY <1>9 DEF TypeOK, PruneToMax
  <1>10. CASE Tick
    BY <1>10 DEF TypeOK, Tick, tables
  <1>11. CASE UNCHANGED vars
    BY <1>11 DEF TypeOK, vars
  <1> QED
    BY <1>1, <1>2, <1>3, <1>4, <1>5, <1>6, <1>7, <1>8, <1>9, <1>10, <1>11
       DEF Next, ClientStep, BrokerStep, WorkerStep, Maintenance

\* The tables, the clock and the responses always have the shape the schema
\* gives them: generations stay within the range checked_add allows, and no
\* row refers to an id that was never handed out.
THEOREM TypeCorrect == Spec => []TypeOK
  BY InitTypeOK, NextTypeOK, PTL DEF Spec

-----------------------------------------------------------------------------
(* What the row updates write.                                             *)

\* What an UPDATE of the lease columns writes, column by column.
LEMMA SetLeaseFields ==
  ASSUME NEW row, NEW status, NEW owner, NEW until, NEW now
  PROVE  LET new == SetLease(row, status, owner, until, now) IN
         /\ new.status = status
         /\ new.locked_by = owner
         /\ new.locked_until = until
         /\ new.retry_count = row.retry_count
         /\ new.spec = row.spec
  BY DEF SetLease

\* Clearing a lease writes the new status and no owner.
LEMMA UnlockedFields ==
  ASSUME NEW row, NEW status, NEW now
  PROVE  LET new == Unlocked(row, status, now) IN
         /\ new.status = status
         /\ new.locked_by = NoSession
         /\ new.locked_until = NoDeadline
         /\ new.retry_count = row.retry_count
         /\ new.spec = row.spec
  BY SetLeaseFields DEF Unlocked

\* fail_task counts the attempt and decides between another try and FAILED.
LEMMA FailedRowFields ==
  ASSUME NEW row \in Row, NEW now \in Int
  PROVE  LET new == FailedRow(row, now) IN
         /\ new.locked_by = NoSession
         /\ new.locked_until = NoDeadline
         /\ new.spec = row.spec
         /\ new.retry_count = row.retry_count + 1
         /\ \/ new.status = "FAILED" /\ row.retry_count + 1 >= row.spec.max_retries
            \/ new.status = "PENDING" /\ ~ (row.retry_count + 1 >= row.spec.max_retries)
  <1> DEFINE failed == [row EXCEPT !.retry_count = @ + 1]
             next   == now + Backoff[ClampRetry(row.retry_count)]
             later  == [failed EXCEPT !.scheduled_at = next]
  <1>1. failed.retry_count = row.retry_count + 1 /\ failed.spec = row.spec /\ failed \in Row
    BY DEF Row
  <1>2. later.retry_count = row.retry_count + 1 /\ later.spec = row.spec
    <2> HIDE DEF failed, next
    <2> QED
      BY <1>1 DEF Row
  <1>3. FailedRow(row, now) = IF row.retry_count + 1 >= row.spec.max_retries
                              THEN Unlocked(failed, "FAILED", now)
                              ELSE Unlocked(later, "PENDING", now)
    BY DEF FailedRow
  <1> HIDE DEF failed, next, later
  <1> QED
    BY <1>1, <1>2, <1>3, UnlockedFields

-----------------------------------------------------------------------------
(* The inductive invariant.                                                *)

\* What a transaction may do to a row without touching the other tables: leave
\* it alone, or rewrite an unfinished row without starting or passing on a
\* claim.
AllowedUpdate(old, new) ==
    \/ new = old
    \/ /\ old.status \in Active
       /\ new.status # "CANCELLED"
       /\ RowCoherent(new)
       /\ RowWithinBudget(new)
       /\ new.status = "RUNNING" => old.status = "RUNNING" /\ new.locked_by = old.locked_by

\* Dispatch, recovery, heartbeat, failure and a completion without a result
\* write the tasks table only, and only with allowed updates.
LEMMA RowUpdates ==
  ASSUME SafetyInv, DOMAIN tasks' = DOMAIN tasks,
         UNCHANGED <<fences, results, idem, lastId, granted, acks>>,
         \A t \in DOMAIN tasks : AllowedUpdate(tasks[t], tasks'[t])
  PROVE  SafetyInv'
  <1>1. LockCoherent'
    BY DEF SafetyInv, LockCoherent, AllowedUpdate
  <1>2. Referential'
    BY DEF SafetyInv, Referential
  <1>3. GrantsBounded'
    BY DEF SafetyInv, GrantsBounded, Generation
  <1>4. GrantUnique'
    BY DEF SafetyInv, GrantUnique
  <1>5. RunningIsGranted'
    BY DEF SafetyInv, RunningIsGranted, AllowedUpdate, Generation
  <1>6. CancelledIsFenced'
    BY DEF SafetyInv, CancelledIsFenced, AllowedUpdate, Generation
  <1>7. ResultIntegrity'
    BY StatusSets DEF SafetyInv, ResultIntegrity, AllowedUpdate, Generation
  <1>8. AcksBacked'
    BY DEF SafetyInv, AcksBacked
  <1>9. RetryBudget'
    BY DEF SafetyInv, RetryBudget, AllowedUpdate
  <1> QED
    BY <1>1, <1>2, <1>3, <1>4, <1>5, <1>6, <1>7, <1>8, <1>9 DEF SafetyInv

\* A new task has no fence, no result and no grant, and its id is new.
LEMMA InsertTaskSafe ==
  ASSUME TypeOK, SafetyInv, NEW spec \in TaskSpecs, NEW now \in Int, InsertTask(spec, now),
         UNCHANGED <<fences, results, granted>>,
         AcksBacked', \A k \in DOMAIN idem' : idem'[k].task \in DOMAIN tasks'
  PROVE  SafetyInv'
  <1>1. /\ lastId + 1 \notin DOMAIN tasks
        /\ DOMAIN tasks' = DOMAIN tasks \cup {lastId + 1}
        /\ tasks'[lastId + 1] = NewRow(spec, now)
        /\ \A t \in DOMAIN tasks : tasks'[t] = tasks[t]
        /\ lastId' = lastId + 1
        /\ lastId \in Nat
    BY DEF TypeOK, InsertTask
  <1>2. /\ RowCoherent(NewRow(spec, now))
        /\ RowWithinBudget(NewRow(spec, now))
        /\ NewRow(spec, now).status = "PENDING"
    BY DEF RowCoherent, RowWithinBudget, NewRow, Held
  <1>3. LockCoherent' /\ RetryBudget'
    BY <1>1, <1>2 DEF SafetyInv, LockCoherent, RetryBudget
  <1>4. Referential'
    BY <1>1 DEF SafetyInv, Referential
  <1>5. GrantsBounded'
    BY <1>1 DEF SafetyInv, GrantsBounded, Generation
  <1>6. GrantUnique'
    BY DEF SafetyInv, GrantUnique
  <1>7. RunningIsGranted'
    BY <1>1, <1>2 DEF SafetyInv, RunningIsGranted, Generation
  <1>8. CancelledIsFenced'
    BY <1>1, <1>2 DEF SafetyInv, CancelledIsFenced, Generation
  <1>9. ResultIntegrity'
    BY <1>1 DEF SafetyInv, ResultIntegrity, Generation
  <1> QED
    BY <1>3, <1>4, <1>5, <1>6, <1>7, <1>8, <1>9 DEF SafetyInv

\* An enqueue without a key adds a PENDING task and nothing else.
LEMMA EnqueueSafe ==
  ASSUME TypeOK, SafetyInv, NEW spec \in TaskSpecs, NEW now \in ReadClock, Enqueue(spec, now)
  PROVE  SafetyInv'
  <1>1. InsertTask(spec, now) /\ UNCHANGED <<fences, results, idem, granted, acks>>
    BY DEF Enqueue
  <1>2. /\ DOMAIN tasks' = DOMAIN tasks \cup {lastId + 1}
        /\ \A a \in acks : a.task # lastId + 1
    BY <1>1 DEF InsertTask, TypeOK
  <1>3. AcksBacked'
    BY <1>1, <1>2 DEF SafetyInv, AcksBacked
  <1>4. \A k \in DOMAIN idem' : idem'[k].task \in DOMAIN tasks'
    BY <1>1, <1>2 DEF SafetyInv, Referential
  <1> QED
    BY <1>1, <1>3, <1>4, ReadClockInt, InsertTaskSafe

\* The key of a created task is new, so no earlier answer to it has a task.
LEMMA EnqueueCreatedSafe ==
  ASSUME TypeOK, SafetyInv, NEW spec \in TaskSpecs, NEW now \in ReadClock,
         NEW key \in Keys, NEW fp \in Fingerprints, EnqueueCreated(key, fp, spec, now)
  PROVE  SafetyInv'
  <1>1. InsertTask(spec, now) /\ UNCHANGED <<fences, results, granted>> /\ key \notin DOMAIN idem
    BY DEF EnqueueCreated
  <1>2. /\ DOMAIN tasks' = DOMAIN tasks \cup {lastId + 1}
        /\ lastId' = lastId + 1
        /\ lastId \in Nat
        /\ \A a \in acks : a.task \in 1..lastId
    BY <1>1 DEF InsertTask, TypeOK
  <1>3. /\ DOMAIN idem' = DOMAIN idem \cup {key}
        /\ idem'[key].task = lastId + 1
        /\ \A k \in DOMAIN idem : idem'[k] = idem[k]
        /\ acks' = acks \cup {[key |-> key, fingerprint |-> fp, task |-> lastId + 1]}
    BY <1>1, <1>2 DEF EnqueueCreated
  <1>4. AcksBacked'
    <2> SUFFICES ASSUME NEW a \in acks'
                 PROVE  /\ a.task \in DOMAIN tasks' =>
                              a.key \in DOMAIN idem' /\ idem'[a.key].task = a.task
                        /\ a.key \in DOMAIN idem' => a.task <= idem'[a.key].task
      BY DEF AcksBacked
    <2>1. CASE a \in acks
      BY <1>1, <1>2, <1>3, <2>1 DEF SafetyInv, AcksBacked
    <2>2. CASE a = [key |-> key, fingerprint |-> fp, task |-> lastId + 1]
      BY <1>2, <1>3, <2>2
    <2> QED
      BY <1>3, <2>1, <2>2
  <1>5. \A k \in DOMAIN idem' : idem'[k].task \in DOMAIN tasks'
    BY <1>2, <1>3 DEF SafetyInv, Referential
  <1> QED
    BY <1>1, <1>4, <1>5, ReadClockInt, InsertTaskSafe

\* A replayed answer names the task its key leads to.
LEMMA EnqueueReplayedSafe ==
  ASSUME TypeOK, SafetyInv, NEW key \in Keys, NEW fp \in Fingerprints, EnqueueReplayed(key, fp)
  PROVE  SafetyInv'
  <1>1. /\ UNCHANGED <<tasks, fences, results, idem, lastId, granted>>
        /\ key \in DOMAIN idem
        /\ idem[key].task \in Nat
        /\ acks' = acks \cup {[key |-> key, fingerprint |-> fp, task |-> idem[key].task]}
    BY DEF EnqueueReplayed, tables, TypeOK
  <1>2. AcksBacked'
    BY <1>1 DEF SafetyInv, AcksBacked
  <1> QED
    BY <1>1, <1>2 DEF SafetyInv, LockCoherent, Referential, GrantsBounded, GrantUnique,
                      RunningIsGranted, CancelledIsFenced, ResultIntegrity, RetryBudget, Generation

\* Cancellation moves the fence past every grant of the task.
LEMMA CancelTaskSafe ==
  ASSUME TypeOK, SafetyInv, NEW t \in DOMAIN tasks, NEW now \in ReadClock, CancelTask(t, now)
  PROVE  SafetyInv'
  <1> DEFINE new == Unlocked(tasks[t], "CANCELLED", now)
  <1>1. /\ DOMAIN tasks' = DOMAIN tasks
        /\ tasks'[t] = new
        /\ \A u \in DOMAIN tasks : u # t => tasks'[u] = tasks[u]
        /\ tasks[t].status \in Active
        /\ fences' = SetFence(t, Generation(t) + 1)
        /\ UNCHANGED <<results, idem, lastId, granted, acks>>
    BY DEF CancelTask, TypeOK
  <1>2. /\ new.status = "CANCELLED"
        /\ new.locked_by = NoSession
        /\ new.locked_until = NoDeadline
        /\ new.retry_count = tasks[t].retry_count
        /\ new.spec = tasks[t].spec
    BY UnlockedFields
  <1> HIDE DEF new
  <1>3. /\ Generation(t)' = Generation(t) + 1
        /\ \A u : u # t => Generation(u)' = Generation(u)
        /\ DOMAIN fences' = DOMAIN fences \cup {t}
        /\ Generation(t) \in Nat
    BY <1>1, GenerationType DEF SetFence, Generation
  <1>4. \A g \in granted : g.generation \in Nat
    BY DEF TypeOK, Grant
  <1>5. LockCoherent'
    BY <1>1, <1>2, StatusSets DEF SafetyInv, LockCoherent, RowCoherent, Held
  <1>6. Referential'
    BY <1>1, <1>3 DEF SafetyInv, Referential
  <1>7. GrantsBounded'
    BY <1>1, <1>3, <1>4 DEF SafetyInv, GrantsBounded
  <1>8. GrantUnique'
    BY <1>1 DEF SafetyInv, GrantUnique
  <1>9. RunningIsGranted'
    BY <1>1, <1>2, <1>3 DEF SafetyInv, RunningIsGranted
  <1>10. CancelledIsFenced'
    BY <1>1, <1>3, <1>4 DEF SafetyInv, CancelledIsFenced, GrantsBounded
  <1>11. ResultIntegrity'
    BY <1>1, <1>3, StatusSets DEF SafetyInv, ResultIntegrity
  <1>12. AcksBacked'
    BY <1>1 DEF SafetyInv, AcksBacked
  <1>13. RetryBudget'
    BY <1>1, <1>2, StatusSets DEF SafetyInv, RetryBudget, RowWithinBudget
  <1> QED
    BY <1>5, <1>6, <1>7, <1>8, <1>9, <1>10, <1>11, <1>12, <1>13 DEF SafetyInv

\* A claim hands out a generation above every earlier grant of the task.
LEMMA ClaimSafe ==
  ASSUME TypeOK, SafetyInv, NEW s \in Sessions, NEW now \in ReadClock, Claim(s, now)
  PROVE  SafetyInv'
  <1>1. PICK t \in Claimable(s, now) :
            /\ tasks' = [tasks EXCEPT ![t] = SetLease(@, "RUNNING", s, @.locked_until, now)]
            /\ fences' = SetFence(t, Generation(t) + 1)
            /\ granted' = granted \cup {[task |-> t, generation |-> Generation(t) + 1,
                                         session |-> s, at |-> clock]}
            /\ UNCHANGED <<results, idem, lastId, acks>>
    BY DEF Claim
  <1> DEFINE new == SetLease(tasks[t], "RUNNING", s, tasks[t].locked_until, now)
             g   == [task |-> t, generation |-> Generation(t) + 1, session |-> s, at |-> clock]
  <1>2. t \in DOMAIN tasks /\ tasks[t].status = "ASSIGNED" /\ t \in 1..lastId
    BY DEF Claimable, TypeOK
  <1>3. /\ DOMAIN tasks' = DOMAIN tasks
        /\ tasks'[t] = new
        /\ \A u \in DOMAIN tasks : u # t => tasks'[u] = tasks[u]
    BY <1>1, <1>2 DEF TypeOK
  <1>4. /\ new.status = "RUNNING"
        /\ new.locked_by = s
        /\ new.locked_until = tasks[t].locked_until
        /\ new.retry_count = tasks[t].retry_count
        /\ new.spec = tasks[t].spec
    BY SetLeaseFields
  <1>5. /\ Generation(t)' = Generation(t) + 1
        /\ \A u : u # t => Generation(u)' = Generation(u)
        /\ DOMAIN fences' = DOMAIN fences \cup {t}
        /\ Generation(t) \in Nat
    BY <1>1, GenerationType DEF SetFence, Generation
  <1>6. /\ g.task = t /\ g.generation = Generation(t) + 1 /\ g.session = s
        /\ granted' = granted \cup {g}
    BY <1>1
  <1>7. \A h \in granted : h.generation \in Nat /\ (h.task = t => h.generation <= Generation(t))
    BY <1>2 DEF TypeOK, Grant, SafetyInv, GrantsBounded
  <1> HIDE DEF new, g
  <1>8. LockCoherent'
    BY <1>2, <1>3, <1>4, StatusSets DEF SafetyInv, LockCoherent, RowCoherent
  <1>9. Referential'
    BY <1>1, <1>2, <1>3, <1>5 DEF SafetyInv, Referential
  <1>10. GrantsBounded'
    BY <1>1, <1>2, <1>3, <1>5, <1>6, <1>7 DEF SafetyInv, GrantsBounded
  <1>11. GrantUnique'
    BY <1>5, <1>6, <1>7 DEF SafetyInv, GrantUnique
  <1>12. RunningIsGranted'
    BY <1>3, <1>4, <1>5, <1>6 DEF SafetyInv, RunningIsGranted
  <1>13. CancelledIsFenced'
    BY <1>3, <1>4, <1>5, <1>6 DEF SafetyInv, CancelledIsFenced
  <1>14. ResultIntegrity'
    BY <1>1, <1>2, <1>3, <1>5 DEF SafetyInv, ResultIntegrity
  <1>15. AcksBacked'
    BY <1>1, <1>3 DEF SafetyInv, AcksBacked
  <1>16. RetryBudget'
    BY <1>2, <1>3, <1>4 DEF SafetyInv, RetryBudget, RowWithinBudget
  <1> QED
    BY <1>8, <1>9, <1>10, <1>11, <1>12, <1>13, <1>14, <1>15, <1>16 DEF SafetyInv

\* A dispatch moves PENDING rows to ASSIGNED and touches nothing else.
LEMMA DispatchSafe ==
  ASSUME TypeOK, SafetyInv, NEW S \in SUBSET Sessions, NEW now \in ReadClock, Dispatch(S, now)
  PROVE  SafetyInv'
  <1>1. PICK a \in [SelectedTasks(S, now) -> S \cup {NoSession}] :
          tasks' = [t \in DOMAIN tasks |->
                       IF t \in DOMAIN a /\ a[t] # NoSession
                       THEN SetLease(tasks[t], "ASSIGNED", a[t], now + Lease, now)
                       ELSE tasks[t]]
    BY DEF Dispatch
  <1>2. \A t \in SelectedTasks(S, now) : t \in DOMAIN tasks /\ tasks[t].status = "PENDING"
    BY ZenonT(40) DEF SelectedTasks, Selected, Runnable
  <1>3. now + Lease \in Int /\ now + Lease # NoDeadline
    BY ReadClockInt DEF NoDeadline
  <1>4. ASSUME NEW t \in DOMAIN tasks
        PROVE  AllowedUpdate(tasks[t], tasks'[t])
    <2>1. CASE t \in DOMAIN a /\ a[t] # NoSession
      <3> DEFINE new == SetLease(tasks[t], "ASSIGNED", a[t], now + Lease, now)
      <3>1. /\ new.status = "ASSIGNED"
            /\ new.locked_by = a[t]
            /\ new.locked_until = now + Lease
            /\ new.retry_count = tasks[t].retry_count
            /\ new.spec = tasks[t].spec
        BY SetLeaseFields
      <3>2. tasks'[t] = new
        BY <1>1, <2>1
      <3>3. tasks[t].status = "PENDING" /\ RowWithinBudget(tasks[t])
        BY <1>2, <2>1 DEF SafetyInv, RetryBudget
      <3> HIDE DEF new
      <3>4. RowCoherent(new)
        BY <1>3, <2>1, <3>1, StatusSets DEF RowCoherent
      <3>5. RowWithinBudget(new)
        BY <3>1, <3>3 DEF RowWithinBudget
      <3> QED
        BY <3>1, <3>2, <3>3, <3>4, <3>5, StatusSets DEF AllowedUpdate
    <2>2. CASE ~ (t \in DOMAIN a /\ a[t] # NoSession)
      BY <1>1, <2>2 DEF AllowedUpdate
    <2> QED
      BY <2>1, <2>2
  <1>5. DOMAIN tasks' = DOMAIN tasks /\ UNCHANGED <<fences, results, idem, lastId, granted, acks>>
    BY <1>1 DEF Dispatch
  <1> QED
    BY <1>4, <1>5, RowUpdates

\* Recovery returns rows to PENDING and leaves their fences in place.
LEMMA RecoverExpiredSafe ==
  ASSUME TypeOK, SafetyInv, NEW now \in ReadClock, RecoverExpired(now)
  PROVE  SafetyInv'
  <1>1. ASSUME NEW t \in DOMAIN tasks
        PROVE  AllowedUpdate(tasks[t], tasks'[t])
    <2>1. CASE t \in Expired(now)
      <3> DEFINE new == Unlocked(tasks[t], "PENDING", now)
      <3>1. /\ new.status = "PENDING"
            /\ new.locked_by = NoSession
            /\ new.locked_until = NoDeadline
            /\ new.retry_count = tasks[t].retry_count
            /\ new.spec = tasks[t].spec
        BY UnlockedFields
      <3>2. tasks'[t] = new /\ tasks[t].status \in Held /\ RowWithinBudget(tasks[t])
        BY <2>1 DEF RecoverExpired, Expired, SafetyInv, RetryBudget
      <3> HIDE DEF new
      <3>3. RowCoherent(new) /\ RowWithinBudget(new)
        BY <3>1, <3>2, StatusSets DEF RowCoherent, RowWithinBudget, Held
      <3> QED
        BY <3>1, <3>2, <3>3, StatusSets DEF AllowedUpdate
    <2>2. CASE t \notin Expired(now)
      BY <2>2 DEF RecoverExpired, AllowedUpdate
    <2> QED
      BY <2>1, <2>2
  <1>2. DOMAIN tasks' = DOMAIN tasks /\ UNCHANGED <<fences, results, idem, lastId, granted, acks>>
    BY DEF RecoverExpired
  <1> QED
    BY <1>1, <1>2, RowUpdates

\* The holder renews, completes or fails its lease.
LEMMA LeaseStepSafe ==
  ASSUME TypeOK, SafetyInv, NEW s \in Sessions, NEW g \in granted, NEW now \in ReadClock,
         Heartbeat(s, g, now) \/ CompleteTask(s, g, now) \/ FailTask(s, g, now)
  PROVE  SafetyInv'
  <1> DEFINE t == g.task
             row == tasks[t]
  <1>1. /\ t \in DOMAIN tasks
        /\ row \in Row
        /\ row.status = "RUNNING"
        /\ row.locked_by = s
        /\ RowWithinBudget(row)
        /\ row.retry_count \in Nat
        /\ row.spec.max_retries \in Nat
        /\ now \in Nat
    BY ReadClockInt
       DEF Heartbeat, CompleteTask, FailTask, HoldsLease, TypeOK, Row, SafetyInv, RetryBudget
  <1>2. /\ DOMAIN tasks' = DOMAIN tasks
        /\ \A u \in DOMAIN tasks : u # t => tasks'[u] = tasks[u]
        /\ UNCHANGED <<fences, results, idem, lastId, granted, acks>>
    BY <1>1 DEF Heartbeat, CompleteTask, FailTask, TypeOK
  <1>3. AllowedUpdate(row, tasks'[t])
    <2>1. CASE Heartbeat(s, g, now)
      <3> DEFINE new == SetLease(row, "RUNNING", s, now + Lease, now)
      <3>1. tasks'[t] = new
        BY <1>1, <2>1 DEF Heartbeat
      <3>2. /\ new.status = "RUNNING"
            /\ new.locked_by = s
            /\ new.locked_until = now + Lease
            /\ new.retry_count = row.retry_count
            /\ new.spec = row.spec
        BY SetLeaseFields
      <3> HIDE DEF new, row
      <3>3. RowCoherent(new) /\ RowWithinBudget(new)
        BY <1>1, <3>2, StatusSets DEF RowCoherent, RowWithinBudget, NoDeadline
      <3> QED
        BY <1>1, <3>1, <3>2, <3>3, StatusSets DEF AllowedUpdate
    <2>2. CASE CompleteTask(s, g, now)
      <3> DEFINE new == Unlocked(row, "COMPLETED", now)
      <3>1. tasks'[t] = new
        BY <1>1, <2>2 DEF CompleteTask
      <3>2. /\ new.status = "COMPLETED"
            /\ new.locked_by = NoSession
            /\ new.locked_until = NoDeadline
            /\ new.retry_count = row.retry_count
            /\ new.spec = row.spec
        BY UnlockedFields
      <3> HIDE DEF new, row
      <3>3. RowCoherent(new) /\ RowWithinBudget(new)
        BY <1>1, <3>2 DEF RowCoherent, RowWithinBudget, Held
      <3> QED
        BY <1>1, <3>1, <3>2, <3>3, StatusSets DEF AllowedUpdate
    <2>3. CASE FailTask(s, g, now)
      <3> DEFINE new == FailedRow(row, now)
      <3>1. tasks'[t] = new
        BY <1>1, <2>3 DEF FailTask
      <3>2. /\ new.locked_by = NoSession
            /\ new.locked_until = NoDeadline
            /\ new.spec = row.spec
            /\ new.retry_count = row.retry_count + 1
            /\ \/ new.status = "FAILED" /\ row.retry_count + 1 >= row.spec.max_retries
               \/ new.status = "PENDING" /\ ~ (row.retry_count + 1 >= row.spec.max_retries)
        BY <1>1, FailedRowFields
      <3> HIDE DEF new, row
      <3>3. RowCoherent(new) /\ RowWithinBudget(new)
        BY <1>1, <3>2 DEF RowCoherent, RowWithinBudget, Held
      <3> QED
        BY <1>1, <3>1, <3>2, <3>3, StatusSets DEF AllowedUpdate
    <2> QED
      BY <2>1, <2>2, <2>3
  <1>4. \A u \in DOMAIN tasks : AllowedUpdate(tasks[u], tasks'[u])
    BY <1>2, <1>3 DEF AllowedUpdate
  <1> QED
    BY <1>2, <1>4, RowUpdates

\* A completion with a result writes the row and the result in one step.
LEMMA CompleteWithProjectionSafe ==
  ASSUME TypeOK, SafetyInv, NEW s \in Sessions, NEW g \in granted, NEW now \in ReadClock,
         CompleteWithProjection(s, g, now)
  PROVE  SafetyInv'
  <1> DEFINE t == g.task
             new == Unlocked(tasks[t], "COMPLETED", now)
  <1>1. /\ t \in DOMAIN tasks
        /\ tasks[t].status = "RUNNING"
        /\ Generation(t) = g.generation
        /\ UNCHANGED <<fences, idem, lastId, granted, acks>>
    BY DEF CompleteWithProjection, HoldsLease, Generation
  <1>2. /\ DOMAIN tasks' = DOMAIN tasks
        /\ tasks'[t] = new
        /\ \A u \in DOMAIN tasks : u # t => tasks'[u] = tasks[u]
    BY <1>1 DEF CompleteWithProjection, TypeOK
  <1>3. /\ DOMAIN results' = DOMAIN results \cup {t}
        /\ results'[t] = g.generation
        /\ \A u \in DOMAIN results : u # t => results'[u] = results[u]
    BY DEF CompleteWithProjection
  <1>4. /\ new.status = "COMPLETED"
        /\ new.locked_by = NoSession
        /\ new.locked_until = NoDeadline
        /\ new.retry_count = tasks[t].retry_count
        /\ new.spec = tasks[t].spec
    BY UnlockedFields
  <1> HIDE DEF new
  <1>5. LockCoherent'
    BY <1>1, <1>2, <1>4 DEF SafetyInv, LockCoherent, RowCoherent, Held
  <1>6. Referential'
    BY <1>1, <1>2, <1>3 DEF SafetyInv, Referential
  <1>7. GrantsBounded' /\ GrantUnique' /\ AcksBacked'
    BY <1>1, <1>2 DEF SafetyInv, GrantsBounded, GrantUnique, AcksBacked, Generation
  <1>8. RunningIsGranted' /\ CancelledIsFenced'
    BY <1>1, <1>2, <1>4 DEF SafetyInv, RunningIsGranted, CancelledIsFenced, Generation
  <1>9. ResultIntegrity'
    BY <1>1, <1>2, <1>3, <1>4 DEF SafetyInv, ResultIntegrity, Generation
  <1>10. RetryBudget'
    BY <1>1, <1>2, <1>4 DEF SafetyInv, RetryBudget, RowWithinBudget
  <1> QED
    BY <1>5, <1>6, <1>7, <1>8, <1>9, <1>10 DEF SafetyInv

\* Retention deletes the same finished tasks from all four tables.
LEMMA PruneToMaxSafe ==
  ASSUME TypeOK, SafetyInv, PruneToMax
  PROVE  SafetyInv'
  <1>1. /\ DOMAIN tasks' = DOMAIN tasks \ Prunable
        /\ \A t \in DOMAIN tasks' : tasks'[t] = tasks[t]
        /\ DOMAIN fences' = DOMAIN fences \ Prunable
        /\ \A t \in DOMAIN fences' : fences'[t] = fences[t]
        /\ DOMAIN results' = DOMAIN results \ Prunable
        /\ \A t \in DOMAIN results' : results'[t] = results[t]
        /\ DOMAIN idem' = {k \in DOMAIN idem : idem[k].task \notin Prunable}
        /\ \A k \in DOMAIN idem' : idem'[k] = idem[k]
        /\ UNCHANGED <<lastId, granted, acks>>
    BY DEF PruneToMax
  <1>2. \A t \in DOMAIN tasks' : Generation(t)' = Generation(t)
    BY <1>1 DEF Generation
  <1>3. LockCoherent' /\ RetryBudget'
    BY <1>1 DEF SafetyInv, LockCoherent, RetryBudget
  <1>4. Referential'
    BY <1>1 DEF SafetyInv, Referential
  <1>5. GrantsBounded' /\ GrantUnique'
    BY <1>1, <1>2 DEF SafetyInv, GrantsBounded, GrantUnique
  <1>6. RunningIsGranted' /\ CancelledIsFenced'
    BY <1>1, <1>2 DEF SafetyInv, RunningIsGranted, CancelledIsFenced
  <1>7. ResultIntegrity'
    BY <1>1, <1>2 DEF SafetyInv, ResultIntegrity
  <1>8. AcksBacked'
    BY <1>1 DEF SafetyInv, AcksBacked
  <1> QED
    BY <1>3, <1>4, <1>5, <1>6, <1>7, <1>8 DEF SafetyInv

\* The empty tables satisfy the fencing invariant.
LEMMA InitSafe == Init => SafetyInv
  BY DEF Init, SafetyInv, LockCoherent, Referential, GrantsBounded, GrantUnique,
         RunningIsGranted, CancelledIsFenced, ResultIntegrity, AcksBacked, RetryBudget

\* Every transaction preserves the fencing invariant.
LEMMA NextSafe == TypeOK /\ SafetyInv /\ [Next]_vars => SafetyInv'
  <1> SUFFICES ASSUME TypeOK, SafetyInv, [Next]_vars PROVE SafetyInv'
    OBVIOUS
  <1>1. CASE ClientStep
    BY <1>1, EnqueueSafe, EnqueueCreatedSafe, EnqueueReplayedSafe, CancelTaskSafe DEF ClientStep
  <1>2. CASE BrokerStep
    BY <1>2, DispatchSafe, ClaimSafe DEF BrokerStep
  <1>3. CASE WorkerStep
    BY <1>3, LeaseStepSafe, CompleteWithProjectionSafe DEF WorkerStep
  <1>4. CASE Maintenance
    BY <1>4, RecoverExpiredSafe, PruneToMaxSafe DEF Maintenance
  <1>5. CASE Tick \/ UNCHANGED vars
    BY <1>5 DEF Tick, tables, vars, SafetyInv, LockCoherent, Referential, GrantsBounded,
                GrantUnique, RunningIsGranted, CancelledIsFenced, ResultIntegrity, AcksBacked,
                RetryBudget, Generation
  <1> QED
    BY <1>1, <1>2, <1>3, <1>4, <1>5 DEF Next

\* After every transaction the four tables agree with each other and with
\* every response sent to a client or a worker.
THEOREM QueueSafety == Spec => []SafetyInv
  <1>1. Init => TypeOK /\ SafetyInv
    BY InitTypeOK, InitSafe
  <1>2. (TypeOK /\ SafetyInv) /\ [Next]_vars => (TypeOK /\ SafetyInv)'
    BY NextTypeOK, NextSafe
  <1> QED
    BY <1>1, <1>2, PTL DEF Spec

\* The lease fence of lease_fence.rs: of all the claim responses ever sent for
\* a task, only the newest one, presented by the session it was sent to, is
\* accepted by heartbeat, completion and failure.
THEOREM LeaseFencing == Spec => []LeaseExclusive
  <1>1. TypeOK /\ SafetyInv => LeaseExclusive
    <2> SUFFICES ASSUME TypeOK, SafetyInv, NEW g \in granted, NEW s \in Sessions,
                        NEW now \in ReadClock, HoldsLease(s, g, now)
                 PROVE  /\ s = g.session
                        /\ \A h \in granted : h.task = g.task => h.generation <= g.generation
      BY DEF LeaseExclusive
    <2>1. /\ g.task \in DOMAIN tasks
          /\ tasks[g.task].status = "RUNNING"
          /\ tasks[g.task].locked_by = s
          /\ Generation(g.task) = g.generation
      BY DEF HoldsLease, Generation
    <2>2. PICK h \in granted : /\ h.task = g.task
                               /\ h.generation = Generation(g.task)
                               /\ h.session = tasks[g.task].locked_by
      BY <2>1 DEF SafetyInv, RunningIsGranted
    <2>3. h = g
      BY <2>1, <2>2 DEF SafetyInv, GrantUnique
    <2> QED
      BY <2>1, <2>2, <2>3 DEF SafetyInv, GrantsBounded
  <1> QED
    BY <1>1, TypeCorrect, QueueSafety, PTL

\* Two requests with one idempotency key are answered with one task for as
\* long as retention keeps that task.
THEOREM Idempotency == Spec => []IdempotentAcks
  <1>1. TypeOK /\ SafetyInv => IdempotentAcks
    <2> SUFFICES ASSUME TypeOK, SafetyInv, NEW a \in acks, NEW b \in acks,
                        a.key = b.key, a.task < b.task, a.task \in DOMAIN tasks
                 PROVE  FALSE
      BY DEF IdempotentAcks
    <2>1. a.task \in Nat /\ b.task \in Nat
      BY DEF TypeOK
    <2> QED
      BY <2>1 DEF SafetyInv, AcksBacked
  <1> QED
    BY <1>1, TypeCorrect, QueueSafety, PTL

-----------------------------------------------------------------------------
(* Deadlines.                                                              *)

\* A row goes back to PENDING in two ways: its worker reports a failure, which
\* counts as a retry, or recovery finds the deadline of the lease passed.
LEMMA BackToPending ==
  ASSUME TypeOK, Next, NEW t \in DOMAIN tasks \cap DOMAIN tasks',
         tasks[t].status \in Held, tasks'[t].status = "PENDING"
  PROVE  \/ tasks'[t].retry_count = tasks[t].retry_count + 1
         \/ tasks[t].locked_until < clock
  <1> USE StatusSets
  <1>1. tasks[t] \in Row /\ clock \in Nat
    BY TaskIsRow DEF TypeOK
  <1>2. tasks[t].status # "PENDING"
    OBVIOUS
  <1>3. CASE ClientStep
    <2>1. ASSUME NEW spec, NEW now, InsertTask(spec, now)
          PROVE  FALSE
      BY <1>2, <2>1 DEF InsertTask, TypeOK
    <2>2. ASSUME NEW u \in DOMAIN tasks, NEW now, CancelTask(u, now)
          PROVE  FALSE
      BY <1>2, <2>2, UnlockedFields DEF CancelTask
    <2>3. ASSUME NEW key, NEW fp, EnqueueReplayed(key, fp)
          PROVE  FALSE
      BY <1>2, <2>3 DEF EnqueueReplayed, tables
    <2> QED
      BY <1>3, <2>1, <2>2, <2>3 DEF ClientStep, Enqueue, EnqueueCreated
  <1>4. CASE BrokerStep
    BY <1>2, <1>4, SetLeaseFields DEF BrokerStep, Dispatch, Claim
  <1>5. CASE WorkerStep
    <2>1. PICK s \in Sessions, g \in granted, now \in ReadClock :
            \/ Heartbeat(s, g, now)
            \/ CompleteTask(s, g, now)
            \/ CompleteWithProjection(s, g, now)
            \/ FailTask(s, g, now)
      BY <1>5 DEF WorkerStep
    <2>2. CASE FailTask(s, g, now)
      BY <1>1, <1>2, <2>2, ReadClockInt, FailedRowFields DEF FailTask
    <2>3. CASE ~ FailTask(s, g, now)
      BY <1>2, <2>1, <2>3, SetLeaseFields, UnlockedFields
      DEF Heartbeat, CompleteTask, CompleteWithProjection
    <2> QED
      BY <2>2, <2>3
  <1>6. CASE Maintenance
    BY <1>1, <1>2, <1>6, ReadClockInt
    DEF Maintenance, RecoverExpired, Expired, PruneToMax, Row
  <1>7. CASE Tick
    BY <1>2, <1>7 DEF Tick, tables
  <1> QED
    BY <1>3, <1>4, <1>5, <1>6, <1>7 DEF Next

\* A lease whose deadline lies ahead is not recovered, although every
\* transaction works with a time it read before it had the lock.
THEOREM LiveLease == Spec => LiveLeaseKept
  <1>1. TypeOK /\ [Next]_vars =>
          [\A t \in DOMAIN tasks \cap DOMAIN tasks' :
              /\ tasks[t].status \in Held
              /\ tasks[t].locked_until >= clock
              /\ tasks'[t].status = "PENDING"
              => tasks'[t].retry_count = tasks[t].retry_count + 1]_vars
    <2> SUFFICES ASSUME TypeOK, Next, NEW t \in DOMAIN tasks \cap DOMAIN tasks',
                        tasks[t].status \in Held, tasks[t].locked_until >= clock,
                        tasks'[t].status = "PENDING"
                 PROVE  tasks'[t].retry_count = tasks[t].retry_count + 1
      BY DEF vars
    <2>1. tasks[t].locked_until \in Int /\ clock \in Int
      BY TaskIsRow DEF TypeOK, Row
    <2> QED
      BY <2>1, BackToPending
  <1> QED
    BY <1>1, TypeCorrect, PTL DEF Spec, LiveLeaseKept

-----------------------------------------------------------------------------
(* Capacity.                                                               *)

HeldBy(s) == {t \in DOMAIN tasks : tasks[t].status \in Held /\ tasks[t].locked_by = s}

\* A subset of a finite set is finite and no larger.
LEMMA SubsetCardinality ==
  ASSUME NEW S, IsFiniteSet(S), NEW T, T \subseteq S
  PROVE  /\ IsFiniteSet(T)
         /\ Cardinality(T) \in Nat
         /\ Cardinality(S) \in Nat
         /\ Cardinality(T) <= Cardinality(S)
  <1>1. T \in SUBSET S
    OBVIOUS
  <1>2. IsFiniteSet(T) /\ Cardinality(T) <= Cardinality(S)
    BY <1>1, FS_Subset
  <1> QED
    BY <1>2, FS_CardinalityType

\* A union has at most as many elements as its two parts together.
LEMMA UnionCardinality ==
  ASSUME NEW S, IsFiniteSet(S), NEW T, IsFiniteSet(T)
  PROVE  /\ IsFiniteSet(S \cup T)
         /\ Cardinality(S \cup T) \in Nat
         /\ Cardinality(S \cup T) <= Cardinality(S) + Cardinality(T)
  <1>1. /\ IsFiniteSet(S \cup T)
        /\ Cardinality(S \cup T) = Cardinality(S) + Cardinality(T) - Cardinality(S \cap T)
    BY FS_Union
  <1>2. IsFiniteSet(S \cap T)
    BY FS_Intersection
  <1>3. Cardinality(S) \in Nat /\ Cardinality(T) \in Nat /\ Cardinality(S \cap T) \in Nat
    BY <1>2, FS_CardinalityType
  <1>4. \A i, j, k \in Nat : i + j - k \in Int /\ i + j - k <= i + j
    OBVIOUS
  <1>5. Cardinality(S \cup T) \in Nat
    BY <1>1, FS_CardinalityType
  <1> QED
    BY <1>1, <1>3, <1>4, <1>5

\* The tables are finite.
LEMMA FiniteTables ==
  ASSUME TypeOK, NEW T, T \subseteq DOMAIN tasks
  PROVE  IsFiniteSet(T) /\ Cardinality(T) \in Nat
  <1>1. 1 \in Int /\ lastId \in Int
    BY BoundsAssumption DEF TypeOK
  <1>2. IsFiniteSet(1..lastId)
    BY <1>1, FS_Interval
  <1>3. T \subseteq 1..lastId
    BY DEF TypeOK
  <1> QED
    BY <1>2, <1>3, SubsetCardinality

\* Only a dispatch gives a session something to hold.
LEMMA NothingElseLends ==
  ASSUME TypeOK, [Next]_vars, NEW s \in Sessions,
         ~ \E now \in ReadClock, S \in SUBSET Sessions : Dispatch(S, now)
  PROVE  HeldBy(s)' \subseteq HeldBy(s)
  <1> USE StatusSets DEF HeldBy
  <1>1. CASE ClientStep
    <2>1. ASSUME NEW spec, NEW now, InsertTask(spec, now)
          PROVE  HeldBy(s)' \subseteq HeldBy(s)
      BY <2>1 DEF InsertTask, NewRow
    <2>2. ASSUME NEW u \in DOMAIN tasks, NEW now, CancelTask(u, now)
          PROVE  HeldBy(s)' \subseteq HeldBy(s)
      BY <2>2, UnlockedFields DEF CancelTask
    <2>3. ASSUME NEW key, NEW fp, EnqueueReplayed(key, fp)
          PROVE  HeldBy(s)' \subseteq HeldBy(s)
      BY <2>3 DEF EnqueueReplayed, tables
    <2> QED
      BY <1>1, <2>1, <2>2, <2>3 DEF ClientStep, Enqueue, EnqueueCreated
  <1>2. CASE BrokerStep
    BY <1>2, SetLeaseFields DEF BrokerStep, Claim, Claimable
  <1>3. CASE WorkerStep
    <2>1. PICK r \in Sessions, g \in granted, now \in ReadClock :
            \/ Heartbeat(r, g, now)
            \/ CompleteTask(r, g, now)
            \/ CompleteWithProjection(r, g, now)
            \/ FailTask(r, g, now)
      BY <1>3 DEF WorkerStep
    <2>2. CASE FailTask(r, g, now)
      BY <2>2, TaskIsRow, ReadClockInt, FailedRowFields DEF FailTask, HoldsLease
    <2>3. CASE ~ FailTask(r, g, now)
      BY <2>1, <2>3, SetLeaseFields, UnlockedFields
      DEF Heartbeat, CompleteTask, CompleteWithProjection, HoldsLease
    <2> QED
      BY <2>2, <2>3
  <1>4. CASE Maintenance
    BY <1>4, UnlockedFields DEF Maintenance, RecoverExpired, PruneToMax
  <1>5. CASE Tick \/ UNCHANGED vars
    BY <1>5 DEF Tick, tables, vars
  <1> QED
    BY <1>1, <1>2, <1>3, <1>4, <1>5 DEF Next

\* A dispatch adds to what a session holds at most the free slots that the
\* transaction counted for it.
LEMMA DispatchWithinCapacity ==
  ASSUME TypeOK, CapacityRespected, NEW now \in ReadClock, NEW S \in SUBSET Sessions,
         Dispatch(S, now), NEW s \in Sessions
  PROVE  Cardinality(HeldBy(s)') <= Capacity[s]
  <1>1. PICK a \in [SelectedTasks(S, now) -> S \cup {NoSession}] :
          /\ Rounded(a, S)
          /\ tasks' = [t \in DOMAIN tasks |->
                         IF t \in DOMAIN a /\ a[t] # NoSession
                         THEN SetLease(tasks[t], "ASSIGNED", a[t], now + Lease, now)
                         ELSE tasks[t]]
    BY DEF Dispatch
  <1> DEFINE gets  == AssignedTo(a, s)
             held  == HeldBy(s)
             after == HeldBy(s)'
             slots == Capacity[s]
  <1>2. /\ after \subseteq held \cup gets
        /\ s \notin S => after \subseteq held
    BY <1>1, SetLeaseFields DEF HeldBy, AssignedTo
  <1>3. /\ IsFiniteSet(held) /\ Cardinality(held) \in Nat
        /\ IsFiniteSet(gets) /\ Cardinality(gets) \in Nat
    <2>1. gets \subseteq DOMAIN tasks
      <3>1. SelectedTasks(S, now) \subseteq DOMAIN tasks
        BY DEF SelectedTasks, Selected, Runnable
      <3>2. DOMAIN a = SelectedTasks(S, now)
        BY <1>1
      <3> QED
        BY <3>1, <3>2 DEF AssignedTo
    <2>2. held \subseteq DOMAIN tasks
      BY DEF HeldBy
    <2> QED
      BY <2>1, <2>2, FiniteTables
  <1>4. Cardinality(held) <= slots /\ slots \in Nat
    BY SessionsAssumption DEF CapacityRespected, HeldBy
  <1>5. s \in S => Cardinality(gets) <= (IF slots - Cardinality(held) > 0
                                        THEN slots - Cardinality(held) ELSE 0)
    BY <1>1 DEF Rounded, AvailableSlots, Load, HeldBy
  <1> HIDE DEF gets, held, after, slots
  <1>6. CASE s \in S
    <2>1. Cardinality(gets) <= slots - Cardinality(held)
      BY <1>3, <1>4, <1>5, <1>6
    <2>2. /\ IsFiniteSet(held \cup gets)
          /\ Cardinality(held \cup gets) \in Nat
          /\ Cardinality(held \cup gets) <= Cardinality(held) + Cardinality(gets)
      BY <1>3, UnionCardinality
    <2>3. Cardinality(after) \in Nat /\ Cardinality(after) <= Cardinality(held \cup gets)
      BY <1>2, <2>2, SubsetCardinality
    <2> QED
      BY <1>3, <1>4, <2>1, <2>2, <2>3 DEF after, slots
  <1>7. CASE s \notin S
    <2>1. Cardinality(after) \in Nat /\ Cardinality(after) <= Cardinality(held)
      BY <1>2, <1>3, <1>7, SubsetCardinality
    <2> QED
      BY <1>3, <1>4, <2>1 DEF after, slots
  <1> QED
    BY <1>6, <1>7

\* No session holds more than its slots, for any snapshots of the registry,
\* any scores and any interleaving with recovery, claims and reports.
THEOREM Capacities == Spec => []CapacityRespected
  <1>1. Init => CapacityRespected
    <2> SUFFICES ASSUME Init, NEW s \in Sessions
                 PROVE  Cardinality(HeldBy(s)) <= Capacity[s]
      BY DEF CapacityRespected, HeldBy
    <2>1. HeldBy(s) = {}
      BY DEF Init, HeldBy
    <2> QED
      BY <2>1, FS_EmptySet
  <1>2. TypeOK /\ CapacityRespected /\ [Next]_vars => CapacityRespected'
    <2> SUFFICES ASSUME TypeOK, CapacityRespected, [Next]_vars, NEW s \in Sessions
                 PROVE  Cardinality(HeldBy(s)') <= Capacity[s]
      BY DEF CapacityRespected, HeldBy
    <2>1. CASE \E now \in ReadClock, S \in SUBSET Sessions : Dispatch(S, now)
      BY <2>1, DispatchWithinCapacity
    <2>2. CASE ~ \E now \in ReadClock, S \in SUBSET Sessions : Dispatch(S, now)
      <3> DEFINE held  == HeldBy(s)
                 after == HeldBy(s)'
                 slots == Capacity[s]
      <3>1. after \subseteq held
        BY <2>2, NothingElseLends
      <3>2. IsFiniteSet(held) /\ Cardinality(held) \in Nat
        BY FiniteTables DEF HeldBy
      <3>3. Cardinality(held) <= slots /\ slots \in Nat
        BY SessionsAssumption DEF CapacityRespected, HeldBy
      <3> HIDE DEF held, after, slots
      <3>4. Cardinality(after) \in Nat /\ Cardinality(after) <= Cardinality(held)
        BY <3>1, <3>2, SubsetCardinality
      <3> QED
        BY <3>2, <3>3, <3>4 DEF after, slots
    <2> QED
      BY <2>1, <2>2
  <1> QED
    BY <1>1, <1>2, TypeCorrect, PTL DEF Spec

-----------------------------------------------------------------------------
(* Retention.                                                              *)

\* ORDER BY updated_at, id is a total order of the finished tasks.
LEMMA OlderTotal ==
  ASSUME TypeOK, NEW t \in TerminalTasks, NEW u \in TerminalTasks, u # t, ~ Older(u, t)
  PROVE  Older(t, u)
  BY TaskIsRow DEF TerminalTasks, Older, Row

\* A finished task that is pruned has MaxTerminal newer ones.
LEMMA PrunableHasNewer ==
  ASSUME TypeOK, NEW t \in Prunable
  PROVE  Cardinality({u \in TerminalTasks : Older(t, u)}) >= MaxTerminal
  <1> DEFINE older == {u \in TerminalTasks : Older(u, t)}
             newer == {u \in TerminalTasks : Older(t, u)}
  <1>1. t \in TerminalTasks /\ Cardinality(older) < Cardinality(TerminalTasks) - MaxTerminal
    BY DEF Prunable
  <1>2. TerminalTasks = (older \cup newer) \cup {t}
    BY <1>1, OlderTotal
  <1>3. /\ IsFiniteSet(older) /\ Cardinality(older) \in Nat
        /\ IsFiniteSet(newer) /\ Cardinality(newer) \in Nat
        /\ Cardinality(TerminalTasks) \in Nat
    <2>1. /\ older \subseteq DOMAIN tasks
          /\ newer \subseteq DOMAIN tasks
          /\ TerminalTasks \subseteq DOMAIN tasks
      BY DEF TerminalTasks
    <2> HIDE DEF older, newer
    <2> QED
      BY <2>1, FiniteTables
  <1> HIDE DEF older, newer
  <1>4. /\ IsFiniteSet(older \cup newer)
        /\ Cardinality(older \cup newer) \in Nat
        /\ Cardinality(older \cup newer) <= Cardinality(older) + Cardinality(newer)
    BY <1>3, UnionCardinality
  <1>5. Cardinality(TerminalTasks) <= Cardinality(older \cup newer) + 1
    <2> DEFINE rest == older \cup newer
    <2>1. IsFiniteSet(rest) /\ Cardinality(rest) \in Nat /\ TerminalTasks = rest \cup {t}
      BY <1>2, <1>4
    <2> HIDE DEF rest
    <2>2. Cardinality(rest \cup {t}) = IF t \in rest THEN Cardinality(rest) ELSE Cardinality(rest) + 1
      BY <2>1, FS_AddElement
    <2>3. Cardinality(TerminalTasks) <= Cardinality(rest) + 1
      BY <2>1, <2>2
    <2> QED
      BY <2>3 DEF rest
  <1>6. Cardinality(newer) >= MaxTerminal
    BY <1>1, <1>3, <1>4, <1>5, BoundsAssumption
  <1> QED
    BY <1>6 DEF newer

\* prune_to_max deletes finished tasks only, and none that belongs to the
\* newest MaxTerminal of them.
THEOREM Retention == Spec => RetentionKeepsNewest
  <1>1. TypeOK /\ [Next]_vars =>
          [\A t \in DOMAIN tasks \ DOMAIN tasks' :
              /\ tasks[t].status \in Terminal
              /\ Cardinality({u \in TerminalTasks : Older(t, u)}) >= MaxTerminal]_vars
    <2> SUFFICES ASSUME TypeOK, Next, NEW t \in DOMAIN tasks \ DOMAIN tasks'
                 PROVE  /\ tasks[t].status \in Terminal
                        /\ Cardinality({u \in TerminalTasks : Older(t, u)}) >= MaxTerminal
      BY DEF vars
    <2>1. CASE PruneToMax
      <3>1. t \in Prunable
        BY <2>1 DEF PruneToMax
      <3> QED
        BY <3>1, PrunableHasNewer DEF Prunable, TerminalTasks
    <2>2. CASE ClientStep
      BY <2>2, ZenonT(40) DEF ClientStep, Enqueue, EnqueueCreated, EnqueueReplayed, InsertTask, CancelTask,
                  tables
    <2>3. CASE BrokerStep
      BY <2>3 DEF BrokerStep, Dispatch, Claim
    <2>4. CASE WorkerStep
      BY <2>4 DEF WorkerStep, Heartbeat, CompleteTask, CompleteWithProjection, FailTask
    <2>5. CASE (\E now \in ReadClock : RecoverExpired(now)) \/ Tick
      BY <2>5 DEF RecoverExpired, Tick, tables
    <2> QED
      BY <2>1, <2>2, <2>3, <2>4, <2>5 DEF Next, Maintenance
  <1> QED
    BY <1>1, TypeCorrect, PTL DEF Spec, RetentionKeepsNewest

-----------------------------------------------------------------------------
(* What the life cycle sees of one id.                                     *)

\* What an id shows is decided by the sequence, by whether it has a row and
\* by the status and owner of that row.
SeesRow ==
  \A t \in 1..MaxId :
    /\ t > lastId => /\ Phase(t) = "unborn"
                     /\ Holder(t) = NoSession
                     /\ Outcome(t) = "none"
    /\ t <= lastId /\ t \notin DOMAIN tasks => /\ Phase(t) = "gone"
                                               /\ Holder(t) = NoSession
                                               /\ Outcome(t) = "none"
    /\ t \in DOMAIN tasks =>
         /\ tasks[t].status = "RUNNING" => /\ Phase(t) = "lent"
                                           /\ Holder(t) = tasks[t].locked_by
                                           /\ Outcome(t) = "none"
         /\ tasks[t].status \in Terminal => /\ Phase(t) = "done"
                                            /\ Holder(t) = NoSession
                                            /\ Outcome(t) = tasks[t].status
         /\ tasks[t].status \in {"PENDING", "ASSIGNED"} => /\ Phase(t) = "waiting"
                                                           /\ Holder(t) = NoSession
                                                           /\ Outcome(t) = "none"

\* The refinement mapping says exactly that.
LEMMA ViewOfRow == TypeOK => SeesRow
  <1> SUFFICES ASSUME TypeOK, NEW t \in 1..MaxId
               PROVE  SeesRow!(t)
    BY DEF SeesRow
  <1>1. lastId \in Nat /\ t \in Nat /\ (t \in DOMAIN tasks => t <= lastId)
    BY DEF TypeOK
  <1>2. CASE t \notin DOMAIN tasks
    BY <1>1, <1>2 DEF Phase, Holder, Outcome
  <1>3. CASE t \in DOMAIN tasks
    BY <1>1, <1>3 DEF Phase, Holder, Outcome, Terminal
  <1> QED
    BY <1>2, <1>3

\* It says so in the next state too.
LEMMA ViewOfRowNext == TypeOK' => SeesRow'
  BY ViewOfRow, PTL

\* The rows of the tables are PENDING, ASSIGNED, RUNNING or finished.
LEMMA StatusOfRow ==
  ASSUME TypeOK, NEW t \in DOMAIN tasks
  PROVE  /\ tasks[t].status \in {"PENDING", "ASSIGNED", "RUNNING"} \cup Terminal
         /\ t \in 1..MaxId /\ t \in 1..lastId
  <1>1. tasks[t].status \in Active \cup Terminal
    BY TaskIsRow DEF Row
  <1>2. t \in 1..lastId /\ lastId \in 0..MaxId
    BY DEF TypeOK
  <1> QED
    BY <1>1, <1>2 DEF Active, Held

\* A step the life cycle does not see at the id t.
Unseen(t) ==
  /\ Phase(t)' = Phase(t)
  /\ Generation(t)' = Generation(t)
  /\ Holder(t)' = Holder(t)
  /\ Outcome(t)' = Outcome(t)

\* An id whose row, fence and place in the sequence stay as they are shows
\* the same as before.
LEMMA SameRowUnseen ==
  ASSUME TypeOK, TypeOK', NEW t \in 1..MaxId,
         t <= lastId' <=> t <= lastId,
         t \in DOMAIN tasks' <=> t \in DOMAIN tasks,
         t \in DOMAIN tasks => tasks'[t] = tasks[t],
         Generation(t)' = Generation(t)
  PROVE  Unseen(t)
  <1>1. SeesRow /\ SeesRow'
    BY ViewOfRow, ViewOfRowNext
  <1>2. lastId \in Nat /\ lastId' \in Nat /\ (t \in DOMAIN tasks => t <= lastId)
    BY DEF TypeOK
  <1>3. CASE t \notin DOMAIN tasks
    BY <1>1, <1>2, <1>3 DEF SeesRow, Unseen
  <1>4. CASE t \in DOMAIN tasks
    BY <1>1, <1>2, <1>4, StatusOfRow DEF SeesRow, Unseen
  <1> QED
    BY <1>3, <1>4

\* A fence that is not written, or written for another task, shows the same.
LEMMA SameGeneration ==
  ASSUME NEW t, \/ UNCHANGED fences
                \/ \E u, g : u # t /\ fences' = SetFence(u, g)
  PROVE  Generation(t)' = Generation(t)
  BY DEF Generation, SetFence

\* An upserted fence holds what was written.
LEMMA NewGeneration ==
  ASSUME NEW t, NEW g, fences' = SetFence(t, g)
  PROVE  Generation(t)' = g
  BY DEF Generation, SetFence

\* A transaction no id sees is a stuttering step of the life cycle.
LEMMA Stutters ==
  ASSUME \A t \in 1..MaxId : Unseen(t)
  PROVE  UNCHANGED L!lifecycle
  BY DEF L!lifecycle, Unseen

-----------------------------------------------------------------------------
(* One lemma per transaction.                                              *)

\* Inserting a task submits the id that the sequence hands out.
LEMMA InsertSubmits ==
  ASSUME TypeOK, TypeOK', NEW spec, NEW now, InsertTask(spec, now), UNCHANGED fences
  PROVE  L!Next
  <1>0. PICK n \in 1..MaxId : n = lastId + 1
    BY DEF TypeOK, InsertTask
  <1>1. /\ n > lastId /\ n <= lastId' /\ n \in DOMAIN tasks'
        /\ tasks'[n].status = "PENDING"
    BY <1>0 DEF TypeOK, InsertTask, NewRow
  <1>2. Phase(n) = "unborn" /\ Holder(n) = NoSession /\ Outcome(n) = "none"
    BY <1>1, ViewOfRow DEF SeesRow
  <1>3. Phase(n)' = "waiting" /\ Holder(n)' = NoSession /\ Outcome(n)' = "none"
    BY <1>1, ViewOfRowNext DEF SeesRow
  <1>4. ASSUME NEW t \in 1..MaxId, t # n PROVE Unseen(t)
    <2>1. /\ t <= lastId' <=> t <= lastId
          /\ t \in DOMAIN tasks' <=> t \in DOMAIN tasks
          /\ t \in DOMAIN tasks => tasks'[t] = tasks[t]
      BY <1>0, <1>4 DEF TypeOK, InsertTask
    <2> QED
      BY <2>1, SameRowUnseen, SameGeneration
  <1>5. Generation(n)' = Generation(n)
    BY SameGeneration
  <1>6. L!Submit(n)
    BY <1>1, <1>2, <1>3, <1>4, <1>5 DEF L!Submit, Unseen
  <1> QED
    BY <1>1, <1>6 DEF L!Next

\* An UPDATE of one row shows at no other id.
LEMMA OthersUnseen ==
  ASSUME TypeOK, TypeOK', NEW t \in DOMAIN tasks, NEW row,
         tasks' = [tasks EXCEPT ![t] = row], UNCHANGED lastId,
         \/ UNCHANGED fences
         \/ \E g : fences' = SetFence(t, g),
         NEW u \in 1..MaxId, u # t
  PROVE  Unseen(u)
  <1>1. /\ u \in DOMAIN tasks' <=> u \in DOMAIN tasks
        /\ u \in DOMAIN tasks => tasks'[u] = tasks[u]
    OBVIOUS
  <1>2. Generation(u)' = Generation(u)
    BY SameGeneration
  <1> QED
    BY <1>1, <1>2, SameRowUnseen

\* A claim lends the task to the session that claims it.
LEMMA ClaimLends ==
  ASSUME TypeOK, TypeOK', NEW s \in Sessions, NEW now, Claim(s, now)
  PROVE  L!Next
  <1>1. PICK t \in Claimable(s, now) :
            /\ tasks' = [tasks EXCEPT ![t] = SetLease(@, "RUNNING", s, @.locked_until, now)]
            /\ fences' = SetFence(t, Generation(t) + 1)
            /\ UNCHANGED lastId
    BY DEF Claim
  <1>2. t \in DOMAIN tasks /\ tasks[t].status = "ASSIGNED"
    BY DEF Claimable
  <1>3. t \in 1..MaxId
    BY <1>2, StatusOfRow
  <1>4. Phase(t) = "waiting" /\ Holder(t) = NoSession /\ Outcome(t) = "none"
    BY <1>2, <1>3, ViewOfRow DEF SeesRow
  <1>5. t \in DOMAIN tasks' /\ tasks'[t].status = "RUNNING" /\ tasks'[t].locked_by = s
    BY <1>1, <1>2, SetLeaseFields
  <1>6. Phase(t)' = "lent" /\ Holder(t)' = s /\ Outcome(t)' = "none"
    BY <1>3, <1>5, ViewOfRowNext DEF SeesRow
  <1>7. Generation(t)' = Generation(t) + 1
    BY <1>1, NewGeneration
  <1>8. \A u \in 1..MaxId : u # t => Unseen(u)
    BY <1>1, <1>2, OthersUnseen
  <1>9. L!Lend(t, s)
    BY <1>3, <1>4, <1>6, <1>7, <1>8 DEF L!Lend, Unseen
  <1> QED
    BY <1>3, <1>9 DEF L!Next

\* A cancellation ends the life of the task and the epoch of its holder.
LEMMA CancelCancels ==
  ASSUME TypeOK, TypeOK', NEW t \in DOMAIN tasks, NEW now, CancelTask(t, now)
  PROVE  L!Next
  <1>1. /\ tasks' = [tasks EXCEPT ![t] = Unlocked(@, "CANCELLED", now)]
        /\ fences' = SetFence(t, Generation(t) + 1)
        /\ tasks[t].status \in Active
        /\ UNCHANGED lastId
    BY DEF CancelTask
  <1>2. t \in 1..MaxId
    BY StatusOfRow
  <1>3. Phase(t) \in {"waiting", "lent"} /\ Outcome(t) = "none"
    BY <1>1, <1>2, ViewOfRow DEF SeesRow, Active, Held
  <1>4. t \in DOMAIN tasks' /\ tasks'[t].status = "CANCELLED"
    BY <1>1, UnlockedFields
  <1>5. Phase(t)' = "done" /\ Holder(t)' = NoSession /\ Outcome(t)' = "CANCELLED"
    BY <1>2, <1>4, ViewOfRowNext DEF SeesRow, Terminal
  <1>6. Generation(t)' = Generation(t) + 1
    BY <1>1, NewGeneration
  <1>7. \A u \in 1..MaxId : u # t => Unseen(u)
    BY <1>1, OthersUnseen
  <1>8. L!Cancel(t)
    BY <1>2, <1>3, <1>5, <1>6, <1>7 DEF L!Cancel, Unseen
  <1> QED
    BY <1>2, <1>8 DEF L!Next

\* The report of the worker that holds the lease finishes the task, gives it
\* back for another try, or is a heartbeat nobody sees.
LEMMA ReportSteps ==
  ASSUME TypeOK, TypeOK', NEW s \in Sessions, NEW g \in granted, NEW now \in ReadClock,
         \/ Heartbeat(s, g, now)
         \/ CompleteTask(s, g, now)
         \/ CompleteWithProjection(s, g, now)
         \/ FailTask(s, g, now)
  PROVE  L!Next \/ UNCHANGED L!lifecycle
  <1> DEFINE t == g.task
  <1>1. /\ t \in DOMAIN tasks /\ tasks[t].status = "RUNNING" /\ tasks[t].locked_by = s
        /\ UNCHANGED <<fences, lastId>>
    BY DEF Heartbeat, CompleteTask, CompleteWithProjection, FailTask, HoldsLease
  <1>2. t \in 1..MaxId
    BY <1>1, StatusOfRow
  <1>3. Phase(t) = "lent" /\ Holder(t) = s /\ Outcome(t) = "none"
    BY <1>1, <1>2, ViewOfRow DEF SeesRow
  <1>4. Generation(t)' = Generation(t)
    BY <1>1, SameGeneration
  <1>5. PICK row : tasks' = [tasks EXCEPT ![t] = row]
    BY DEF Heartbeat, CompleteTask, CompleteWithProjection, FailTask
  <1>6. \A u \in 1..MaxId : u # t => Unseen(u)
    BY <1>1, <1>5, OthersUnseen
  <1>7. t \in DOMAIN tasks' /\ tasks'[t] = row
    BY <1>1, <1>5
  <1>8. CASE Heartbeat(s, g, now)
    <2>1. tasks'[t].status = "RUNNING" /\ tasks'[t].locked_by = s
      BY <1>1, <1>8, SetLeaseFields DEF Heartbeat
    <2>2. Phase(t)' = "lent" /\ Holder(t)' = s /\ Outcome(t)' = "none"
      BY <1>2, <1>7, <2>1, ViewOfRowNext DEF SeesRow
    <2>3. \A u \in 1..MaxId : Unseen(u)
      BY <1>3, <1>4, <1>6, <2>2 DEF Unseen
    <2> QED
      BY <2>3, Stutters
  <1>9. ASSUME NEW o \in {"COMPLETED", "FAILED"}, tasks'[t].status = o
        PROVE  L!Next
    <2>1. Phase(t)' = "done" /\ Holder(t)' = NoSession /\ Outcome(t)' = o
      BY <1>2, <1>7, <1>9, ViewOfRowNext DEF SeesRow, Terminal
    <2>2. L!Finish(t, o)
      BY <1>2, <1>3, <1>4, <1>6, <2>1 DEF L!Finish, Unseen
    <2> QED
      BY <1>2, <2>2 DEF L!Next
  <1>10. CASE CompleteTask(s, g, now) \/ CompleteWithProjection(s, g, now)
    <2>1. tasks'[t].status = "COMPLETED"
      BY <1>1, <1>10, UnlockedFields DEF CompleteTask, CompleteWithProjection
    <2> QED
      BY <1>9, <2>1
  <1>11. CASE FailTask(s, g, now)
    <2>1. tasks'[t].status \in {"FAILED", "PENDING"}
      BY <1>1, <1>11, TaskIsRow, ReadClockInt, FailedRowFields DEF FailTask
    <2>2. CASE tasks'[t].status = "FAILED"
      BY <1>9, <2>2
    <2>3. CASE tasks'[t].status = "PENDING"
      <3>1. Phase(t)' = "waiting" /\ Holder(t)' = NoSession /\ Outcome(t)' = "none"
        BY <1>2, <1>7, <2>3, ViewOfRowNext DEF SeesRow
      <3>2. L!TakeBack({t})
        BY <1>2, <1>3, <1>4, <1>6, <3>1 DEF L!TakeBack, Unseen
      <3> QED
        BY <1>2, <3>2 DEF L!Next
    <2> QED
      BY <2>1, <2>2, <2>3
  <1> QED
    BY <1>8, <1>10, <1>11

\* A dispatch chooses sessions for waiting tasks; nothing is lent yet.
LEMMA DispatchUnseen ==
  ASSUME TypeOK, TypeOK', NEW S \in SUBSET Sessions, NEW now, Dispatch(S, now)
  PROVE  UNCHANGED L!lifecycle
  <1>1. PICK a \in [SelectedTasks(S, now) -> S \cup {NoSession}] :
          tasks' = [t \in DOMAIN tasks |->
                       IF t \in DOMAIN a /\ a[t] # NoSession
                       THEN SetLease(tasks[t], "ASSIGNED", a[t], now + Lease, now)
                       ELSE tasks[t]]
    BY DEF Dispatch
  <1>2. UNCHANGED <<fences, lastId>>
    BY DEF Dispatch
  <1>3. ASSUME NEW t \in 1..MaxId PROVE Unseen(t)
    <2>1. Generation(t)' = Generation(t)
      BY <1>2, SameGeneration
    <2>2. CASE t \in DOMAIN tasks /\ t \in DOMAIN a /\ a[t] # NoSession
      <3>1. tasks[t].status = "PENDING"
        <4>1. \A k : \A u \in Selected(S, k, now) : tasks[u].status = "PENDING"
          BY DEF Selected, Runnable
        <4>2. t \in SelectedTasks(S, now)
          BY <1>1, <2>2
        <4> QED
          BY <4>1, <4>2 DEF SelectedTasks
      <3>2. t \in DOMAIN tasks' /\ tasks'[t].status = "ASSIGNED"
        BY <1>1, <2>2, SetLeaseFields
      <3> QED
        BY <2>1, <2>2, <3>1, <3>2, ViewOfRow, ViewOfRowNext DEF SeesRow, Unseen
    <2>3. CASE ~ (t \in DOMAIN tasks /\ t \in DOMAIN a /\ a[t] # NoSession)
      <3>1. /\ t \in DOMAIN tasks' <=> t \in DOMAIN tasks
            /\ t \in DOMAIN tasks => tasks'[t] = tasks[t]
        BY <1>1, <2>3
      <3> QED
        BY <1>2, <2>1, <3>1, SameRowUnseen
    <2> QED
      BY <2>2, <2>3
  <1> QED
    BY <1>3, Stutters

\* Lease recovery takes back every running task whose lease ran out; those
\* that were only assigned still wait.
LEMMA RecoverTakesBack ==
  ASSUME TypeOK, TypeOK', NEW now, RecoverExpired(now)
  PROVE  L!Next
  <1>1. PICK T : T = {t \in Expired(now) : tasks[t].status = "RUNNING"}
    OBVIOUS
  <1>2. /\ tasks' = [t \in DOMAIN tasks |->
                      IF t \in Expired(now) THEN Unlocked(tasks[t], "PENDING", now) ELSE tasks[t]]
        /\ UNCHANGED <<fences, lastId>>
    BY DEF RecoverExpired
  <1>3. \A t \in 1..MaxId : Generation(t)' = Generation(t)
    BY <1>2, SameGeneration
  <1>4. T \subseteq 1..MaxId
    BY <1>1, StatusOfRow DEF Expired
  <1>5. ASSUME NEW t \in T
        PROVE  /\ Phase(t) = "lent" /\ Outcome(t) = "none"
               /\ Phase(t)' = "waiting" /\ Holder(t)' = NoSession /\ Outcome(t)' = "none"
    <2>1. t \in 1..MaxId /\ t \in Expired(now) /\ t \in DOMAIN tasks /\ tasks[t].status = "RUNNING"
      BY <1>1, <1>4 DEF Expired
    <2>2. t \in DOMAIN tasks' /\ tasks'[t].status = "PENDING"
      BY <1>2, <2>1, UnlockedFields
    <2> QED
      BY <2>1, <2>2, ViewOfRow, ViewOfRowNext DEF SeesRow
  <1>6. ASSUME NEW t \in 1..MaxId, t \notin T
        PROVE  Unseen(t)
    <2>1. CASE t \in Expired(now)
      <3>1. t \in DOMAIN tasks /\ tasks[t].status = "ASSIGNED"
        BY <1>1, <1>6, <2>1 DEF Expired, Held
      <3>2. t \in DOMAIN tasks' /\ tasks'[t].status = "PENDING"
        BY <1>2, <2>1, <3>1, UnlockedFields
      <3> QED
        BY <1>3, <3>1, <3>2, ViewOfRow, ViewOfRowNext DEF SeesRow, Unseen
    <2>2. CASE t \notin Expired(now)
      <3>1. /\ t \in DOMAIN tasks' <=> t \in DOMAIN tasks
            /\ t \in DOMAIN tasks => tasks'[t] = tasks[t]
        BY <1>2, <2>2
      <3> QED
        BY <1>2, <1>3, <3>1, SameRowUnseen
    <2> QED
      BY <2>1, <2>2
  <1>7. L!TakeBack(T)
    BY <1>3, <1>4, <1>5, <1>6 DEF L!TakeBack, Unseen
  <1> QED
    BY <1>4, <1>7 DEF L!Next

\* Retention forgets the tasks it deletes, and only finished ones.
LEMMA PruneForgets ==
  ASSUME TypeOK, TypeOK', PruneToMax
  PROVE  L!Next
  <1>1. PICK T : T = Prunable
    OBVIOUS
  <1>2. /\ tasks' = [t \in DOMAIN tasks \ T |-> tasks[t]]
        /\ fences' = [t \in DOMAIN fences \ T |-> fences[t]]
        /\ UNCHANGED lastId
    BY <1>1 DEF PruneToMax
  <1>3. \A t \in T : t \in DOMAIN tasks /\ tasks[t].status \in Terminal
    BY <1>1 DEF Prunable, TerminalTasks
  <1>4. \A t \in T : t \in 1..MaxId /\ t <= lastId
    BY <1>3, StatusOfRow
  <1>5. ASSUME NEW t \in T
        PROVE  /\ Phase(t) = "done" /\ Holder(t) = NoSession
               /\ Phase(t)' = "gone" /\ Generation(t)' = 0
               /\ Holder(t)' = NoSession /\ Outcome(t)' = "none"
    <2>1. t \notin DOMAIN tasks' /\ t \notin DOMAIN fences' /\ t <= lastId'
      BY <1>2, <1>4
    <2>2. Generation(t)' = 0
      BY <2>1 DEF Generation
    <2>3. Phase(t) = "done" /\ Holder(t) = NoSession
      BY <1>3, <1>4, ViewOfRow DEF SeesRow
    <2>4. Phase(t)' = "gone" /\ Holder(t)' = NoSession /\ Outcome(t)' = "none"
      BY <1>4, <2>1, ViewOfRowNext DEF SeesRow
    <2> QED
      BY <2>2, <2>3, <2>4
  <1>6. ASSUME NEW t \in 1..MaxId, t \notin T
        PROVE  Unseen(t)
    <2>1. /\ t \in DOMAIN tasks' <=> t \in DOMAIN tasks
          /\ t \in DOMAIN tasks => tasks'[t] = tasks[t]
          /\ Generation(t)' = Generation(t)
      BY <1>2, <1>6 DEF Generation
    <2> QED
      BY <1>2, <2>1, SameRowUnseen
  <1>7. L!Forget(T)
    BY <1>4, <1>5, <1>6 DEF L!Forget, Unseen
  <1> QED
    BY <1>4, <1>7 DEF L!Next

-----------------------------------------------------------------------------
\* The empty tables are the life cycle's initial state.
LEMMA InitImplements == Init => L!Init
  <1> SUFFICES ASSUME Init PROVE L!Init
    OBVIOUS
  <1>1. TypeOK
    BY InitTypeOK
  <1>2. \A t \in 1..MaxId : t > lastId /\ Generation(t) = 0
    BY DEF Init, Generation
  <1>3. \A t \in 1..MaxId : /\ Phase(t) = "unborn" /\ Generation(t) = 0
                            /\ Holder(t) = NoSession /\ Outcome(t) = "none"
    BY <1>1, <1>2, ViewOfRow DEF SeesRow
  <1> QED
    BY <1>3 DEF L!Init

\* Every transaction is a step of the life cycle or invisible to it.
LEMMA NextImplements == TypeOK /\ [Next]_vars => [L!Next]_(L!lifecycle)
  <1> SUFFICES ASSUME TypeOK, [Next]_vars PROVE L!Next \/ UNCHANGED L!lifecycle
    OBVIOUS
  <1> TypeOK'
    BY NextTypeOK
  <1>1. CASE ClientStep
    <2>1. ASSUME NEW key, NEW fp, EnqueueReplayed(key, fp) PROVE UNCHANGED L!lifecycle
      <3>1. UNCHANGED <<tasks, fences, lastId>>
        BY <2>1 DEF EnqueueReplayed, tables
      <3> QED
        BY <3>1, SameGeneration, SameRowUnseen, Stutters
    <2> QED
      BY <1>1, <2>1, InsertSubmits, CancelCancels DEF ClientStep, Enqueue, EnqueueCreated
  <1>2. CASE BrokerStep
    BY <1>2, DispatchUnseen, ClaimLends DEF BrokerStep
  <1>3. CASE WorkerStep
    BY <1>3, ReportSteps DEF WorkerStep
  <1>4. CASE Maintenance
    BY <1>4, RecoverTakesBack, PruneForgets DEF Maintenance
  <1>5. CASE Tick \/ UNCHANGED vars
    <2>1. UNCHANGED <<tasks, fences, lastId>>
      BY <1>5 DEF Tick, tables, vars
    <2> QED
      BY <2>1, SameGeneration, SameRowUnseen, Stutters
  <1> QED
    BY <1>1, <1>2, <1>3, <1>4, <1>5 DEF Next

\* The queue refines the life cycle: whatever the tables do, each task is
\* submitted once, lent under a strictly increasing epoch, finished at most
\* once and forgotten only afterwards.
THEOREM Refinement == Spec => ImplementsLifecycle
  BY TypeCorrect, InitImplements, NextImplements, PTL DEF Spec, ImplementsLifecycle, L!Spec
=============================================================================
