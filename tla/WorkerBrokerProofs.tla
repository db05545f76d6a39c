------------------------- MODULE WorkerBrokerProofs -------------------------
(***************************************************************************)
(* The worker broker changes the tables only as the queue allows, for any  *)
(* sessions, requests in flight and restarts.  What has to be carried      *)
(* along is where a transaction's inputs come from: the session and the    *)
(* lease of a request, and the dispatcher's copy of the registry, were     *)
(* read earlier and may be stale, but they are never invented.             *)
(***************************************************************************)
EXTENDS WorkerBroker, TaskQueueProofs

\* What handlers and the tick carry from one step to the next.
CarriedInputs ==
  /\ DOMAIN registry \subseteq Sessions
  /\ snapshot \subseteq Sessions
  /\ \A r \in inflight :
        /\ r.session \in Sessions
        /\ r.op \in Operations => r.grant \in granted

\* Claim responses are never taken back.
LEMMA GrantsGrow ==
  ASSUME [Next]_vars
  PROVE  granted \subseteq granted'
  <1>1. CASE ClientStep
    BY <1>1 DEF ClientStep, Enqueue, EnqueueCreated, EnqueueReplayed, CancelTask
  <1>2. CASE BrokerStep
    BY <1>2 DEF BrokerStep, Dispatch, Claim
  <1>3. CASE WorkerStep
    BY <1>3 DEF WorkerStep, Heartbeat, CompleteTask, CompleteWithProjection, FailTask
  <1>4. CASE Maintenance
    BY <1>4 DEF Maintenance, RecoverExpired, PruneToMax
  <1>5. CASE Tick \/ UNCHANGED vars
    BY <1>5 DEF Tick, vars
  <1> QED
    BY <1>1, <1>2, <1>3, <1>4, <1>5 DEF Next

\* A handler that authenticated runs a transaction of the queue, or is
\* refused: the registry is not consulted again and need not be.
LEMMA PerformIsQueueStep ==
  ASSUME CarriedInputs, PerformStep
  PROVE  [Next]_vars
  <1>1. PICK r \in inflight, now \in ReadClock : Perform(r, now)
    BY DEF PerformStep
  <1>2. r.session \in Sessions /\ (r.op \in Operations => r.grant \in granted)
    BY DEF CarriedInputs
  <1>3. CASE r.op = "claim" /\ Claim(r.session, now)
    BY <1>2, <1>3 DEF Next, BrokerStep
  <1>4. CASE \/ r.op = "heartbeat" /\ Heartbeat(r.session, r.grant, now)
             \/ r.op = "complete" /\ CompleteTask(r.session, r.grant, now)
             \/ r.op = "complete_with_projection"
                  /\ CompleteWithProjection(r.session, r.grant, now)
             \/ r.op = "fail" /\ FailTask(r.session, r.grant, now)
    <2>1. r.grant \in granted /\ now >= r.grant.at
      BY <1>1, <1>2, <1>4 DEF Operations, Perform
    <2> QED
      BY <1>2, <1>4, <2>1 DEF Next, WorkerStep
  <1>5. CASE UNCHANGED vars
    BY <1>5
  <1> QED
    BY <1>1, <1>3, <1>4, <1>5 DEF Perform

\* The tick recovers and dispatches as the queue does, with a copy of the
\* registry that may be out of date.
LEMMA TickIsQueueStep ==
  ASSUME CarriedInputs, TickStep
  PROVE  [Next]_vars
  <1>1. ASSUME NEW now \in ReadClock, TickRecover(now) PROVE [Next]_vars
    BY <1>1 DEF TickRecover, Next, Maintenance
  <1>2. CASE TickSnapshot
    BY <1>2 DEF TickSnapshot
  <1>3. ASSUME NEW now \in ReadClock, TickDispatch(now) PROVE [Next]_vars
    <2>1. snapshot \in SUBSET Sessions
      BY DEF CarriedInputs
    <2> QED
      BY <1>3, <2>1 DEF TickDispatch, Next, BrokerStep
  <1> QED
    BY <1>1, <1>2, <1>3 DEF TickStep

\* Every step of the broker process, of the daemon and of its clients is a
\* step of the queue or leaves the tables alone.
LEMMA BrokerStepIsQueueStep ==
  ASSUME CarriedInputs, [BrokerNext]_brokerVars
  PROVE  [Next]_vars
  <1>1. CASE SessionStep
    BY <1>1 DEF SessionStep, Register, SessionHeartbeat, RejectExpired, ReceiveClaim,
                ReceiveTransition, Receive
  <1>2. CASE Restart
    BY <1>2 DEF Restart
  <1>3. CASE DaemonStep
    BY <1>3 DEF DaemonStep, Next
  <1>4. CASE UNCHANGED brokerVars
    BY <1>4 DEF brokerVars
  <1> QED
    BY <1>1, <1>2, <1>3, <1>4, PerformIsQueueStep, TickIsQueueStep DEF BrokerNext

\* A session route adds a session of the registry, or a request that carries
\* a live session and a lease that was handed out.
LEMMA SessionStepCarries ==
  ASSUME CarriedInputs, SessionStep
  PROVE  CarriedInputs'
  <1>1. PICK s \in Sessions :
            \/ Register(s)
            \/ SessionHeartbeat(s)
            \/ RejectExpired(s)
            \/ ReceiveClaim(s)
            \/ \E op \in Operations, g \in granted : ReceiveTransition(s, op, g)
    BY DEF SessionStep
  <1>2. CASE Register(s) \/ SessionHeartbeat(s) \/ RejectExpired(s)
    <2>1. DOMAIN registry' \subseteq Sessions
      BY <1>2 DEF CarriedInputs, Register, Live, SessionHeartbeat, Touch, RejectExpired, Restrict
    <2>2. UNCHANGED <<inflight, snapshot, granted>>
      BY <1>2 DEF Register, SessionHeartbeat, RejectExpired, vars
    <2> QED
      BY <2>1, <2>2 DEF CarriedInputs
  <1>3. ASSUME NEW q, Receive(q), q.session \in Sessions,
               q.op \in Operations => q.grant \in granted
        PROVE  CarriedInputs'
    <2>1. DOMAIN registry' \subseteq Sessions
      BY <1>3 DEF CarriedInputs, Receive, Touch
    <2>2. UNCHANGED <<snapshot, granted>> /\ inflight' = inflight \cup {q}
      BY <1>3 DEF Receive, vars
    <2> QED
      BY <1>3, <2>1, <2>2 DEF CarriedInputs
  <1>4. CASE ReceiveClaim(s)
    <2>1. Receive([session |-> s, op |-> "claim", grant |-> NoGrant])
      BY <1>4 DEF ReceiveClaim
    <2>2. "claim" \notin Operations
      BY DEF Operations
    <2> QED
      BY <1>3, <2>1, <2>2
  <1>5. ASSUME NEW op \in Operations, NEW g \in granted, ReceiveTransition(s, op, g)
        PROVE  CarriedInputs'
    <2>1. Receive([session |-> s, op |-> op, grant |-> g])
      BY <1>5 DEF ReceiveTransition
    <2> QED
      BY <1>3, <2>1
  <1> QED
    BY <1>1, <1>2, <1>4, <1>5

\* No step invents an input.
LEMMA NextCarries == CarriedInputs /\ [BrokerNext]_brokerVars => CarriedInputs'
  <1> SUFFICES ASSUME CarriedInputs, [BrokerNext]_brokerVars PROVE CarriedInputs'
    OBVIOUS
  <1>1. granted \subseteq granted'
    BY BrokerStepIsQueueStep, GrantsGrow
  <1>2. ASSUME DOMAIN registry' \subseteq DOMAIN registry,
               snapshot' \subseteq snapshot \cup DOMAIN registry,
               inflight' \subseteq inflight
        PROVE  CarriedInputs'
    BY <1>1, <1>2 DEF CarriedInputs
  <1>3. CASE PerformStep
    BY <1>2, <1>3 DEF PerformStep, Perform
  <1>4. CASE TickStep
    <2>1. ASSUME NEW now, TickRecover(now) \/ TickDispatch(now) PROVE CarriedInputs'
      BY <1>2, <2>1 DEF TickRecover, TickDispatch
    <2>2. CASE TickSnapshot
      BY <1>2, <2>2 DEF TickSnapshot, Live, Restrict
    <2> QED
      BY <1>4, <2>1, <2>2 DEF TickStep
  <1>5. CASE Restart
    BY <1>2, <1>5 DEF Restart
  <1>6. CASE DaemonStep \/ UNCHANGED brokerVars
    BY <1>2, <1>6 DEF DaemonStep, broker, brokerVars
  <1> QED
    BY <1>3, <1>4, <1>5, <1>6, SessionStepCarries DEF BrokerNext

\* The broker implements the queue: between authentication and commit, and
\* between the copy of the registry and the dispatch, sessions may expire, be
\* replaced or vanish with the process, and the tables still change only by
\* the queue's own transactions.
THEOREM BrokerRefinesQueue == BrokerSpec => BrokerImplementsQueue
  <1>1. BrokerInit => Init /\ CarriedInputs
    BY DEF BrokerInit, CarriedInputs
  <1>2. CarriedInputs /\ [BrokerNext]_brokerVars => [Next]_vars
    BY BrokerStepIsQueueStep
  <1> QED
    BY <1>1, <1>2, NextCarries, PTL DEF BrokerSpec, BrokerImplementsQueue, Spec

\* So the lease fence and the capacities hold of the running broker.
THEOREM BrokerFencing == BrokerSpec => [](SafetyInv /\ LeaseExclusive /\ CapacityRespected)
  BY BrokerRefinesQueue, QueueSafety, LeaseFencing, Capacities, PTL DEF BrokerImplementsQueue

\* And each task goes through its life cycle as TaskLifecycle tells it, behind
\* the broker too: lent to one worker at a time, under an epoch that only
\* grows, finished once, and forgotten only when it is finished.
THEOREM BrokerLifecycle == BrokerSpec => ImplementsLifecycle
  BY BrokerRefinesQueue, Refinement, PTL DEF BrokerImplementsQueue
=============================================================================
