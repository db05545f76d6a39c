---------------------------- MODULE WorkerBroker ----------------------------
(***************************************************************************)
(* The worker broker process (robust-sinkhorn-worker): its in-memory       *)
(* session registry, its HTTP handlers and its dispatch tick, on top of    *)
(* the queue's tables, which it shares with the queue daemon.              *)
(*                                                                         *)
(* A handler authenticates, then runs its transaction; the dispatcher      *)
(* copies the registry, then runs its transaction.  Between the two the    *)
(* session may expire, be replaced by a new registration of its worker, or *)
(* vanish with the process, while the tables persist.                      *)
(***************************************************************************)
EXTENDS TaskQueue

CONSTANTS
    WorkerOf,       \* [Sessions -> worker ids], who registers a session
    Ttl,            \* --session-ttl-ms
    NoGrant,        \* the claim request carries no lease
    MaxInFlight     \* bound on requests between authentication and commit

\* parse_serve refuses a session that would expire before its lease.
ASSUME BrokerAssumption ==
    /\ Ttl \in Nat
    /\ Ttl >= Lease
    /\ MaxInFlight \in Nat \ {0}

VARIABLES
    registry,   \* WorkerRegistry.inner: session -> expires_at
    issued,     \* session ids ever drawn; rand::random never repeats one
    inflight,   \* authenticated requests whose transaction has not run
    phase,      \* where the tick of run_serve is
    snapshot    \* the sessions dispatch_available copied

broker == <<registry, issued, inflight, phase, snapshot>>
brokerVars == <<vars, broker>>

Operations == {"heartbeat", "complete", "complete_with_projection", "fail"}

-----------------------------------------------------------------------------
(* WorkerRegistry.                                                         *)

Live == {s \in DOMAIN registry : registry[s] > clock}

\* register_at: expired sessions and the worker's previous one are dropped.
Register(s) ==
    /\ s \in Sessions \ issued
    /\ LET kept == {r \in Live : WorkerOf[r] # WorkerOf[s]}
       IN  registry' = [r \in kept \cup {s} |-> IF r = s THEN clock + Ttl ELSE registry[r]]
    /\ issued' = issued \cup {s}
    /\ UNCHANGED <<vars, inflight, phase, snapshot>>

\* authenticate_and_touch_at, successful: the session lives another Ttl.
Touch(s) ==
    /\ s \in Live
    /\ registry' = [registry EXCEPT ![s] = clock + Ttl]

\* authenticate_and_touch_at on an expired session removes it; 401.
RejectExpired(s) ==
    /\ s \in DOMAIN registry \ Live
    /\ registry' = Restrict(registry, DOMAIN registry \ {s})
    /\ UNCHANGED <<vars, issued, inflight, phase, snapshot>>

SessionHeartbeat(s) ==
    /\ Touch(s)
    /\ UNCHANGED <<vars, issued, inflight, phase, snapshot>>

-----------------------------------------------------------------------------
(* The task routes, in two steps.                                          *)

Receive(request) ==
    /\ Cardinality(inflight) < MaxInFlight
    /\ Touch(request.session)
    /\ inflight' = inflight \cup {request}
    /\ UNCHANGED <<vars, issued, phase, snapshot>>

ReceiveClaim(s) == Receive([session |-> s, op |-> "claim", grant |-> NoGrant])

\* A worker process presents a lease it was given, under its present session.
ReceiveTransition(s, op, g) ==
    /\ WorkerOf[s] = WorkerOf[g.session]
    /\ Receive([session |-> s, op |-> op, grant |-> g])

\* No task to claim (204), or a lease that is stale (409) or whose result
\* cannot be inserted (500): the tables stay as they are.
Refused(r, now) ==
    IF r.op = "claim"
    THEN \A t \in Claimable(r.session, now) :
            \/ Generation(t) >= MaxGeneration
            \/ \E u \in Claimable(r.session, now) : Before(u, t)
    ELSE \/ ~ HoldsLease(r.session, r.grant, now)
         \/ r.op = "complete_with_projection" /\ r.grant.task \in DOMAIN results

\* Mutant: a completion is applied without looking at the lease.
PerformIgnoresFence(r, now) ==
    /\ inflight' = inflight \ {r}
    /\ UNCHANGED <<registry, issued, phase, snapshot>>
    /\ \/ r.op = "claim" /\ Claim(r.session, now)
       \/ /\ r.op = "complete"
          /\ r.grant.task \in DOMAIN tasks
          /\ tasks' = [tasks EXCEPT ![r.grant.task] = Unlocked(@, "COMPLETED", now)]
          /\ UNCHANGED <<fences, results, idem, lastId, clock, granted, acks>>

\* route_claim, route_task_heartbeat, route_task_complete and route_task_fail
\* after authentication: the transaction no longer consults the registry.
Perform(r, now) ==
    /\ inflight' = inflight \ {r}
    /\ UNCHANGED <<registry, issued, phase, snapshot>>
    /\ r.op # "claim" => now >= r.grant.at
    /\ \/ r.op = "claim" /\ Claim(r.session, now)
       \/ r.op = "heartbeat" /\ Heartbeat(r.session, r.grant, now)
       \/ r.op = "complete" /\ CompleteTask(r.session, r.grant, now)
       \/ r.op = "complete_with_projection" /\ CompleteWithProjection(r.session, r.grant, now)
       \/ r.op = "fail" /\ FailTask(r.session, r.grant, now)
       \/ Refused(r, now) /\ UNCHANGED vars

-----------------------------------------------------------------------------
(* The tick: recover, copy the registry, dispatch.                         *)

TickRecover(now) ==
    /\ phase = "idle"
    /\ phase' = "recovered"
    /\ RecoverExpired(now) \/ (Expired(now) = {} /\ UNCHANGED vars)
    /\ UNCHANGED <<registry, issued, inflight, snapshot>>

TickSnapshot ==
    /\ phase = "recovered"
    /\ registry' = Restrict(registry, Live)
    /\ snapshot' = Live
    /\ phase' = IF Live = {} THEN "idle" ELSE "snapshot"
    /\ UNCHANGED <<vars, issued, inflight>>

TickDispatch(now) ==
    /\ phase = "snapshot"
    /\ phase' = "idle"
    /\ snapshot' = {}
    /\ Dispatch(snapshot, now) \/ (SelectedTasks(snapshot, now) = {} /\ UNCHANGED vars)
    /\ UNCHANGED <<registry, issued, inflight>>

\* The process ends (a signal, or a database error in the tick, which run_serve
\* returns) and starts again with an empty registry.
Restart ==
    /\ registry' = [s \in {} |-> 0]
    /\ inflight' = {}
    /\ phase' = "idle"
    /\ snapshot' = {}
    /\ UNCHANGED <<vars, issued>>

-----------------------------------------------------------------------------
BrokerInit ==
    /\ Init
    /\ registry = [s \in {} |-> 0]
    /\ issued = {}
    /\ inflight = {}
    /\ phase = "idle"
    /\ snapshot = {}

SessionStep ==
    \E s \in Sessions :
        \/ Register(s)
        \/ SessionHeartbeat(s)
        \/ RejectExpired(s)
        \/ ReceiveClaim(s)
        \/ \E op \in Operations, g \in granted : ReceiveTransition(s, op, g)

PerformStep == \E r \in inflight, now \in ReadClock : Perform(r, now)

TickStep ==
    \/ \E now \in ReadClock : TickRecover(now)
    \/ TickSnapshot
    \/ \E now \in ReadClock : TickDispatch(now)

\* Steps of the queue daemon and of its clients, on the shared tables.
DaemonStep == (ClientStep \/ Maintenance \/ Tick) /\ UNCHANGED broker

BrokerNext == SessionStep \/ PerformStep \/ TickStep \/ Restart \/ DaemonStep

BrokerSpec == BrokerInit /\ [][BrokerNext]_brokerVars

-----------------------------------------------------------------------------
\* The broker changes the tables in no way the queue does not allow, whatever
\* sessions expire, are replaced or vanish between authentication and commit.
BrokerImplementsQueue == Spec

\* Fairness: run_serve's ticker keeps firing and time passes.  Nothing is
\* assumed of workers, clients or restarts.
BrokerFairSpec == BrokerSpec /\ WF_brokerVars(TickStep) /\ WF_brokerVars(DaemonStep /\ Tick)
=============================================================================
