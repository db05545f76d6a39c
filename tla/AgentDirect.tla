---------------------------- MODULE AgentDirect ----------------------------
(***************************************************************************)
(* The polling-agent path of the Bun gateway (agent-direct.ts), which      *)
(* opens queue.db itself, beside the queue's own transactions.  It brings  *)
(* a status of its own, CLAIMED, that no Rust statement mentions, and it   *)
(* neither reads nor writes lease fences.  bun:sqlite is synchronous, so   *)
(* the gateway is inside the SQL of one poll or report at a time; but each *)
(* statement commits by itself, so the Rust processes run between two of   *)
(* them, and a statement that throws (SQLITE_BUSY) leaves the rest undone. *)
(* The agents are the Python connector's Agent, one process for an agent   *)
(* id: register when it starts and not again, then poll, execute, report,  *)
(* and report an error when the first report failed.  A poll answered 401  *)
(* is polled again, later.                                                 *)
(***************************************************************************)
EXTENDS TaskQueue

CONSTANTS
    Agents,         \* agent ids, also written in locked_by
    AgentTaskNames, \* the task names a poll selects
    AgentLease      \* the 60 seconds of a claim

ASSUME AgentsAssumption ==
    /\ Agents \cap (Sessions \cup {NoSession}) = {}
    /\ AgentLease \in Nat \ {0}

VARIABLES
    tokens,     \* agentTokens: agents whose token is in memory
    serving,    \* agents whose connector is in its serve loop
    working,    \* tasks in the hands of an agent, and whether it reported once
    handler     \* the poll or report the gateway is in: next statement, agent, task

agents == <<tokens, serving, working, handler>>
agentVars == <<vars, agents>>

Idle == [next |-> "none", agent |-> NoSession, task |-> 0]

-----------------------------------------------------------------------------
\* A status and its lock, written without updated_at.
SetLock(row, status, owner, until) == SetLease(row, status, owner, until, row.updated_at)

\* A connector starts: POST /v1/agent/register gives it a new token, also for
\* an agent that had one, and it enters its loop.  It does not come here again.
RegisterAgent(a) ==
    /\ a \notin serving
    /\ tokens' = tokens \cup {a}
    /\ serving' = serving \cup {a}
    /\ UNCHANGED <<vars, working, handler>>

\* Mutant: a deadline in milliseconds is compared with a time in seconds.
ExpiredClaimsInMs(now) ==
    {t \in DOMAIN tasks : tasks[t].status = "CLAIMED" /\ tasks[t].locked_until * 1000 < now}

ExpiredClaims(now) ==
    {t \in DOMAIN tasks : tasks[t].status = "CLAIMED" /\ tasks[t].locked_until < now}

\* Mutant: every claim is released at the next poll.
AutoReleaseAll(now) ==
    [t \in DOMAIN tasks |-> IF tasks[t].status = "CLAIMED"
                            THEN SetLock(tasks[t], "PENDING", NoSession, NoDeadline)
                            ELSE tasks[t]]

\* The first UPDATE of a poll: expired claims go back to PENDING.
AutoRelease(now) ==
    [t \in DOMAIN tasks |-> IF t \in ExpiredClaims(now)
                            THEN SetLock(tasks[t], "PENDING", NoSession, NoDeadline)
                            ELSE tasks[t]]

\* The agent's next request is a poll that will be let in: its connector is in
\* the loop, has finished with its last task, and its token is known.
Polls(a) ==
    /\ a \in serving
    /\ a \in tokens
    /\ \A w \in working : w.agent # a

\* POST /v1/agent/poll, in three statements.
PollRelease(a, now) ==
    /\ handler = Idle
    /\ Polls(a)
    /\ tasks' = AutoRelease(now)
    /\ handler' = [next |-> "claim", agent |-> a, task |-> 0]
    /\ UNCHANGED <<fences, results, idem, lastId, clock, granted, acks, tokens, serving, working>>

Pollable(now) ==
    {t \in DOMAIN tasks : /\ tasks[t].status = "PENDING"
                          /\ tasks[t].spec.task_name \in AgentTaskNames
                          /\ tasks[t].scheduled_at <= now}

\* The first pending agent task is claimed, whoever it is for; 204 when there
\* is none.
PollClaim(now) ==
    LET first == {t \in Pollable(now) : \A u \in Pollable(now) \ {t} : Before(t, u)}
    IN  /\ handler.next = "claim"
        /\ tasks' = [t \in DOMAIN tasks |->
                       IF t \in first
                       THEN SetLock(tasks[t], "CLAIMED", handler.agent, now + AgentLease)
                       ELSE tasks[t]]
        /\ \/ first = {} /\ handler' = Idle
           \/ \E t \in first : handler' = [handler EXCEPT !.next = "deliver", !.task = t]
        /\ UNCHANGED <<fences, results, idem, lastId, clock, granted, acks, tokens, serving, working>>

\* The payload names the polling agent: the task is its to work on.  (An agent
\* that does not receive the answer is one that crashes at once.)
PollDeliver ==
    /\ handler.next = "deliver"
    /\ tasks[handler.task].spec.agent = handler.agent
    /\ working' = working \cup {[agent |-> handler.agent, task |-> handler.task, again |-> FALSE]}
    /\ handler' = Idle
    /\ UNCHANGED <<vars, tokens, serving>>

\* It names another agent: the third statement puts the task back.
PollPutBack ==
    /\ handler.next = "deliver"
    /\ tasks[handler.task].spec.agent # handler.agent
    /\ tasks' = [tasks EXCEPT ![handler.task] = SetLock(@, "PENDING", NoSession, NoDeadline)]
    /\ handler' = Idle
    /\ UNCHANGED <<fences, results, idem, lastId, clock, granted, acks, tokens, serving, working>>

\* POST /v1/agent/result, first statement: only the token is checked.  When
\* the answer is lost the agent reports an error for the same task.
Report(w, status) ==
    /\ handler = Idle
    /\ w \in working
    /\ w.agent \in tokens
    /\ w.again => status = "FAILED"
    /\ tasks' = [t \in DOMAIN tasks |->
                   IF t = w.task
                   THEN SetLock(tasks[t], status, tasks[t].locked_by, tasks[t].locked_until)
                   ELSE tasks[t]]
    /\ handler' = [next |-> "store", agent |-> w.agent, task |-> w.task]
    /\ \/ working' = working \ {w}
       \/ ~ w.again /\ working' = (working \ {w}) \cup {[w EXCEPT !.again = TRUE]}
    /\ UNCHANGED <<fences, results, idem, lastId, clock, granted, acks, tokens, serving>>

\* Second statement: the result is inserted with generation 0, or replaces
\* the text of an earlier one.
StoreResult ==
    /\ handler.next = "store"
    /\ results' = [t \in DOMAIN results \cup {handler.task} |->
                      IF t \in DOMAIN results THEN results[t] ELSE 0]
    /\ handler' = Idle
    /\ UNCHANGED <<tasks, fences, idem, lastId, clock, granted, acks, tokens, serving, working>>

\* A statement throws: the handler answers 500, what it committed stays.
HandlerThrows ==
    /\ handler # Idle
    /\ handler' = Idle
    /\ UNCHANGED <<vars, tokens, serving, working>>

\* The gateway restarts: tokens and a half-done handler are lost.
GatewayRestart ==
    /\ tokens' = {}
    /\ handler' = Idle
    /\ UNCHANGED <<vars, serving, working>>

\* An agent gives its task up: the report of the error failed as well.
AgentGivesUp(a) ==
    /\ \E w \in working : w.agent = a
    /\ working' = {w \in working : w.agent # a}
    /\ UNCHANGED <<vars, tokens, serving, handler>>

\* A connector dies or is stopped, with the task it works on.  The gateway
\* keeps its token.
AgentStops(a) ==
    /\ a \in serving
    /\ serving' = serving \ {a}
    /\ working' = {w \in working : w.agent # a}
    /\ UNCHANGED <<vars, tokens, handler>>

-----------------------------------------------------------------------------
AgentInit == Init /\ tokens = {} /\ serving = {} /\ working = {} /\ handler = Idle

PollStep == \E a \in Agents, now \in ReadClock : PollRelease(a, now)

StatementStep ==
    \/ \E now \in ReadClock : PollClaim(now)
    \/ PollDeliver
    \/ PollPutBack
    \/ StoreResult
    \/ HandlerThrows

AgentStep ==
    \/ \E a \in Agents : RegisterAgent(a) \/ AgentGivesUp(a) \/ AgentStops(a)
    \/ PollStep
    \/ StatementStep
    \/ \E w \in working, status \in {"COMPLETED", "FAILED"} : Report(w, status)
    \/ GatewayRestart

QueueStep == Next /\ UNCHANGED agents

AgentNext == AgentStep \/ QueueStep

AgentSpec == AgentInit /\ [][AgentNext]_agentVars

-----------------------------------------------------------------------------
\* A live claim is the agent's alone: before its deadline the row leaves
\* CLAIMED only by a report or by the poll that claimed it putting it back,
\* never by another agent's poll or by the Rust processes, whose statements
\* name other statuses.
ClaimKept ==
    [][\A t \in DOMAIN tasks :
          /\ tasks[t].status = "CLAIMED"
          /\ tasks[t].locked_until >= clock
          => /\ t \in DOMAIN tasks'
             /\ \/ tasks'[t] = tasks[t]
                \/ handler.next = "deliver" /\ handler.task = t
                \/ handler'.next = "store"]_agentVars

\* agent-direct.ts, line 109: "task harus di-claim oleh agen ini" (the task
\* must be claimed by this agent) for a report to be accepted.
ReportByOwner ==
    [][handler = Idle /\ handler'.next = "store" =>
          /\ handler'.task \in DOMAIN tasks
          /\ tasks[handler'.task].status = "CLAIMED"
          /\ tasks[handler'.task].locked_by = handler'.agent]_agentVars

\* Fairness of the processes that run on timers: the daemon's maintenance and
\* time.  Agents may stop polling.
DaemonFairness == WF_agentVars(RecoveryStep /\ UNCHANGED agents) /\ WF_agentVars(Tick /\ UNCHANGED agents)

\* The connectors' serve loop: an agent whose token is known and that is free
\* polls again and again, and the gateway finishes what it began.  Nothing
\* makes an agent register again, although agent-direct.ts (line 18) says that
\* agents do.
AgentFairness ==
    /\ \A a \in Agents : SF_agentVars(\E now \in ReadClock : PollRelease(a, now))
    /\ WF_agentVars(StatementStep)

AgentFairSpec  == AgentSpec /\ DaemonFairness
PollingFairSpec == AgentSpec /\ DaemonFairness /\ AgentFairness

\* connectors/python/README.md: a task that is claimed and not reported in
\* time "otomatis kembali PENDING" (returns to PENDING by itself).
ClaimReturns ==
    \A t \in 1..MaxId, d \in 0..(MaxClock - MaxLag - 1) :
        (t \in DOMAIN tasks /\ tasks[t].status = "CLAIMED" /\ tasks[t].locked_until = d)
        ~> ~ (t \in DOMAIN tasks /\ tasks[t].status = "CLAIMED" /\ tasks[t].locked_until = d)

\* What agent-direct.ts does give: as long as some agent, not necessarily the
\* claim's own, keeps coming back to poll with a token the gateway knows, every
\* claim ends, whoever died, restarted or failed half way.
ClaimReturnsWhilePolled ==
    (\E a \in Agents : []<>Polls(a)) => ClaimReturns
=============================================================================
