--------------------------- MODULE GatewayAccess ---------------------------
(***************************************************************************)
(* The gateway's front: bearer tokens and capability sessions              *)
(* (capability-auth.ts, capability-session-api.ts), the router and its     *)
(* access control (router.ts, capability-access.ts), the capability        *)
(* catalogue (capability-api.ts, capability-availability.ts), the MCP      *)
(* endpoint (mcp.ts), and the task routes (app.ts) with admission control, *)
(* the idempotent POST to the queue daemon and its timeout.                *)
(*                                                                         *)
(* A request is suspended at its awaits; between two of them a handler is  *)
(* one step.  The gateway has a root token (a gateway without one is the   *)
(* development mode).  Routes of the other modules (workflows, files, git) *)
(* end here with "served".  The daemon is external: it applies a request   *)
(* once, late, or never, also when the gateway has stopped waiting.        *)
(***************************************************************************)
EXTENDS CapabilityGrants, Admission, Sequences

CONSTANTS
    Requests,       \* 1..n, the requests, in the order they arrive
    Plans,          \* bound: a sequence of [calls, providers, changes]: for each request the
                    \* calls it may be, who may be up at first, how often that changes; a call
                    \* is [via, method, name, bearer, envelope, args, type, key, value, order,
                    \*     priority, retries, large, id, grant, ttl, agent]; "agent": it carries
                    \* the token the agent it names was given
    Policies,       \* [task types -> [minPriority, maxPriority, maxRetries]]
    RootGrant,      \* LEGACY_COMPAT_GRANT
    NoAuth,
    OtherSessions,  \* sessions signed elsewhere: [grant, iat, exp, secret]
    MinTtl, MaxTtl, Skew,
    Snapshots,      \* providers that may be up: [up, active]
    MaxActive,      \* x-queue-max-active-tasks
    MaxClock        \* bound

VARIABLES
    plan,       \* which of Plans is followed
    clock,      \* in ticks
    issued,     \* the sessions issued here, a sequence
    providers,  \* who is up: [up, active]
    changes,    \* changes of providers so far
    bucket,     \* the admission controller
    log,        \* its decisions so far
    req,        \* [Requests -> what the handler knows]
    wire,       \* [Requests -> the request to the daemon]
    tasks       \* the daemon's tasks, by id

\* What a session's token carries; "secret" is the key that signed it.
Claims == [grant : Grant, iat : Int, exp : Int, secret : {"root", "oauth", "other"}]

\* What external agents use: POST /v1/agent/register; GET /v1/agents; poll,
\* result and heartbeat of an agent; and what is passed on to the worker broker
\* (claim, complete, fail, session/heartbeat).
AgentRoutes == {"agent.register", "agent.list", "agent.own", "agent.proxy"}

\* CAPABILITY_REGISTRY is keyed by name and has no descriptor for the session
\* route, the agents' routes or no route; the routes without access control ask
\* for nothing; every task with a policy has a descriptor of its kind
\* (validateTaskCapabilityCoverage).  Grants and sessions have their form, else
\* their tokens are no sessions.
ASSUME GatewayAssumption ==
    /\ IsFiniteSet(Requests)
    /\ \A d, e \in Registry : d.name = e.name => d = e
    /\ \E d \in Registry : d.name = "task.submit"
    /\ \A d \in Registry :
          /\ d.name \notin {"session", "unknown"} \cup AgentRoutes
          /\ d.name \in {"system.health", "system.readiness"} =>
                d.required = {} /\ d.kind # "task"
    /\ \A type \in DOMAIN Policies : \E d \in Registry : d.name = type /\ d.kind = "task"
    /\ RootGrant \in Grant
    /\ OtherSessions \in Seq(Claims)
    /\ MinTtl \in Nat /\ MaxTtl \in Nat /\ Skew \in Nat
    /\ \A p \in DOMAIN Plans : \A r \in Requests : \A call \in Plans[p].calls[r] :
          call.grant \in Grant

access == <<plan, clock, issued, providers, changes, bucket, log, req, wire, tasks>>

Seconds == clock \div TicksPerSecond

Sessions == OtherSessions \o issued

NoCall == [via |-> "none"]

Arrived(call, session) ==
    [pc |-> IF call.via = "mcp" THEN "mcp" ELSE "route", call |-> call, session |-> session,
     auth |-> NoAuth, at |-> 0, seen |-> {}, inner |-> call.name, type |-> call.type, tools |-> {},
     catalogue |-> {}, status |-> 0, id |-> 0]

NoRequest == [pc |-> "idle", call |-> NoCall]

NoWire == [state |-> "none", kind |-> "", reply |-> 0, id |-> 0]

GatewayInit ==
    /\ plan \in DOMAIN Plans
    /\ clock = 0
    /\ issued = <<>>
    /\ providers \in Plans[plan].providers
    /\ changes = 0
    /\ bucket = FullBucket(0)
    /\ log = <<>>
    /\ req = [r \in Requests |-> NoRequest]
    /\ wire = [r \in Requests |-> NoWire]
    /\ tasks = <<>>

\* A request comes in: with the root token, with a session, with neither.
Arrive(r) ==
    /\ req[r].pc = "idle"
    /\ \A s \in Requests : s < r => req[s].pc # "idle" \/ Plans[plan].calls[s] = {}
    /\ \E call \in Plans[plan].calls[r] :
          \E session \in IF call.bearer = "session" THEN DOMAIN Sessions ELSE {0} :
              req' = [req EXCEPT ![r] = Arrived(call, session)]
    /\ UNCHANGED <<plan, clock, issued, providers, changes, bucket, log, wire, tasks>>

Answer(r, status) == [req EXCEPT ![r].pc = "answered", ![r].status = status]

-----------------------------------------------------------------------------
Descriptor(name) == CHOOSE d \in Registry : d.name = name

Known(name) == \E d \in Registry : d.name = name

IsTask(name) == Known(name) /\ Descriptor(name).kind = "task"

\* verifyCapabilitySession
VerifySession(s, now) ==
    /\ s.secret \in {"root", "oauth"}
    /\ s.iat <= now + Skew
    /\ s.exp > s.iat
    /\ s.exp - s.iat <= MaxTtl
    /\ now < s.exp

\* resolveAuthorizationContext
Authorization(r) ==
    LET bearer == req[r].call.bearer
    IN  CASE bearer = "root" -> [kind |-> "root", grant |-> RootGrant]
          [] bearer = "session" /\ VerifySession(Sessions[req[r].session], Seconds) ->
                [kind |-> "session", grant |-> Sessions[req[r].session].grant]
          [] OTHER -> NoAuth

\* loadCapabilityAvailability: the providers of files and git as they are, the
\* broker's unless it does not answer in time or not as it should.
Availability ==
    {providers, [providers EXCEPT !.up = @ \ {"broker"}, !.active = {}]}

\* isCapabilityAvailable
IsAvailable(d, snapshot) ==
    IF d.provider \in {"bun-filesystem", "rust-fs-mutator", "git-cli-metadata"}
    THEN d.provider \in snapshot.up
    ELSE IF d.kind = "task" THEN "broker" \in snapshot.up /\ d.name \in snapshot.active
    ELSE d.name = "workflow.submit" => "broker" \in snapshot.up /\ "workflow.run" \in snapshot.active

-----------------------------------------------------------------------------
\* Mutant: a task tool needs only its own descriptor.
ToolPrerequisitesOwn(d) == {d}

\* toolPrerequisites
ToolPrerequisites(d) == IF d.kind = "task" THEN {Descriptor("task.submit"), d} ELSE {d}

ExecutableTasks(grant, snapshot) ==
    IF ~Allowed(grant, Descriptor("task.submit")) THEN {}
    ELSE {d \in Registry : d.kind = "task" /\ Allowed(grant, d) /\ IsAvailable(d, snapshot)}

\* mcpTool(...) # null: task.submit has a schema only when it has a task.
IsTool(d, grant, snapshot) ==
    /\ \A p \in ToolPrerequisites(d) : Allowed(grant, p)
    /\ IsAvailable(d, snapshot)
    /\ d.name = "task.submit" => ExecutableTasks(grant, snapshot) # {}

\* invocationForTool(...) # null, given that the arguments have their schema.
Invocable(d, type, grant, snapshot) ==
    d.name = "task.submit" =>
        IsTask(type) /\ Allowed(grant, Descriptor(type)) /\ IsAvailable(Descriptor(type), snapshot)

\* handleMcpRequest up to the method: the envelope (origin, verb, accept, body,
\* metadata, headers), then the bearer.
McpReceive(r) ==
    LET call == req[r].call
        auth == Authorization(r)
    IN  /\ req[r].pc = "mcp"
        /\ req' = IF ~call.envelope THEN Answer(r, 400)
                  ELSE IF auth = NoAuth THEN Answer(r, 401)
                  ELSE IF call.method = "server/discover" THEN Answer(r, 200)
                  ELSE IF call.method \notin {"tools/list", "tools/call"} THEN Answer(r, 404)
                  ELSE [req EXCEPT ![r].pc = call.method, ![r].auth = auth]
        /\ UNCHANGED <<plan, clock, issued, providers, changes, bucket, log, wire, tasks>>

\* tools/list, after loadCapabilityAvailability.
McpList(r) ==
    /\ req[r].pc = "tools/list"
    /\ \E snapshot \in Availability :
          req' = [Answer(r, 200) EXCEPT
                     ![r].seen  = {snapshot},
                     ![r].tools = {d.name : d \in {d \in Registry :
                                      IsTool(d, req[r].auth.grant, snapshot)}}]
    /\ UNCHANGED <<plan, clock, issued, providers, changes, bucket, log, wire, tasks>>

\* tools/call, after loadCapabilityAvailability (handleToolsCall): the request
\* the tool stands for goes through the router with the same bearer.
McpCallTool(r) ==
    LET call  == req[r].call
        d     == Descriptor(call.name)
        grant == req[r].auth.grant
    IN  /\ req[r].pc = "tools/call"
        /\ \E snapshot \in Availability :
              req' = IF ~Known(call.name) \/ ~IsTool(d, grant, snapshot) \/ ~call.args
                        \/ ~Invocable(d, call.type, grant, snapshot)
                     THEN Answer(r, 32602)
                     ELSE [req EXCEPT
                             ![r].pc    = "route",
                             ![r].inner = IF d.kind = "task" THEN "task.submit" ELSE call.name,
                             ![r].type  = IF d.kind = "task" THEN call.name ELSE call.type]
        /\ UNCHANGED <<plan, clock, issued, providers, changes, bucket, log, wire, tasks>>

-----------------------------------------------------------------------------
\* requiredSurface: the routes for which it is null; enforceCapabilityAccess
\* passes them on without looking for a bearer.
Unguarded == {"system.health", "system.readiness", "unknown"} \cup AgentRoutes

\* POST /v1/capability-sessions: the root token only, a valid grant and
\* lifetime; the session starts now.
IssueSession(r) ==
    LET call == req[r].call
    IN  /\ req[r].pc = "route" /\ req[r].inner = "session"
        /\ \/ /\ call.bearer # "root"
              /\ req' = Answer(r, 401) /\ UNCHANGED issued
           \/ /\ call.bearer = "root"
              /\ ~call.args \/ call.ttl \notin MinTtl..MaxTtl
              /\ req' = Answer(r, 400) /\ UNCHANGED issued
           \/ /\ call.bearer = "root" /\ call.args /\ call.ttl \in MinTtl..MaxTtl
              /\ issued' = Append(issued, [grant |-> call.grant, iat |-> Seconds,
                                               exp |-> Seconds + call.ttl, secret |-> "root"])
              /\ req' = Answer(r, 201)
        /\ UNCHANGED <<plan, clock, providers, changes, bucket, log, wire, tasks>>

\* GET /v1/capabilities (handleCapabilityRequest): before the availability ...
Capabilities(r) ==
    LET auth == Authorization(r)
    IN  /\ req[r].pc = "route" /\ req[r].inner = "system.capabilities"
        /\ req' = IF auth = NoAuth THEN Answer(r, 401)
                  ELSE IF ~Allowed(auth.grant, Descriptor("system.capabilities")) THEN Answer(r, 403)
                  ELSE [req EXCEPT ![r].pc = "catalogue", ![r].auth = auth, ![r].at = Seconds]
        /\ UNCHANGED <<plan, clock, issued, providers, changes, bucket, log, wire, tasks>>

\* ... and after it: what is authorized, what is available.
Catalogue(r) ==
    /\ req[r].pc = "catalogue"
    /\ \E snapshot \in Availability :
          req' = [Answer(r, 200) EXCEPT
                     ![r].catalogue = {d.name : d \in {d \in Registry :
                         Allowed(req[r].auth.grant, d) /\ IsAvailable(d, snapshot)}}]
    /\ UNCHANGED <<plan, clock, issued, providers, changes, bucket, log, wire, tasks>>

\* enforceCapabilityAccess: the bearer and the surface; then, for a task, the
\* body is read.
Enforce(r) ==
    LET name == req[r].inner
        auth == Authorization(r)
    IN  /\ req[r].pc = "route" /\ name \notin {"session", "system.capabilities"}
        /\ req' = IF name \in Unguarded THEN [req EXCEPT ![r].pc = "handle"]
                  ELSE IF auth = NoAuth THEN Answer(r, 401)
                  ELSE IF ~Allowed(auth.grant, Descriptor(name)) THEN Answer(r, 403)
                  ELSE [req EXCEPT ![r].pc = IF name = "task.submit" THEN "body" ELSE "handle",
                                   ![r].auth = auth, ![r].at = Seconds]
        /\ UNCHANGED <<plan, clock, issued, providers, changes, bucket, log, wire, tasks>>

\* Mutant: access to the surface is access to its tasks.
TaskDeniedNever(grant, type) == FALSE

\* taskDescriptorFromRequest: no descriptor, no decision.
TaskDenied(grant, type) == IsTask(type) /\ ~Allowed(grant, Descriptor(type))

\* ... the task's own descriptor; from here on the request is the root's.
EnforceTask(r) ==
    /\ req[r].pc = "body"
    /\ req' = IF req[r].call.args /\ TaskDenied(req[r].auth.grant, req[r].type)
              THEN Answer(r, 403)
              ELSE [req EXCEPT ![r].pc = "handle"]
    /\ UNCHANGED <<plan, clock, issued, providers, changes, bucket, log, wire, tasks>>

-----------------------------------------------------------------------------
\* Optional fields are sequences of at most one value.
OrElse(option, default) == IF option = <<>> THEN default ELSE option[1]

Priority(call) == OrElse(call.priority, 0)

MaxRetriesOf(call, type) == OrElse(call.retries, Min({3, Policies[type].maxRetries}))

\* Mutant: the body as it was sent is what is hashed.
FingerprintRaw(call, type) ==
    <<type, call.value, call.order, call.priority, call.retries>>

\* requestFingerprint: defaults filled in, keys in canonical order.
Fingerprint(call, type) == <<type, call.value, Priority(call), MaxRetriesOf(call, type)>>

\* The checks of handleCreateTask before admission, in order (0: none fails).
Refusal(call, type) ==
    IF call.key = "" \/ ~call.args THEN 400
    ELSE IF type \notin DOMAIN Policies THEN 422
    ELSE IF Priority(call) \notin Policies[type].minPriority..Policies[type].maxPriority THEN 422
    ELSE IF MaxRetriesOf(call, type) \notin 0..Policies[type].maxRetries THEN 422
    ELSE IF call.large THEN 413
    ELSE 0

\* handleCreateTask up to the fingerprint.
CreateTask(r) ==
    LET call     == req[r].call
        decision == TryAcquire(bucket, clock)
        refusal  == Refusal(call, req[r].type)
    IN  /\ req[r].pc = "handle" /\ req[r].inner = "task.submit"
        /\ IF refusal # 0
           THEN req' = Answer(r, refusal) /\ UNCHANGED <<bucket, log>>
           ELSE /\ bucket' = decision.bucket
                /\ log' = Append(log, [at |-> clock, allowed |-> decision.allowed,
                                       retryAfter |-> decision.retryAfter])
                /\ req' = IF decision.allowed THEN [req EXCEPT ![r].pc = "fingerprint"]
                          ELSE Answer(r, 429)
        /\ UNCHANGED <<plan, clock, issued, providers, changes, wire, tasks>>

Send(r, kind) == wire' = [wire EXCEPT ![r] = [NoWire EXCEPT !.state = "sent", !.kind = kind]]

\* The fingerprint is there; the POST to the daemon starts, with its timer.
PostTask(r) ==
    /\ req[r].pc = "fingerprint"
    /\ req' = [req EXCEPT ![r].pc = "upstream"]
    /\ Send(r, "create")
    /\ UNCHANGED <<plan, clock, issued, providers, changes, bucket, log, tasks>>

\* The other routes: handleGetTask and handleReady ask the daemon, /healthz is
\* answered here, what other modules serve ends here, the rest is not found.
Handle(r) ==
    LET name == req[r].inner
    IN  /\ req[r].pc = "handle" /\ name \notin {"task.submit"} \cup AgentRoutes
        /\ IF name = "system.readiness" \/ (name = "task.inspect" /\ req[r].call.args)
           THEN req' = [req EXCEPT ![r].pc = "upstream"] /\ Send(r, name)
           ELSE /\ UNCHANGED wire
                /\ req' = Answer(r, IF name = "system.health" THEN 200
                                    ELSE IF name = "task.inspect" THEN 400
                                    ELSE IF Known(name) THEN 299
                                    ELSE 404)
        /\ UNCHANGED <<plan, clock, issued, providers, changes, bucket, log, tasks>>

\* handleAgentDirectRequest: an agent's own routes want the token it was given,
\* registration and the list want nothing.
AgentStatus(call, name) ==
    IF name = "agent.own" /\ ~call.agent THEN 401
    ELSE IF name # "agent.list" /\ ~call.args THEN 400
    ELSE 299

\* The agents' routes, which the router tries behind enforceCapabilityAccess:
\* AgentDirect serves them, or handleAgentProxyRequest passes the body and the
\* worker's headers on to the broker, with a timer.
HandleAgent(r) ==
    LET name == req[r].inner
    IN  /\ req[r].pc = "handle" /\ name \in AgentRoutes
        /\ IF name = "agent.proxy"
           THEN req' = [req EXCEPT ![r].pc = "upstream"] /\ Send(r, name)
           ELSE req' = Answer(r, AgentStatus(req[r].call, name)) /\ UNCHANGED wire
        /\ UNCHANGED <<plan, clock, issued, providers, changes, bucket, log, tasks>>

-----------------------------------------------------------------------------
\* Mutant: no timer, only a broken connection ends the wait.
UpstreamFailsUntimed(r) ==
    /\ req[r].pc = "upstream" /\ wire[r].state = "lost"
    /\ req' = Answer(r, 503)
    /\ UNCHANGED <<plan, clock, issued, providers, changes, bucket, log, wire, tasks>>

\* fetchWithTimeout gives up, by its timer or because the connection failed; so
\* does the agent proxy, whose timer goes on until it has the body.
UpstreamFails(r) ==
    /\ req[r].pc = "upstream"
    /\ req' = Answer(r, 503)
    /\ UNCHANGED <<plan, clock, issued, providers, changes, bucket, log, wire, tasks>>

\* The daemon's status line is there, and the timer is cleared.  Only a success
\* has a body the handler waits for.
UpstreamHeaders(r) ==
    LET reply == wire[r].reply
        kind  == wire[r].kind
    IN  /\ req[r].pc = "upstream" /\ wire[r].state = "replied" /\ kind # "agent.proxy"
        /\ req' = IF <<kind, reply>> \in {<<"create", 202>>, <<"task.inspect", 200>>}
                  THEN [req EXCEPT ![r].pc = "rest"]
                  ELSE Answer(r, IF kind = "create" THEN IF reply \in {409, 503} THEN reply ELSE 502
                                 ELSE IF kind = "task.inspect" THEN IF reply = 404 THEN 404 ELSE 502
                                 ELSE IF reply = 200 THEN 200 ELSE 503)
        /\ UNCHANGED <<plan, clock, issued, providers, changes, bucket, log, wire, tasks>>

\* The broker's whole answer is there: the agent proxy returns it as it is.
ProxyAnswers(r) ==
    /\ req[r].pc = "upstream" /\ wire[r].state = "replied" /\ wire[r].kind = "agent.proxy"
    /\ req' = Answer(r, wire[r].reply)
    /\ UNCHANGED <<plan, clock, issued, providers, changes, bucket, log, wire, tasks>>

\* The body is there, is cut off (json() throws), or says something else.
UpstreamBody(r) ==
    /\ req[r].pc = "rest"
    /\ \/ req' = [Answer(r, wire[r].reply) EXCEPT ![r].id = wire[r].id]
       \/ req' = Answer(r, 503)
       \/ req' = Answer(r, 502)
    /\ UNCHANGED <<plan, clock, issued, providers, changes, bucket, log, wire, tasks>>

-----------------------------------------------------------------------------
\* The daemon (external here; TaskQueue has its transaction): a key is a task's
\* for good, an equal request is replayed, another one conflicts.
HavingKey(key) == {i \in DOMAIN tasks : tasks[i].key = key}

Reply(r, status, id) ==
    wire' = [wire EXCEPT ![r].state = "replied", ![r].reply = status, ![r].id = id]

DaemonCreates(r) ==
    LET call == req[r].call
        fp   == Fingerprint(call, req[r].type)
        old  == HavingKey(call.key)
    IN  /\ wire[r].state = "sent" /\ wire[r].kind = "create"
        /\ \/ /\ old # {}
              /\ \E i \in old : IF tasks[i].fingerprint = fp THEN Reply(r, 202, i) ELSE Reply(r, 409, 0)
              /\ UNCHANGED tasks
           \/ /\ old = {} /\ Len(tasks) >= MaxActive
              /\ Reply(r, 503, 0)
              /\ UNCHANGED tasks
           \/ /\ old = {} /\ Len(tasks) < MaxActive
              /\ tasks' = Append(tasks, [key |-> call.key, fingerprint |-> fp, type |-> req[r].type,
                                         value |-> call.value, priority |-> Priority(call),
                                         retries |-> MaxRetriesOf(call, req[r].type)])
              /\ Reply(r, 202, Len(tasks) + 1)
        /\ UNCHANGED <<plan, clock, issued, providers, changes, bucket, log, req>>

\* Of the worker broker (WorkerBroker has its handlers), its failures apart.
BrokerStatuses == {200, 204, 400, 401, 409}

DaemonReads(r) ==
    /\ wire[r].state = "sent" /\ wire[r].kind # "create"
    /\ \/ wire[r].kind = "task.inspect"
          /\ IF req[r].call.id \in DOMAIN tasks THEN Reply(r, 200, req[r].call.id) ELSE Reply(r, 404, 0)
       \/ wire[r].kind = "agent.proxy" /\ \E status \in BrokerStatuses : Reply(r, status, 0)
       \/ wire[r].kind = "system.readiness" /\ \E status \in {200, 503} : Reply(r, status, 0)
    /\ UNCHANGED <<plan, clock, issued, providers, changes, bucket, log, req, tasks>>

\* The daemon fails the request (500), or it never arrives.
DaemonFails(r) ==
    /\ wire[r].state = "sent"
    /\ Reply(r, 500, 0) \/ wire' = [wire EXCEPT ![r].state = "lost"]
    /\ UNCHANGED <<plan, clock, issued, providers, changes, bucket, log, req, tasks>>

\* Workers come and go, files and repositories too.
ProvidersChange ==
    /\ changes < Plans[plan].changes
    /\ providers' \in Snapshots \ {providers}
    /\ changes' = changes + 1
    /\ UNCHANGED <<plan, clock, issued, bucket, log, req, wire, tasks>>

Tick ==
    /\ clock < MaxClock
    /\ clock' = clock + 1
    /\ UNCHANGED <<plan, issued, providers, changes, bucket, log, req, wire, tasks>>

\* The gateway's own steps; the body of a response is the daemon's to finish.
HandlerStep(r) ==
    \/ McpReceive(r) \/ McpList(r) \/ McpCallTool(r)
    \/ IssueSession(r) \/ Capabilities(r) \/ Catalogue(r)
    \/ Enforce(r) \/ EnforceTask(r) \/ CreateTask(r) \/ PostTask(r) \/ Handle(r)
    \/ HandleAgent(r) \/ UpstreamHeaders(r) \/ ProxyAnswers(r)

GatewayNext ==
    \/ \E r \in Requests :
          \/ Arrive(r) \/ HandlerStep(r) \/ UpstreamFails(r) \/ UpstreamBody(r)
          \/ DaemonCreates(r) \/ DaemonReads(r) \/ DaemonFails(r)
    \/ ProvidersChange \/ Tick

GatewaySpec == GatewayInit /\ [][GatewayNext]_access

\* Handlers go on and timers fire; the daemon need not do anything.
GatewayFairSpec ==
    /\ GatewaySpec
    /\ \A r \in Requests : WF_access(HandlerStep(r)) /\ WF_access(UpstreamFails(r))

-----------------------------------------------------------------------------
\* What the router asks of the request a tool stands for.
RouterAllows(d, grant) ==
    \/ d.name \in Unguarded
    \/ Allowed(grant, d) /\ (d.kind = "task" => Allowed(grant, Descriptor("task.submit")))

Callable(d, grant, snapshot) == RouterAllows(d, grant) /\ IsAvailable(d, snapshot)

\* tools/list names exactly the tools whose requests the router would let
\* through and that somebody is there to serve, although the two decide in
\* different code; and a tool call is refused by the router only when its
\* session ended between the two checks of the bearer.
ListedCallable ==
    \A r \in Requests : req[r].pc = "answered" /\ req[r].call.via = "mcp" =>
        LET grant == req[r].auth.grant
        IN  /\ req[r].call.method = "tools/list" /\ req[r].status = 200 =>
                  \A snapshot \in req[r].seen :
                      req[r].tools = {d.name : d \in {d \in Registry :
                          /\ Callable(d, grant, snapshot)
                          /\ d.name = "task.submit" =>
                                \E t \in Registry : t.kind = "task" /\ Callable(t, grant, snapshot)}}
            /\ req[r].status # 403
            /\ req[r].status = 401 =>
                  req[r].auth = NoAuth \/ Seconds >= Sessions[req[r].session].exp

Effect(r) ==
    \/ wire[r].kind \in {"create", "task.inspect", "agent.proxy"}
    \/ req[r].status \in {201, 299}
    \/ req[r].pc = "catalogue"

\* Whatever was sent to the daemon, served, issued or shown, the agents' routes
\* apart, was asked for with the root token, or with a session that was signed
\* here, had not ended when the router looked, lives no longer than allowed, and
\* covers both the route and the type of the task; sessions are issued for the
\* root token only.  The agents' routes ask for neither token nor session.
EffectsAuthorized ==
    \A r \in Requests :
      (/\ req[r].pc # "idle" /\ req[r].call.bearer # "root"
       /\ Effect(r) /\ req[r].inner \notin AgentRoutes) =>
        LET s == Sessions[req[r].session]
        IN  /\ req[r].call.bearer = "session" /\ req[r].inner # "session"
            /\ s.secret # "other" /\ req[r].at < s.exp /\ s.exp <= s.iat + MaxTtl
            /\ Allowed(s.grant, Descriptor(req[r].inner))
            /\ req[r].inner = "task.submit" => Allowed(s.grant, Descriptor(req[r].type))

\* The task is the one the request describes, defaults included.
Describes(task, call, type) ==
    /\ task.type = type /\ task.value = call.value
    /\ task.priority = Priority(call) /\ task.retries = MaxRetriesOf(call, type)

\* An acknowledged request has its task, a refused key belongs to a request
\* that asked for something else, and a key has one task, whatever was repeated
\* over HTTP or MCP, in another notation, after a timeout or during one.
AcceptedTrue ==
    /\ \A i, k \in DOMAIN tasks : tasks[i].key = tasks[k].key => i = k
    /\ \A r \in Requests : wire[r].kind = "create" =>
          LET call == req[r].call
          IN  /\ req[r].status = 202 =>
                    /\ req[r].id \in DOMAIN tasks /\ tasks[req[r].id].key = call.key
                    /\ Describes(tasks[req[r].id], call, req[r].type)
              /\ req[r].status = 409 =>
                    \E i \in HavingKey(call.key) : ~Describes(tasks[i], call, req[r].type)

\* In no stretch of time are more requests admitted than the burst and the rate
\* allow, a task was admitted, and a client that waits for Retry-After seconds
\* is admitted unless somebody else was in between.
AdmissionHonest ==
    LET Admitted(i, k) == {n \in i..k : log[n].allowed}
    IN  /\ Len(tasks) <= Cardinality(Admitted(1, Len(log)))
        /\ \A i, k \in DOMAIN log : i <= k /\ Admitted(i, k) # {} =>
              Cardinality(Admitted(i, k)) * TicksPerSecond <=
                  Burst * TicksPerSecond + (log[k].at - log[i].at) * Rate
        /\ \A i, k \in DOMAIN log :
              (/\ i < k /\ ~log[i].allowed /\ Admitted(i, k - 1) = {}
               /\ log[k].at >= log[i].at + log[i].retryAfter * TicksPerSecond)
              => log[k].allowed

\* Every request is answered, even when the daemon never says anything, except
\* that a response the daemon has begun is waited for without a limit.
GatewayAnswers ==
    \A r \in Requests : req[r].pc # "idle" ~> req[r].pc \in {"answered", "rest"}
=============================================================================
