-------------------------- MODULE MCGatewayAccess --------------------------
(***************************************************************************)
(* A small instance of GatewayAccess for TLC.                              *)
(***************************************************************************)
EXTENDS GatewayAccess

Surface(name, provider, depth, authority, scopes) ==
    [name |-> name, kind |-> "surface", provider |-> provider, minDepth |-> depth,
     minAuthority |-> authority, required |-> scopes]

TaskType(name, depth, authority, scope) ==
    [name |-> name, kind |-> "task", provider |-> "worker", minDepth |-> depth,
     minAuthority |-> authority, required |-> {scope}]

\* A descriptor of every kind of CAPABILITY_REGISTRY, with its levels.
SomeRegistry ==
    {Surface("system.health", "bun-gateway", 0, 0, {}),
     Surface("system.readiness", "bun-gateway", 0, 0, {}),
     Surface("system.capabilities", "bun-gateway", 0, 0, {"capability.read"}),
     Surface("task.inspect", "bun-gateway", 1, 0, {"task.read"}),
     Surface("task.submit", "bun-gateway", 3, 1, {"task.invoke"}),
     Surface("workflow.submit", "bun-gateway", 4, 2, {"workflow.compose"}),
     Surface("git.head", "git-cli-metadata", 5, 0, {"git.inspect"}),
     TaskType("hash.compute", 3, 1, "task:hash.compute"),
     TaskType("workflow.run", 4, 2, "task:workflow.run")}

AllScopes == UNION {d.required : d \in SomeRegistry}
Everything == [w \in {"*"} |-> AllScopes]
WithWildcard == AllScopes \cup {"*"}

SomePolicies ==
    [type \in {"hash.compute", "workflow.run"} |-> [minPriority |-> -1, maxPriority |-> 1, maxRetries |-> 10]]

Root == [depth |-> 6, authority |-> 4, scopes |-> {"*"}]

Session(scopes, iat, exp, secret) ==
    [grant |-> [depth |-> 5, authority |-> 2, scopes |-> scopes], iat |-> iat, exp |-> exp, secret |-> secret]

\* What a client may hold: tasks of one type, for a second; a task type without
\* the route; the route without a type; everything but from a clock that is
\* ahead; everything but for too long; a signature of another key.
SomeSessions ==
    <<Session({"task.invoke", "task:hash.compute", "task.read"}, 0, 1, "oauth"),
      Session({"task:hash.compute", "git.inspect"}, 0, 2, "root"),
      Session({"task.invoke", "workflow.compose", "capability.read"}, 0, 2, "root"),
      Session({"*"}, 2, 3, "root"),
      Session({"*"}, 0, 3, "root"),
      Session({"*"}, 0, 2, "other")>>

AllUp == [up |-> {"broker", "git-cli-metadata"}, active |-> {"hash.compute", "workflow.run"}]

SomeSnapshots ==
    {AllUp,
     [up |-> {"broker"}, active |-> {"workflow.run"}]}

-----------------------------------------------------------------------------
Http(name) ==
    [via |-> "http", method |-> "", name |-> name, bearer |-> "session", envelope |-> TRUE,
     args |-> TRUE, type |-> "", key |-> "", value |-> 0, order |-> 0, priority |-> <<>>,
     retries |-> <<>>, large |-> FALSE, id |-> 1, grant |-> Root, ttl |-> 1,
     agent |-> FALSE]

Submit == [Http("task.submit") EXCEPT !.type = "hash.compute", !.key = "k", !.value = 1]

AsRoot(call) == [call EXCEPT !.bearer = "root"]

\* The same request in another notation, through MCP, and a different one.
Again   == [Submit EXCEPT !.order = 1, !.priority = <<0>>, !.retries = <<3>>]
ByMcp   == [Submit EXCEPT !.via = "mcp", !.method = "tools/call", !.name = "hash.compute", !.type = ""]
Another == [Submit EXCEPT !.value = 2]
NewKey  == [Submit EXCEPT !.key = "l"]

Mcp(method, name) == [Http(name) EXCEPT !.via = "mcp", !.method = method]

\* An agent's requests: with nothing, with its own token, with a body that lacks
\* what it must have.
ByAgent(name) == [Http(name) EXCEPT !.bearer = "none"]

OfAgents ==
    {ByAgent(name) : name \in AgentRoutes}
    \cup {[ByAgent("agent.own") EXCEPT !.agent = TRUE, !.args = args] : args \in BOOLEAN}
    \cup {[ByAgent("agent.register") EXCEPT !.args = FALSE]}

\* Each kind of request on its own.
Single ==
    {Submit, ByMcp, [ByMcp EXCEPT !.name = "task.submit", !.type = "hash.compute"],
     [ByMcp EXCEPT !.name = "task.submit", !.type = "git.head"], [ByMcp EXCEPT !.args = FALSE],
     [Submit EXCEPT !.key = ""], [Submit EXCEPT !.bearer = "none"],
     AsRoot([Submit EXCEPT !.type = "no.such"]), AsRoot([Submit EXCEPT !.priority = <<2>>]),
     AsRoot([Submit EXCEPT !.retries = <<11>>]), AsRoot([Submit EXCEPT !.large = TRUE]),
     Http("task.inspect"), [Http("task.inspect") EXCEPT !.args = FALSE], Http("git.head"),
     Http("workflow.submit"), Http("system.capabilities"), Http("system.readiness"),
     Http("system.health"), Http("unknown"),
     Http("session"), AsRoot(Http("session")), AsRoot([Http("session") EXCEPT !.ttl = 3]),
     Mcp("tools/list", ""), Mcp("server/discover", ""), Mcp("ping", ""),
     [Mcp("tools/list", "") EXCEPT !.envelope = FALSE], Mcp("tools/call", "git.head"),
     Mcp("tools/call", "system.readiness"), Mcp("tools/call", "system.capabilities"),
     Mcp("tools/call", "no.such")} \cup OfAgents

\* One request of any kind after a session was issued; a submission and what
\* may follow it; the same through MCP.
SomePlans ==
    <<[calls |-> <<{AsRoot(Http("session"))}, Single, {}>>,
       providers |-> SomeSnapshots, changes |-> 1],
      [calls |-> <<{AsRoot(Submit)}, {AsRoot(Again), AsRoot(Another)}, {AsRoot(NewKey)}>>,
       providers |-> {AllUp}, changes |-> 0],
      [calls |-> <<{AsRoot(Submit)}, {AsRoot(ByMcp)}, {}>>,
       providers |-> {AllUp}, changes |-> 1]>>
=============================================================================
