------------------------ MODULE GatewayAccessProofs ------------------------
(***************************************************************************)
(* The gateway's front for any number of requests, any registry, sessions  *)
(* and calls, and any rate, burst and time between requests.               *)
(*                                                                         *)
(* What is known of a request is stated as an operator of the request, its *)
(* message to the daemon, the sessions, the time and the tasks, so that a  *)
(* step of one request leaves the others alone because what they depend on *)
(* only grows.  The admission controller has an invariant of its own.      *)
(***************************************************************************)
EXTENDS GatewayAccess, FiniteSetTheorems, TLAPS

-----------------------------------------------------------------------------
(* The invariant of a request q with message w, given the sessions ss, the *)
(* time now in seconds and the daemon's tasks ts.                          *)

Calls == UNION {UNION {Plans[p].calls[r] : r \in Requests} : p \in DOMAIN Plans}

IsRequest(q) ==
  q = [pc |-> q.pc, call |-> q.call, session |-> q.session, auth |-> q.auth, at |-> q.at,
       seen |-> q.seen, inner |-> q.inner, type |-> q.type, tools |-> q.tools,
       catalogue |-> q.catalogue, status |-> q.status, id |-> q.id]

\* Before anything is sent to the daemon; and behind the MCP endpoint.
Early  == {"mcp", "tools/list", "tools/call", "route", "catalogue", "body", "handle", "fingerprint"}
Routed == {"route", "catalogue", "body", "handle", "fingerprint", "upstream", "rest"}

\* What the bearer is worth when it is accepted.
Granted(q, ss) ==
  IF q.call.bearer = "root" THEN [kind |-> "root", grant |-> RootGrant]
  ELSE [kind |-> "session", grant |-> ss[q.session].grant]

\* The session was accepted, now or before.
WasValid(s, now) ==
  /\ s.secret \in {"root", "oauth"}
  /\ s.iat <= now + Skew
  /\ s.exp > s.iat
  /\ s.exp - s.iat <= MaxTtl

AuthSound(q, ss, now) ==
  /\ q.call.bearer = "session" => q.session \in DOMAIN ss
  /\ q.auth # NoAuth =>
        /\ q.call.bearer \in {"root", "session"}
        /\ q.auth = Granted(q, ss)
        /\ q.call.bearer = "session" => WasValid(ss[q.session], now)

\* The route, and the type of the task, were within a session that was valid.
Cleared(q, ss) ==
  q.call.bearer # "root" =>
    /\ q.call.bearer = "session"
    /\ ss[q.session].secret # "other"
    /\ q.at < ss[q.session].exp
    /\ ss[q.session].exp <= ss[q.session].iat + MaxTtl
    /\ Allowed(ss[q.session].grant, Descriptor(q.inner))

TypeCleared(q, ss) ==
  q.call.bearer # "root" => Allowed(ss[q.session].grant, Descriptor(q.type))

Submission(q, ss) ==
  /\ q.inner = "task.submit" /\ q.type \in DOMAIN Policies
  /\ Cleared(q, ss) /\ TypeCleared(q, ss)

\* How far a request is, and what was checked by then.
RouteSound(q, w, ss) ==
  /\ q.pc \in Early => w = NoWire
  /\ q.pc # "answered" => q.status = 0
  /\ q.pc = "catalogue" => q.inner = "system.capabilities" /\ Cleared(q, ss)
  /\ q.pc = "body" => q.inner = "task.submit" /\ Cleared(q, ss) /\ q.auth # NoAuth
  /\ q.pc = "handle" =>
        /\ q.inner \notin {"session", "system.capabilities"}
        /\ q.inner \in Unguarded \/ Cleared(q, ss)
        /\ q.inner = "task.submit" /\ q.call.args /\ IsTask(q.type) => TypeCleared(q, ss)
  /\ q.pc = "fingerprint" \/ w.kind = "create" => Submission(q, ss)
  /\ w.kind = "task.inspect" => q.inner = "task.inspect" /\ Cleared(q, ss)
  /\ w.kind = "agent.proxy" => q.inner = "agent.proxy"
  /\ q.status = 201 => q.call.bearer = "root"
  /\ q.status = 299 => /\ q.inner \notin {"session", "task.submit"}
                       /\ q.inner \in AgentRoutes \/ Cleared(q, ss)

\* What tools/list said.
Listed(q) ==
  \A snapshot \in q.seen :
    q.tools = {d.name : d \in {d \in Registry : IsTool(d, q.auth.grant, snapshot)}}

\* A request of the MCP endpoint, before and behind the router.
McpSound(q, ss, now) ==
  q.call.via = "mcp" =>
    /\ q.pc = "mcp" => q.auth = NoAuth
    /\ q.pc \in {"tools/list", "tools/call"} => q.call.method = q.pc /\ q.auth # NoAuth
    /\ q.pc \in Routed =>
          /\ q.call.method = "tools/call" /\ q.auth # NoAuth
          /\ q.inner \notin {"session"} \cup AgentRoutes
          /\ q.inner \in Unguarded \/ Allowed(q.auth.grant, Descriptor(q.inner))
          /\ q.inner = "task.submit" /\ IsTask(q.type) =>
                Allowed(q.auth.grant, Descriptor(q.type))
    /\ q.pc = "answered" =>
          /\ q.status # 403
          /\ q.status = 401 =>
                q.auth = NoAuth \/ (q.call.bearer = "session" /\ now >= ss[q.session].exp)
          /\ q.call.method = "tools/list" /\ q.status = 200 => q.auth # NoAuth /\ Listed(q)

\* What a create got back: its task, or the task that has its key.
Replied(call, type, reply, id, ts) ==
  /\ reply = 202 =>
        /\ id \in DOMAIN ts /\ ts[id].key = call.key
        /\ ts[id].fingerprint = Fingerprint(call, type)
  /\ reply = 409 =>
        \E i \in DOMAIN ts : ts[i].key = call.key /\ ts[i].fingerprint # Fingerprint(call, type)

IsWire(w) ==
  /\ w = [state |-> w.state, kind |-> w.kind, reply |-> w.reply, id |-> w.id]
  /\ w.kind \in {"", "create", "task.inspect", "system.readiness", "agent.proxy"}
  /\ w.reply \in {0, 200, 202, 204, 400, 401, 404, 409, 500, 503}
  /\ w.reply # 0 <=> w.state = "replied"
  /\ w.state = "none" <=> w = NoWire

\* The message to the daemon and what came back.
WireSound(q, w, ts) ==
  /\ IsWire(w)
  /\ q.pc = "rest" => \/ w.kind = "create" /\ w.reply = 202
                      \/ w.kind = "task.inspect" /\ w.reply = 200
  /\ w.kind = "create" =>
        /\ Replied(q.call, q.type, w.reply, w.id, ts)
        /\ q.status = 202 => w.reply = 202 /\ q.id = w.id
        /\ q.status = 409 => w.reply = 409

RequestSound(q, w, ss, now, ts) ==
  \/ q = NoRequest /\ w = NoWire
  \/ /\ IsRequest(q)
     /\ q.pc \in Early \cup {"upstream", "rest", "answered"}
     /\ q.call \in Calls
     /\ AuthSound(q, ss, now)
     /\ RouteSound(q, w, ss)
     /\ McpSound(q, ss, now)
     /\ WireSound(q, w, ts)

\* The task the daemon makes of a call.
TaskOf(call, type) ==
  [key |-> call.key, fingerprint |-> Fingerprint(call, type), type |-> type,
   value |-> call.value, priority |-> Priority(call), retries |-> MaxRetriesOf(call, type)]

Tasks == {TaskOf(call, type) : call \in Calls, type \in DOMAIN Policies}

OneTaskPerKey == \A i, k \in DOMAIN tasks : tasks[i].key = tasks[k].key => i = k

RequestsSound ==
  /\ plan \in DOMAIN Plans
  /\ clock \in Nat
  /\ issued \in Seq(Claims)
  /\ DOMAIN req = Requests /\ DOMAIN wire = Requests
  /\ tasks \in Seq(Tasks)
  /\ OneTaskPerKey
  /\ \A r \in Requests : RequestSound(req[r], wire[r], Sessions, Seconds, tasks)

-----------------------------------------------------------------------------
(* What every step rests on.                                               *)

\* Sequences that only grow.
Extends(s2, s1) == DOMAIN s1 \subseteq DOMAIN s2 /\ \A i \in DOMAIN s1 : s2[i] = s1[i]

\* What is known of a request stays true while sessions are issued, tasks are
\* created and time passes.
LEMMA Grows ==
  ASSUME NEW q, NEW w, NEW ss1, NEW ss2, NEW now1 \in Int, NEW now2 \in Int, NEW ts1, NEW ts2,
         ss1 \in Seq(Claims), Extends(ss2, ss1), now1 <= now2, Extends(ts2, ts1),
         RequestSound(q, w, ss1, now1, ts1)
  PROVE  RequestSound(q, w, ss2, now2, ts2)
<1>1. CASE q = NoRequest /\ w = NoWire
  BY <1>1 DEF RequestSound
<1>2. CASE ~(q = NoRequest /\ w = NoWire)
  <2>1. /\ IsRequest(q) /\ q.pc \in Early \cup {"upstream", "rest", "answered"} /\ q.call \in Calls
        /\ AuthSound(q, ss1, now1) /\ RouteSound(q, w, ss1) /\ McpSound(q, ss1, now1)
        /\ WireSound(q, w, ts1)
    BY <1>2 DEF RequestSound
  <2>2. q.call.bearer = "session" =>
          /\ q.session \in DOMAIN ss1 /\ q.session \in DOMAIN ss2
          /\ ss2[q.session] = ss1[q.session] /\ ss1[q.session] \in Claims
    BY <2>1 DEF AuthSound, Extends
  <2>3. AuthSound(q, ss2, now2)
    <3>1. Skew \in Nat
      BY GatewayAssumption
    <3>2. ASSUME q.call.bearer = "session", WasValid(ss1[q.session], now1)
          PROVE  WasValid(ss2[q.session], now2)
      BY <2>2, <3>1, <3>2, SMTT(30) DEF WasValid, Claims
    <3> QED BY <2>1, <2>2, <3>2 DEF AuthSound, Granted
  <2>4. /\ Cleared(q, ss1) => Cleared(q, ss2)
        /\ Cleared(q, ss1) /\ TypeCleared(q, ss1) => TypeCleared(q, ss2)
    BY <2>2 DEF Cleared, TypeCleared
  <2>5. RouteSound(q, w, ss2)
    BY <2>1, <2>4 DEF RouteSound, Submission, Unguarded, AgentRoutes
  <2>6. McpSound(q, ss2, now2)
    BY <2>1, <2>2 DEF McpSound, Claims
  <2>7. WireSound(q, w, ts2)
    <3>1. Replied(q.call, q.type, w.reply, w.id, ts1) => Replied(q.call, q.type, w.reply, w.id, ts2)
      BY DEF Replied, Extends
    <3> QED BY <2>1, <3>1 DEF WireSound
  <2> QED BY <2>1, <2>3, <2>5, <2>6, <2>7 DEF RequestSound
<1> QED BY <1>1, <1>2

\* The clock in seconds does not go back.
LEMMA QuotientGrows ==
  ASSUME NEW a \in Nat, NEW b \in Nat, NEW n \in Nat, n # 0, a <= b
  PROVE  a \div n \in Nat /\ b \div n \in Nat /\ a \div n <= b \div n
<1>1. PICK x \in Nat, y \in Nat : x = a \div n /\ y = b \div n
  OBVIOUS
<1>2. n * x <= a /\ b < n * (y + 1)
  BY <1>1
<1>3. ASSUME y + 1 <= x PROVE FALSE
  <2>1. n * (y + 1) <= n * x
    BY <1>3
  <2> QED BY <1>2, <2>1
<1> QED BY <1>1, <1>3

\* The sessions and the time have their types.
LEMMA SessionsType ==
  ASSUME issued \in Seq(Claims), clock \in Nat
  PROVE  Sessions \in Seq(Claims) /\ Seconds \in Nat
<1>1. OtherSessions \in Seq(Claims)
  BY GatewayAssumption
<1>2. TicksPerSecond \in Nat \ {0}
  BY AdmissionAssumption
<1>3. Sessions \in Seq(Claims)
  BY <1>1 DEF Sessions
<1>4. Seconds \in Nat
  BY <1>2 DEF Seconds
<1> QED BY <1>3, <1>4

\* A step of one request, which may issue a session, create a task or let time
\* pass, leaves the others sound.
LEMMA OneStep ==
  ASSUME RequestsSound, NEW r \in Requests, NEW q, NEW w,
         plan' = plan, clock' \in Nat, clock <= clock',
         issued' \in Seq(Claims), Extends(issued', issued),
         tasks' \in Seq(Tasks), Extends(tasks', tasks), OneTaskPerKey',
         DOMAIN req' = Requests, DOMAIN wire' = Requests,
         \A s \in Requests \ {r} : req'[s] = req[s] /\ wire'[s] = wire[s],
         req'[r] = q, wire'[r] = w,
         RequestSound(q, w, Sessions', Seconds', tasks')
  PROVE  RequestsSound'
<1>1. /\ Sessions \in Seq(Claims) /\ Seconds \in Nat
      /\ Seconds' \in Nat /\ Seconds <= Seconds'
  BY SessionsType, QuotientGrows, AdmissionAssumption DEF RequestsSound, Seconds
<1>2. Extends(Sessions', Sessions)
  BY GatewayAssumption, SMTT(30) DEF RequestsSound, Extends, Sessions
<1>3. \A s \in Requests : RequestSound(req'[s], wire'[s], Sessions', Seconds', tasks')
  <2> TAKE s \in Requests
  <2>1. CASE s = r
    BY <2>1
  <2>2. CASE s # r
    <3>1. RequestSound(req[s], wire[s], Sessions, Seconds, tasks)
      BY DEF RequestsSound
    <3>2. RequestSound(req[s], wire[s], Sessions', Seconds', tasks')
      BY <1>1, <1>2, <3>1, Grows
    <3> QED BY <2>2, <3>2
  <2> QED BY <2>1, <2>2
<1> QED BY <1>3 DEF RequestsSound

\* The common case: sessions, tasks and clock stay as they are.
LEMMA LocalStep ==
  ASSUME RequestsSound, NEW r \in Requests, NEW q, NEW w,
         plan' = plan, clock' = clock, issued' = issued, tasks' = tasks,
         DOMAIN req' = Requests, DOMAIN wire' = Requests,
         \A s \in Requests \ {r} : req'[s] = req[s] /\ wire'[s] = wire[s],
         req'[r] = q, wire'[r] = w,
         RequestSound(q, w, Sessions, Seconds, tasks)
  PROVE  RequestsSound'
<1>1. Sessions' = Sessions /\ Seconds' = Seconds
  BY DEF Sessions, Seconds
<1>2. clock \in Nat /\ issued \in Seq(Claims) /\ tasks \in Seq(Tasks) /\ OneTaskPerKey
  BY DEF RequestsSound
<1>3. OneTaskPerKey'
  BY <1>2 DEF OneTaskPerKey
<1>4. Extends(issued', issued) /\ Extends(tasks', tasks) /\ clock' \in Nat /\ clock <= clock'
  BY <1>2 DEF Extends
<1> QED BY <1>1, <1>2, <1>3, <1>4, OneStep

\* Answered(q, q2): q2 is q with its answer; nothing it was checked for changes.
Answered(q, q2) ==
  /\ IsRequest(q2) /\ q2.pc = "answered"
  /\ q2.call = q.call /\ q2.session = q.session /\ q2.auth = q.auth
  /\ q2.at = q.at /\ q2.inner = q.inner /\ q2.type = q.type

\* What an answer must respect to leave its request sound.
LEMMA AnswerSound ==
  ASSUME NEW q, NEW q2, NEW w, NEW ss, NEW now, NEW ts,
         RequestSound(q, w, ss, now, ts), q.pc # "idle", Answered(q, q2),
         q2.status = 201 => q.call.bearer = "root",
         q2.status = 299 => /\ q.inner \notin {"session", "task.submit"}
                            /\ q.inner \in AgentRoutes \/ Cleared(q, ss),
         q.call.via = "mcp" =>
           /\ q2.status # 403
           /\ q2.status = 401 =>
                q.auth = NoAuth \/ (q.call.bearer = "session" /\ now >= ss[q.session].exp)
           /\ q.call.method = "tools/list" /\ q2.status = 200 => q.auth # NoAuth /\ Listed(q2),
         w.kind = "create" =>
           /\ q2.status = 202 => w.reply = 202 /\ q2.id = w.id
           /\ q2.status = 409 => w.reply = 409
  PROVE  RequestSound(q2, w, ss, now, ts)
<1>1. /\ q.call \in Calls /\ AuthSound(q, ss, now) /\ RouteSound(q, w, ss) /\ WireSound(q, w, ts)
  BY DEF RequestSound, NoRequest
<1>2. /\ IsRequest(q2) /\ q2.pc = "answered"
      /\ q2.call = q.call /\ q2.session = q.session /\ q2.auth = q.auth
      /\ q2.at = q.at /\ q2.inner = q.inner /\ q2.type = q.type
  BY DEF Answered
<1>3. AuthSound(q2, ss, now)
  BY <1>1, <1>2 DEF AuthSound, Granted
<1>4. /\ Cleared(q, ss) => Cleared(q2, ss)
      /\ TypeCleared(q, ss) => TypeCleared(q2, ss)
  BY <1>2 DEF Cleared, TypeCleared
<1>5. RouteSound(q2, w, ss)
  BY <1>1, <1>2, <1>4 DEF RouteSound, Submission, Early
<1>6. McpSound(q2, ss, now)
  BY <1>2 DEF McpSound, Routed
<1>7. WireSound(q2, w, ts)
  BY <1>1, <1>2 DEF WireSound
<1> QED BY <1>1, <1>2, <1>3, <1>5, <1>6, <1>7 DEF RequestSound

\* A name of the registry has its descriptor.
LEMMA DescriptorOf ==
  ASSUME NEW name, Known(name)
  PROVE  Descriptor(name) \in Registry /\ Descriptor(name).name = name
BY DEF Known, Descriptor

\* A task with a policy is a task of the registry.
LEMMA PolicyIsTask ==
  ASSUME NEW type \in DOMAIN Policies
  PROVE  IsTask(type)
<1>1. PICK d \in Registry : d.name = type /\ d.kind = "task"
  BY GatewayAssumption
<1>2. Known(type)
  BY <1>1 DEF Known
<1>3. Descriptor(type) = d
  BY <1>1, <1>2, DescriptorOf, GatewayAssumption
<1> QED BY <1>1, <1>2, <1>3 DEF IsTask

\* What an accepted bearer is worth, and why one that was accepted before is
\* not accepted any more.
LEMMA AuthorizationSound ==
  ASSUME NEW r \in Requests, NEW a, a = Authorization(r), RequestsSound, req[r].pc # "idle"
  PROVE  /\ a # NoAuth =>
               /\ req[r].call.bearer \in {"root", "session"}
               /\ a = Granted(req[r], Sessions)
               /\ req[r].call.bearer = "session" => VerifySession(Sessions[req[r].session], Seconds)
         /\ a = NoAuth /\ req[r].auth # NoAuth =>
               /\ req[r].call.bearer = "session"
               /\ Seconds >= Sessions[req[r].session].exp
<1> DEFINE q == req[r]
           s == Sessions[q.session]
<1>1. AuthSound(q, Sessions, Seconds)
  BY DEF RequestsSound, RequestSound, NoRequest
<1>2. a # NoAuth =>
        /\ q.call.bearer \in {"root", "session"}
        /\ a = Granted(q, Sessions)
        /\ q.call.bearer = "session" => VerifySession(s, Seconds)
  BY DEF Authorization, Granted
<1>3. ASSUME a = NoAuth, q.auth # NoAuth
      PROVE  q.call.bearer = "session" /\ Seconds >= s.exp
  <2>1. /\ q.call.bearer \in {"root", "session"} /\ q.auth = Granted(q, Sessions)
        /\ q.call.bearer = "session" => WasValid(s, Seconds) /\ q.session \in DOMAIN Sessions
    BY <1>1, <1>3 DEF AuthSound
  <2>2. q.call.bearer = "session" /\ ~VerifySession(s, Seconds)
    BY <1>3, <2>1 DEF Authorization, Granted
  <2>3. s \in Claims /\ Seconds \in Nat
    BY <2>1, <2>2, SessionsType DEF RequestsSound
  <2> QED BY <2>1, <2>2, <2>3 DEF VerifySession, WasValid, Claims
<1> QED BY <1>2, <1>3

-----------------------------------------------------------------------------
(* One lemma per action.                                                   *)

\* A request without a message.
LEMMA NothingSent ==
  NoWire.kind = "" /\ NoWire.reply = 0 /\ NoWire.state = "none" /\ IsWire(NoWire)
BY DEF NoWire, IsWire

\* A request the router has not looked at.
LEMMA Unrouted ==
  ASSUME NEW q, NEW ss, q.pc \in {"mcp", "tools/list", "tools/call", "route"}, q.status = 0
  PROVE  RouteSound(q, NoWire, ss)
<1>1. q.pc # "catalogue" /\ q.pc # "body" /\ q.pc # "handle" /\ q.pc # "fingerprint"
  OBVIOUS
<1>2. q.status # 201 /\ q.status # 299
  OBVIOUS
<1>3. NoWire.kind # "create" /\ NoWire.kind # "task.inspect" /\ NoWire.kind # "agent.proxy"
  BY DEF NoWire
<1> QED BY <1>1, <1>2, <1>3 DEF RouteSound

\* A request that is there: its parts.
LEMMA Parts ==
  ASSUME RequestsSound, NEW r \in Requests, req[r].pc # "idle"
  PROVE  /\ RequestSound(req[r], wire[r], Sessions, Seconds, tasks)
         /\ IsRequest(req[r]) /\ req[r].call \in Calls
         /\ AuthSound(req[r], Sessions, Seconds) /\ RouteSound(req[r], wire[r], Sessions)
         /\ McpSound(req[r], Sessions, Seconds) /\ WireSound(req[r], wire[r], tasks)
BY DEF RequestsSound, RequestSound, NoRequest

\* A step that does nothing but answer a request.
LEMMA AnswerStep ==
  ASSUME RequestsSound, NEW r \in Requests, NEW status,
         req' = Answer(r, status), req[r].pc # "idle",
         plan' = plan, clock' = clock, issued' = issued, tasks' = tasks, wire' = wire,
         status = 201 => req[r].call.bearer = "root",
         status = 299 => /\ req[r].inner \notin {"session", "task.submit"}
                         /\ req[r].inner \in AgentRoutes \/ Cleared(req[r], Sessions),
         req[r].call.via = "mcp" =>
           /\ status # 403
           /\ status = 401 => \/ req[r].auth = NoAuth
                              \/ /\ req[r].call.bearer = "session"
                                 /\ Seconds >= Sessions[req[r].session].exp
           /\ ~(req[r].call.method = "tools/list" /\ status = 200),
         wire[r].kind = "create" => status # 202 /\ (status = 409 => wire[r].reply = 409)
  PROVE  RequestsSound'
<1>1. PICK q : q = req[r]
  OBVIOUS
<1>2. PICK q2 : q2 = [q EXCEPT !.pc = "answered", !.status = status]
  OBVIOUS
<1>3. DOMAIN req = Requests /\ DOMAIN wire = Requests
  BY DEF RequestsSound
<1>4. DOMAIN req' = Requests /\ req'[r] = q2 /\ \A s \in Requests \ {r} : req'[s] = req[s]
  BY <1>1, <1>2, <1>3 DEF Answer
<1>5. RequestSound(q, wire[r], Sessions, Seconds, tasks) /\ IsRequest(q)
  BY <1>1, Parts
<1>6. Answered(q, q2) /\ q2.status = status
  BY <1>2, <1>5 DEF IsRequest, Answered
<1>7. RequestSound(q2, wire[r], Sessions, Seconds, tasks)
  BY <1>1, <1>5, <1>6, AnswerSound
<1> QED BY <1>3, <1>4, <1>7, LocalStep

\* A request that arrives knows nothing yet.
LEMMA ArriveSound ==
  ASSUME RequestsSound, NEW r \in Requests, Arrive(r)
  PROVE  RequestsSound'
<1>1. PICK call \in Plans[plan].calls[r] :
        \E session \in IF call.bearer = "session" THEN DOMAIN Sessions ELSE {0} :
            req' = [req EXCEPT ![r] = Arrived(call, session)]
  BY DEF Arrive
<1>2. PICK session : /\ session \in IF call.bearer = "session" THEN DOMAIN Sessions ELSE {0}
                     /\ req' = [req EXCEPT ![r] = Arrived(call, session)]
  BY <1>1
<1>3. PICK q : q = Arrived(call, session)
  OBVIOUS
<1>4. /\ IsRequest(q) /\ q.pc \in {"mcp", "route"} /\ (q.pc = "mcp" <=> call.via = "mcp")
      /\ q.call = call /\ q.session = session /\ q.auth = NoAuth /\ q.status = 0
  BY <1>3 DEF IsRequest, Arrived
<1>5. plan \in DOMAIN Plans /\ DOMAIN req = Requests /\ DOMAIN wire = Requests
  BY DEF RequestsSound
<1>6. q.call \in Calls
  BY <1>4, <1>5 DEF Calls
<1>7. req[r].pc = "idle" /\ RequestSound(req[r], wire[r], Sessions, Seconds, tasks)
  BY DEF Arrive, RequestsSound
<1>8. wire[r] = NoWire
  BY <1>7 DEF RequestSound, Early
<1>9. AuthSound(q, Sessions, Seconds)
  BY <1>2, <1>4 DEF AuthSound
<1>10. RouteSound(q, wire[r], Sessions)
  BY <1>4, <1>8, Unrouted
<1>11. McpSound(q, Sessions, Seconds)
  BY <1>4 DEF McpSound, Routed
<1>12. WireSound(q, wire[r], tasks)
  BY <1>4, <1>8, NothingSent DEF WireSound
<1>13. RequestSound(q, wire[r], Sessions, Seconds, tasks)
  BY <1>4, <1>6, <1>9, <1>10, <1>11, <1>12 DEF RequestSound, Early
<1>14. /\ DOMAIN req' = Requests /\ req'[r] = q
       /\ \A s \in Requests \ {r} : req'[s] = req[s]
  BY <1>2, <1>3, <1>5
<1>15. /\ plan' = plan /\ clock' = clock /\ issued' = issued /\ tasks' = tasks /\ wire' = wire
  BY DEF Arrive
<1> QED BY <1>5, <1>13, <1>14, <1>15, LocalStep

\* The MCP endpoint answers, or remembers what the bearer is worth.
LEMMA McpReceiveSound ==
  ASSUME RequestsSound, NEW r \in Requests, McpReceive(r)
  PROVE  RequestsSound'
<1>1. PICK a : a = Authorization(r)
  OBVIOUS
<1>2. PICK q : q = req[r]
  OBVIOUS
<1>3. q.pc = "mcp" /\ plan' = plan /\ clock' = clock /\ issued' = issued /\ tasks' = tasks /\ wire' = wire
  BY <1>2 DEF McpReceive
<1>4. /\ IsRequest(q) /\ q.call \in Calls /\ AuthSound(q, Sessions, Seconds)
      /\ RouteSound(q, wire[r], Sessions) /\ McpSound(q, Sessions, Seconds)
      /\ WireSound(q, wire[r], tasks)
  BY <1>2, <1>3, Parts
<1>5. wire[r] = NoWire /\ (q.call.via = "mcp" => q.auth = NoAuth) /\ wire[r].kind = ""
  BY <1>3, <1>4, NothingSent, ZenonT(40) DEF RouteSound, McpSound, Early
<1>6. ASSUME NEW status \in {400, 401, 200, 404}, req' = Answer(r, status),
             status = 200 => q.call.method # "tools/list"
      PROVE  RequestsSound'
  <2>1. status # 201 /\ status # 299 /\ status # 403 /\ status # 202 /\ status # 409
    BY <1>6
  <2>2. req[r].pc # "idle" /\ wire[r].kind # "create"
    BY <1>2, <1>3, <1>5
  <2>3. req[r].call.via = "mcp" =>
          req[r].auth = NoAuth /\ ~(req[r].call.method = "tools/list" /\ status = 200)
    BY <1>2, <1>5, <1>6
  <2> QED BY <1>3, <1>6, <2>1, <2>2, <2>3, AnswerStep
<1>7. ASSUME a # NoAuth, q.call.method \in {"tools/list", "tools/call"},
             req' = [req EXCEPT ![r].pc = q.call.method, ![r].auth = a]
      PROVE  RequestsSound'
  <2>1. PICK q2 : q2 = [q EXCEPT !.pc = q.call.method, !.auth = a]
    OBVIOUS
  <2>2. /\ IsRequest(q2) /\ q2.pc = q.call.method /\ q2.auth = a /\ q2.call = q.call
        /\ q2.session = q.session /\ q2.status = q.status /\ q2.inner = q.inner /\ q2.type = q.type
    BY <1>4, <2>1 DEF IsRequest
  <2>3. /\ q.call.bearer \in {"root", "session"} /\ a = Granted(q, Sessions)
        /\ q.call.bearer = "session" => VerifySession(Sessions[q.session], Seconds)
    BY <1>1, <1>2, <1>3, <1>7, AuthorizationSound
  <2>4. AuthSound(q2, Sessions, Seconds)
    BY <1>4, <2>2, <2>3 DEF AuthSound, VerifySession, WasValid, Granted
  <2>5. RouteSound(q2, wire[r], Sessions)
    <3>1. q.status = 0
      BY <1>3, <1>4 DEF RouteSound
    <3>2. q2.pc \in {"mcp", "tools/list", "tools/call", "route"} /\ q2.status = 0
      BY <1>7, <2>2, <3>1
    <3>3. RouteSound(q2, NoWire, Sessions)
      BY <3>2, Unrouted
    <3> QED BY <1>5, <3>3
  <2>6. McpSound(q2, Sessions, Seconds)
    BY <1>7, <2>2 DEF McpSound, Routed
  <2>7. WireSound(q2, wire[r], tasks)
    BY <1>4, <1>5, <1>7, <2>2 DEF WireSound
  <2>8. RequestSound(q2, wire[r], Sessions, Seconds, tasks)
    BY <1>4, <1>7, <2>2, <2>4, <2>5, <2>6, <2>7 DEF RequestSound, Early
  <2>9. DOMAIN req = Requests /\ DOMAIN wire = Requests
    BY DEF RequestsSound
  <2>10. DOMAIN req' = Requests /\ req'[r] = q2 /\ \A s \in Requests \ {r} : req'[s] = req[s]
    BY <1>2, <1>7, <2>1, <2>9
  <2> QED BY <1>3, <2>8, <2>9, <2>10, LocalStep
<1>8. \/ \E status \in {400, 401, 200, 404} :
            req' = Answer(r, status) /\ (status = 200 => q.call.method # "tools/list")
      \/ /\ a # NoAuth /\ q.call.method \in {"tools/list", "tools/call"}
         /\ req' = [req EXCEPT ![r].pc = q.call.method, ![r].auth = a]
  BY <1>1, <1>2 DEF McpReceive
<1> QED BY <1>6, <1>7, <1>8

\* A step that changes nothing but one request.
LEMMA MoveStep ==
  ASSUME RequestsSound, NEW r \in Requests, NEW q,
         req' = [req EXCEPT ![r] = q],
         plan' = plan, clock' = clock, issued' = issued, tasks' = tasks, wire' = wire,
         RequestSound(q, wire[r], Sessions, Seconds, tasks)
  PROVE  RequestsSound'
<1>1. DOMAIN req = Requests /\ DOMAIN wire = Requests
  BY DEF RequestsSound
<1>2. DOMAIN req' = Requests /\ req'[r] = q /\ \A s \in Requests \ {r} : req'[s] = req[s]
  BY <1>1
<1> QED BY <1>1, <1>2, LocalStep

\* tools/list says which tools there are.
LEMMA McpListSound ==
  ASSUME RequestsSound, NEW r \in Requests, McpList(r)
  PROVE  RequestsSound'
<1>1. PICK q : q = req[r]
  OBVIOUS
<1>2. PICK tools : \E snapshot \in Availability :
        /\ tools = {d.name : d \in {d \in Registry : IsTool(d, req[r].auth.grant, snapshot)}}
        /\ req' = [Answer(r, 200) EXCEPT ![r].seen = {snapshot}, ![r].tools = tools]
  BY DEF McpList
<1>3. PICK snapshot \in Availability :
        /\ tools = {d.name : d \in {d \in Registry : IsTool(d, req[r].auth.grant, snapshot)}}
        /\ req' = [Answer(r, 200) EXCEPT ![r].seen = {snapshot}, ![r].tools = tools]
  BY <1>2
<1>4. q.pc = "tools/list" /\ plan' = plan /\ clock' = clock /\ issued' = issued /\ tasks' = tasks /\ wire' = wire
  BY <1>1 DEF McpList
<1>5. /\ RequestSound(q, wire[r], Sessions, Seconds, tasks)
      /\ IsRequest(q) /\ RouteSound(q, wire[r], Sessions) /\ McpSound(q, Sessions, Seconds)
  BY <1>1, <1>4, Parts
<1>6. wire[r] = NoWire /\ (q.call.via = "mcp" => q.auth # NoAuth) /\ wire[r].kind = ""
  <2>1. wire[r] = NoWire
    BY <1>4, <1>5 DEF RouteSound, Early
  <2> QED BY <1>4, <1>5, <2>1, NothingSent DEF McpSound
<1>7. PICK q2 : q2 = [q EXCEPT !.pc = "answered", !.status = 200, !.seen = {snapshot}, !.tools = tools]
  OBVIOUS
<1>8. Answered(q, q2) /\ q2.status = 200 /\ q2.seen = {snapshot} /\ q2.tools = tools /\ q2.auth = q.auth
  BY <1>5, <1>7 DEF IsRequest, Answered
<1>9. Listed(q2)
  BY <1>1, <1>3, <1>8 DEF Listed
<1>10. q2.status # 201 /\ q2.status # 299 /\ q2.status # 403 /\ q2.status # 401
  BY <1>8
<1>11. RequestSound(q2, wire[r], Sessions, Seconds, tasks)
  <2>1. q.pc # "idle" /\ wire[r].kind # "create"
    BY <1>4, <1>6
  <2>2. RequestSound(q, wire[r], Sessions, Seconds, tasks) /\ Answered(q, q2)
    BY <1>5, <1>8
  <2>3. q.call.via = "mcp" => q.auth # NoAuth /\ Listed(q2)
    BY <1>6, <1>9
  <2> QED BY <1>10, <2>1, <2>2, <2>3, AnswerSound
<1>12. req' = [req EXCEPT ![r] = q2]
  <2>1. DOMAIN req = Requests
    BY DEF RequestsSound
  <2> QED BY <1>1, <1>3, <1>7, <2>1, ZenonT(40) DEF Answer
<1> QED BY <1>4, <1>11, <1>12, MoveStep

\* A tool call is refused, or becomes a request within the bearer's grant.
LEMMA McpCallToolSound ==
  ASSUME RequestsSound, NEW r \in Requests, McpCallTool(r)
  PROVE  RequestsSound'
<1>1. PICK q : q = req[r]
  OBVIOUS
<1> DEFINE d == Descriptor(q.call.name)
           grant == q.auth.grant
           inner == IF d.kind = "task" THEN "task.submit" ELSE q.call.name
           type == IF d.kind = "task" THEN q.call.name ELSE q.call.type
<1>2. q.pc = "tools/call" /\ plan' = plan /\ clock' = clock /\ issued' = issued /\ tasks' = tasks /\ wire' = wire
  BY <1>1 DEF McpCallTool
<1>3. /\ IsRequest(q) /\ q.call \in Calls /\ AuthSound(q, Sessions, Seconds)
      /\ RouteSound(q, wire[r], Sessions) /\ McpSound(q, Sessions, Seconds)
      /\ WireSound(q, wire[r], tasks)
  BY <1>1, <1>2, Parts
<1>4. /\ wire[r] = NoWire /\ q.status = 0
      /\ q.call.via = "mcp" => q.call.method = "tools/call" /\ q.auth # NoAuth
  BY <1>2, <1>3 DEF RouteSound, McpSound, Early
<1>5. CASE req' = Answer(r, 32602)
  <2>1. wire[r].kind # "create"
    BY <1>4, NothingSent
  <2>2. req[r].pc # "idle" /\ (req[r].call.via = "mcp" => req[r].call.method # "tools/list")
    BY <1>1, <1>2, <1>4
  <2> QED BY <1>2, <1>5, <2>1, <2>2, AnswerStep
<1>6. ASSUME NEW snapshot \in Availability, Known(q.call.name), IsTool(d, grant, snapshot),
             Invocable(d, q.call.type, grant, snapshot),
             req' = [req EXCEPT ![r].pc = "route", ![r].inner = inner, ![r].type = type]
      PROVE  RequestsSound'
  <2>1. PICK q2 : q2 = [q EXCEPT !.pc = "route", !.inner = inner, !.type = type]
    OBVIOUS
  <2>2. /\ IsRequest(q2) /\ q2.pc = "route" /\ q2.auth = q.auth /\ q2.call = q.call
        /\ q2.session = q.session /\ q2.status = q.status /\ q2.inner = inner /\ q2.type = type
    BY <1>3, <2>1 DEF IsRequest
  <2>3. d \in Registry /\ d.name = q.call.name
    BY <1>6, DescriptorOf
  <2>4. Known("task.submit")
    BY GatewayAssumption DEF Known
  <2>5. inner \notin {"session"} \cup AgentRoutes
    BY <2>3, GatewayAssumption DEF AgentRoutes
  <2>6. Allowed(grant, Descriptor(inner))
    BY <1>6 DEF IsTool, ToolPrerequisites
  <2>7. ASSUME inner = "task.submit", IsTask(type)
        PROVE  Allowed(grant, Descriptor(type))
    BY <1>6, <2>3, <2>7 DEF IsTool, ToolPrerequisites, Invocable
  <2>8. AuthSound(q2, Sessions, Seconds)
    BY <1>3, <2>2 DEF AuthSound, Granted
  <2>9. RouteSound(q2, wire[r], Sessions)
    BY <1>4, <2>2, Unrouted
  <2>10. McpSound(q2, Sessions, Seconds)
    <3> HIDE DEF inner, type, grant
    <3>1. q2.auth.grant = grant
      BY <2>2 DEF grant
    <3> QED BY <1>4, <2>2, <2>5, <2>6, <2>7, <3>1 DEF McpSound
  <2>11. WireSound(q2, wire[r], tasks)
    BY <1>4, <2>2, NothingSent DEF WireSound
  <2>12. RequestSound(q2, wire[r], Sessions, Seconds, tasks)
    BY <1>3, <2>2, <2>8, <2>9, <2>10, <2>11 DEF RequestSound, Early
  <2>13. req' = [req EXCEPT ![r] = q2]
    <3> HIDE DEF inner, type
    <3> QED BY <1>1, <1>6, <2>1
  <2> QED BY <1>2, <2>12, <2>13, MoveStep
<1>7. \/ req' = Answer(r, 32602)
      \/ \E snapshot \in Availability :
            /\ Known(q.call.name) /\ IsTool(d, grant, snapshot)
            /\ Invocable(d, q.call.type, grant, snapshot)
            /\ req' = [req EXCEPT ![r].pc = "route", ![r].inner = inner, ![r].type = type]
  BY <1>1 DEF McpCallTool
<1> QED BY <1>5, <1>6, <1>7

\* The router refuses a bearer that is none any more, and no request of the MCP
\* endpoint for what it may not do.
LEMMA RefuseStep ==
  ASSUME RequestsSound, NEW r \in Requests, req[r].pc = "route", NEW a, a = Authorization(r),
         NEW status, req' = Answer(r, status),
         \/ status = 401 /\ a = NoAuth
         \/ /\ status = 403 /\ a # NoAuth /\ req[r].inner \notin Unguarded
            /\ ~Allowed(a.grant, Descriptor(req[r].inner)),
         plan' = plan, clock' = clock, issued' = issued, tasks' = tasks, wire' = wire
  PROVE  RequestsSound'
<1>1. PICK q : q = req[r]
  OBVIOUS
<1>2. /\ RouteSound(q, wire[r], Sessions) /\ McpSound(q, Sessions, Seconds)
      /\ AuthSound(q, Sessions, Seconds) /\ q.pc = "route"
  BY <1>1, Parts
<1>3. wire[r].kind # "create" /\ req[r].pc # "idle"
  <2>1. wire[r] = NoWire
    BY <1>2 DEF RouteSound, Early
  <2> QED BY <2>1, NothingSent
<1>4. q.call.via = "mcp" =>
        /\ q.auth # NoAuth /\ q.call.method = "tools/call"
        /\ q.inner \in Unguarded \/ Allowed(q.auth.grant, Descriptor(q.inner))
  BY <1>2 DEF McpSound, Routed
<1>5. q.auth # NoAuth => q.auth = Granted(q, Sessions)
  BY <1>2 DEF AuthSound
<1>6. /\ a # NoAuth => a = Granted(q, Sessions)
      /\ a = NoAuth /\ q.auth # NoAuth =>
            q.call.bearer = "session" /\ Seconds >= Sessions[q.session].exp
  BY <1>1, <1>3, AuthorizationSound
<1>7. status # 201 /\ status # 299 /\ status # 200 /\ status # 202 /\ status # 409
  OBVIOUS
<1>8. CASE q.call.via = "mcp"
  <2>1. status = 401 /\ a = NoAuth
    BY <1>1, <1>4, <1>5, <1>6, <1>8
  <2>2. req[r].call.bearer = "session" /\ Seconds >= Sessions[req[r].session].exp
    BY <1>1, <1>4, <1>6, <1>8, <2>1
  <2>3. status # 403
    BY <2>1
  <2> QED BY <1>3, <1>7, <2>2, <2>3, AnswerStep
<1>9. CASE q.call.via # "mcp"
  BY <1>1, <1>3, <1>7, <1>9, AnswerStep
<1> QED BY <1>8, <1>9

\* The router lets a request through within what its bearer is worth now.
LEMMA AcceptStep ==
  ASSUME RequestsSound, NEW r \in Requests, req[r].pc = "route", NEW a, a = Authorization(r),
         a # NoAuth, Allowed(a.grant, Descriptor(req[r].inner)), NEW pc,
         \/ pc = "catalogue" /\ req[r].inner = "system.capabilities"
         \/ pc = "body" /\ req[r].inner = "task.submit"
         \/ pc = "handle" /\ req[r].inner \notin {"session", "system.capabilities", "task.submit"},
         req' = [req EXCEPT ![r].pc = pc, ![r].auth = a, ![r].at = Seconds],
         plan' = plan, clock' = clock, issued' = issued, tasks' = tasks, wire' = wire
  PROVE  RequestsSound'
<1>1. PICK q : q = req[r]
  OBVIOUS
<1>2. /\ IsRequest(q) /\ q.call \in Calls /\ AuthSound(q, Sessions, Seconds)
      /\ RouteSound(q, wire[r], Sessions) /\ McpSound(q, Sessions, Seconds)
      /\ WireSound(q, wire[r], tasks) /\ q.pc = "route" /\ req[r].pc # "idle"
  BY <1>1, Parts
<1>3. wire[r] = NoWire /\ q.status = 0
  BY <1>2 DEF RouteSound, Early
<1>4. PICK q2 : q2 = [q EXCEPT !.pc = pc, !.auth = a, !.at = Seconds]
  OBVIOUS
<1>5. /\ IsRequest(q2) /\ q2.pc = pc /\ q2.auth = a /\ q2.at = Seconds /\ q2.call = q.call
      /\ q2.session = q.session /\ q2.status = q.status /\ q2.inner = q.inner /\ q2.type = q.type
  BY <1>2, <1>4 DEF IsRequest
<1>6. /\ q.call.bearer \in {"root", "session"} /\ a = Granted(q, Sessions)
      /\ q.call.bearer = "session" => VerifySession(Sessions[q.session], Seconds)
  BY <1>1, <1>2, AuthorizationSound
<1>7. q.call.bearer = "session" => Sessions[q.session] \in Claims
  BY <1>2, SessionsType DEF AuthSound, RequestsSound
<1>8. AuthSound(q2, Sessions, Seconds)
  BY <1>2, <1>5, <1>6 DEF AuthSound, VerifySession, WasValid, Granted
<1>9. Cleared(q2, Sessions)
  <2>1. MaxTtl \in Nat
    BY GatewayAssumption
  <2>2. q.call.bearer # "root" => a.grant = Sessions[q.session].grant
    BY <1>6 DEF Granted
  <2>3. q.call.bearer # "root" =>
          /\ Sessions[q.session].secret # "other" /\ Seconds < Sessions[q.session].exp
          /\ Sessions[q.session].exp <= Sessions[q.session].iat + MaxTtl
    BY <1>6, <1>7, <2>1 DEF VerifySession, Claims
  <2> QED BY <1>1, <1>5, <1>6, <2>2, <2>3 DEF Cleared
<1>10. RouteSound(q2, wire[r], Sessions)
  <2>1. pc # "answered" /\ pc # "fingerprint"
    OBVIOUS
  <2>2. NoWire.kind # "create" /\ NoWire.kind # "task.inspect" /\ NoWire.kind # "agent.proxy"
    BY NothingSent
  <2>3. q2.status # 201 /\ q2.status # 299 /\ q2.status = 0
    BY <1>3, <1>5
  <2>4. /\ pc = "catalogue" => q2.inner = "system.capabilities"
        /\ pc = "body" => q2.inner = "task.submit"
        /\ pc = "handle" => /\ q2.inner \notin {"session", "system.capabilities"}
                            /\ q2.inner # "task.submit"
    BY <1>1, <1>5
  <2> QED BY <1>3, <1>5, <1>9, <2>1, <2>2, <2>3, <2>4 DEF RouteSound
<1>11. McpSound(q2, Sessions, Seconds)
  <2>1. q.call.via = "mcp" => q.auth # NoAuth
    BY <1>2 DEF McpSound, Routed
  <2>2. q.call.via = "mcp" => a = q.auth
    BY <1>2, <1>6, <2>1 DEF AuthSound
  <2>3. pc \in Routed /\ pc \notin {"mcp", "tools/list", "tools/call", "answered"}
    BY DEF Routed
  <2>4. q.pc \in Routed
    BY <1>2 DEF Routed
  <2> QED BY <1>2, <1>5, <2>2, <2>3, <2>4 DEF McpSound
<1>12. WireSound(q2, wire[r], tasks)
  <2>1. q2.pc # "rest" /\ NoWire.kind # "create"
    BY <1>5, NothingSent
  <2> QED BY <1>2, <1>3, <2>1 DEF WireSound
<1>13. RequestSound(q2, wire[r], Sessions, Seconds, tasks)
  <2>1. q2.pc \in Early
    BY <1>5 DEF Early
  <2> QED BY <1>2, <1>5, <2>1, <1>8, <1>10, <1>11, <1>12 DEF RequestSound
<1>14. req' = [req EXCEPT ![r] = q2]
  BY <1>1, <1>4
<1> QED BY <1>13, <1>14, MoveStep

\* The catalogue's bearer is checked like the router's.
LEMMA CapabilitiesSound ==
  ASSUME RequestsSound, NEW r \in Requests, Capabilities(r)
  PROVE  RequestsSound'
<1>1. PICK a : a = Authorization(r)
  OBVIOUS
<1>2. /\ req[r].pc = "route" /\ req[r].inner = "system.capabilities" /\ req[r].inner \notin Unguarded
      /\ plan' = plan /\ clock' = clock /\ issued' = issued /\ tasks' = tasks /\ wire' = wire
  BY DEF Capabilities, Unguarded, AgentRoutes
<1>3. \/ a = NoAuth /\ req' = Answer(r, 401)
      \/ /\ a # NoAuth /\ ~Allowed(a.grant, Descriptor(req[r].inner))
         /\ req' = Answer(r, 403)
      \/ /\ a # NoAuth /\ Allowed(a.grant, Descriptor(req[r].inner))
         /\ req' = [req EXCEPT ![r].pc = "catalogue", ![r].auth = a, ![r].at = Seconds]
  BY <1>1 DEF Capabilities
<1>4. CASE a = NoAuth /\ req' = Answer(r, 401)
  BY <1>1, <1>2, <1>4, RefuseStep, ZenonT(40)
<1>5. CASE a # NoAuth /\ ~Allowed(a.grant, Descriptor(req[r].inner)) /\ req' = Answer(r, 403)
  BY <1>1, <1>2, <1>5, RefuseStep
<1>6. CASE /\ a # NoAuth /\ Allowed(a.grant, Descriptor(req[r].inner))
           /\ req' = [req EXCEPT ![r].pc = "catalogue", ![r].auth = a, ![r].at = Seconds]
  BY <1>1, <1>2, <1>6, AcceptStep
<1> QED BY <1>3, <1>4, <1>5, <1>6

\* The catalogue is shown.
LEMMA CatalogueSound ==
  ASSUME RequestsSound, NEW r \in Requests, Catalogue(r)
  PROVE  RequestsSound'
<1>1. PICK q : q = req[r]
  OBVIOUS
<1>2. PICK names : req' = [Answer(r, 200) EXCEPT ![r].catalogue = names]
  BY DEF Catalogue
<1>3. /\ q.pc = "catalogue"
      /\ plan' = plan /\ clock' = clock /\ issued' = issued /\ tasks' = tasks /\ wire' = wire
  BY <1>1 DEF Catalogue
<1>4. /\ RequestSound(q, wire[r], Sessions, Seconds, tasks) /\ q.pc # "idle"
      /\ IsRequest(q) /\ RouteSound(q, wire[r], Sessions) /\ McpSound(q, Sessions, Seconds)
  BY <1>1, <1>3, Parts
<1>5. wire[r] = NoWire
  BY <1>3, <1>4 DEF RouteSound, Early
<1>6. q.call.via = "mcp" => q.call.method # "tools/list"
  BY <1>3, <1>4 DEF McpSound, Routed
<1>7. PICK q2 : q2 = [q EXCEPT !.pc = "answered", !.status = 200, !.catalogue = names]
  OBVIOUS
<1>8. Answered(q, q2) /\ q2.status = 200
  BY <1>4, <1>7 DEF IsRequest, Answered
<1>9. q2.status # 201 /\ q2.status # 299 /\ q2.status # 403 /\ q2.status # 401
  BY <1>8
<1>10. RequestSound(q2, wire[r], Sessions, Seconds, tasks)
  <2>1. RequestSound(q, wire[r], Sessions, Seconds, tasks) /\ q.pc # "idle" /\ Answered(q, q2)
    BY <1>4, <1>8
  <2>2. wire[r].kind # "create"
    BY <1>5, NothingSent
  <2> QED BY <1>6, <1>9, <2>1, <2>2, AnswerSound
<1>11. req' = [req EXCEPT ![r] = q2]
  <2>1. DOMAIN req = Requests
    BY DEF RequestsSound
  <2> QED BY <1>1, <1>2, <1>7, <2>1, ZenonT(40) DEF Answer
<1> QED BY <1>3, <1>10, <1>11, MoveStep

\* A session is issued for the root token.
LEMMA IssueSessionSound ==
  ASSUME RequestsSound, NEW r \in Requests, IssueSession(r)
  PROVE  RequestsSound'
<1>1. PICK q : q = req[r]
  OBVIOUS
<1>2. /\ q.pc = "route" /\ q.inner = "session" /\ req[r].pc # "idle"
      /\ plan' = plan /\ clock' = clock /\ tasks' = tasks /\ wire' = wire
  BY <1>1 DEF IssueSession
<1>3. /\ RequestSound(q, wire[r], Sessions, Seconds, tasks) /\ q.call \in Calls
      /\ IsRequest(q) /\ RouteSound(q, wire[r], Sessions) /\ McpSound(q, Sessions, Seconds)
  BY <1>1, <1>2, Parts
<1>4. wire[r].kind # "create"
  <2>1. wire[r] = NoWire
    BY <1>2, <1>3 DEF RouteSound, Early
  <2> QED BY <2>1, NothingSent
<1>5. q.call.via # "mcp"
  BY <1>2, <1>3 DEF McpSound, Routed
<1>6. ASSUME NEW status, status = 401 \/ status = 400, req' = Answer(r, status), issued' = issued
      PROVE  RequestsSound'
  <2>1. status # 201 /\ status # 299 /\ status # 202 /\ status # 409
    BY <1>6
  <2> QED BY <1>1, <1>2, <1>4, <1>5, <1>6, <2>1, AnswerStep
<1>7. ASSUME NEW s, s = [grant |-> q.call.grant, iat |-> Seconds,
                         exp |-> Seconds + q.call.ttl, secret |-> "root"],
             q.call.bearer = "root", q.call.ttl \in MinTtl..MaxTtl,
             issued' = Append(issued, s), req' = Answer(r, 201)
      PROVE  RequestsSound'
  <2>1. /\ clock \in Nat /\ issued \in Seq(Claims) /\ DOMAIN req = Requests /\ DOMAIN wire = Requests
        /\ tasks \in Seq(Tasks) /\ OneTaskPerKey
    BY DEF RequestsSound
  <2>2. Sessions \in Seq(Claims) /\ Seconds \in Nat
    BY <2>1, SessionsType
  <2>3. q.call.grant \in Grant
    BY <1>3, GatewayAssumption DEF Calls
  <2>4. s \in Claims
    BY <1>7, <2>2, <2>3, GatewayAssumption DEF Claims
  <2>5. issued' \in Seq(Claims) /\ Extends(issued', issued) /\ Extends(tasks', tasks)
    BY <1>2, <1>7, <2>1, <2>4 DEF Extends
  <2>6. Extends(Sessions', Sessions) /\ Seconds' = Seconds
    BY <1>2, <2>1, <2>5, GatewayAssumption, SMTT(30) DEF Extends, Sessions, Seconds
  <2>7. RequestSound(q, wire[r], Sessions', Seconds', tasks')
    BY <1>3, <2>2, <2>5, <2>6, Grows
  <2>8. PICK q2 : q2 = [q EXCEPT !.pc = "answered", !.status = 201]
    OBVIOUS
  <2>9. Answered(q, q2) /\ q2.status = 201
    BY <1>3, <2>8 DEF IsRequest, Answered
  <2>10. RequestSound(q2, wire[r], Sessions', Seconds', tasks')
    <3>1. q2.status # 299 /\ q.pc # "idle"
      BY <1>2, <2>9
    <3> QED BY <1>4, <1>5, <1>7, <2>7, <2>9, <3>1, AnswerSound
  <2>11. DOMAIN req' = Requests /\ req'[r] = q2 /\ \A t \in Requests \ {r} : req'[t] = req[t]
    BY <1>1, <1>7, <2>1, <2>8 DEF Answer
  <2>12. OneTaskPerKey'
    BY <1>2, <2>1 DEF OneTaskPerKey
  <2>13. /\ clock' \in Nat /\ clock <= clock' /\ tasks' \in Seq(Tasks) /\ DOMAIN wire' = Requests
         /\ wire'[r] = wire[r] /\ \A t \in Requests \ {r} : req'[t] = req[t] /\ wire'[t] = wire[t]
    BY <1>2, <2>1, <2>11
  <2> QED BY <1>2, <2>5, <2>10, <2>11, <2>12, <2>13, OneStep
<1>8. \/ req' = Answer(r, 401) /\ issued' = issued
      \/ req' = Answer(r, 400) /\ issued' = issued
      \/ /\ q.call.bearer = "root" /\ q.call.ttl \in MinTtl..MaxTtl
         /\ issued' = Append(issued, [grant |-> q.call.grant, iat |-> Seconds,
                                      exp |-> Seconds + q.call.ttl, secret |-> "root"])
         /\ req' = Answer(r, 201)
  BY <1>1 DEF IssueSession
<1> QED BY <1>6, <1>7, <1>8

\* What a request keeps when only its place changes.
LEMMA GoOnFields ==
  ASSUME RequestsSound, NEW r \in Requests, req[r].pc \in Routed, NEW pc, NEW q,
         q = [req[r] EXCEPT !.pc = pc]
  PROVE  /\ IsRequest(q) /\ q.pc = pc /\ q.auth = req[r].auth /\ q.at = req[r].at
         /\ q.call = req[r].call /\ q.session = req[r].session /\ q.inner = req[r].inner
         /\ q.type = req[r].type /\ q.status = req[r].status /\ q.status = 0
<1>1. IsRequest(req[r]) /\ RouteSound(req[r], wire[r], Sessions)
  BY Parts DEF Routed
<1>2. req[r].status = 0
  BY <1>1 DEF RouteSound, Routed
<1> QED BY <1>1, <1>2 DEF IsRequest

\* A request that goes on behind the router, its message as it must be then.
LEMMA GoOnStep ==
  ASSUME RequestsSound, NEW r \in Requests, NEW pc, NEW w, NEW q,
         req[r].pc \in Routed, pc \in Routed, q = [req[r] EXCEPT !.pc = pc],
         req' = [req EXCEPT ![r].pc = pc],
         plan' = plan, clock' = clock, issued' = issued, tasks' = tasks,
         DOMAIN wire' = Requests, wire'[r] = w, \A s \in Requests \ {r} : wire'[s] = wire[s],
         RouteSound(q, w, Sessions), WireSound(q, w, tasks)
  PROVE  RequestsSound'
<1>1. PICK p : p = req[r]
  OBVIOUS
<1>2. /\ p.call \in Calls /\ AuthSound(p, Sessions, Seconds) /\ McpSound(p, Sessions, Seconds)
  <2>1. req[r].pc # "idle"
    BY DEF Routed
  <2> QED BY <1>1, <2>1, Parts
<1>3. /\ p.pc \in Routed
      /\ pc # "mcp" /\ pc # "tools/list" /\ pc # "tools/call" /\ pc # "answered"
  <2>1. p.pc \in Routed
    BY <1>1
  <2>2. pc # "mcp" /\ pc # "tools/list" /\ pc # "tools/call" /\ pc # "answered"
    BY DEF Routed
  <2> QED BY <2>1, <2>2
<1>4. /\ IsRequest(q) /\ q.pc = pc /\ q.auth = p.auth /\ q.at = p.at /\ q.call = p.call
      /\ q.session = p.session /\ q.inner = p.inner /\ q.type = p.type
  <2>1. /\ IsRequest(q) /\ q.pc = pc /\ q.auth = req[r].auth /\ q.at = req[r].at
        /\ q.call = req[r].call /\ q.session = req[r].session /\ q.inner = req[r].inner
        /\ q.type = req[r].type
    BY GoOnFields, SMTT(30)
  <2> QED BY <1>1, <2>1
<1>5. AuthSound(q, Sessions, Seconds)
  BY <1>2, <1>4 DEF AuthSound, Granted
<1>6. McpSound(q, Sessions, Seconds)
  BY <1>2, <1>3, <1>4 DEF McpSound
<1>7. RequestSound(q, w, Sessions, Seconds, tasks)
  <2>1. q.pc \in Early \cup {"upstream", "rest", "answered"}
    BY <1>4 DEF Early, Routed
  <2> QED BY <1>2, <1>4, <1>5, <1>6, <2>1 DEF RequestSound
<1>8. DOMAIN req = Requests
  BY DEF RequestsSound
<1>9. DOMAIN req' = Requests /\ req'[r] = q /\ \A s \in Requests \ {r} : req'[s] = req[s]
  BY <1>8
<1> QED BY <1>7, <1>9, LocalStep

\* enforceCapabilityAccess, the bearer and the surface.
LEMMA EnforceSound ==
  ASSUME RequestsSound, NEW r \in Requests, Enforce(r)
  PROVE  RequestsSound'
<1>1. PICK a : a = Authorization(r)
  OBVIOUS
<1>2. /\ req[r].pc = "route" /\ req[r].inner \notin {"session", "system.capabilities"}
      /\ plan' = plan /\ clock' = clock /\ issued' = issued /\ tasks' = tasks /\ wire' = wire
  BY DEF Enforce
<1>3. PICK pc : pc = IF req[r].inner = "task.submit" THEN "body" ELSE "handle"
  OBVIOUS
<1>4. \/ req[r].inner \in Unguarded /\ req' = [req EXCEPT ![r].pc = "handle"]
      \/ a = NoAuth /\ req' = Answer(r, 401)
      \/ /\ req[r].inner \notin Unguarded /\ a # NoAuth
         /\ ~Allowed(a.grant, Descriptor(req[r].inner)) /\ req' = Answer(r, 403)
      \/ /\ a # NoAuth /\ Allowed(a.grant, Descriptor(req[r].inner))
         /\ req' = [req EXCEPT ![r].pc = pc, ![r].auth = a, ![r].at = Seconds]
  BY <1>1, <1>3 DEF Enforce
<1>5. CASE req[r].inner \in Unguarded /\ req' = [req EXCEPT ![r].pc = "handle"]
  <2>1. RouteSound(req[r], wire[r], Sessions) /\ WireSound(req[r], wire[r], tasks)
    BY <1>2, Parts
  <2>2. wire[r] = NoWire
    BY <1>2, <2>1 DEF RouteSound, Early
  <2>3. req[r].inner # "task.submit"
    BY <1>5 DEF Unguarded, AgentRoutes
  <2>4. NoWire.kind # "create" /\ NoWire.kind # "task.inspect" /\ NoWire.kind # "agent.proxy"
    BY NothingSent
  <2>5. PICK q : q = [req[r] EXCEPT !.pc = "handle"]
    OBVIOUS
  <2>6. req[r].pc \in Routed /\ "handle" \in Routed
    BY <1>2 DEF Routed
  <2>7. q.pc = "handle" /\ q.inner = req[r].inner /\ q.status = 0
    BY <2>5, <2>6, GoOnFields
  <2>8. RouteSound(q, wire[r], Sessions)
    <3>1. q.status # 201 /\ q.status # 299
      BY <2>7
    <3> QED BY <1>2, <1>5, <2>2, <2>3, <2>4, <2>7, <3>1 DEF RouteSound
  <2>9. WireSound(q, wire[r], tasks)
    BY <2>1, <2>2, <2>4, <2>7 DEF WireSound
  <2>10. DOMAIN wire = Requests
    BY DEF RequestsSound
  <2> QED BY <1>2, <1>5, <2>5, <2>6, <2>8, <2>9, <2>10, GoOnStep
<1>6. CASE a = NoAuth /\ req' = Answer(r, 401)
  BY <1>1, <1>2, <1>6, RefuseStep, ZenonT(40)
<1>7. CASE /\ req[r].inner \notin Unguarded /\ a # NoAuth
           /\ ~Allowed(a.grant, Descriptor(req[r].inner)) /\ req' = Answer(r, 403)
  BY <1>1, <1>2, <1>7, RefuseStep
<1>8. CASE /\ a # NoAuth /\ Allowed(a.grant, Descriptor(req[r].inner))
           /\ req' = [req EXCEPT ![r].pc = pc, ![r].auth = a, ![r].at = Seconds]
  <2>1. \/ pc = "body" /\ req[r].inner = "task.submit"
        \/ pc = "handle" /\ req[r].inner \notin {"session", "system.capabilities", "task.submit"}
    BY <1>2, <1>3
  <2> QED BY <1>1, <1>2, <1>8, <2>1, AcceptStep
<1> QED BY <1>4, <1>5, <1>6, <1>7, <1>8

\* A message that was just sent.
LEMMA JustSent ==
  ASSUME NEW kind, \/ kind = "create" \/ kind = "task.inspect"
                   \/ kind = "system.readiness" \/ kind = "agent.proxy",
         NEW w, w = [NoWire EXCEPT !.state = "sent", !.kind = kind]
  PROVE  IsWire(w) /\ w.kind = kind /\ w.reply = 0 /\ w.state = "sent"
BY DEF NoWire, IsWire

\* enforceCapabilityAccess, the type of the task.
LEMMA EnforceTaskSound ==
  ASSUME RequestsSound, NEW r \in Requests, EnforceTask(r)
  PROVE  RequestsSound'
<1>1. PICK q : q = req[r]
  OBVIOUS
<1>2. /\ q.pc = "body" /\ req[r].pc # "idle"
      /\ plan' = plan /\ clock' = clock /\ issued' = issued /\ tasks' = tasks /\ wire' = wire
  BY <1>1 DEF EnforceTask
<1>3. /\ AuthSound(q, Sessions, Seconds) /\ RouteSound(q, wire[r], Sessions)
      /\ McpSound(q, Sessions, Seconds) /\ WireSound(q, wire[r], tasks)
  BY <1>1, <1>2, Parts
<1>4. wire[r] = NoWire
  BY <1>2, <1>3 DEF RouteSound, Early
<1>5. q.inner = "task.submit" /\ Cleared(q, Sessions) /\ q.auth # NoAuth
  BY <1>2, <1>3 DEF RouteSound
<1>6. q.auth = Granted(q, Sessions) /\ q.call.bearer \in {"root", "session"}
  BY <1>3, <1>5 DEF AuthSound
<1>7. NoWire.kind # "create" /\ NoWire.kind # "task.inspect" /\ NoWire.kind # "agent.proxy"
  BY NothingSent
<1>8. CASE TaskDenied(q.auth.grant, q.type) /\ req' = Answer(r, 403)
  <2>1. q.call.via # "mcp"
    BY <1>2, <1>3, <1>5, <1>8 DEF McpSound, Routed, TaskDenied
  <2>2. wire[r].kind # "create"
    BY <1>4, <1>7
  <2> QED BY <1>1, <1>2, <1>8, <2>1, <2>2, AnswerStep
<1>9. CASE /\ ~(q.call.args /\ TaskDenied(q.auth.grant, q.type))
           /\ req' = [req EXCEPT ![r].pc = "handle"]
  <2>1. PICK q2 : q2 = [req[r] EXCEPT !.pc = "handle"]
    OBVIOUS
  <2>2. req[r].pc \in Routed /\ "handle" \in Routed
    BY <1>1, <1>2 DEF Routed
  <2>3. /\ q2.pc = "handle" /\ q2.inner = q.inner /\ q2.status = 0 /\ q2.call = q.call
        /\ q2.type = q.type /\ q2.session = q.session /\ q2.at = q.at
    BY <1>1, <2>1, <2>2, GoOnFields
  <2>4. Cleared(q2, Sessions)
    BY <1>5, <2>3 DEF Cleared
  <2>5. q2.call.args /\ IsTask(q2.type) => TypeCleared(q2, Sessions)
    BY <1>6, <1>9, <2>3 DEF TypeCleared, TaskDenied, Granted
  <2>6. RouteSound(q2, wire[r], Sessions)
    <3>1. q2.status # 201 /\ q2.status # 299 /\ q2.inner \notin {"session", "system.capabilities"}
      BY <1>5, <2>3
    <3> QED BY <1>4, <1>7, <2>3, <2>4, <2>5, <3>1 DEF RouteSound
  <2>7. WireSound(q2, wire[r], tasks)
    BY <1>3, <1>4, <1>7, <2>3 DEF WireSound
  <2>8. DOMAIN wire = Requests
    BY DEF RequestsSound
  <2> QED BY <1>2, <1>9, <2>1, <2>2, <2>6, <2>7, <2>8, GoOnStep
<1> QED BY <1>1, <1>8, <1>9 DEF EnforceTask

\* What the checks before admission establish.
LEMMA NotRefused ==
  ASSUME NEW call, NEW type, Refusal(call, type) = 0
  PROVE  call.args /\ type \in DOMAIN Policies
<1>1. CASE call.key = "" \/ ~call.args
  <2>1. Refusal(call, type) = 400
    BY <1>1, Zenon DEF Refusal
  <2> QED BY <2>1
<1>2. CASE ~(call.key = "" \/ ~call.args) /\ type \notin DOMAIN Policies
  <2>1. Refusal(call, type) = 422
    BY <1>2, Zenon DEF Refusal
  <2> QED BY <2>1
<1> QED BY <1>1, <1>2

\* handleCreateTask up to the fingerprint.
LEMMA CreateTaskSound ==
  ASSUME RequestsSound, NEW r \in Requests, CreateTask(r)
  PROVE  RequestsSound'
<1>1. PICK q : q = req[r]
  OBVIOUS
<1>2. /\ q.pc = "handle" /\ q.inner = "task.submit" /\ req[r].pc # "idle"
      /\ plan' = plan /\ clock' = clock /\ issued' = issued /\ tasks' = tasks /\ wire' = wire
  BY <1>1 DEF CreateTask
<1>3. /\ RouteSound(q, wire[r], Sessions) /\ McpSound(q, Sessions, Seconds)
      /\ WireSound(q, wire[r], tasks)
  BY <1>1, <1>2, Parts
<1>4. wire[r] = NoWire
  BY <1>2, <1>3 DEF RouteSound, Early
<1>5. NoWire.kind # "create" /\ NoWire.kind # "task.inspect" /\ NoWire.kind # "agent.proxy"
  BY NothingSent
<1>6. ASSUME NEW status, status \in {400, 422, 413, 429}, req' = Answer(r, status)
      PROVE  RequestsSound'
  <2>1. /\ status # 201 /\ status # 299 /\ status # 403 /\ status # 401 /\ status # 200
        /\ status # 202 /\ status # 409
    BY <1>6
  <2>2. wire[r].kind # "create"
    BY <1>4, <1>5
  <2> QED BY <1>2, <1>6, <2>1, <2>2, AnswerStep
<1>7. CASE Refusal(q.call, q.type) = 0 /\ req' = [req EXCEPT ![r].pc = "fingerprint"]
  <2>1. q.call.args /\ q.type \in DOMAIN Policies
    BY <1>7, NotRefused
  <2>2. IsTask(q.type)
    BY <2>1, PolicyIsTask
  <2>3. Cleared(q, Sessions) /\ TypeCleared(q, Sessions)
    BY <1>2, <1>3, <2>1, <2>2 DEF RouteSound, Unguarded, AgentRoutes
  <2>4. PICK q2 : q2 = [req[r] EXCEPT !.pc = "fingerprint"]
    OBVIOUS
  <2>5. req[r].pc \in Routed /\ "fingerprint" \in Routed
    BY <1>1, <1>2 DEF Routed
  <2>6. /\ q2.pc = "fingerprint" /\ q2.inner = q.inner /\ q2.status = 0 /\ q2.call = q.call
        /\ q2.type = q.type /\ q2.session = q.session /\ q2.at = q.at
    BY <1>1, <2>4, <2>5, GoOnFields
  <2>7. Submission(q2, Sessions)
    BY <1>2, <2>1, <2>3, <2>6 DEF Submission, Cleared, TypeCleared
  <2>8. RouteSound(q2, wire[r], Sessions)
    <3>1. q2.status # 201 /\ q2.status # 299
      BY <2>6
    <3> QED BY <1>4, <1>5, <2>6, <2>7, <3>1 DEF RouteSound
  <2>9. WireSound(q2, wire[r], tasks)
    BY <1>3, <1>4, <1>5, <2>6 DEF WireSound
  <2>10. DOMAIN wire = Requests
    BY DEF RequestsSound
  <2> QED BY <1>2, <1>7, <2>4, <2>5, <2>8, <2>9, <2>10, GoOnStep
<1>8. Refusal(q.call, q.type) \in {0, 400, 422, 413}
  BY DEF Refusal
<1>9. \/ Refusal(q.call, q.type) # 0 /\ req' = Answer(r, Refusal(q.call, q.type))
      \/ Refusal(q.call, q.type) = 0 /\ req' = Answer(r, 429)
      \/ Refusal(q.call, q.type) = 0 /\ req' = [req EXCEPT ![r].pc = "fingerprint"]
  BY <1>1 DEF CreateTask
<1> QED BY <1>6, <1>7, <1>8, <1>9

\* The POST to the daemon.
LEMMA PostTaskSound ==
  ASSUME RequestsSound, NEW r \in Requests, PostTask(r)
  PROVE  RequestsSound'
<1>1. PICK q : q = req[r]
  OBVIOUS
<1>2. /\ q.pc = "fingerprint" /\ req[r].pc # "idle"
      /\ plan' = plan /\ clock' = clock /\ issued' = issued /\ tasks' = tasks
      /\ req' = [req EXCEPT ![r].pc = "upstream"]
  BY <1>1 DEF PostTask
<1>3. RouteSound(q, wire[r], Sessions)
  BY <1>1, <1>2, Parts
<1>4. Submission(q, Sessions)
  BY <1>2, <1>3 DEF RouteSound
<1>5. PICK w : w = [NoWire EXCEPT !.state = "sent", !.kind = "create"]
  OBVIOUS
<1>6. IsWire(w) /\ w.kind = "create" /\ w.reply = 0 /\ w.state = "sent"
  BY <1>5, JustSent
<1>7. PICK q2 : q2 = [req[r] EXCEPT !.pc = "upstream"]
  OBVIOUS
<1>8. req[r].pc \in Routed /\ "upstream" \in Routed
  BY <1>1, <1>2 DEF Routed
<1>9. /\ q2.pc = "upstream" /\ q2.inner = q.inner /\ q2.status = 0 /\ q2.call = q.call
      /\ q2.type = q.type /\ q2.session = q.session /\ q2.at = q.at
  BY <1>1, <1>7, <1>8, GoOnFields
<1>10. Submission(q2, Sessions)
  BY <1>4, <1>9 DEF Submission, Cleared, TypeCleared
<1>11. q2.status # 201 /\ q2.status # 299 /\ q2.status # 202 /\ q2.status # 409
  BY <1>9
<1>12. RouteSound(q2, w, Sessions)
  <2>1. q2.pc \notin Early
    BY <1>9 DEF Early
  <2> QED BY <1>6, <1>9, <1>10, <1>11, <2>1 DEF RouteSound
<1>13. WireSound(q2, w, tasks)
  <2>1. Replied(q2.call, q2.type, w.reply, w.id, tasks)
    BY <1>6 DEF Replied
  <2> QED BY <1>6, <1>9, <1>11, <2>1 DEF WireSound
<1>14. DOMAIN wire' = Requests /\ wire'[r] = w /\ \A s \in Requests \ {r} : wire'[s] = wire[s]
  <2>1. DOMAIN wire = Requests
    BY DEF RequestsSound
  <2> QED BY <1>5, <2>1 DEF PostTask, Send
<1> QED BY <1>2, <1>7, <1>8, <1>12, <1>13, <1>14, GoOnStep

\* The other routes.
LEMMA HandleSound ==
  ASSUME RequestsSound, NEW r \in Requests, Handle(r)
  PROVE  RequestsSound'
<1>1. PICK q : q = req[r]
  OBVIOUS
<1>2. /\ q.pc = "handle" /\ req[r].pc # "idle" /\ q.inner # "task.submit"
      /\ plan' = plan /\ clock' = clock /\ issued' = issued /\ tasks' = tasks
  BY <1>1 DEF Handle
<1>3. RouteSound(q, wire[r], Sessions) /\ McpSound(q, Sessions, Seconds)
  BY <1>1, <1>2, Parts
<1>4. wire[r] = NoWire
  BY <1>2, <1>3 DEF RouteSound, Early
<1>5. q.inner # "session" /\ (q.inner \in Unguarded \/ Cleared(q, Sessions))
  BY <1>2, <1>3 DEF RouteSound
<1>6. CASE /\ q.inner = "task.inspect" \/ q.inner = "system.readiness"
           /\ req' = [req EXCEPT ![r].pc = "upstream"] /\ Send(r, q.inner)
  <2>1. PICK w : w = [NoWire EXCEPT !.state = "sent", !.kind = q.inner]
    OBVIOUS
  <2>2. IsWire(w) /\ w.kind = q.inner /\ w.reply = 0 /\ w.state = "sent"
    BY <1>6, <2>1, JustSent
  <2>3. PICK q2 : q2 = [req[r] EXCEPT !.pc = "upstream"]
    OBVIOUS
  <2>4. req[r].pc \in Routed /\ "upstream" \in Routed
    BY <1>1, <1>2 DEF Routed
  <2>5. /\ q2.pc = "upstream" /\ q2.inner = q.inner /\ q2.status = 0 /\ q2.call = q.call
        /\ q2.type = q.type /\ q2.session = q.session /\ q2.at = q.at
    BY <1>1, <2>3, <2>4, GoOnFields
  <2>6. w.kind = "task.inspect" => Cleared(q2, Sessions)
    BY <1>5, <2>2, <2>5 DEF Cleared, Unguarded, AgentRoutes
  <2>7. q2.status # 201 /\ q2.status # 299 /\ w.kind # "create"
    BY <1>6, <2>2, <2>5
  <2>8. RouteSound(q2, w, Sessions)
    <3>1. q2.pc \notin Early
      BY <2>5 DEF Early
    <3> QED BY <2>2, <2>5, <2>6, <2>7, <3>1 DEF RouteSound
  <2>9. WireSound(q2, w, tasks)
    BY <2>2, <2>5, <2>7 DEF WireSound
  <2>10. DOMAIN wire' = Requests /\ wire'[r] = w /\ \A s \in Requests \ {r} : wire'[s] = wire[s]
    <3>1. DOMAIN wire = Requests
      BY DEF RequestsSound
    <3> QED BY <1>6, <2>1, <3>1 DEF Send
  <2> QED BY <1>2, <1>6, <2>3, <2>4, <2>8, <2>9, <2>10, GoOnStep
<1>7. ASSUME NEW status, req' = Answer(r, status), wire' = wire,
             status = 200 \/ status = 400 \/ status = 299 \/ status = 404,
             status = 299 => Known(q.inner) /\ q.inner # "system.health" /\ q.inner # "system.readiness"
      PROVE  RequestsSound'
  <2>1. /\ status # 201 /\ status # 403 /\ status # 401 /\ status # 202 /\ status # 409
    BY <1>7
  <2>2. wire[r].kind # "create"
    BY <1>4, NothingSent
  <2>3. status = 299 => q.inner \notin {"session", "task.submit"} /\ Cleared(q, Sessions)
    BY <1>2, <1>5, <1>7, GatewayAssumption DEF Unguarded, AgentRoutes, Known
  <2>4. q.call.via = "mcp" => q.call.method # "tools/list"
    BY <1>2, <1>3 DEF McpSound, Routed
  <2> QED BY <1>1, <1>2, <1>7, <2>1, <2>2, <2>3, <2>4, AnswerStep
<1>8. \/ /\ q.inner = "task.inspect" \/ q.inner = "system.readiness"
         /\ req' = [req EXCEPT ![r].pc = "upstream"] /\ Send(r, q.inner)
      \/ \E status :
           /\ req' = Answer(r, status) /\ wire' = wire
           /\ status = 200 \/ status = 400 \/ status = 299 \/ status = 404
           /\ status = 299 => Known(q.inner) /\ q.inner # "system.health" /\ q.inner # "system.readiness"
  BY <1>1 DEF Handle
<1> QED BY <1>6, <1>7, <1>8

\* The agents' routes: answered here, or passed on to the broker.
LEMMA HandleAgentSound ==
  ASSUME RequestsSound, NEW r \in Requests, HandleAgent(r)
  PROVE  RequestsSound'
<1>1. PICK q : q = req[r]
  OBVIOUS
<1>2. /\ q.pc = "handle" /\ req[r].pc # "idle" /\ q.inner \in AgentRoutes
      /\ plan' = plan /\ clock' = clock /\ issued' = issued /\ tasks' = tasks
  BY <1>1 DEF HandleAgent
<1>3. RouteSound(q, wire[r], Sessions) /\ McpSound(q, Sessions, Seconds)
  BY <1>1, <1>2, Parts
<1>4. wire[r] = NoWire
  BY <1>2, <1>3 DEF RouteSound, Early
<1>5. q.call.via # "mcp"
  BY <1>2, <1>3 DEF McpSound, Routed
<1>6. CASE /\ q.inner = "agent.proxy"
           /\ req' = [req EXCEPT ![r].pc = "upstream"] /\ Send(r, q.inner)
  <2>1. PICK w : w = [NoWire EXCEPT !.state = "sent", !.kind = q.inner]
    OBVIOUS
  <2>2. IsWire(w) /\ w.kind = q.inner /\ w.reply = 0 /\ w.state = "sent"
    BY <1>6, <2>1, JustSent
  <2>3. PICK q2 : q2 = [req[r] EXCEPT !.pc = "upstream"]
    OBVIOUS
  <2>4. req[r].pc \in Routed /\ "upstream" \in Routed
    BY <1>1, <1>2 DEF Routed
  <2>5. q2.pc = "upstream" /\ q2.inner = q.inner /\ q2.status = 0
    BY <1>1, <2>3, <2>4, GoOnFields
  <2>6. /\ q2.status # 201 /\ q2.status # 299
        /\ w.kind # "create" /\ w.kind # "task.inspect"
    BY <1>6, <2>2, <2>5
  <2>7. RouteSound(q2, w, Sessions)
    <3>1. q2.pc \notin Early
      BY <2>5 DEF Early
    <3> QED BY <1>6, <2>2, <2>5, <2>6, <3>1 DEF RouteSound
  <2>8. WireSound(q2, w, tasks)
    BY <2>2, <2>5, <2>6 DEF WireSound
  <2>9. DOMAIN wire' = Requests /\ wire'[r] = w /\ \A s \in Requests \ {r} : wire'[s] = wire[s]
    <3>1. DOMAIN wire = Requests
      BY DEF RequestsSound
    <3> QED BY <1>6, <2>1, <3>1 DEF Send
  <2> QED BY <1>2, <1>6, <2>3, <2>4, <2>7, <2>8, <2>9, GoOnStep
<1>7. ASSUME NEW status, req' = Answer(r, status), wire' = wire,
             status = 401 \/ status = 400 \/ status = 299
      PROVE  RequestsSound'
  <2>1. status # 201 /\ status # 202 /\ status # 409
    BY <1>7
  <2>2. wire[r].kind # "create"
    BY <1>4, NothingSent
  <2>3. q.inner \notin {"session", "task.submit"}
    BY <1>2 DEF AgentRoutes
  <2> QED BY <1>1, <1>2, <1>5, <1>7, <2>1, <2>2, <2>3, AnswerStep
<1>8. \/ /\ q.inner = "agent.proxy"
         /\ req' = [req EXCEPT ![r].pc = "upstream"] /\ Send(r, q.inner)
      \/ \E status : /\ req' = Answer(r, status) /\ wire' = wire
                     /\ status = 401 \/ status = 400 \/ status = 299
  BY <1>1 DEF HandleAgent, AgentStatus
<1> QED BY <1>6, <1>7, <1>8

\* The broker's answer becomes the agent's.
LEMMA ProxyAnswersSound ==
  ASSUME RequestsSound, NEW r \in Requests, ProxyAnswers(r)
  PROVE  RequestsSound'
<1>1. PICK q : q = req[r]
  OBVIOUS
<1>2. PICK w : w = wire[r]
  OBVIOUS
<1>3. /\ q.pc = "upstream" /\ req[r].pc # "idle" /\ w.kind = "agent.proxy"
      /\ req' = Answer(r, w.reply)
      /\ plan' = plan /\ clock' = clock /\ issued' = issued /\ tasks' = tasks /\ wire' = wire
  BY <1>1, <1>2 DEF ProxyAnswers
<1>4. RouteSound(q, w, Sessions) /\ McpSound(q, Sessions, Seconds) /\ WireSound(q, w, tasks)
  BY <1>1, <1>2, <1>3, Parts
<1>5. q.inner \in AgentRoutes
  BY <1>3, <1>4 DEF RouteSound, AgentRoutes
<1>6. q.call.via # "mcp"
  BY <1>3, <1>4, <1>5 DEF McpSound, Routed
<1>7. w.reply # 201 /\ w.reply # 299
  <2>1. w.reply \in {0, 200, 202, 204, 400, 401, 404, 409, 500, 503}
    BY <1>4 DEF WireSound, IsWire
  <2> QED BY <2>1
<1>8. w.kind # "create"
  BY <1>3
<1> QED BY <1>1, <1>2, <1>3, <1>6, <1>7, <1>8, AnswerStep

\* The wait for the daemon is given up.
LEMMA UpstreamFailsSound ==
  ASSUME RequestsSound, NEW r \in Requests, UpstreamFails(r)
  PROVE  RequestsSound'
<1>1. /\ req[r].pc = "upstream" /\ req[r].pc # "idle" /\ req' = Answer(r, 503)
      /\ plan' = plan /\ clock' = clock /\ issued' = issued /\ tasks' = tasks /\ wire' = wire
  BY DEF UpstreamFails
<1> QED BY <1>1, AnswerStep

\* The daemon's status line decides.
LEMMA UpstreamHeadersSound ==
  ASSUME RequestsSound, NEW r \in Requests, UpstreamHeaders(r)
  PROVE  RequestsSound'
<1>1. PICK q : q = req[r]
  OBVIOUS
<1>2. PICK w : w = wire[r]
  OBVIOUS
<1>3. /\ q.pc = "upstream" /\ req[r].pc # "idle"
      /\ plan' = plan /\ clock' = clock /\ issued' = issued /\ tasks' = tasks /\ wire' = wire
  BY <1>1 DEF UpstreamHeaders
<1>4. RouteSound(q, w, Sessions) /\ McpSound(q, Sessions, Seconds) /\ WireSound(q, w, tasks)
  BY <1>1, <1>2, <1>3, Parts
<1>5. q.call.via = "mcp" => q.call.method # "tools/list"
  BY <1>3, <1>4 DEF McpSound, Routed
<1>6. ASSUME NEW status, req' = Answer(r, status),
             \/ status = 409 /\ w.reply = 409
             \/ status = 503 \/ status = 502 \/ status = 404 \/ status = 200
      PROVE  RequestsSound'
  <2>1. /\ status # 201 /\ status # 299 /\ status # 403 /\ status # 401 /\ status # 202
        /\ status = 409 => w.reply = 409
    BY <1>6
  <2> QED BY <1>1, <1>2, <1>3, <1>5, <1>6, <2>1, AnswerStep
<1>7. CASE /\ \/ w.kind = "create" /\ w.reply = 202
              \/ w.kind = "task.inspect" /\ w.reply = 200
           /\ req' = [req EXCEPT ![r].pc = "rest"]
  <2>1. PICK q2 : q2 = [req[r] EXCEPT !.pc = "rest"]
    OBVIOUS
  <2>2. req[r].pc \in Routed /\ "rest" \in Routed
    BY <1>1, <1>3 DEF Routed
  <2>3. /\ q2.pc = "rest" /\ q2.inner = q.inner /\ q2.status = 0 /\ q2.call = q.call
        /\ q2.type = q.type /\ q2.session = q.session /\ q2.at = q.at
    BY <1>1, <2>1, <2>2, GoOnFields
  <2>4. /\ Submission(q, Sessions) => Submission(q2, Sessions)
        /\ Cleared(q, Sessions) => Cleared(q2, Sessions)
    BY <2>3 DEF Submission, Cleared, TypeCleared
  <2>5. q2.status # 201 /\ q2.status # 299 /\ q2.status # 202 /\ q2.status # 409
    BY <2>3
  <2>6. RouteSound(q2, w, Sessions)
    <3>1. q2.pc \notin Early
      BY <2>3 DEF Early
    <3>2. w.kind = "create" => Submission(q, Sessions)
      BY <1>4 DEF RouteSound
    <3>3. w.kind = "task.inspect" => q.inner = "task.inspect" /\ Cleared(q, Sessions)
      BY <1>4 DEF RouteSound
    <3>4. w.kind # "agent.proxy"
      BY <1>7
    <3> QED BY <2>3, <2>4, <2>5, <3>1, <3>2, <3>3, <3>4 DEF RouteSound
  <2>7. WireSound(q2, w, tasks)
    BY <1>4, <1>7, <2>3, <2>5 DEF WireSound
  <2>8. DOMAIN wire = Requests
    BY DEF RequestsSound
  <2> QED BY <1>2, <1>3, <1>7, <2>1, <2>2, <2>6, <2>7, <2>8, GoOnStep
<1>8. \/ /\ \/ w.kind = "create" /\ w.reply = 202
            \/ w.kind = "task.inspect" /\ w.reply = 200
         /\ req' = [req EXCEPT ![r].pc = "rest"]
      \/ \E status :
           /\ req' = Answer(r, status)
           /\ \/ status = 409 /\ w.reply = 409
              \/ status = 503 \/ status = 502 \/ status = 404 \/ status = 200
  BY <1>2 DEF UpstreamHeaders
<1> QED BY <1>6, <1>7, <1>8

\* The body of a response.
LEMMA UpstreamBodySound ==
  ASSUME RequestsSound, NEW r \in Requests, UpstreamBody(r)
  PROVE  RequestsSound'
<1>1. PICK q : q = req[r]
  OBVIOUS
<1>2. PICK w : w = wire[r]
  OBVIOUS
<1>3. /\ q.pc = "rest" /\ req[r].pc # "idle"
      /\ plan' = plan /\ clock' = clock /\ issued' = issued /\ tasks' = tasks /\ wire' = wire
  BY <1>1 DEF UpstreamBody
<1>4. /\ RequestSound(q, w, Sessions, Seconds, tasks) /\ IsRequest(q)
      /\ McpSound(q, Sessions, Seconds) /\ WireSound(q, w, tasks)
  BY <1>1, <1>2, <1>3, Parts
<1>5. q.call.via = "mcp" => q.call.method # "tools/list"
  BY <1>3, <1>4 DEF McpSound, Routed
<1>6. ASSUME NEW status, req' = Answer(r, status), status = 503 \/ status = 502
      PROVE  RequestsSound'
  <2>1. /\ status # 201 /\ status # 299 /\ status # 403 /\ status # 401 /\ status # 202
        /\ status # 409 /\ status # 200
    BY <1>6
  <2> QED BY <1>3, <1>6, <2>1, AnswerStep
<1>7. CASE req' = [Answer(r, wire[r].reply) EXCEPT ![r].id = wire[r].id]
  <2>1. \/ w.kind = "create" /\ w.reply = 202
        \/ w.kind = "task.inspect" /\ w.reply = 200
    BY <1>3, <1>4 DEF WireSound
  <2>2. PICK q2 : q2 = [q EXCEPT !.pc = "answered", !.status = w.reply, !.id = w.id]
    OBVIOUS
  <2>3. Answered(q, q2) /\ q2.status = w.reply /\ q2.id = w.id
    BY <1>4, <2>2 DEF IsRequest, Answered
  <2>4. /\ q2.status # 201 /\ q2.status # 299 /\ q2.status # 403 /\ q2.status # 401
        /\ q2.status # 409
    BY <2>1, <2>3
  <2>5. w.kind = "create" => w.reply = 202
    BY <2>1
  <2>6. RequestSound(q2, w, Sessions, Seconds, tasks)
    <3>1. RequestSound(q, w, Sessions, Seconds, tasks) /\ q.pc # "idle" /\ Answered(q, q2)
      BY <1>3, <1>4, <2>3
    <3> QED BY <1>5, <2>3, <2>4, <2>5, <3>1, AnswerSound
  <2>7. req' = [req EXCEPT ![r] = q2]
    <3>1. DOMAIN req = Requests
      BY DEF RequestsSound
    <3> QED BY <1>1, <1>2, <1>7, <2>2, <3>1 DEF Answer
  <2> QED BY <1>2, <1>3, <2>6, <2>7, MoveStep
<1> QED BY <1>6, <1>7 DEF UpstreamBody

\* What becomes of a message.
Outcome(state, status) ==
  \/ state = "replied" /\ status \in {200, 202, 204, 400, 401, 404, 409, 500, 503}
  \/ state = "lost" /\ status = 0

Became(w, state, status, id) == [w EXCEPT !.state = state, !.reply = status, !.id = id]

\* A message that was answered or lost.
LEMMA Delivered ==
  ASSUME NEW w, IsWire(w), w.state = "sent", NEW state, NEW status, NEW id, NEW v,
         v = Became(w, state, status, id),
         Outcome(state, status)
  PROVE  IsWire(v) /\ v.kind = w.kind /\ v.reply = status /\ v.id = id
<1>1. w = [state |-> w.state, kind |-> w.kind, reply |-> w.reply, id |-> w.id]
  BY DEF IsWire
<1>2. /\ v = [state |-> v.state, kind |-> v.kind, reply |-> v.reply, id |-> v.id]
      /\ v.state = state /\ v.kind = w.kind /\ v.reply = status /\ v.id = id
  BY <1>1 DEF Became
<1>3. v.state # "none" /\ v # NoWire
  BY <1>2, NothingSent DEF Outcome
<1>4. v.reply \in {0, 200, 202, 204, 400, 401, 404, 409, 500, 503} /\ (v.reply # 0 <=> v.state = "replied")
  BY <1>2 DEF Outcome
<1>5. v.kind \in {"", "create", "task.inspect", "system.readiness", "agent.proxy"}
  BY <1>2, ZenonT(40) DEF IsWire
<1> QED BY <1>2, <1>3, <1>4, <1>5 DEF IsWire

\* What the daemon does to a message changes nothing else of its request.
LEMMA ReplySound ==
  ASSUME NEW q, NEW w, NEW v, NEW ss, NEW now, NEW ts, RequestSound(q, w, ss, now, ts),
         w.state = "sent", IsWire(v), v.kind = w.kind,
         v.kind = "create" => Replied(q.call, q.type, v.reply, v.id, ts)
  PROVE  RequestSound(q, v, ss, now, ts)
<1>1. w # NoWire
  BY NothingSent
<1>2. /\ IsRequest(q) /\ q.pc \in Early \cup {"upstream", "rest", "answered"} /\ q.call \in Calls
      /\ AuthSound(q, ss, now) /\ RouteSound(q, w, ss) /\ McpSound(q, ss, now)
      /\ WireSound(q, w, ts)
  BY <1>1 DEF RequestSound
<1>3. q.pc \notin Early /\ w.reply = 0
  BY <1>1, <1>2, ZenonT(40) DEF RouteSound, WireSound, IsWire
<1>4. RouteSound(q, v, ss)
  BY <1>2, <1>3 DEF RouteSound
<1>5. w.reply # 202 /\ w.reply # 200 /\ w.reply # 409
  BY <1>3
<1>6. q.pc # "rest"
  BY <1>2, <1>5 DEF WireSound
<1>7. w.kind = "create" => q.status # 202 /\ q.status # 409
  BY <1>2, <1>5 DEF WireSound
<1>8. WireSound(q, v, ts)
  BY <1>6, <1>7 DEF WireSound
<1> QED BY <1>2, <1>4, <1>8 DEF RequestSound

\* A step of the daemon that creates no task.
LEMMA DaemonStep ==
  ASSUME RequestsSound, NEW r \in Requests, wire[r].state = "sent", NEW state, NEW status, NEW id,
         wire' = [wire EXCEPT ![r].state = state, ![r].reply = status, ![r].id = id],
         Outcome(state, status),
         plan' = plan, clock' = clock, issued' = issued, tasks' = tasks, req' = req,
         wire[r].kind = "create" => Replied(req[r].call, req[r].type, status, id, tasks)
  PROVE  RequestsSound'
<1>1. PICK w : w = wire[r]
  OBVIOUS
<1>2. PICK v : v = Became(w, state, status, id)
  OBVIOUS
<1>3. /\ RequestSound(req[r], w, Sessions, Seconds, tasks)
      /\ DOMAIN req = Requests /\ DOMAIN wire = Requests
  BY <1>1 DEF RequestsSound
<1>4. w # NoWire
  BY <1>1, NothingSent
<1>5. IsWire(w)
  BY <1>3, <1>4 DEF RequestSound, WireSound
<1>6. IsWire(v) /\ v.kind = w.kind /\ v.reply = status /\ v.id = id
  <2>1. w.state = "sent"
    BY <1>1
  <2> QED BY <1>2, <1>5, <2>1, Delivered
<1>7. RequestSound(req[r], v, Sessions, Seconds, tasks)
  <2>1. w.state = "sent" /\ (w.kind = "create" => Replied(req[r].call, req[r].type, v.reply, v.id, tasks))
    BY <1>1, <1>6
  <2> QED BY <1>3, <1>6, <2>1, ReplySound
<1>8. DOMAIN wire' = Requests /\ wire'[r] = v /\ \A s \in Requests \ {r} : wire'[s] = wire[s]
  BY <1>1, <1>2, <1>3 DEF Became
<1> QED BY <1>3, <1>7, <1>8, LocalStep

\* The daemon answers what it was asked.
LEMMA DaemonReadsSound ==
  ASSUME RequestsSound, NEW r \in Requests, DaemonReads(r)
  PROVE  RequestsSound'
<1>1. /\ wire[r].state = "sent" /\ wire[r].kind # "create"
      /\ plan' = plan /\ clock' = clock /\ issued' = issued /\ tasks' = tasks /\ req' = req
  BY DEF DaemonReads
<1>2. PICK status, id : Reply(r, status, id) /\ Outcome("replied", status)
  BY DEF DaemonReads, Outcome, BrokerStatuses
<1>3. wire' = [wire EXCEPT ![r].state = "replied", ![r].reply = status, ![r].id = id]
  BY <1>2 DEF Reply
<1> QED BY <1>1, <1>2, <1>3, DaemonStep

\* The daemon fails, or the message never arrives.
LEMMA DaemonFailsSound ==
  ASSUME RequestsSound, NEW r \in Requests, DaemonFails(r)
  PROVE  RequestsSound'
<1>1. /\ wire[r].state = "sent"
      /\ plan' = plan /\ clock' = clock /\ issued' = issued /\ tasks' = tasks /\ req' = req
  BY DEF DaemonFails
<1>2. /\ RequestSound(req[r], wire[r], Sessions, Seconds, tasks)
      /\ DOMAIN req = Requests /\ DOMAIN wire = Requests
  BY DEF RequestsSound
<1>3. IsWire(wire[r])
  <2>1. wire[r] # NoWire
    BY <1>1, NothingSent
  <2> QED BY <1>2, <2>1 DEF RequestSound, WireSound
<1>4. PICK id : id = wire[r].id
  OBVIOUS
<1>5. CASE Reply(r, 500, 0)
  <2>1. wire' = [wire EXCEPT ![r].state = "replied", ![r].reply = 500, ![r].id = 0]
    BY <1>5 DEF Reply
  <2>2. Outcome("replied", 500)
    BY DEF Outcome
  <2>3. Replied(req[r].call, req[r].type, 500, 0, tasks)
    BY DEF Replied
  <2> QED BY <1>1, <2>1, <2>2, <2>3, DaemonStep
<1>6. CASE wire' = [wire EXCEPT ![r].state = "lost"]
  <2>1. wire[r].reply = 0
    BY <1>1, <1>3 DEF IsWire
  <2>2. wire[r] = [state |-> wire[r].state, kind |-> wire[r].kind, reply |-> wire[r].reply, id |-> wire[r].id]
    BY <1>3 DEF IsWire
  <2>3. [wire[r] EXCEPT !.state = "lost"] = [wire[r] EXCEPT !.state = "lost", !.reply = 0, !.id = id]
    BY <1>4, <2>1, <2>2
  <2>4. wire' = [wire EXCEPT ![r].state = "lost", ![r].reply = 0, ![r].id = id]
    BY <1>2, <1>6, <2>3
  <2>5. Outcome("lost", 0)
    BY DEF Outcome
  <2>6. Replied(req[r].call, req[r].type, 0, id, tasks)
    BY DEF Replied
  <2> QED BY <1>1, <2>4, <2>5, <2>6, DaemonStep
<1> QED BY <1>5, <1>6 DEF DaemonFails

\* The daemon's transaction: replayed, in conflict, full, or created.
LEMMA DaemonCreatesSound ==
  ASSUME RequestsSound, NEW r \in Requests, DaemonCreates(r)
  PROVE  RequestsSound'
<1> DEFINE call == req[r].call
           type == req[r].type
           fp == Fingerprint(call, type)
           old == HavingKey(call.key)
<1>1. /\ wire[r].state = "sent" /\ wire[r].kind = "create"
      /\ plan' = plan /\ clock' = clock /\ issued' = issued /\ req' = req
  BY DEF DaemonCreates
<1>2. /\ RequestSound(req[r], wire[r], Sessions, Seconds, tasks)
      /\ DOMAIN req = Requests /\ DOMAIN wire = Requests
      /\ issued \in Seq(Claims) /\ clock \in Nat /\ tasks \in Seq(Tasks) /\ OneTaskPerKey
  BY DEF RequestsSound
<1>3. /\ IsWire(wire[r]) /\ RouteSound(req[r], wire[r], Sessions) /\ call \in Calls
  <2>1. wire[r] # NoWire
    BY <1>1, NothingSent
  <2> QED BY <1>2, <2>1 DEF RequestSound, WireSound
<1>4. type \in DOMAIN Policies
  BY <1>1, <1>3 DEF RouteSound, Submission
<1>5. ASSUME NEW i \in DOMAIN tasks, tasks[i].key = call.key, tasks[i].fingerprint = fp,
             Reply(r, 202, i), tasks' = tasks
      PROVE  RequestsSound'
  <2>1. wire' = [wire EXCEPT ![r].state = "replied", ![r].reply = 202, ![r].id = i]
    BY <1>5 DEF Reply
  <2>2. Outcome("replied", 202)
    BY DEF Outcome
  <2>3. Replied(req[r].call, req[r].type, 202, i, tasks)
    BY <1>5 DEF Replied
  <2> QED BY <1>1, <1>5, <2>1, <2>2, <2>3, DaemonStep
<1>6. ASSUME NEW i \in DOMAIN tasks, tasks[i].key = call.key, tasks[i].fingerprint # fp,
             Reply(r, 409, 0), tasks' = tasks
      PROVE  RequestsSound'
  <2>1. wire' = [wire EXCEPT ![r].state = "replied", ![r].reply = 409, ![r].id = 0]
    BY <1>6 DEF Reply
  <2>2. Outcome("replied", 409)
    BY DEF Outcome
  <2>3. Replied(req[r].call, req[r].type, 409, 0, tasks)
    BY <1>6 DEF Replied
  <2> QED BY <1>1, <1>6, <2>1, <2>2, <2>3, DaemonStep
<1>7. CASE Reply(r, 503, 0) /\ tasks' = tasks
  <2>1. wire' = [wire EXCEPT ![r].state = "replied", ![r].reply = 503, ![r].id = 0]
    BY <1>7 DEF Reply
  <2>2. Outcome("replied", 503)
    BY DEF Outcome
  <2>3. Replied(req[r].call, req[r].type, 503, 0, tasks)
    BY DEF Replied
  <2> QED BY <1>1, <1>7, <2>1, <2>2, <2>3, DaemonStep
<1>8. ASSUME old = {}, tasks' = Append(tasks, TaskOf(call, type)), Reply(r, 202, Len(tasks) + 1)
      PROVE  RequestsSound'
  <2>1. PICK t : t = TaskOf(call, type)
    OBVIOUS
  <2>2. t \in Tasks /\ t.key = call.key /\ t.fingerprint = fp
    BY <1>3, <1>4, <2>1 DEF Tasks, TaskOf
  <2>3. PICK n \in Nat : n = Len(tasks)
    BY <1>2
  <2>4. /\ tasks' \in Seq(Tasks) /\ DOMAIN tasks' = 1..(n + 1) /\ DOMAIN tasks = 1..n
        /\ tasks'[n + 1] = t /\ \A i \in 1..n : tasks'[i] = tasks[i]
    BY <1>2, <1>8, <2>1, <2>2, <2>3
  <2>5. \A i \in 1..n : tasks[i].key # t.key
    BY <1>8, <2>2, <2>4 DEF HavingKey
  <2>6. OneTaskPerKey'
    <3>1. ASSUME NEW i \in DOMAIN tasks', NEW k \in DOMAIN tasks', tasks'[i].key = tasks'[k].key
          PROVE  i = k
      <4>1. (i \in 1..n \/ i = n + 1) /\ (k \in 1..n \/ k = n + 1)
        BY <2>3, <2>4, <3>1
      <4> QED BY <1>2, <2>4, <2>5, <3>1, <4>1 DEF OneTaskPerKey
    <3> QED BY <3>1 DEF OneTaskPerKey
  <2>7. Extends(tasks', tasks)
    BY <2>3, <2>4 DEF Extends
  <2>8. PICK v : v = Became(wire[r], "replied", 202, n + 1)
    OBVIOUS
  <2>9. IsWire(v) /\ v.kind = wire[r].kind /\ v.reply = 202 /\ v.id = n + 1
    <3>1. Outcome("replied", 202)
      BY DEF Outcome
    <3> QED BY <1>1, <1>3, <2>8, <3>1, Delivered
  <2>10. /\ Sessions \in Seq(Claims) /\ Seconds \in Nat /\ Sessions' = Sessions /\ Seconds' = Seconds
    BY <1>1, <1>2, SessionsType DEF Sessions, Seconds
  <2>11. RequestSound(req[r], wire[r], Sessions', Seconds', tasks')
    <3>1. Extends(Sessions, Sessions) /\ Seconds <= Seconds
      BY <2>10 DEF Extends
    <3>2. RequestSound(req[r], wire[r], Sessions, Seconds, tasks')
      BY <1>2, <2>7, <2>10, <3>1, Grows
    <3> QED BY <2>10, <3>2
  <2>12. Replied(req[r].call, req[r].type, v.reply, v.id, tasks')
    <3>1. v.reply # 409 /\ n + 1 \in DOMAIN tasks'
      BY <2>3, <2>4, <2>9
    <3> QED BY <2>2, <2>4, <2>9, <3>1 DEF Replied
  <2>13. RequestSound(req[r], v, Sessions', Seconds', tasks')
    BY <1>1, <2>9, <2>11, <2>12, ReplySound
  <2>14. DOMAIN wire' = Requests /\ wire'[r] = v /\ \A s \in Requests \ {r} : wire'[s] = wire[s]
    BY <1>2, <1>8, <2>3, <2>8 DEF Reply, Became
  <2>15. /\ clock' \in Nat /\ clock <= clock' /\ issued' \in Seq(Claims) /\ Extends(issued', issued)
         /\ DOMAIN req' = Requests /\ req'[r] = req[r] /\ \A s \in Requests \ {r} : req'[s] = req[s]
    BY <1>1, <1>2 DEF Extends
  <2> QED BY <1>1, <2>4, <2>6, <2>7, <2>13, <2>14, <2>15, OneStep
<1>9. \/ \E i \in old : /\ tasks' = tasks
                        /\ IF tasks[i].fingerprint = fp THEN Reply(r, 202, i) ELSE Reply(r, 409, 0)
      \/ Reply(r, 503, 0) /\ tasks' = tasks
      \/ old = {} /\ tasks' = Append(tasks, TaskOf(call, type)) /\ Reply(r, 202, Len(tasks) + 1)
  BY DEF DaemonCreates, TaskOf
<1>10. ASSUME NEW i \in old, tasks' = tasks,
              IF tasks[i].fingerprint = fp THEN Reply(r, 202, i) ELSE Reply(r, 409, 0)
       PROVE  RequestsSound'
  <2>1. i \in DOMAIN tasks /\ tasks[i].key = call.key
    BY DEF HavingKey
  <2> QED BY <1>5, <1>6, <1>10, <2>1
<1> QED BY <1>7, <1>8, <1>9, <1>10

\* Time passes; providers come and go.
LEMMA EnvironmentSound ==
  ASSUME RequestsSound, Tick \/ ProvidersChange
  PROVE  RequestsSound'
<1>1. /\ plan' = plan /\ issued' = issued /\ req' = req /\ wire' = wire /\ tasks' = tasks
      /\ clock' = clock \/ clock' = clock + 1
  BY DEF Tick, ProvidersChange
<1>2. /\ clock \in Nat /\ issued \in Seq(Claims) /\ plan \in DOMAIN Plans
      /\ DOMAIN req = Requests /\ DOMAIN wire = Requests /\ tasks \in Seq(Tasks) /\ OneTaskPerKey
      /\ \A r \in Requests : RequestSound(req[r], wire[r], Sessions, Seconds, tasks)
  BY DEF RequestsSound
<1>3. clock' \in Nat /\ clock <= clock'
  BY <1>1, <1>2
<1>4. /\ Sessions \in Seq(Claims) /\ Seconds \in Nat /\ Sessions' = Sessions
      /\ Seconds' \in Nat /\ Seconds <= Seconds'
  BY <1>1, <1>2, <1>3, SessionsType, QuotientGrows, AdmissionAssumption DEF Sessions, Seconds
<1>5. Extends(Sessions, Sessions) /\ Extends(tasks, tasks)
  BY DEF Extends
<1>6. \A r \in Requests : RequestSound(req'[r], wire'[r], Sessions', Seconds', tasks')
  <2> TAKE r \in Requests
  <2>1. RequestSound(req[r], wire[r], Sessions, Seconds', tasks)
    BY <1>2, <1>4, <1>5, Grows
  <2> QED BY <1>1, <1>4, <2>1
<1>7. OneTaskPerKey'
  BY <1>1, <1>2 DEF OneTaskPerKey
<1> QED BY <1>1, <1>2, <1>3, <1>6, <1>7 DEF RequestsSound

\* Nobody has asked for anything.
LEMMA RequestsInit == GatewayInit => RequestsSound
<1> SUFFICES ASSUME GatewayInit PROVE RequestsSound
  OBVIOUS
<1>1. /\ plan \in DOMAIN Plans /\ clock \in Nat /\ issued \in Seq(Claims)
      /\ DOMAIN req = Requests /\ DOMAIN wire = Requests /\ tasks \in Seq(Tasks) /\ tasks = <<>>
  BY DEF GatewayInit
<1>2. OneTaskPerKey
  BY <1>1 DEF OneTaskPerKey
<1>3. \A r \in Requests : RequestSound(req[r], wire[r], Sessions, Seconds, tasks)
  BY DEF GatewayInit, RequestSound
<1> QED BY <1>1, <1>2, <1>3 DEF RequestsSound

\* Every step keeps every request sound.
LEMMA RequestsNext == RequestsSound /\ [GatewayNext]_access => RequestsSound'
<1> SUFFICES ASSUME RequestsSound, [GatewayNext]_access PROVE RequestsSound'
  OBVIOUS
<1>1. CASE UNCHANGED access
  <2>1. RequestsSound <=> RequestsSound'
    BY <1>1 DEF access, RequestsSound, OneTaskPerKey, Sessions, Seconds
  <2> QED BY <2>1
<1>2. CASE \E r \in Requests :
             \/ Arrive(r) \/ HandlerStep(r) \/ UpstreamFails(r) \/ UpstreamBody(r)
             \/ DaemonCreates(r) \/ DaemonReads(r) \/ DaemonFails(r)
  <2> PICK r \in Requests : \/ Arrive(r) \/ HandlerStep(r) \/ UpstreamFails(r) \/ UpstreamBody(r)
                            \/ DaemonCreates(r) \/ DaemonReads(r) \/ DaemonFails(r)
    BY <1>2
  <2>1. CASE Arrive(r)
    BY <2>1, ArriveSound
  <2>2. CASE HandlerStep(r)
    BY <2>2, McpReceiveSound, McpListSound, McpCallToolSound, IssueSessionSound, CapabilitiesSound,
       CatalogueSound, EnforceSound, EnforceTaskSound, CreateTaskSound, PostTaskSound, HandleSound,
       HandleAgentSound, UpstreamHeadersSound, ProxyAnswersSound DEF HandlerStep
  <2>3. CASE UpstreamFails(r)
    BY <2>3, UpstreamFailsSound
  <2>4. CASE UpstreamBody(r)
    BY <2>4, UpstreamBodySound
  <2>5. CASE DaemonCreates(r)
    BY <2>5, DaemonCreatesSound
  <2>6. CASE DaemonReads(r)
    BY <2>6, DaemonReadsSound
  <2>7. CASE DaemonFails(r)
    BY <2>7, DaemonFailsSound
  <2> QED BY <2>1, <2>2, <2>3, <2>4, <2>5, <2>6, <2>7
<1>3. CASE Tick \/ ProvidersChange
  BY <1>3, EnvironmentSound
<1> QED BY <1>1, <1>2, <1>3 DEF GatewayNext

-----------------------------------------------------------------------------
(* What the requests' invariant says of the gateway.                       *)

\* The checks of the MCP endpoint and of the router agree on a tool.
LEMMA ToolIsCallable ==
  ASSUME NEW d \in Registry, NEW grant \in Grant, NEW snapshot
  PROVE  IsTool(d, grant, snapshot) <=>
           /\ Callable(d, grant, snapshot)
           /\ d.name = "task.submit" =>
                \E t \in Registry : t.kind = "task" /\ Callable(t, grant, snapshot)
<1>1. ASSUME NEW e \in Registry, e.name \in Unguarded
      PROVE  Allowed(grant, e) /\ e.kind # "task"
  <2>1. e.required = {} /\ e.kind # "task"
    BY <1>1, GatewayAssumption DEF Unguarded, AgentRoutes
  <2>2. e.minDepth = 0 /\ e.minAuthority = 0
    BY <2>1, RegistryAssumption
  <2>3. grant.depth >= 0 /\ grant.authority >= 0
    BY DEF Grant
  <2> QED BY <2>1, <2>2, <2>3 DEF Allowed, HasRequiredScopes
<1>2. ASSUME NEW e \in Registry
      PROVE  RouterAllows(e, grant) <=>
               Allowed(grant, e) /\ (e.kind = "task" => Allowed(grant, Descriptor("task.submit")))
  BY <1>1, <1>2 DEF RouterAllows
<1>3. (\A p \in ToolPrerequisites(d) : Allowed(grant, p)) <=> RouterAllows(d, grant)
  BY <1>2 DEF ToolPrerequisites
<1>4. d.name = "task.submit" => Descriptor("task.submit") = d
  BY DescriptorOf, GatewayAssumption DEF Known
<1>5. ExecutableTasks(grant, snapshot) # {} <=>
        \E t \in Registry : t.kind = "task" /\ Callable(t, grant, snapshot)
  BY <1>2 DEF ExecutableTasks, Callable
<1> QED BY <1>3, <1>5 DEF IsTool, Callable

\* What was listed can be called.
LEMMA ListedSound == RequestsSound => ListedCallable
<1> SUFFICES ASSUME RequestsSound, NEW r \in Requests, req[r].pc = "answered",
                    req[r].call.via = "mcp"
             PROVE  LET grant == req[r].auth.grant
                    IN  /\ req[r].call.method = "tools/list" /\ req[r].status = 200 =>
                              \A snapshot \in req[r].seen :
                                  req[r].tools = {d.name : d \in {d \in Registry :
                                      /\ Callable(d, grant, snapshot)
                                      /\ d.name = "task.submit" =>
                                            \E t \in Registry :
                                                t.kind = "task" /\ Callable(t, grant, snapshot)}}
                        /\ req[r].status # 403
                        /\ req[r].status = 401 =>
                              req[r].auth = NoAuth \/ Seconds >= Sessions[req[r].session].exp
  BY DEF ListedCallable
<1>1. req[r].pc # "idle"
  OBVIOUS
<1>2. McpSound(req[r], Sessions, Seconds) /\ AuthSound(req[r], Sessions, Seconds)
  BY <1>1, Parts
<1>3. /\ req[r].status # 403
      /\ req[r].status = 401 => req[r].auth = NoAuth \/ Seconds >= Sessions[req[r].session].exp
      /\ req[r].call.method = "tools/list" /\ req[r].status = 200 => req[r].auth # NoAuth /\ Listed(req[r])
  BY <1>2 DEF McpSound
<1>4. ASSUME req[r].auth # NoAuth
      PROVE  req[r].auth.grant \in Grant
  <2>1. req[r].auth = Granted(req[r], Sessions) /\ req[r].call.bearer \in {"root", "session"}
    BY <1>2, <1>4 DEF AuthSound
  <2>2. req[r].call.bearer = "session" => Sessions[req[r].session] \in Claims
    BY <1>2, SessionsType DEF AuthSound, RequestsSound
  <2> QED BY <2>1, <2>2, GatewayAssumption DEF Granted, Claims
<1>5. ASSUME req[r].call.method = "tools/list", req[r].status = 200, NEW snapshot \in req[r].seen
      PROVE  req[r].tools = {d.name : d \in {d \in Registry :
                 /\ Callable(d, req[r].auth.grant, snapshot)
                 /\ d.name = "task.submit" =>
                      \E t \in Registry : t.kind = "task" /\ Callable(t, req[r].auth.grant, snapshot)}}
  <2>1. req[r].tools = {d.name : d \in {d \in Registry : IsTool(d, req[r].auth.grant, snapshot)}}
    BY <1>3, <1>5 DEF Listed
  <2>2. {d \in Registry : IsTool(d, req[r].auth.grant, snapshot)} =
        {d \in Registry :
            /\ Callable(d, req[r].auth.grant, snapshot)
            /\ d.name = "task.submit" =>
                 \E t \in Registry : t.kind = "task" /\ Callable(t, req[r].auth.grant, snapshot)}
    BY <1>3, <1>4, <1>5, ToolIsCallable
  <2> QED BY <2>1, <2>2
<1> QED BY <1>3, <1>5

\* Whatever had an effect was authorized.
LEMMA EffectsSound == RequestsSound => EffectsAuthorized
<1> SUFFICES ASSUME RequestsSound, NEW r \in Requests, req[r].pc # "idle",
                    req[r].call.bearer # "root", Effect(r), req[r].inner \notin AgentRoutes
             PROVE  LET s == Sessions[req[r].session]
                    IN  /\ req[r].call.bearer = "session" /\ req[r].inner # "session"
                        /\ s.secret # "other" /\ req[r].at < s.exp /\ s.exp <= s.iat + MaxTtl
                        /\ Allowed(s.grant, Descriptor(req[r].inner))
                        /\ req[r].inner = "task.submit" => Allowed(s.grant, Descriptor(req[r].type))
  BY DEF EffectsAuthorized
<1>1. PICK q : q = req[r]
  OBVIOUS
<1>2. RouteSound(q, wire[r], Sessions)
  BY <1>1, Parts
<1>3. /\ Cleared(q, Sessions) /\ q.inner # "session"
      /\ q.inner = "task.submit" => TypeCleared(q, Sessions)
  <2>1. CASE wire[r].kind = "create"
    <3>1. Submission(q, Sessions)
      BY <1>2, <2>1 DEF RouteSound
    <3> QED BY <3>1 DEF Submission
  <2>2. CASE wire[r].kind = "task.inspect"
    BY <1>2, <2>2 DEF RouteSound
  <2>3. CASE q.status = 201 \/ q.status = 299
    <3>1. q.status # 201
      BY <1>1, <1>2 DEF RouteSound
    <3>2. q.inner \notin {"session", "task.submit"} /\ Cleared(q, Sessions)
      BY <1>1, <1>2, <2>3, <3>1 DEF RouteSound
    <3> QED BY <3>2
  <2>4. CASE q.pc = "catalogue"
    BY <1>2, <2>4 DEF RouteSound
  <2>5. wire[r].kind # "agent.proxy"
    BY <1>1, <1>2 DEF RouteSound, AgentRoutes
  <2> QED BY <1>1, <2>1, <2>2, <2>3, <2>4, <2>5 DEF Effect
<1> QED BY <1>1, <1>3 DEF Cleared, TypeCleared

\* The fingerprint tells tasks apart as the caller does.
LEMMA FingerprintDescribes ==
  ASSUME NEW task \in Tasks, NEW call, NEW type
  PROVE  task.fingerprint = Fingerprint(call, type) <=> Describes(task, call, type)
<1>1. PICK c \in Calls, t \in DOMAIN Policies : task = TaskOf(c, t)
  BY DEF Tasks
<1>2. /\ task.fingerprint = Fingerprint(c, t) /\ task.type = t /\ task.value = c.value
      /\ task.priority = Priority(c) /\ task.retries = MaxRetriesOf(c, t)
  BY <1>1 DEF TaskOf
<1> QED BY <1>2 DEF Fingerprint, Describes

\* What was acknowledged is there.
LEMMA AcceptedSound == RequestsSound => AcceptedTrue
<1> SUFFICES ASSUME RequestsSound PROVE AcceptedTrue
  OBVIOUS
<1>1. OneTaskPerKey /\ tasks \in Seq(Tasks)
  BY DEF RequestsSound
<1>2. ASSUME NEW r \in Requests, wire[r].kind = "create"
      PROVE  /\ req[r].status = 202 =>
                   /\ req[r].id \in DOMAIN tasks /\ tasks[req[r].id].key = req[r].call.key
                   /\ Describes(tasks[req[r].id], req[r].call, req[r].type)
             /\ req[r].status = 409 =>
                   \E i \in HavingKey(req[r].call.key) :
                      ~Describes(tasks[i], req[r].call, req[r].type)
  <2>1. wire[r] # NoWire
    BY <1>2, NothingSent
  <2>2. WireSound(req[r], wire[r], tasks)
    BY <2>1 DEF RequestsSound, RequestSound
  <2>3. Replied(req[r].call, req[r].type, wire[r].reply, wire[r].id, tasks)
    BY <1>2, <2>2 DEF WireSound
  <2>4. CASE req[r].status = 202
    <3>1. wire[r].reply = 202 /\ req[r].id = wire[r].id /\ req[r].status # 409
      BY <1>2, <2>2, <2>4 DEF WireSound
    <3>2. /\ req[r].id \in DOMAIN tasks /\ tasks[req[r].id].key = req[r].call.key
          /\ tasks[req[r].id].fingerprint = Fingerprint(req[r].call, req[r].type)
      BY <2>3, <3>1 DEF Replied
    <3> QED BY <1>1, <3>1, <3>2, FingerprintDescribes
  <2>5. CASE req[r].status = 409
    <3>1. wire[r].reply = 409 /\ req[r].status # 202
      BY <1>2, <2>2, <2>5 DEF WireSound
    <3>2. PICK i \in DOMAIN tasks : /\ tasks[i].key = req[r].call.key
                                    /\ tasks[i].fingerprint # Fingerprint(req[r].call, req[r].type)
      BY <2>3, <3>1 DEF Replied
    <3> QED BY <1>1, <3>1, <3>2, FingerprintDescribes DEF HavingKey
  <2> QED BY <2>4, <2>5
<1> QED BY <1>1, <1>2 DEF AcceptedTrue, OneTaskPerKey

\* tools/list names exactly the tools whose requests the router lets through,
\* and the router refuses a tool call only when its session has ended.
THEOREM HonestTools == GatewaySpec => []ListedCallable
<1>1. GatewaySpec => []RequestsSound
  BY RequestsInit, RequestsNext, PTL DEF GatewaySpec
<1> QED BY <1>1, ListedSound, PTL

\* The agents' routes apart, nothing is sent, served, issued or shown but for the
\* root token or a session that was valid and covers the route and the task.
THEOREM AuthorizedEffects == GatewaySpec => []EffectsAuthorized
<1>1. GatewaySpec => []RequestsSound
  BY RequestsInit, RequestsNext, PTL DEF GatewaySpec
<1> QED BY <1>1, EffectsSound, PTL

\* An acknowledged request has its task, a refused key is another request's,
\* and a key has one task.
THEOREM TrueAcceptance == GatewaySpec => []AcceptedTrue
<1>1. GatewaySpec => []RequestsSound
  BY RequestsInit, RequestsNext, PTL DEF GatewaySpec
<1> QED BY <1>1, AcceptedSound, PTL

-----------------------------------------------------------------------------
(* The admission controller: its log lg and its bucket b.                  *)

Decision == [at : Nat, allowed : BOOLEAN, retryAfter : Nat]

AdmittedOf(lg, i, k) == {n \in i..k : lg[n].allowed}

BucketSound(lg, b, now) ==
  /\ lg \in Seq(Decision)
  /\ b \in [tokens : Nat, last : Nat]
  /\ b.tokens <= Burst * TicksPerSecond
  /\ b.last <= now
  /\ \A i \in 1..Len(lg) : lg[i].at <= b.last

\* What was admitted since a decision and what is left is no more than a full
\* bucket and what has been added since.
Spent(lg, b) ==
  \A i \in 1..Len(lg) :
    Cardinality(AdmittedOf(lg, i, Len(lg))) * TicksPerSecond + b.tokens
      <= Burst * TicksPerSecond + (b.last - lg[i].at) * Rate

\* While nobody is admitted, what a refused client was told to wait for makes up
\* for what is missing.
Saved(lg, b) ==
  \A i \in 1..Len(lg) : AdmittedOf(lg, i, Len(lg)) = {} =>
    b.tokens + (lg[i].retryAfter * TicksPerSecond) * Rate
      >= TicksPerSecond + (b.last - lg[i].at) * Rate

\* The two promises of AdmissionHonest that are about the log alone.
WithinRate(lg) ==
  \A i, k \in 1..Len(lg) : i <= k /\ AdmittedOf(lg, i, k) # {} =>
    Cardinality(AdmittedOf(lg, i, k)) * TicksPerSecond
      <= Burst * TicksPerSecond + (lg[k].at - lg[i].at) * Rate

WaitSuffices(lg) ==
  \A i, k \in 1..Len(lg) :
    (/\ i < k /\ ~lg[i].allowed /\ AdmittedOf(lg, i, k - 1) = {}
     /\ lg[k].at >= lg[i].at + lg[i].retryAfter * TicksPerSecond)
    => lg[k].allowed

LogSound(lg, b, now) ==
  BucketSound(lg, b, now) /\ Spent(lg, b) /\ Saved(lg, b) /\ WithinRate(lg) /\ WaitSuffices(lg)

\* Requests that were admitted and may still become a task.
Credits ==
  {r \in Requests : \/ req[r].pc = "fingerprint"
                    \/ wire[r].kind = "create" /\ wire[r].state = "sent"}

AdmissionInv ==
  /\ LogSound(log, bucket, clock)
  /\ Len(tasks) + Cardinality(Credits) <= Cardinality(AdmittedOf(log, 1, Len(log)))

\* The smaller of two numbers.
LEMMA MinOfTwo ==
  ASSUME NEW a \in Int, NEW b \in Int
  PROVE  Min({a, b}) = IF a <= b THEN a ELSE b
<1>1. PICK m : m = IF a <= b THEN a ELSE b
  OBVIOUS
<1>2. m \in {a, b} /\ \A y \in {a, b} : m <= y
  BY <1>1
<1>3. Min({a, b}) \in {a, b} /\ \A y \in {a, b} : Min({a, b}) <= y
  BY <1>2 DEF Min
<1> QED BY <1>1, <1>2, <1>3

\* The larger of two numbers.
LEMMA MaxOfTwo ==
  ASSUME NEW a \in Int, NEW b \in Int
  PROVE  Max({a, b}) = IF a <= b THEN b ELSE a
<1>1. PICK m : m = IF a <= b THEN b ELSE a
  OBVIOUS
<1>2. m \in {a, b} /\ \A y \in {a, b} : m >= y
  BY <1>1
<1>3. Max({a, b}) \in {a, b} /\ \A y \in {a, b} : Max({a, b}) >= y
  BY <1>2 DEF Max
<1> QED BY <1>1, <1>2, <1>3

\* What two stretches of time add is what they add together.
LEMMA Distributes ==
  ASSUME NEW a \in Int, NEW b \in Int, NEW c \in Int
  PROVE  (a + b) * c = a * c + b * c
OBVIOUS

\* More time adds no less.
LEMMA Monotone ==
  ASSUME NEW a \in Int, NEW b \in Int, NEW c \in Nat, a <= b
  PROVE  a * c <= b * c
OBVIOUS

\* Seconds, ticks and the rate may be multiplied in either order.
LEMMA Associates ==
  ASSUME NEW a \in Int, NEW b \in Int, NEW c \in Int
  PROVE  (a * b) * c = a * (b * c)
OBVIOUS

\* The bucket refilled: full, or what it had and what has been added since.
LEMMA Refills ==
  ASSUME NEW b \in [tokens : Nat, last : Nat], NEW now \in Nat,
         b.tokens <= Burst * TicksPerSecond, b.last <= now
  PROVE  /\ Refilled(b, now) \in Nat
         /\ Refilled(b, now) <= Burst * TicksPerSecond
         /\ Refilled(b, now) <= b.tokens + (now - b.last) * Rate
         /\ \/ Refilled(b, now) = Burst * TicksPerSecond
            \/ Refilled(b, now) = b.tokens + (now - b.last) * Rate
<1>1. PICK full \in Nat : full = Burst * TicksPerSecond
  BY AdmissionAssumption
<1>2. PICK d \in Nat : d = now - b.last
  OBVIOUS
<1>3. PICK more \in Nat : more = d * Rate
  BY AdmissionAssumption
<1>4. Max({0, now - b.last}) = d
  BY <1>2, MaxOfTwo
<1>5. Refilled(b, now) = Min({full, b.tokens + more})
  BY <1>1, <1>3, <1>4 DEF Refilled
<1>6. b.tokens \in Nat /\ Min({full, b.tokens + more}) = IF full <= b.tokens + more THEN full ELSE b.tokens + more
  BY MinOfTwo
<1> QED BY <1>1, <1>2, <1>3, <1>5, <1>6

\* Retry-After seconds are enough for a whole token.
LEMMA WaitsLongEnough ==
  ASSUME NEW tokens \in Nat, tokens < TicksPerSecond
  PROVE  /\ RetryAfter(tokens) \in Nat
         /\ tokens + (RetryAfter(tokens) * TicksPerSecond) * Rate >= TicksPerSecond
<1>1. PICK p \in Nat : p = TicksPerSecond * Rate
  BY AdmissionAssumption
<1>2. p > 0
  <2>1. TicksPerSecond > 0 /\ Rate > 0 /\ TicksPerSecond \in Nat /\ Rate \in Nat
    BY AdmissionAssumption
  <2> QED BY <1>1, <2>1
<1>3. PICK a \in Nat : a = TicksPerSecond - tokens + p - 1
  BY <1>2, AdmissionAssumption
<1>4. PICK x \in Nat : x = a \div p
  BY <1>2
<1>5. a < p * (x + 1)
  BY <1>2, <1>4
<1>6. p * (x + 1) = p * x + p
  OBVIOUS
<1>7. p * x >= TicksPerSecond - tokens
  BY <1>3, <1>5, <1>6, AdmissionAssumption
<1>8. PICK y \in Nat : y = RetryAfter(tokens) /\ x <= y
  <2>1. RetryAfter(tokens) = Max({1, x})
    BY <1>1, <1>3, <1>4 DEF RetryAfter
  <2>2. Max({1, x}) = IF 1 <= x THEN x ELSE 1
    BY MaxOfTwo
  <2> QED BY <2>1, <2>2
<1>9. x * p <= y * p
  BY <1>8, Monotone
<1>10. (y * TicksPerSecond) * Rate = y * p
  BY <1>1, Associates, AdmissionAssumption
<1>11. x * p = p * x
  OBVIOUS
<1>12. tokens + y * p >= TicksPerSecond
  <2>1. PICK u \in Int, v \in Int : u = x * p /\ v = y * p
    OBVIOUS
  <2> QED BY <1>7, <1>9, <1>11, <2>1, AdmissionAssumption
<1> QED BY <1>8, <1>10, <1>12

\* Decisions are counted.
LEMMA AdmittedFinite ==
  ASSUME NEW lg, NEW i \in Int, NEW k \in Int
  PROVE  IsFiniteSet(AdmittedOf(lg, i, k)) /\ Cardinality(AdmittedOf(lg, i, k)) \in Nat
<1>1. IsFiniteSet(i..k)
  BY FS_Interval
<1>2. AdmittedOf(lg, i, k) \subseteq i..k
  BY DEF AdmittedOf
<1> QED BY <1>1, <1>2, FS_Subset, FS_CardinalityType

\* What one more decision e adds to a log of n.
Longer(lg, e, new, n) ==
  /\ new \in Seq(Decision) /\ Len(new) = n + 1 /\ new[n + 1] = e
  /\ \A i \in 1..n : new[i] = lg[i]
  /\ \A i \in 1..n, k \in 0..n : AdmittedOf(new, i, k) = AdmittedOf(lg, i, k)
  /\ \A i \in 1..(n + 1) :
       /\ e.allowed =>
            /\ AdmittedOf(new, i, n + 1) # {}
            /\ Cardinality(AdmittedOf(new, i, n + 1)) = Cardinality(AdmittedOf(lg, i, n)) + 1
       /\ ~e.allowed => AdmittedOf(new, i, n + 1) = AdmittedOf(lg, i, n)

\* A decision is added to the log.
LEMMA OneMore ==
  ASSUME NEW lg \in Seq(Decision), NEW e \in Decision, NEW new, new = Append(lg, e),
         NEW n \in Nat, n = Len(lg)
  PROVE  Longer(lg, e, new, n)
<1>1. /\ new \in Seq(Decision) /\ Len(new) = n + 1 /\ new[n + 1] = e
      /\ \A i \in 1..n : new[i] = lg[i]
  OBVIOUS
<1>2. \A i \in 1..n, k \in 0..n : AdmittedOf(new, i, k) = AdmittedOf(lg, i, k)
  BY <1>1 DEF AdmittedOf
<1>3. ASSUME NEW i \in 1..(n + 1)
      PROVE  /\ e.allowed => AdmittedOf(new, i, n + 1) = AdmittedOf(lg, i, n) \cup {n + 1}
             /\ ~e.allowed => AdmittedOf(new, i, n + 1) = AdmittedOf(lg, i, n)
             /\ n + 1 \notin AdmittedOf(lg, i, n)
  <2>1. \A m : m \in i..(n + 1) <=> m \in i..n \/ m = n + 1
    OBVIOUS
  <2>2. \A m \in i..n : new[m].allowed <=> lg[m].allowed
    BY <1>1
  <2>3. n + 1 \notin i..n
    OBVIOUS
  <2> QED BY <1>1, <2>1, <2>2, <2>3 DEF AdmittedOf
<1>4. ASSUME NEW i \in 1..(n + 1), e.allowed
      PROVE  /\ AdmittedOf(new, i, n + 1) # {}
             /\ Cardinality(AdmittedOf(new, i, n + 1)) = Cardinality(AdmittedOf(lg, i, n)) + 1
  <2>1. AdmittedOf(new, i, n + 1) = AdmittedOf(lg, i, n) \cup {n + 1} /\ n + 1 \notin AdmittedOf(lg, i, n)
    BY <1>3, <1>4
  <2>2. IsFiniteSet(AdmittedOf(lg, i, n))
    BY AdmittedFinite
  <2> QED BY <2>1, <2>2, FS_AddElement
<1> QED BY <1>1, <1>2, <1>3, <1>4 DEF Longer

\* What tryAcquire decides, as the log keeps it.
DecisionOf(b, now) ==
  [at |-> now, allowed |-> TryAcquire(b, now).allowed, retryAfter |-> TryAcquire(b, now).retryAfter]

\* tryAcquire keeps the books: no more is admitted than the rate allows, and
\* who has waited as long as told is admitted.
LEMMA Decided ==
  ASSUME NEW lg, NEW b, NEW now \in Nat, LogSound(lg, b, now), NEW e, NEW new, NEW next,
         e = DecisionOf(b, now), new = Append(lg, e), next = TryAcquire(b, now).bucket
  PROVE  e \in Decision /\ LogSound(new, next, now)
<1>1. /\ lg \in Seq(Decision) /\ b \in [tokens : Nat, last : Nat]
      /\ b.tokens <= Burst * TicksPerSecond /\ b.last <= now
      /\ \A i \in 1..Len(lg) : lg[i].at <= b.last
  BY DEF LogSound, BucketSound
<1>2. PICK n \in Nat : n = Len(lg)
  BY <1>1
<1>3. PICK tok \in Nat, last \in Nat : b.tokens = tok /\ b.last = last
  BY <1>1
<1>4. PICK t : t = Refilled(b, now)
  OBVIOUS
<1>5. PICK T \in Nat, R \in Nat, full \in Nat :
        T = TicksPerSecond /\ R = Rate /\ full = Burst * TicksPerSecond /\ T > 0 /\ T <= full
  BY AdmissionAssumption
<1>6. PICK more \in Nat : more = (now - last) * R
  BY <1>1, <1>3, <1>5
<1>7. t \in Nat /\ t <= full /\ t <= tok + more /\ (t = full \/ t = tok + more)
  <2>1. /\ Refilled(b, now) \in Nat
        /\ Refilled(b, now) <= Burst * TicksPerSecond
        /\ Refilled(b, now) <= b.tokens + (now - b.last) * Rate
        /\ \/ Refilled(b, now) = Burst * TicksPerSecond
           \/ Refilled(b, now) = b.tokens + (now - b.last) * Rate
    BY <1>1, Refills
  <2>2. b.tokens + (now - b.last) * Rate = tok + more
    BY <1>3, <1>5, <1>6
  <2> QED BY <1>4, <1>5, <2>1, <2>2
<1>8. /\ e.at = now /\ (e.allowed <=> t >= T) /\ e.allowed \in BOOLEAN
      /\ next = [tokens |-> IF t >= T THEN t - T ELSE t, last |-> now]
      /\ e.retryAfter = IF t >= T THEN 0 ELSE RetryAfter(t)
  BY <1>4, <1>5 DEF TryAcquire, DecisionOf
<1>9. t < T => RetryAfter(t) \in Nat /\ t + (RetryAfter(t) * T) * R >= T
  BY <1>5, <1>7, WaitsLongEnough
<1>10. e \in Decision
  <2>1. e.at \in Nat /\ e.allowed \in BOOLEAN /\ e.retryAfter \in Nat
    BY <1>5, <1>7, <1>8, <1>9
  <2>2. e = [at |-> e.at, allowed |-> e.allowed, retryAfter |-> e.retryAfter]
    BY DEF DecisionOf
  <2> QED BY <2>1, <2>2 DEF Decision
<1>11. /\ new \in Seq(Decision) /\ Len(new) = n + 1 /\ new[n + 1] = e
       /\ \A i \in 1..n : new[i] = lg[i]
       /\ \A i \in 1..n, k \in 0..n : AdmittedOf(new, i, k) = AdmittedOf(lg, i, k)
       /\ \A i \in 1..(n + 1) :
            /\ e.allowed =>
                 /\ AdmittedOf(new, i, n + 1) # {}
                 /\ Cardinality(AdmittedOf(new, i, n + 1)) = Cardinality(AdmittedOf(lg, i, n)) + 1
            /\ ~e.allowed => AdmittedOf(new, i, n + 1) = AdmittedOf(lg, i, n)
  <2>1. Longer(lg, e, new, n)
    BY <1>1, <1>2, <1>10, OneMore
  <2> QED BY <2>1 DEF Longer
<1>12. next.last = now /\ next.tokens \in Nat /\ next.tokens <= full /\ next \in [tokens : Nat, last : Nat]
       /\ (e.allowed => next.tokens = t - T) /\ (~e.allowed => next.tokens = t)
  BY <1>5, <1>7, <1>8
<1>13. \A i \in 1..n : lg[i].at \in Nat /\ lg[i].at <= last /\ lg[i].retryAfter \in Nat
  <2> TAKE i \in 1..n
  <2>1. lg[i] \in Decision /\ lg[i].at <= b.last
    BY <1>1, <1>2
  <2> QED BY <1>3, <2>1 DEF Decision
<1>14. BucketSound(new, next, now)
  <2>1. ASSUME NEW i \in 1..(n + 1) PROVE new[i].at <= now
    <3>1. CASE i = n + 1
      BY <1>8, <1>11, <3>1
    <3>2. CASE i \in 1..n
      BY <1>1, <1>3, <1>11, <1>13, <3>2
    <3>3. i = n + 1 \/ i \in 1..n
      OBVIOUS
    <3> QED BY <3>1, <3>2, <3>3
  <2> QED BY <1>5, <1>11, <1>12, <2>1 DEF BucketSound
<1>15. ASSUME NEW i \in 1..n
       PROVE  (now - lg[i].at) * R = (last - lg[i].at) * R + more
  <2>1. PICK a \in Nat : a = lg[i].at /\ a <= last
    BY <1>13
  <2>2. last - a \in Int /\ now - last \in Int /\ now - a = (last - a) + (now - last)
    OBVIOUS
  <2>3. ((last - a) + (now - last)) * R = (last - a) * R + (now - last) * R
    BY <2>2, Distributes
  <2> QED BY <1>6, <2>1, <2>2, <2>3
<1>16. Spent(new, next)
  <2>1. ASSUME NEW i \in 1..n
        PROVE  Cardinality(AdmittedOf(new, i, n + 1)) * T + next.tokens
                 <= full + (now - new[i].at) * R
    <3>1. PICK c \in Nat : c = Cardinality(AdmittedOf(lg, i, n))
      BY AdmittedFinite
    <3>2. PICK g \in Int : g = (last - lg[i].at) * R
      BY <1>13
    <3>3. PICK s \in Int : s = c * T
      OBVIOUS
    <3>4. s + tok <= full + g
      BY <1>2, <1>3, <1>5, <3>1, <3>2, <3>3 DEF LogSound, Spent
    <3>5. (now - new[i].at) * R = g + more
      BY <1>11, <1>15, <3>2
    <3>6. i \in 1..(n + 1)
      OBVIOUS
    <3>7. CASE e.allowed
      <4>1. Cardinality(AdmittedOf(new, i, n + 1)) = c + 1 /\ next.tokens = t - T
        BY <1>11, <1>12, <3>1, <3>6, <3>7
      <4>2. (c + 1) * T = s + T
        BY <3>3
      <4>3. Cardinality(AdmittedOf(new, i, n + 1)) * T = s + T
        BY <4>1, <4>2
      <4>4. (s + T) + (t - T) <= full + (g + more)
        BY <1>7, <3>4
      <4> QED BY <3>5, <4>1, <4>3, <4>4
    <3>8. CASE ~e.allowed
      <4>1. Cardinality(AdmittedOf(new, i, n + 1)) = c /\ next.tokens = t
        BY <1>11, <1>12, <3>1, <3>6, <3>8
      <4>2. Cardinality(AdmittedOf(new, i, n + 1)) * T = s
        BY <3>3, <4>1
      <4>3. s + t <= full + (g + more)
        BY <1>7, <3>4
      <4> QED BY <3>5, <4>1, <4>2, <4>3
    <3> QED BY <3>7, <3>8
  <2>2. Cardinality(AdmittedOf(new, n + 1, n + 1)) * T + next.tokens
          <= full + (now - new[n + 1].at) * R
    <3>1. AdmittedOf(lg, n + 1, n) = {}
      BY DEF AdmittedOf
    <3>2. Cardinality(AdmittedOf(lg, n + 1, n)) = 0
      BY <3>1, FS_EmptySet
    <3>3. new[n + 1].at = now /\ (now - now) * R = 0
      BY <1>8, <1>11
    <3>4. n + 1 \in 1..(n + 1)
      OBVIOUS
    <3>5. CASE e.allowed
      <4>1. Cardinality(AdmittedOf(new, n + 1, n + 1)) = 1 /\ next.tokens = t - T
        BY <1>11, <1>12, <3>2, <3>4, <3>5
      <4>2. Cardinality(AdmittedOf(new, n + 1, n + 1)) * T = T
        BY <4>1
      <4>3. T + (t - T) <= full + 0
        BY <1>7
      <4> QED BY <3>3, <4>1, <4>2, <4>3
    <3>6. CASE ~e.allowed
      <4>1. Cardinality(AdmittedOf(new, n + 1, n + 1)) = 0 /\ next.tokens = t
        BY <1>11, <1>12, <3>2, <3>4, <3>6
      <4>2. Cardinality(AdmittedOf(new, n + 1, n + 1)) * T = 0
        BY <4>1
      <4>3. 0 + t <= full + 0
        BY <1>7
      <4> QED BY <3>3, <4>1, <4>2, <4>3
    <3> QED BY <3>5, <3>6
  <2>3. \A i \in 1..(n + 1) : i \in 1..n \/ i = n + 1
    OBVIOUS
  <2> QED BY <1>5, <1>11, <1>12, <2>1, <2>2, <2>3 DEF Spent
<1>17. Saved(new, next)
  <2>1. ASSUME NEW i \in 1..n, AdmittedOf(new, i, n + 1) = {}
        PROVE  next.tokens + (new[i].retryAfter * T) * R >= T + (now - new[i].at) * R
    <3>1. i \in 1..(n + 1)
      OBVIOUS
    <3>2. ~e.allowed /\ AdmittedOf(lg, i, n) = {}
      BY <1>11, <2>1, <3>1
    <3>3. t < T /\ next.tokens = t /\ t = tok + more
      BY <1>5, <1>7, <1>8, <1>12, <3>2
    <3>4. PICK g \in Int, x \in Int : g = (last - lg[i].at) * R /\ x = (lg[i].retryAfter * T) * R
      <4>1. PICK a \in Nat, y \in Nat : a = lg[i].at /\ y = lg[i].retryAfter
        BY <1>13
      <4>2. PICK w \in Nat : w = y * T
        OBVIOUS
      <4>3. (last - a) * R \in Int /\ w * R \in Int
        OBVIOUS
      <4> QED BY <4>1, <4>2, <4>3
    <3>5. tok + x >= T + g
      BY <1>2, <1>3, <1>5, <3>2, <3>4 DEF LogSound, Saved
    <3>6. (now - new[i].at) * R = g + more /\ (new[i].retryAfter * T) * R = x
      BY <1>11, <1>15, <3>4
    <3>7. t + x >= T + (g + more)
      BY <3>3, <3>5
    <3> QED BY <3>3, <3>6, <3>7
  <2>2. ASSUME AdmittedOf(new, n + 1, n + 1) = {}
        PROVE  next.tokens + (new[n + 1].retryAfter * T) * R >= T + (now - new[n + 1].at) * R
    <3>1. ~e.allowed
      <4>1. n + 1 \in 1..(n + 1)
        OBVIOUS
      <4> QED BY <1>11, <2>2, <4>1
    <3>2. t < T /\ next.tokens = t
      BY <1>5, <1>7, <1>8, <1>12, <3>1
    <3>3. new[n + 1].retryAfter = RetryAfter(t) /\ new[n + 1].at = now
      BY <1>5, <1>7, <1>8, <1>11, <3>2
    <3>4. (now - now) * R = 0 /\ T + 0 = T
      OBVIOUS
    <3>5. t + (RetryAfter(t) * T) * R >= T
      BY <1>9, <3>2
    <3> QED BY <3>2, <3>3, <3>4, <3>5
  <2>3. \A i \in 1..(n + 1) : i \in 1..n \/ i = n + 1
    OBVIOUS
  <2> QED BY <1>5, <1>11, <1>12, <2>1, <2>2, <2>3 DEF Saved
<1>18. WithinRate(new)
  <2>1. ASSUME NEW i \in 1..n, NEW k \in 1..n, i <= k, AdmittedOf(new, i, k) # {}
        PROVE  Cardinality(AdmittedOf(new, i, k)) * T <= full + (new[k].at - new[i].at) * R
    <3>1. k \in 0..n
      OBVIOUS
    <3>2. AdmittedOf(new, i, k) = AdmittedOf(lg, i, k) /\ new[i] = lg[i] /\ new[k] = lg[k]
      BY <1>11, <3>1
    <3> QED BY <1>2, <1>5, <2>1, <3>2 DEF LogSound, WithinRate
  <2>2. ASSUME NEW i \in 1..(n + 1)
        PROVE  Cardinality(AdmittedOf(new, i, n + 1)) * T <= full + (new[n + 1].at - new[i].at) * R
    <3>1. PICK c \in Nat : c = Cardinality(AdmittedOf(new, i, n + 1))
      BY AdmittedFinite
    <3>2. PICK s \in Int : s = c * T
      OBVIOUS
    <3>3. new[i].at \in Nat /\ new[n + 1].at = now
      <4>1. new[i] \in Decision
        BY <1>11
      <4> QED BY <1>8, <1>11, <4>1 DEF Decision
    <3>4. PICK g \in Int : g = (now - new[i].at) * R
      <4>1. PICK a \in Nat : a = new[i].at
        BY <3>3
      <4>2. (now - a) * R \in Int
        OBVIOUS
      <4> QED BY <4>1, <4>2
    <3>5. s + next.tokens <= full + g
      BY <1>5, <1>11, <1>12, <1>16, <3>1, <3>2, <3>4 DEF Spent
    <3>6. s <= full + g
      BY <1>12, <3>5
    <3>7. Cardinality(AdmittedOf(new, i, n + 1)) * T = s /\ (new[n + 1].at - new[i].at) * R = g
      BY <3>1, <3>2, <3>3, <3>4
    <3> QED BY <3>6, <3>7
  <2>3. \A i \in 1..(n + 1) : i \in 1..n \/ i = n + 1
    OBVIOUS
  <2>4. ASSUME NEW i \in 1..(n + 1), NEW k \in 1..(n + 1), i <= k, AdmittedOf(new, i, k) # {}
        PROVE  Cardinality(AdmittedOf(new, i, k)) * T <= full + (new[k].at - new[i].at) * R
    <3>1. CASE k = n + 1
      BY <2>2, <3>1
    <3>2. CASE k \in 1..n
      <4>1. i \in 1..n
        BY <2>4, <3>2
      <4> QED BY <2>1, <2>4, <3>2, <4>1
    <3> QED BY <2>3, <3>1, <3>2
  <2> QED BY <1>5, <1>11, <2>4 DEF WithinRate
<1>19. WaitSuffices(new)
  <2>1. ASSUME NEW i \in 1..n, NEW k \in 1..n, i < k, ~new[i].allowed, AdmittedOf(new, i, k - 1) = {},
               new[k].at >= new[i].at + new[i].retryAfter * T
        PROVE  new[k].allowed
    <3>1. k - 1 \in 0..n
      OBVIOUS
    <3>2. AdmittedOf(new, i, k - 1) = AdmittedOf(lg, i, k - 1) /\ new[i] = lg[i] /\ new[k] = lg[k]
      BY <1>11, <3>1
    <3> QED BY <1>2, <1>5, <2>1, <3>2 DEF LogSound, WaitSuffices
  <2>2. ASSUME NEW i \in 1..n, AdmittedOf(new, i, n) = {}, now >= lg[i].at + lg[i].retryAfter * T
        PROVE  e.allowed
    <3>1. SUFFICES ASSUME t < T PROVE FALSE
      BY <1>5, <1>7, <1>8
    <3>2. t = tok + more
      BY <1>5, <1>7, <3>1
    <3>3. n \in 0..n
      OBVIOUS
    <3>4. AdmittedOf(lg, i, n) = {}
      BY <1>11, <2>2, <3>3
    <3>5. PICK a \in Nat, w \in Nat : a = lg[i].at /\ w = lg[i].retryAfter * T /\ a <= last
      <4>1. PICK c \in Nat, y \in Nat : c = lg[i].at /\ y = lg[i].retryAfter /\ c <= last
        BY <1>13
      <4>2. y * T \in Nat
        OBVIOUS
      <4> QED BY <4>1, <4>2
    <3>6. PICK g \in Int, x \in Int, h \in Int : g = (last - a) * R /\ x = w * R /\ h = (now - a) * R
      OBVIOUS
    <3>7. tok + x >= T + g
      BY <1>2, <1>3, <1>5, <3>4, <3>5, <3>6 DEF LogSound, Saved
    <3>8. h = g + more
      BY <1>15, <3>5, <3>6
    <3>9. w <= now - a /\ now - a \in Int
      BY <2>2, <3>5, SMTT(30)
    <3>10. x <= h
      BY <3>6, <3>9, Monotone
    <3> QED BY <3>1, <3>2, <3>7, <3>8, <3>10, <1>7
  <2>3. ASSUME NEW i \in 1..(n + 1), NEW k \in 1..(n + 1), i < k, ~new[i].allowed,
               AdmittedOf(new, i, k - 1) = {}, new[k].at >= new[i].at + new[i].retryAfter * T
        PROVE  new[k].allowed
    <3>1. i \in 1..n /\ (k \in 1..n \/ k = n + 1)
      BY <2>3
    <3>2. CASE k \in 1..n
      BY <2>1, <2>3, <3>1, <3>2
    <3>3. CASE k = n + 1
      <4>1. k - 1 = n
        BY <3>3
      <4>2. new[k] = e /\ new[i] = lg[i] /\ e.at = now
        BY <1>8, <1>11, <3>1, <3>3
      <4> QED BY <2>2, <2>3, <3>1, <4>1, <4>2
    <3> QED BY <3>1, <3>2, <3>3
  <2> QED BY <1>5, <1>11, <2>3 DEF WaitSuffices
<1> QED BY <1>10, <1>14, <1>16, <1>17, <1>18, <1>19 DEF LogSound

-----------------------------------------------------------------------------
(* The steps of the gateway and the admission controller's books.          *)

\* Time that passes changes no decision.
LEMMA LogLater ==
  ASSUME NEW lg, NEW b, NEW now \in Nat, NEW later \in Nat, now <= later, LogSound(lg, b, now)
  PROVE  LogSound(lg, b, later)
<1>1. b.last \in Nat /\ b.last <= later
  BY DEF LogSound, BucketSound
<1> QED BY <1>1 DEF LogSound, BucketSound

\* The requests that may become tasks are counted.
LEMMA CreditsFinite ==
  /\ IsFiniteSet(Credits) /\ Cardinality(Credits) \in Nat
  /\ \A S : S \subseteq Credits => IsFiniteSet(S) /\ Cardinality(S) <= Cardinality(Credits)
<1>1. IsFiniteSet(Credits)
  BY GatewayAssumption, FS_Subset DEF Credits
<1> QED BY <1>1, FS_Subset, FS_CardinalityType

\* A step that decides nothing and creates nothing, and after which no other
\* request may become a task.
LEMMA QuietStep ==
  ASSUME AdmissionInv, RequestsSound, NEW r \in Requests,
         log' = log, bucket' = bucket, tasks' = tasks, clock' = clock,
         \A s \in Requests \ {r} : req'[s] = req[s] /\ wire'[s] = wire[s],
         (\/ req'[r].pc = "fingerprint"
          \/ wire'[r].kind = "create" /\ wire'[r].state = "sent") => r \in Credits
  PROVE  AdmissionInv'
<1>1. Credits' \subseteq Credits
  BY DEF Credits
<1>2. Cardinality(Credits') <= Cardinality(Credits) /\ Cardinality(Credits') \in Nat
  BY <1>1, CreditsFinite, FS_CardinalityType
<1>3. tasks \in Seq(Tasks)
  BY DEF RequestsSound
<1>4. PICK m \in Nat : m = Cardinality(AdmittedOf(log, 1, Len(log)))
  BY AdmittedFinite DEF AdmissionInv, LogSound, BucketSound
<1>5. Len(tasks) + Cardinality(Credits') <= m
  BY <1>2, <1>3, <1>4, CreditsFinite DEF AdmissionInv
<1> QED BY <1>4, <1>5 DEF AdmissionInv

\* The same for a step that changes one request only.
LEMMA QuietMove ==
  ASSUME AdmissionInv, RequestsSound, NEW r \in Requests, NEW q, q.pc # "fingerprint",
         req' = [req EXCEPT ![r] = q], wire' = wire,
         log' = log, bucket' = bucket, tasks' = tasks, clock' = clock
  PROVE  AdmissionInv'
<1>1. DOMAIN req = Requests
  BY DEF RequestsSound
<1>2. req'[r] = q /\ \A s \in Requests \ {r} : req'[s] = req[s] /\ wire'[s] = wire[s]
  BY <1>1
<1>3. wire'[r].kind = "create" /\ wire'[r].state = "sent" => r \in Credits
  BY DEF Credits
<1> QED BY <1>2, <1>3, QuietStep

\* An answer.
LEMMA QuietAnswer ==
  ASSUME AdmissionInv, RequestsSound, NEW r \in Requests, req[r].pc # "idle", NEW status,
         req' = Answer(r, status), wire' = wire,
         log' = log, bucket' = bucket, tasks' = tasks, clock' = clock
  PROVE  AdmissionInv'
<1>1. PICK q : q = [req[r] EXCEPT !.pc = "answered", !.status = status]
  OBVIOUS
<1>2. IsRequest(req[r])
  BY Parts
<1>3. q.pc = "answered"
  BY <1>1, <1>2 DEF IsRequest
<1>4. q.pc # "fingerprint"
  BY <1>3
<1>5. req' = [req EXCEPT ![r] = q]
  BY <1>1 DEF Answer
<1> QED BY <1>4, <1>5, QuietMove

\* The request that a tool call stands for.
ToRoute(r, inner, type) ==
  [req EXCEPT ![r].pc = "route", ![r].inner = inner, ![r].type = type]

\* tools/call refuses, or makes a request of the call.
LEMMA ToolOutcome ==
  ASSUME NEW r \in Requests, McpCallTool(r)
  PROVE  \/ req' = Answer(r, 32602)
         \/ \E inner, type : req' = ToRoute(r, inner, type)
<1>1. PICK q : q = req[r]
  OBVIOUS
<1> DEFINE d == Descriptor(q.call.name)
           inner == IF d.kind = "task" THEN "task.submit" ELSE q.call.name
           type == IF d.kind = "task" THEN q.call.name ELSE q.call.type
<1>2. \/ req' = Answer(r, 32602)
      \/ req' = [req EXCEPT ![r].pc = "route", ![r].inner = inner, ![r].type = type]
  BY <1>1 DEF McpCallTool
<1>3. req' = Answer(r, 32602) \/ req' = ToRoute(r, inner, type)
  <2> HIDE DEF inner, type
  <2> QED BY <1>2 DEF ToRoute
<1> HIDE DEF inner, type
<1> QED BY <1>3

\* Every step of the gateway that neither admits nor sends.
LEMMA HandlersQuiet ==
  ASSUME AdmissionInv, RequestsSound, NEW r \in Requests,
         \/ McpReceive(r) \/ McpCallTool(r) \/ Capabilities(r) \/ Enforce(r) \/ EnforceTask(r)
         \/ UpstreamHeaders(r) \/ ProxyAnswers(r) \/ UpstreamFails(r) \/ IssueSession(r)
  PROVE  AdmissionInv'
<1>1. /\ log' = log /\ bucket' = bucket /\ tasks' = tasks /\ clock' = clock /\ wire' = wire
      /\ req[r].pc # "idle"
  <2>1. CASE McpReceive(r)
    BY <2>1 DEF McpReceive
  <2>2. CASE McpCallTool(r)
    BY <2>2 DEF McpCallTool
  <2>3. CASE Capabilities(r)
    BY <2>3 DEF Capabilities
  <2>4. CASE Enforce(r)
    BY <2>4 DEF Enforce
  <2>5. CASE EnforceTask(r)
    BY <2>5 DEF EnforceTask
  <2>6. CASE UpstreamHeaders(r)
    BY <2>6 DEF UpstreamHeaders
  <2>7. CASE UpstreamFails(r)
    BY <2>7 DEF UpstreamFails
  <2>8. CASE IssueSession(r)
    BY <2>8 DEF IssueSession
  <2>9. CASE ProxyAnswers(r)
    BY <2>9 DEF ProxyAnswers
  <2> QED BY <2>1, <2>2, <2>3, <2>4, <2>5, <2>6, <2>7, <2>8, <2>9
<1>2. req[r].pc # "idle"
  BY <1>1
<1>3. IsRequest(req[r])
  BY <1>2, Parts
<1>4. ASSUME NEW status, req' = Answer(r, status) PROVE AdmissionInv'
  BY <1>1, <1>2, <1>4, QuietAnswer
<1>5. ASSUME NEW pc, NEW a, pc # "fingerprint", req' = [req EXCEPT ![r].pc = pc, ![r].auth = a]
      PROVE  AdmissionInv'
  <2>1. PICK q : q = [req[r] EXCEPT !.pc = pc, !.auth = a]
    OBVIOUS
  <2>2. q.pc = pc
    BY <1>3, <2>1 DEF IsRequest
  <2>3. req' = [req EXCEPT ![r] = q]
    BY <1>5, <2>1
  <2> QED BY <1>1, <1>5, <2>2, <2>3, QuietMove
<1>6. ASSUME NEW pc, NEW a, NEW at, pc # "fingerprint",
             req' = [req EXCEPT ![r].pc = pc, ![r].auth = a, ![r].at = at]
      PROVE  AdmissionInv'
  <2>1. PICK q : q = [req[r] EXCEPT !.pc = pc, !.auth = a, !.at = at]
    OBVIOUS
  <2>2. q.pc = pc
    BY <1>3, <2>1 DEF IsRequest
  <2>3. req' = [req EXCEPT ![r] = q]
    BY <1>6, <2>1
  <2> QED BY <1>1, <1>6, <2>2, <2>3, QuietMove
<1>7. ASSUME NEW pc, pc # "fingerprint", req' = [req EXCEPT ![r].pc = pc] PROVE AdmissionInv'
  <2>1. PICK q : q = [req[r] EXCEPT !.pc = pc]
    OBVIOUS
  <2>2. q.pc = pc
    BY <1>3, <2>1 DEF IsRequest
  <2>3. req' = [req EXCEPT ![r] = q]
    BY <1>7, <2>1
  <2> QED BY <1>1, <1>7, <2>2, <2>3, QuietMove
<1>8. CASE McpReceive(r)
  <2>1. PICK a : a = Authorization(r)
    OBVIOUS
  <2>2. \/ \E status : req' = Answer(r, status)
        \/ /\ req[r].call.method \in {"tools/list", "tools/call"}
           /\ req' = [req EXCEPT ![r].pc = req[r].call.method, ![r].auth = a]
    BY <1>8, <2>1 DEF McpReceive
  <2> QED BY <1>4, <1>5, <2>2
<1>9. CASE McpCallTool(r)
  <2>1. CASE req' = Answer(r, 32602)
    BY <1>4, <2>1
  <2>2. ASSUME NEW inner, NEW type, req' = ToRoute(r, inner, type)
        PROVE  AdmissionInv'
    <3>1. PICK q : q = [req[r] EXCEPT !.pc = "route", !.inner = inner, !.type = type]
      OBVIOUS
    <3>2. q.pc = "route"
      BY <1>3, <3>1 DEF IsRequest
    <3>3. req' = [req EXCEPT ![r] = q]
      BY <2>2, <3>1 DEF ToRoute
    <3>4. q.pc # "fingerprint"
      BY <3>2
    <3> QED BY <1>1, <3>3, <3>4, QuietMove
  <2> QED BY <1>9, <2>1, <2>2, ToolOutcome
<1>10. CASE Capabilities(r)
  <2>1. PICK a : a = Authorization(r)
    OBVIOUS
  <2>2. \/ \E status : req' = Answer(r, status)
        \/ req' = [req EXCEPT ![r].pc = "catalogue", ![r].auth = a, ![r].at = Seconds]
    BY <1>10, <2>1 DEF Capabilities
  <2> QED BY <1>4, <1>6, <2>2
<1>11. CASE Enforce(r)
  <2>1. PICK a : a = Authorization(r)
    OBVIOUS
  <2>2. PICK pc : pc = IF req[r].inner = "task.submit" THEN "body" ELSE "handle"
    OBVIOUS
  <2>3. \/ \E status : req' = Answer(r, status)
        \/ req' = [req EXCEPT ![r].pc = "handle"]
        \/ req' = [req EXCEPT ![r].pc = pc, ![r].auth = a, ![r].at = Seconds]
    BY <1>11, <2>1, <2>2 DEF Enforce
  <2>4. pc # "fingerprint"
    BY <2>2
  <2> QED BY <1>4, <1>6, <1>7, <2>3, <2>4
<1>12. CASE EnforceTask(r)
  <2>1. (\E status : req' = Answer(r, status)) \/ req' = [req EXCEPT ![r].pc = "handle"]
    BY <1>12 DEF EnforceTask
  <2> QED BY <1>4, <1>7, <2>1
<1>13. CASE UpstreamHeaders(r)
  <2>1. (\E status : req' = Answer(r, status)) \/ req' = [req EXCEPT ![r].pc = "rest"]
    BY <1>13 DEF UpstreamHeaders
  <2> QED BY <1>4, <1>7, <2>1
<1>14. CASE UpstreamFails(r)
  BY <1>4, <1>14 DEF UpstreamFails
<1>15. CASE IssueSession(r)
  BY <1>4, <1>15 DEF IssueSession
<1>16. CASE ProxyAnswers(r)
  BY <1>4, <1>16 DEF ProxyAnswers
<1> QED BY <1>8, <1>9, <1>10, <1>11, <1>12, <1>13, <1>14, <1>15, <1>16

\* A request that arrives; answers with something in them.
LEMMA OthersQuiet ==
  ASSUME AdmissionInv, RequestsSound, NEW r \in Requests,
         Arrive(r) \/ McpList(r) \/ Catalogue(r) \/ UpstreamBody(r)
  PROVE  AdmissionInv'
<1>1. /\ log' = log /\ bucket' = bucket /\ tasks' = tasks /\ clock' = clock /\ wire' = wire
      /\ DOMAIN req = Requests
  BY DEF Arrive, McpList, Catalogue, UpstreamBody, RequestsSound
<1>2. CASE Arrive(r)
  <2>1. PICK call, session : req' = [req EXCEPT ![r] = Arrived(call, session)]
    BY <1>2 DEF Arrive
  <2>2. Arrived(call, session).pc # "fingerprint"
    BY DEF Arrived
  <2> QED BY <1>1, <2>1, <2>2, QuietMove
<1>3. CASE McpList(r)
  <2>1. PICK tools, seen : req' = [Answer(r, 200) EXCEPT ![r].seen = seen, ![r].tools = tools]
    BY <1>3 DEF McpList
  <2>2. IsRequest(req[r])
    BY <1>3, Parts DEF McpList
  <2>3. PICK q : q = [req[r] EXCEPT !.pc = "answered", !.status = 200, !.seen = seen, !.tools = tools]
    OBVIOUS
  <2>4. q.pc = "answered"
    BY <2>2, <2>3 DEF IsRequest
  <2>5. q.pc # "fingerprint"
    BY <2>4
  <2>6. req' = [req EXCEPT ![r] = q]
    BY <1>1, <2>1, <2>3, ZenonT(40) DEF Answer
  <2> QED BY <1>1, <2>5, <2>6, QuietMove
<1>4. CASE Catalogue(r)
  <2>1. PICK names : req' = [Answer(r, 200) EXCEPT ![r].catalogue = names]
    BY <1>4 DEF Catalogue
  <2>2. IsRequest(req[r])
    BY <1>4, Parts DEF Catalogue
  <2>3. PICK q : q = [req[r] EXCEPT !.pc = "answered", !.status = 200, !.catalogue = names]
    OBVIOUS
  <2>4. q.pc = "answered"
    BY <2>2, <2>3 DEF IsRequest
  <2>5. q.pc # "fingerprint"
    BY <2>4
  <2>6. req' = [req EXCEPT ![r] = q]
    BY <1>1, <2>1, <2>3 DEF Answer
  <2> QED BY <1>1, <2>5, <2>6, QuietMove
<1>5. CASE UpstreamBody(r)
  <2>1. req[r].pc # "idle"
    BY <1>5 DEF UpstreamBody
  <2>2. IsRequest(req[r])
    BY <2>1, Parts
  <2>3. CASE \E status : req' = Answer(r, status)
    BY <1>1, <2>1, <2>3, QuietAnswer
  <2>4. CASE req' = [Answer(r, wire[r].reply) EXCEPT ![r].id = wire[r].id]
    <3>1. PICK q : q = [req[r] EXCEPT !.pc = "answered", !.status = wire[r].reply, !.id = wire[r].id]
      OBVIOUS
    <3>2. q.pc = "answered"
      BY <2>2, <3>1 DEF IsRequest
    <3>3. q.pc # "fingerprint"
      BY <3>2
    <3>4. req' = [req EXCEPT ![r] = q]
      BY <1>1, <2>4, <3>1 DEF Answer
    <3> QED BY <1>1, <3>3, <3>4, QuietMove
  <2> QED BY <1>5, <2>3, <2>4 DEF UpstreamBody
<1> QED BY <1>2, <1>3, <1>4, <1>5

\* A message is sent: a create of a request that was admitted.
LEMMA SendsQuiet ==
  ASSUME AdmissionInv, RequestsSound, NEW r \in Requests, PostTask(r) \/ Handle(r) \/ HandleAgent(r)
  PROVE  AdmissionInv'
<1>1. /\ log' = log /\ bucket' = bucket /\ tasks' = tasks /\ clock' = clock
      /\ DOMAIN req = Requests /\ DOMAIN wire = Requests /\ req[r].pc # "idle"
  BY DEF PostTask, Handle, HandleAgent, RequestsSound
<1>2. IsRequest(req[r])
  BY <1>1, Parts
<1>3. CASE PostTask(r)
  <2>1. \A s \in Requests \ {r} : req'[s] = req[s] /\ wire'[s] = wire[s]
    BY <1>1, <1>3 DEF PostTask, Send
  <2>2. r \in Credits
    BY <1>3 DEF PostTask, Credits
  <2> QED BY <1>1, <2>1, <2>2, QuietStep
<1>4. CASE \E status : req' = Answer(r, status) /\ wire' = wire
  BY <1>1, <1>4, QuietAnswer
<1>5. CASE /\ \/ req[r].inner = "system.readiness" \/ req[r].inner = "task.inspect"
              \/ req[r].inner = "agent.proxy"
           /\ req' = [req EXCEPT ![r].pc = "upstream"] /\ Send(r, req[r].inner)
  <2>1. \A s \in Requests \ {r} : req'[s] = req[s] /\ wire'[s] = wire[s]
    BY <1>1, <1>5 DEF Send
  <2>2. PICK w : w = [NoWire EXCEPT !.state = "sent", !.kind = req[r].inner]
    OBVIOUS
  <2>3. wire'[r] = w /\ w.kind # "create"
    BY <1>1, <1>5, <2>2, JustSent DEF Send
  <2>4. PICK q : q = [req[r] EXCEPT !.pc = "upstream"]
    OBVIOUS
  <2>5. req'[r] = q /\ q.pc = "upstream"
    BY <1>1, <1>2, <1>5, <2>4 DEF IsRequest
  <2>6. req'[r].pc # "fingerprint" /\ wire'[r].kind # "create"
    BY <2>3, <2>5
  <2> QED BY <1>1, <2>1, <2>6, QuietStep
<1>6. Handle(r) \/ HandleAgent(r) =>
        \/ \E status : req' = Answer(r, status) /\ wire' = wire
        \/ /\ \/ req[r].inner = "system.readiness" \/ req[r].inner = "task.inspect"
              \/ req[r].inner = "agent.proxy"
           /\ req' = [req EXCEPT ![r].pc = "upstream"] /\ Send(r, req[r].inner)
  BY DEF Handle, HandleAgent
<1> QED BY <1>3, <1>4, <1>5, <1>6

\* handleCreateTask: an admitted request may become a task.
LEMMA CreateTaskAdmits ==
  ASSUME AdmissionInv, RequestsSound, NEW r \in Requests, CreateTask(r)
  PROVE  AdmissionInv'
<1>1. /\ req[r].pc = "handle" /\ req[r].pc # "idle" /\ tasks' = tasks /\ clock' = clock /\ wire' = wire
  BY DEF CreateTask
<1>2. /\ DOMAIN req = Requests /\ clock \in Nat /\ tasks \in Seq(Tasks) /\ IsRequest(req[r])
  BY <1>1, Parts DEF RequestsSound
<1>3. CASE log' = log /\ bucket' = bucket /\ \E status : req' = Answer(r, status)
  BY <1>1, <1>3, QuietAnswer
<1>4. ASSUME NEW e, NEW next,
             e = DecisionOf(bucket, clock),
             next = TryAcquire(bucket, clock).bucket, bucket' = next, log' = Append(log, e),
             \/ e.allowed /\ req' = [req EXCEPT ![r].pc = "fingerprint"]
             \/ ~e.allowed /\ req' = Answer(r, 429)
      PROVE  AdmissionInv'
  <2>1. LogSound(log, bucket, clock) /\ log \in Seq(Decision)
    BY DEF AdmissionInv, LogSound, BucketSound
  <2>2. PICK new : new = Append(log, e)
    OBVIOUS
  <2>3. e \in Decision /\ LogSound(new, next, clock)
    BY <1>2, <1>4, <2>1, <2>2, Decided
  <2>4. PICK n \in Nat : n = Len(log)
    BY <2>1
  <2>5. Longer(log, e, new, n)
    BY <2>1, <2>2, <2>3, <2>4, OneMore
  <2>6. /\ Len(new) = n + 1
        /\ e.allowed => Cardinality(AdmittedOf(new, 1, n + 1)) = Cardinality(AdmittedOf(log, 1, n)) + 1
        /\ ~e.allowed => AdmittedOf(new, 1, n + 1) = AdmittedOf(log, 1, n)
    <3>1. 1 \in 1..(n + 1)
      OBVIOUS
    <3> QED BY <2>5, <3>1 DEF Longer
  <2>7. PICK m \in Nat : m = Cardinality(AdmittedOf(log, 1, n))
    BY AdmittedFinite
  <2>8. PICK c \in Nat : c = Cardinality(Credits)
    BY CreditsFinite
  <2>9. Len(tasks) \in Nat /\ Len(tasks) + c <= m
    BY <1>2, <2>4, <2>7, <2>8 DEF AdmissionInv
  <2>10. \A s \in Requests \ {r} : req'[s] = req[s] /\ wire'[s] = wire[s]
    BY <1>1, <1>2, <1>4 DEF Answer
  <2>11. CASE e.allowed
    <3>1. Credits' \subseteq Credits \cup {r}
      BY <2>10 DEF Credits
    <3>2. IsFiniteSet(Credits \cup {r}) /\ Cardinality(Credits \cup {r}) \in {c, c + 1}
      BY <2>8, CreditsFinite, FS_AddElement
    <3>3. Cardinality(Credits') <= c + 1 /\ Cardinality(Credits') \in Nat
      BY <3>1, <3>2, FS_Subset, FS_CardinalityType
    <3>4. Cardinality(AdmittedOf(new, 1, Len(new))) = m + 1
      BY <2>6, <2>7, <2>11
    <3>5. Len(tasks) + Cardinality(Credits') <= m + 1
      BY <2>9, <3>3
    <3> QED BY <1>1, <1>4, <2>2, <2>3, <3>4, <3>5 DEF AdmissionInv
  <2>12. CASE ~e.allowed
    <3>1. PICK q : q = [req[r] EXCEPT !.pc = "answered", !.status = 429]
      OBVIOUS
    <3>2. req'[r] = q /\ q.pc = "answered"
      BY <1>2, <1>4, <2>12, <3>1, ZenonT(40) DEF Answer, IsRequest
    <3>3. req'[r].pc # "fingerprint"
      BY <3>2
    <3>4. Credits' \subseteq Credits
      BY <1>1, <2>10, <3>3 DEF Credits
    <3>5. Cardinality(Credits') <= c /\ Cardinality(Credits') \in Nat
      BY <2>8, <3>4, CreditsFinite, FS_CardinalityType
    <3>6. Cardinality(AdmittedOf(new, 1, Len(new))) = m
      BY <2>6, <2>7, <2>12
    <3>7. Len(tasks) + Cardinality(Credits') <= m
      BY <2>9, <3>5
    <3> QED BY <1>1, <1>4, <2>2, <2>3, <3>6, <3>7 DEF AdmissionInv
  <2> QED BY <2>11, <2>12
<1>5. PICK e, next :
        /\ e = DecisionOf(bucket, clock)
        /\ next = TryAcquire(bucket, clock).bucket
  OBVIOUS
<1>6. \/ log' = log /\ bucket' = bucket /\ \E status : req' = Answer(r, status)
      \/ /\ bucket' = next /\ log' = Append(log, e)
         /\ \/ e.allowed /\ req' = [req EXCEPT ![r].pc = "fingerprint"]
            \/ ~e.allowed /\ req' = Answer(r, 429)
  BY <1>5 DEF CreateTask, DecisionOf
<1> QED BY <1>3, <1>4, <1>5, <1>6

\* The daemon's answer uses up what the admission allowed.
LEMMA DaemonSettles ==
  ASSUME AdmissionInv, RequestsSound, NEW r \in Requests, wire[r].state = "sent",
         req' = req, \A s \in Requests \ {r} : wire'[s] = wire[s], wire'[r].state # "sent"
  PROVE  Credits' \subseteq Credits \ {r}
<1>1. req[r].pc # "fingerprint"
  <2>1. RequestSound(req[r], wire[r], Sessions, Seconds, tasks)
    BY DEF RequestsSound
  <2>2. wire[r] # NoWire
    BY NothingSent
  <2>3. RouteSound(req[r], wire[r], Sessions)
    BY <2>1, <2>2 DEF RequestSound
  <2>4. req[r].pc \notin Early
    BY <2>2, <2>3 DEF RouteSound
  <2> QED BY <2>4 DEF Early
<1> QED BY <1>1 DEF Credits

\* What the wire is after the daemon has answered or the message is lost.
LEMMA Settled ==
  ASSUME RequestsSound, NEW r \in Requests, wire[r].state = "sent",
         \/ \E status, id : Reply(r, status, id)
         \/ wire' = [wire EXCEPT ![r].state = "lost"]
  PROVE  wire'[r].state # "sent" /\ \A s \in Requests \ {r} : wire'[s] = wire[s]
<1>1. DOMAIN wire = Requests
  BY DEF RequestsSound
<1>2. IsWire(wire[r])
  <2>1. wire[r] # NoWire
    BY NothingSent
  <2> QED BY <2>1 DEF RequestsSound, RequestSound, WireSound
<1>3. CASE wire' = [wire EXCEPT ![r].state = "lost"]
  <2>1. PICK w : w = [wire[r] EXCEPT !.state = "lost"]
    OBVIOUS
  <2>2. w.state = "lost"
    BY <1>2, <2>1 DEF IsWire
  <2>3. wire'[r] = w /\ \A s \in Requests \ {r} : wire'[s] = wire[s]
    BY <1>1, <1>3, <2>1
  <2> QED BY <2>2, <2>3
<1>4. CASE \E status, id : Reply(r, status, id)
  <2>1. PICK status, id : Reply(r, status, id)
    BY <1>4
  <2>2. PICK w : w = [wire[r] EXCEPT !.state = "replied", !.reply = status, !.id = id]
    OBVIOUS
  <2>3. w.state = "replied"
    BY <1>2, <2>2 DEF IsWire
  <2>4. wire'[r] = w /\ \A s \in Requests \ {r} : wire'[s] = wire[s]
    BY <1>1, <2>1, <2>2 DEF Reply
  <2> QED BY <2>3, <2>4
<1> QED BY <1>3, <1>4

\* The daemon answers, creating a task at most for a request that was admitted.
LEMMA DaemonAdmits ==
  ASSUME AdmissionInv, RequestsSound, NEW r \in Requests,
         DaemonCreates(r) \/ DaemonReads(r) \/ DaemonFails(r)
  PROVE  AdmissionInv'
<1>1. /\ wire[r].state = "sent" /\ req' = req /\ log' = log /\ bucket' = bucket /\ clock' = clock
  BY DEF DaemonCreates, DaemonReads, DaemonFails
<1>2. \/ \E status, id : Reply(r, status, id)
      \/ wire' = [wire EXCEPT ![r].state = "lost"]
  BY DEF DaemonCreates, DaemonReads, DaemonFails
<1>3. wire'[r].state # "sent" /\ \A s \in Requests \ {r} : wire'[s] = wire[s]
  BY <1>1, <1>2, Settled
<1>4. Credits' \subseteq Credits \ {r}
  BY <1>1, <1>3, DaemonSettles
<1>5. CASE tasks' = tasks
  <2>1. (\/ req'[r].pc = "fingerprint"
         \/ wire'[r].kind = "create" /\ wire'[r].state = "sent") => r \in Credits
    BY <1>1, <1>3 DEF Credits
  <2>2. \A s \in Requests \ {r} : req'[s] = req[s] /\ wire'[s] = wire[s]
    BY <1>1, <1>3
  <2> QED BY <1>1, <1>5, <2>1, <2>2, QuietStep
<1>6. CASE wire[r].kind = "create" /\ \E t : tasks' = Append(tasks, t)
  <2>1. r \in Credits
    BY <1>1, <1>6 DEF Credits
  <2>2. PICK c \in Nat : c = Cardinality(Credits)
    BY CreditsFinite
  <2>3. IsFiniteSet(Credits \ {r}) /\ Cardinality(Credits \ {r}) = c - 1
    BY <2>1, <2>2, CreditsFinite, FS_RemoveElement
  <2>4. Cardinality(Credits') <= c - 1 /\ Cardinality(Credits') \in Nat
    BY <1>4, <2>3, FS_Subset, FS_CardinalityType
  <2>5. PICK n \in Nat : n = Len(tasks) /\ Len(tasks') = n + 1
    BY <1>6 DEF RequestsSound
  <2>6. PICK m \in Nat : m = Cardinality(AdmittedOf(log, 1, Len(log)))
    BY AdmittedFinite DEF AdmissionInv, LogSound, BucketSound
  <2>7. n + c <= m
    BY <2>2, <2>5, <2>6 DEF AdmissionInv
  <2>8. Len(tasks') + Cardinality(Credits') <= m
    BY <2>4, <2>5, <2>7
  <2> QED BY <1>1, <2>6, <2>8 DEF AdmissionInv
<1>7. tasks' = tasks \/ (wire[r].kind = "create" /\ \E t : tasks' = Append(tasks, t))
  <2>1. CASE DaemonCreates(r)
    <3>1. PICK t : t = [key |-> req[r].call.key, fingerprint |-> Fingerprint(req[r].call, req[r].type),
                        type |-> req[r].type, value |-> req[r].call.value,
                        priority |-> Priority(req[r].call),
                        retries |-> MaxRetriesOf(req[r].call, req[r].type)]
      OBVIOUS
    <3>2. wire[r].kind = "create" /\ (tasks' = tasks \/ tasks' = Append(tasks, t))
      BY <2>1, <3>1 DEF DaemonCreates
    <3> QED BY <3>2
  <2>2. CASE DaemonReads(r)
    <3>1. tasks' = tasks
      BY <2>2 DEF DaemonReads
    <3> QED BY <3>1
  <2>3. CASE DaemonFails(r)
    <3>1. tasks' = tasks
      BY <2>3 DEF DaemonFails
    <3> QED BY <3>1
  <2> QED BY <2>1, <2>2, <2>3
<1> QED BY <1>5, <1>6, <1>7

\* Time passes, workers come and go.
LEMMA EnvironmentAdmits ==
  ASSUME AdmissionInv, RequestsSound, Tick \/ ProvidersChange
  PROVE  AdmissionInv'
<1>1. /\ req' = req /\ wire' = wire /\ log' = log /\ bucket' = bucket /\ tasks' = tasks
      /\ clock' = clock \/ clock' = clock + 1
  BY DEF Tick, ProvidersChange
<1>2. clock \in Nat
  BY DEF RequestsSound
<1>3. clock' \in Nat /\ clock <= clock'
  BY <1>1, <1>2
<1>4. LogSound(log, bucket, clock')
  BY <1>2, <1>3, LogLater DEF AdmissionInv
<1>5. Credits' = Credits
  BY <1>1 DEF Credits
<1> QED BY <1>1, <1>4, <1>5 DEF AdmissionInv

\* The bucket is full and nothing has been decided.
LEMMA AdmissionInit == GatewayInit => AdmissionInv
<1> SUFFICES ASSUME GatewayInit PROVE AdmissionInv
  OBVIOUS
<1>1. log = <<>> /\ bucket = FullBucket(0) /\ clock = 0 /\ tasks = <<>>
  BY DEF GatewayInit
<1>2. PICK full \in Nat : full = Burst * TicksPerSecond
  BY AdmissionAssumption
<1>3. bucket \in [tokens : Nat, last : Nat] /\ bucket.tokens = full /\ bucket.last = 0
  BY <1>1, <1>2 DEF FullBucket
<1>4. log \in Seq(Decision) /\ Len(log) = 0 /\ Len(tasks) = 0 /\ 1..Len(log) = {}
  BY <1>1
<1>5. BucketSound(log, bucket, clock)
  BY <1>1, <1>2, <1>3, <1>4 DEF BucketSound
<1>6. LogSound(log, bucket, clock)
  BY <1>4, <1>5 DEF LogSound, Spent, Saved, WithinRate, WaitSuffices
<1>7. Credits = {}
  BY DEF GatewayInit, Credits, NoRequest, NoWire
<1>8. AdmittedOf(log, 1, Len(log)) = {}
  BY <1>4 DEF AdmittedOf
<1>9. Cardinality(Credits) = 0 /\ Cardinality(AdmittedOf(log, 1, Len(log))) = 0
  BY <1>7, <1>8, FS_EmptySet
<1>10. Len(tasks) + Cardinality(Credits) <= Cardinality(AdmittedOf(log, 1, Len(log)))
  BY <1>4, <1>9
<1> QED BY <1>6, <1>10 DEF AdmissionInv

\* Every step keeps the books of the admission controller.
LEMMA AdmissionNext ==
  RequestsSound /\ AdmissionInv /\ [GatewayNext]_access => AdmissionInv'
<1> SUFFICES ASSUME RequestsSound, AdmissionInv, [GatewayNext]_access PROVE AdmissionInv'
  OBVIOUS
<1>1. CASE UNCHANGED access
  <2>1. AdmissionInv <=> AdmissionInv'
    BY <1>1 DEF access, AdmissionInv, Credits
  <2> QED BY <2>1
<1>2. CASE \E r \in Requests :
             \/ Arrive(r) \/ HandlerStep(r) \/ UpstreamFails(r) \/ UpstreamBody(r)
             \/ DaemonCreates(r) \/ DaemonReads(r) \/ DaemonFails(r)
  <2> PICK r \in Requests : \/ Arrive(r) \/ HandlerStep(r) \/ UpstreamFails(r) \/ UpstreamBody(r)
                            \/ DaemonCreates(r) \/ DaemonReads(r) \/ DaemonFails(r)
    BY <1>2
  <2>1. CASE Arrive(r) \/ UpstreamBody(r)
    BY <2>1, OthersQuiet
  <2>2. CASE HandlerStep(r)
    BY <2>2, HandlersQuiet, OthersQuiet, CreateTaskAdmits, SendsQuiet DEF HandlerStep
  <2>3. CASE UpstreamFails(r)
    BY <2>3, HandlersQuiet
  <2>4. CASE DaemonCreates(r) \/ DaemonReads(r) \/ DaemonFails(r)
    BY <2>4, DaemonAdmits
  <2> QED BY <2>1, <2>2, <2>3, <2>4
<1>3. CASE Tick \/ ProvidersChange
  BY <1>3, EnvironmentAdmits
<1> QED BY <1>1, <1>2, <1>3 DEF GatewayNext

\* The books say what the controller promises.
LEMMA AdmissionSound == RequestsSound /\ AdmissionInv => AdmissionHonest
<1> SUFFICES ASSUME RequestsSound, AdmissionInv PROVE AdmissionHonest
  OBVIOUS
<1>1. log \in Seq(Decision) /\ WithinRate(log) /\ WaitSuffices(log)
  BY DEF AdmissionInv, LogSound, BucketSound
<1>2. DOMAIN log = 1..Len(log) /\ Len(log) \in Nat
  BY <1>1
<1>3. Len(tasks) <= Cardinality(AdmittedOf(log, 1, Len(log)))
  <2>1. Cardinality(AdmittedOf(log, 1, Len(log))) \in Nat
    BY <1>2, AdmittedFinite
  <2>2. Len(tasks) \in Nat
    BY DEF RequestsSound
  <2> QED BY <2>1, <2>2, CreditsFinite DEF AdmissionInv
<1>4. \A i, k \in DOMAIN log : i <= k /\ AdmittedOf(log, i, k) # {} =>
        Cardinality(AdmittedOf(log, i, k)) * TicksPerSecond
          <= Burst * TicksPerSecond + (log[k].at - log[i].at) * Rate
  BY <1>1, <1>2 DEF WithinRate
<1>5. \A i, k \in DOMAIN log :
        (/\ i < k /\ ~log[i].allowed /\ AdmittedOf(log, i, k - 1) = {}
         /\ log[k].at >= log[i].at + log[i].retryAfter * TicksPerSecond)
        => log[k].allowed
  BY <1>1, <1>2 DEF WaitSuffices
<1> QED BY <1>3, <1>4, <1>5, Zenon DEF AdmissionHonest, AdmittedOf

\* At every rate and burst, no stretch of time admits more than a full bucket
\* and what was added in it, every task was admitted, and who waits for
\* Retry-After seconds is admitted unless somebody else was in between.
THEOREM HonestAdmission == GatewaySpec => []AdmissionHonest
<1>1. GatewaySpec => []RequestsSound
  BY RequestsInit, RequestsNext, PTL DEF GatewaySpec
<1>2. GatewaySpec => []AdmissionInv
  BY <1>1, AdmissionInit, AdmissionNext, PTL DEF GatewaySpec
<1> QED BY <1>1, <1>2, AdmissionSound, PTL
=============================================================================
