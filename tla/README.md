# Verification of the Sinkhorn task queue

TLA+ specifications of Task-que-que, the TLC models that check them on small
instances, and TLAPS proofs of the properties that matter most. Paths below are
relative to the repository root (`src/` in `PROJECT.json`).

## 1. The system

Task-que-que is a task queue on one SQLite file with three kinds of process
around it:

* the **queue daemon** (`src/main.rs`, `src/local_api.rs`): accepts, cancels and
  lists tasks, and every tick recovers expired leases and prunes finished tasks;
* the **worker broker** (`src/bin/robust-sinkhorn-worker.rs`, `src/worker_api.rs`,
  `src/worker_protocol.rs`): keeps an in-memory registry of worker sessions,
  assigns pending tasks to them on a tick, and serves claim, heartbeat,
  completion and failure;
* the **public gateway** (`gateway/`, Bun, one thread): capability-checked HTTP
  and MCP surface, OAuth flow, workflow submission, file, git and process
  providers. It also serves polling agents straight from the database file.

Workers (`workers/`, `connectors/`, `agents/`) are clients of the broker or of
the gateway; `ops/` and `scripts/` start and restart the processes.

### Inventory

| Component | State | Operations | What makes it correct |
|---|---|---|---|
| Queue tables (`src/sync_queue.rs`) | `tasks` and its rowid sequence | enqueue, recover expired leases | ids never reused; recovery takes only what expired |
| Lease fence (`src/lease_fence.rs`) | `task_lease_fences` | claim, heartbeat, complete, fail | only the latest claim can act; retries counted once |
| Cancellation (`src/cancellation.rs`) | status, fence | cancel | a cancelled task accepts nothing any more |
| Results (`src/result_projection.rs`) | `task_results` | complete with a result | a result is that of the completing claim |
| Idempotency (`src/idempotency.rs`) | `task_idempotency` | bounded enqueue | one task per key while the task exists |
| Retention (`src/retention.rs`) | all four tables | prune | the newest finished tasks stay; no dangling row |
| Dispatcher (`src/worker_protocol.rs`) | a snapshot of sessions | select, score, round, assign | capacity and compatibility respected |
| Worker registry and API (`src/worker_protocol.rs`, `src/worker_api.rs`) | sessions with expiry | register, authenticate, route | a lost or replaced session never harms a task |
| Polling agents (`gateway/src/agent-direct.ts`) | tokens in memory, `CLAIMED` rows | register, poll, result | a claim belongs to one agent and comes back |
| OAuth flow (`gateway/src/oauth-*.ts`) | pending consents, codes | start, decide, continue, redeem | tokens only by consent, once, in time |
| Capabilities (`gateway/src/capabilities.ts`, `capability-*.ts`) | none (signed tokens) | evaluate, derive, issue, verify, list | a token allows what was approved, and is asked for by every capability route |
| Task routes (`gateway/src/app.ts`, `router.ts`) | none | create, inspect, ready | one task per key, true answers, an answer in any case |
| MCP server (`gateway/src/mcp.ts`, `mcp-process.ts`) | none | discover, list, call | lists what can be called, calls no more than the routes allow |
| Admission (`gateway/src/admission.ts`) | token bucket | admit | rate bounded; who waits as told is admitted |
| Client discovery (`gateway/src/oauth-cimd-*.ts`) | none | resolve, fetch, validate | documents only from vetted addresses; every family tried |
| Workflows (`gateway/src/workflows.ts`, `workers/workflow-bun`) | tasks and results | submit, run steps, collect | steps in order, results bound to their workflow |
| Processes (`gateway/src/process-*.ts`, `src/process_exec.rs`) | registry file, process groups | load, check, run, stop | runs what was checked; bounded; a stopped group is dead |
| Git metadata (`gateway/src/git-api.ts`) | none | head, log, refs, probe | complete output or a failure, an answer in any case |
| File mutation (`gateway/src/filesystem-mutation-api.ts`, `src/fs_mutation.rs`) | files | write, mkdir | atomic replacement, honest answers |
| Agent proxy (`gateway/src/agent-proxy.ts`) | none | pass the workers' POST routes on to the broker | its head promises a valid bearer |
| Worker loops (`workers/*`) | current lease | claim, heartbeat, report | heartbeat while working, stop when fenced |
| Rust gateway (`gateway-rs/`) | as agent-direct | poll, submit | as agent-direct |

How they interact: the daemon, the broker and the gateway share the SQLite file
and nothing else; every Rust operation is one `BEGIN IMMEDIATE` transaction.
Inside the broker, handlers and the dispatch tick share the registry under a
mutex that is *not* held during the transactions. Inside the gateway, handlers
share memory and interleave at each `await`; its SQL statements commit one by one.

What is hard: a worker that outlives its lease; cancellation, recovery, retries
and retention meeting late answers; times that are read before a lock is
obtained; sessions that vanish between authentication and commit; process
restarts with tables that persist; two programs that write the same rows under
different rules; handlers that hold something across an await. `PROJECT.json`
lists these hazards line by line with the properties that cover them.

## 2. The modules

| Module | Models | Extends |
|---|---|---|
| `TaskQueue` | the four tables and every transaction on them | |
| `TaskLifecycle` | abstract specification: what a client may rely on for one task | |
| `TaskQueueRefinement` | the mapping from the tables to `TaskLifecycle` | `TaskQueue` |
| `WorkerBroker` | registry, handlers, tick and restarts of the broker, beside the daemon | `TaskQueue` |
| `AgentDirect` | the gateway's polling agents on the same tables | `TaskQueue` |
| `CapabilityGrants` | evaluation and derivation of grants (pure) | |
| `OAuthAuthorization` | consents, codes, token exchange | `CapabilityGrants` |
| `WorkflowRun` | the execution of a workflow by worker processes | instantiates `TaskLifecycle` |
| `WorkflowBodies` | answers whose body does not come, which no timer guards | `WorkflowRun` |
| `FileMutation` | file writes through the helper program, with failures | |
| `ChildRunner` | the three runners of child programs, the programs and their descendants | |
| `RegisteredProcess` | registered commands: registry, route, MCP tool, Rust helper | `ChildRunner`, `CapabilityGrants` |
| `GitMetadata` | the git operations | `ChildRunner` |
| `CimdAddresses` | judging IP addresses, with a reference definition (pure) | |
| `CimdDiscovery` | discovery of a client's metadata document | `ChildRunner`, `CimdAddresses` |
| `HelperRequests` | requests that run programs: the composition of the five above | |
| `Admission` | the token bucket (pure) | |
| `GatewayAccess` | sessions, access control, catalogue, MCP, task and agents' routes | `CapabilityGrants`, `Admission` |
| `TaskQueueProofs` | theorems on the queue, which implements `TaskLifecycle` | `TaskQueueRefinement` |
| `WorkerBrokerProofs` | the broker implements the queue | `WorkerBroker`, `TaskQueueProofs` |
| `AgentDirectProofs` | polling agents and workers beside each other | `AgentDirect` |
| `WorkflowRunProofs`, `OAuthProofs`, `FileMutationProofs`, `HelperRequestsProofs`, `GatewayAccessProofs` | theorems on one module each | that module and `TLAPS` |
| `MC*` | the instances TLC checks | |

**TaskQueue.** A table is a function from primary keys to rows; `lastId` is the
AUTOINCREMENT sequence. One action per transaction, since each is
`BEGIN IMMEDIATE`. Two sets record what the outside has been told and may use at
any later time: `granted`, the claim responses sent to workers, and `acks`, the
answers to idempotent submissions. A worker step presents *any* grant ever sent,
under *any* session, so late, repeated and misdirected calls are all there. Time
is an integer; an action's `now` is a reading that may lag `MaxLag` behind the
clock, because the code calls `now_f64()` before it has the lock. The Sinkhorn
scores are abstracted: `Rounded` permits every assignment the greedy rounding can
return for some scores (compatible, within capacity, maximal).

**TaskLifecycle** knows a phase, a holder and an outcome per task. The mapping
takes the holder from the lock and the fence together, so that a step which
fences a worker is a visible abstract step.

**WorkerBroker** splits every task request into authentication and transaction,
and the tick into recovery, snapshot and dispatch; `Restart` empties the
registry, the requests in flight and the snapshot at any point.

**AgentDirect** is at the granularity of SQL statements, with every queue
transaction in between, a statement that throws (`HandlerThrows`), a gateway
restart and agents that die. The agent's side follows the Python connector: it
registers when it starts and not again (`serving`), polls with the token it got,
reports, reports an error after a failed report, gives up. The JavaScript
connector does not get that far: it reads the field `token` where the server
answers `agent_token`, and polls with GET a route that is POST. The map of agents
seen alive, which `GET /v1/agents` shows, is left out.

**OAuthAuthorization** has one action per synchronous stretch of a handler. Only
the token endpoint keeps state across an await: `redeeming` holds the requests
whose code is consumed and whose answer is not sent. Every store operation begins
with the purge, as in the code; an operation that finds nothing is
`PendingLookup` or `CodeLookup`. `decisions` and the `consent` of a code or token
are history. An issuance that fails, the 503 of the token endpoint, costs the code
too (`IssuanceFails`). SHA-256 is the constant function `S256`; lengths, URI syntax and
reserved query parameters are abstracted to the sets `BoundedRequests` and
`Undeliverable`. A handler's successive clock readings are one reading.

**WorkflowRun** is one `workflow.run` task and the workers that execute it
(`workers/workflow-bun/src/workflow-handler.ts` inside the loop of
`workers/document-bun/src/worker.ts`). The queue is what `TaskLifecycle`
promises, and `QueueContract` checks that nothing more is used; child tasks are
rows with the step, the resolved payload, a status and a projection. `run` holds
what a worker keeps in memory: the stage it awaits, the claim it works for, the
task id of each step, the steps it saw completed, and whether its heartbeat loop
noticed the loss of the lease. Each awaited request is a step of its own: `net`
holds the requests under way, which may be applied after their sender gave up,
died or lost the lease (`RequestStep`), and their answers may be lost
(`Answer`). A worker whose lease is gone goes on until it notices (`LoseLease`),
so two workers may execute the workflow at once. JSON syntax, size limits and
the contents of result files are abstracted; a reference resolves to a member of
`Values` or to nothing. Registration after a 401 only delays a claim and is left
out here.

**WorkflowBodies** adds the one await that nothing bounds. The timer of a request
and the signal of a lost lease guard it until the head of the answer is there
(`workers/workflow-bun/src/worker.ts:83`, `workers/document-bun/src/worker.ts`);
the body is read after that. `stalled` holds the workers that wait for a body. The
other loop of such a worker goes on renewing the lease, and that the lease is lost
does not wake it.

**FileMutation** follows a request from `handleFilesystemMutationRequest` through
the spawned helper (`robust-sinkhorn-fs-mutator`, `src/fs_mutation.rs`) to the
answer: one action per system call that matters (the pipe, the temporary file,
its sync, the rename, the sync of the directory) and per event of the gateway
(close, timer). A directory entry is a log whose persisted part survives
`PowerLoss`; a helper that was sent SIGKILL may go on until the signal arrives; a
gateway that dies closes the pipes. The answers keep the distinctions of
`mapMutationFailure`. Path syntax and the traversal by file descriptors are
abstracted to their outcome (`Reject`, `IoError`); temporary names never collide.

**ChildRunner** has the local state of `runRegisteredProcess`,
`runCimdCurlCommand` and `defaultGitMetadataRunner` in one record per child: one
action per event they listen to (error, data, close, timer) and per thing a
program may do (write, fork, exit, be killed; a descendant may close the pipes,
leave the process group, exit). The runners differ where the code does: the git
runner kills its child only and answers at once, the others kill the group and
wait for "close"; a registered process has one limit for both streams. A signal
takes effect at once. Output is counted in chunks. What happens after the answer
is not followed.

**RegisteredProcess** follows a call through the MCP tool or the route, the
registry that is loaded from the file each time, the grant, the spawn and the
helper's snapshot, open and execution by descriptor. The operator may replace
the file and the program between any two steps. The client of either route may go
away at any moment (`gone`); the signal this gives reaches the command of an HTTP
call only (`Signalled`), since the request which the MCP tool makes of the gateway
is built without one. A program is its identity and whether it is native,
executable, a link.

**GitMetadata** runs `rev-parse` and `symbolic-ref` of head side by side; the
content of what git prints is "parses" or "does not".

**CimdAddresses** keeps bytes: `SpecialUse` is the code's tests, `Reserved` the
list of blocks compared bit by bit. The run compares the two through
`DocumentVetted` on both sides of every block's ends; `AddressesJudged` proves
them equal for all addresses.

**CimdDiscovery** follows `discoverCimdClient` through both transports. DNS, curl
and the server are free: any resolution, any peer, any reply of a small set. An
identifier, a reply and a document are records of what the validators look at.

**HelperRequests** composes these. Requests of different kinds share nothing, so
an initial state holds one request of any kind.

**GatewayAccess** follows requests from the socket to the answer, suspended at
each await: the MCP envelope, the two verifications of the bearer, the
availability of providers (a snapshot that is stale when used, or lacks a broker
that did not answer in time), access control before and after the body is read,
`handleCreateTask` with its checks in order, admission, fingerprint, the POST and
its timer, headers and body of the response. A token is a grant, two times and
the key that signed it. The daemon applies a request once, late or never and may
reply after the gateway gave up; its table of keys is external here and is
`TaskQueue`'s elsewhere. The routes of the agents (`AgentRoutes`) are served before
any descriptor is looked for: registering issues a token to whoever asks and the
list of agents is shown to anybody; poll and result ask for the agent's own token;
the proxy routes pass the request on to the broker, whose answers are external
(`BrokerStatuses`) except that it asks for its own worker session. What a poll or a
report does to the tables is `AgentDirect`'s. Routes that other modules model end
with "served".

## 3. The runs

| Run | Question | Bounds |
|---|---|---|
| `queue_lease` | Can a stale worker do anything? Are live leases kept, is capacity respected for every snapshot and rounding? Do the tables implement `TaskLifecycle`? | 2 tasks, sessions of 1 and 2 slots, 2 generations, clock lag 1 |
| `queue_retention` | Do leases, results and keys survive pruning and reuse of keys? Does the inductive invariant of the proofs hold? | 3 ids, 2 keys, 1 finished task kept |
| `broker` | Do sessions that expire, are replaced or vanish between two steps harm the queue? The broker is shown to implement `TaskQueue`; every lease ends, that of an orphan too. | 2 workers, one with 2 sessions |
| `agent_claims` | Does anything but its agent end a live claim? Does a claim come back as long as some agent polls with a known token? | 2 agents, 1 task, clocks read one unit too early |
| `agent_silent` | ... and when no agent polls? Expected violation. | 1 task |
| `agent_ownership` | Is a report accepted from the claimant only? Expected violation. | 1 task, 2 agents |
| `oauth` | Does every token come from one approval, exactly as broad, in time? Does a request or an approval keep its place however full the stores are? | 3 consents, 2 clients, stores of 2, every kind of request |
| `workflow` | Do overlapping and repeated executions share one child per step, in dependency order, with inputs and results that are durable? Does a worker that knows it lost its lease stop? | 3 steps (a join with a reference), 2 workers, 2 claims, 3 children, 2 requests under way |
| `workflow_ends` | Does a workflow leave its workers' hands whatever its children do, unless a body stalls? | 1 step, 2 workers, 3 claims |
| `file_mutation` | Does every answer stay true, are files whole, can an answered request land late? | 2 writes and a mkdir of one path, every failure at every step |
| `helpers` | Is a stopped process group dead, a reported output complete, a departed HTTP client heeded? Does what runs match what was checked? Do documents come from vetted addresses, are all families tried? Is every request answered? | 1 request of any kind, 2 children, 2 and 1 chunks against a limit of 1, one replacement of a file |
| `gateway` | Is every effect of the capability routes authorized, whatever the notation and the route? Do the tool list and the router agree? Are answers about keys true, is the rate kept, is every request answered? | 3 requests, 6 kinds of session and an issued one, 2 sets of providers, 1 token, 3 half seconds |

The bounds are the smallest at which the interesting cases happen: a task that is
claimed, lost, recovered and claimed again needs two generations and a clock that
passes one lease; retention needs one more finished task than it keeps; a full
store needs one more request than it has places. Ids, generations and the clock
are capped by `MaxId`, `MaxGeneration` and `MaxClock`; `MaxGeneration` stands for
the value at which `checked_add` fails, so the boundary itself is checked. In
`workflow` two claims are a first execution and the one that overlaps or repeats
it, three children leave room for one that retention deleted to be created
again, and two requests under way let a stale one meet a current one
(`MaxEpoch`, `MaxChild`, `MaxInFlight`); `workflow_ends` needs a third claim so
that one retry can follow a recovery.

In `helpers` a limit of one chunk (`MaxBytes`) with two chunks from the first
child (`MaxWrites`) gives output below, at and above the limit, on one stream and
on both; two children are the two commands of head and the two attempts of a
discovery; `Discoveries` has timeouts on both sides of the contract's limits, and
`Resolutions` the addresses on both sides of each block, none, too many, repeated
and mixed ones. In `gateway` the `Plans` are: any request after a session was
issued; two submissions of one key, equal or not, and one of another; an HTTP
submission repeated through MCP. A bucket of one token at one per second, three
half seconds (`MaxClock`) and a daemon with room for one task (`MaxActive`) reach
refusal, refill, an ended session and a full queue.

Each property has a mutant in `PROJECT.json`: a version of one definition with a
plausible slip (a dropped condition, an off-by-one, a missing reset) under which
TLC finds the property violated.

### Fairness

* `BrokerFairSpec`, `DaemonFairness`: the maintenance of the daemon
  and of the broker run on timers in endless loops and the watchdog
  (`scripts/tqq-watchdog.sh`) restarts the processes; time passes. Nothing is
  assumed of workers, clients or agents.
* `PollingFairSpec` adds what the connectors' `serve` loops do: an agent whose token
  is known polls again and again, and the gateway finishes the handlers it began.
  Polls use strong fairness since a restart may take the token between two polls.
  Nobody is assumed to register again: `serve` of the Python connector registers
  once and answers a 401 by waiting. So `ClaimReturnsWhilePolled` has the premise
  that some agent keeps coming back with a known token.
* `BodyFairSpec`: `runWorker` and `executeWorkflow` are endless loops of awaited
  calls whose timers cover the request up to the head of its answer, so a worker
  that does not wait for a body takes its next step (weak fairness) and a request
  is answered or given up. Nothing is assumed of bodies: `WorkflowEnds` excepts a
  worker that holds the lease, or all workers, waiting for one for ever. `TimeIsUp`
  has strong fairness: once `maxRunMs` has passed, the comparison at the end of
  every pass stays true, so a run that keeps reaching it does not start passes for
  ever. A heartbeat finds a lost lease (weak fairness), and a lease nobody believes
  in is recovered by the broker. Nothing is assumed of children, crashes or lost
  requests.
* `HelperFairSpec`: Node delivers the events of a child and fires timers, and the
  gateway's own code goes on. Nothing is assumed of programs, descendants,
  clients or operators. A descendant that left the group of a command or of curl
  with the pipes open delays "close" for as long as it likes, so `Answered`
  excepts it; the git runner needs no such exception. One thing is assumed that the
  code does not enforce: the DNS lookup of a discovery
  (`oauth-cimd-discovery.ts:140`) has no timer of its own and ends when the
  system's resolver gives up.
* `GatewayFairSpec`: handlers go on and the timer of `fetchWithTimeout` fires; the
  daemon need not do anything. The timer is cleared when the headers are there,
  so `GatewayAnswers` excepts a response whose body the daemon has begun.

### Disagreements found

1. `connectors/python/README.md` says an unreported claim returns to PENDING by
   itself after 60 seconds. Only a later poll releases it (`agent_silent`); as long
   as some agent polls with a known token it does return (`agent_claims`).
2. The comment in `agent-direct.ts` says a report is verified by task ownership;
   the `UPDATE` names the id alone (`agent_ownership`). A late report for a
   released claim therefore overwrites even CANCELLED. Within the Rust core alone
   a finished task never changes (`ImplementsLifecycle`).

Three more are part of the models, as the code has them, and bound what the
properties claim; no run is spent on them:

* The comment at `agent-direct.ts:18` says that agents register again after a
  restart. The Python connector does not (`agent.py:140`): its agents poll with a
  lost token until they are stopped, hence the premise of
  `ClaimReturnsWhilePolled`.
* The MCP tool of a registered command says it is cancellable
  (`mcp-process.ts:41`) and `PROCESS_PROVIDER.md:143` says that cancellation kills
  the process group. The inner request has no signal (`mcp-process.ts:98`), so the
  command of a client that went away runs on until its timeout; `AbortHeeded` and
  its theorem are about clients of the HTTP route.
* The head of `agent-proxy.ts` (line 14) promises a valid bearer token, as for
  `task.submit`. Neither the proxy nor the access control looks for one; only the
  broker asks for a worker session. `EffectsAuthorized` and its theorem except the
  agents' routes.

One weakness needed an exception in a property: when the gateway dies while it
writes a payload into the helper's pipe, the helper commits the part it received
(`WholeFiles`); a length passed beside the payload would let it refuse.

## 4. The proofs

Every theorem holds for all values of the constants that satisfy the named
assumptions; TLC evaluates those assumptions in the runs. Beyond the types of
numbers they say what the code guarantees of its inputs:

* `DefinitionAssumption` (`WorkflowRun`): a definition has finitely many steps,
  in an order that respects their dependencies;
* `PlacesAssumption` (`HelperRequests`): there is room for two children, which
  head and a discovery use;
* `ResolutionsAssumption` (`CimdDiscovery`) and `HostsAssumption`
  (`HelperRequests`): what `isIP` takes for an address has 4 or 16 bytes;
* `AgentsAssumption`: agent ids and worker sessions are different names;
* `OAuthAssumption`: among others, metadata clients get one fixed scope, and the
  scopes of a pre-registered client map to some authority;
* `GatewayAssumption`: finitely many requests, capability names are unique, the
  routes without access control ask for nothing, no descriptor has the name of an
  agents' route, every task with a policy has a
  descriptor (`validateTaskCapabilityCoverage`), grants and sessions have their
  form, as the parsers make sure;
* `AdmissionAssumption`: rate, burst and ticks are positive.

Few of these properties are inductive by themselves. What each proof has to
carry along:

`TaskQueueProofs`, for every set of sessions, requests and keys, every capacity,
lease, backoff, clock lag and bound:

* `TypeCorrect`: `Spec => []TypeOK`.
* `QueueSafety`: `Spec => []SafetyInv`. A claim must hand out a generation above
  every earlier one, so `GrantsBounded` says grants never run ahead of the fence;
  recovery and retry must keep the fence, so `RunningIsGranted` ties a running row
  to the grant with the fence's generation; retention must not break it, so
  `Referential` and "grants name ids already used" come in; the promise about
  keys needs `AcksBacked`, that a key leads to the newest task acknowledged for
  it. One lemma per transaction; `RowUpdates` serves those that write `tasks` only.
* `LeaseFencing` and `Idempotency` follow.
* `Capacities`: counting by session (`HeldBy`); only `Dispatch` adds to a count,
  within what `Rounded` allows, and a claim keeps a task with the same session.
* `LiveLease` and `Retention` are action properties, proved from the types: a
  reading of the clock never runs ahead of it, and the rows that pruning deletes
  are a final part of the order by age.

* `Refinement`: `Spec => ImplementsLifecycle`. `SeesRow` says what the mapping
  shows of an id: unborn above the sequence, gone without a row, else by the
  status and the owner of the row. Each transaction then is a step of the life
  cycle for the id it writes and invisible for the others; recovery and pruning
  write many rows at once, which the life cycle allows in one step. That a
  finished task never changes and that only the holder finishes a lent one is
  thereby proved of the code.

`WorkerBrokerProofs`: `BrokerRefinesQueue`. The session and lease of a request
in flight and the dispatcher's snapshot may be stale when they are used.
`CarriedInputs` says that they are never invented: a session was registered once,
a presented lease was granted, and grants are never taken back (`GrantsGrow`).
That is all the transactions need, so every step of the broker is a step of
`TaskQueue` or a stutter. `BrokerFencing` is then a corollary, and so is
`BrokerLifecycle`: with `Refinement`, the broker with its stale inputs implements
the abstract life cycle.

`AgentDirectProofs`, for any agents, sessions, tasks, lags and restarts. Agents
break the queue's own invariant: a reported row keeps its owner, a result may
come without a claim. So each theorem is proved from what survives them:

* `ClaimsKept`: `AgentSpec => ClaimKept`. `ClaimInv` says that ids come from the
  sequence and deadlines are times; no Rust transaction writes a CLAIMED row
  (`QueueKeepsClaims`), and a poll that read its clock late releases too little
  rather than too much.
* `FenceBesideAgents`: `LeaseExclusive` and `CancelledIsFenced` hold beside the
  agents. `FenceInv` is `SafetyInv` without locks, results, keys and retries.
  Only a claim lends and only a cancellation cancels; every other step, the
  agents' statements included, is `Lendless`: a row that is RUNNING or CANCELLED
  afterwards was so before, with the same owner.
* `LiveLeaseBesideAgents`: `LiveLeaseKept` holds beside the agents. The put-back
  of a poll writes PENDING to a row it names by id alone; it cannot hit a lease,
  because the row is still CLAIMED (`HandInv`): the gateway runs one handler at a
  time and the Rust transactions in between leave such a row alone.

`WorkflowRunProofs`: `WorkflowSafety` (`RunSpec => []WorkflowInv`). A child is
created from a request that may be old, which was computed from what its sender
had read earlier still. So the invariant follows each piece of knowledge from a
worker's memory (`RunsSound`) into the request (`RequestsSound`), the child
(`ChildrenSound`) and the result (`ResultSound`), and says it is durable:
`Settled` (a child completed or was forgotten) and `Fed` (the input is made of
projections that stay). The lemma `FedStays` shows that completed children and
their projections do not change. `OneChild`, `DurableInputs`, `AgreeingReplays`,
`TrueResult`, `LostRunsStop` and `WithinContract` follow; with `Refinement` the
last one closes the chain from the workflow to the tables.

`OAuthProofs`, for every set of requests, policies and parameters and every
lifetime and size:

* `ConsentLife`: `OAuthSpec => []ConsentInv`. For "one token per approval" it has
  to be known that a consent is in *one place* (pending, code, redemption or
  token), each step moving it on. That the place is backed by an approval needs
  that a request is decided once and that fresh ids are unknown to the history.
  `ShrinkInv` covers the steps that only remove something.
* `OnlyByConsent` and `OneTokenPerConsent` follow.
* `RedeemedInTime`, `NoCodeRefused` and `ExactGrants` need `FlowInv`: deadlines
  measured from the approval along the whole flow (`Timely`), requests that were
  validated when they came in (`Vetted`), and grants that are what the approved
  scopes derive (`Scoped`). That a derived grant allows exactly what its scopes
  require is a lemma on `CapabilityGrants`.
* `ConsentsKept`: `OAuthSpec => ConsentKept`, step by step: the purge takes only
  what expired, a full store refuses the newcomer, and a decided request leaves by
  its own continuation, which yields a code unless the redirect cannot be built or
  live codes take all the room.

`FileMutationProofs`, for any requests, paths and directories:

* `MutationSafety`: `MutationSpec => []MutationInv`. It has to be known that a
  definite answer is the word of a helper that exited (`AnswersBacked`), that a
  stage tells what was done to the directory (`StagesBacked`), and that a payload
  is cut only by the death of a gateway that had not answered for sure
  (`PayloadsTraced`). `Landed` is the lemma on the log; `LandInv` serves both
  kinds of commit.
* `HonestAnswers`, `Whole` and `InOrder` follow.

`HelperRequestsProofs`, for any number of children and amount of output:
`HelperInv` says of each child what its runner's decision implies for the leader,
its descendants and the pipes (`Alive`), that output is within the limit as long
as nothing was decided (`Within`), and of a registered command what has been
checked by the stage it is in (`CallSound`, `Checked`). One lemma per event of a
child serves all three runners. `StoppedGroups`, `CompleteAnswers`,
`AbortsHeeded` (of clients of the HTTP route) and `RegisteredRuns` follow. On the
discovery:

* `AddressesJudged`: for every address, `SpecialUse` agrees with `Reserved`. A
  mask on a byte keeps its first bits (`High`, `SameBits`), a prefix of bytes and
  bits is a sequence of bits (`SameStart`), and each test of the code is one of
  the blocks.
* `DiscoveryInv` says of a discovery, by the stage it is in, which addresses are
  vetted (`DiscoveryPlaced`), that its answer is about them (`AnswerVetted`), and
  that every attempt before the current one has failed (`Tried`).
  `DocumentsVetted` follows with `AddressesJudged`. `FallbacksTried` also needs
  that the attempts reach every family of the resolution (`Reaches`), and that
  the share of each attempt of any accepted timeout is one curl may be given
  (`AlwaysAccepted`): otherwise a discovery could fail without having tried.

`GatewayAccessProofs`, for any registry, policies, grants, sessions and requests:

* `RequestsSound` says of each request what was decided by the stage it is in:
  the authorization is that of a bearer which was valid then (`AuthSound`), the
  route was cleared and the type of a task too (`RouteSound`), a tool was
  callable (`McpSound`), and an answer of the daemon is about the task of this
  request (`WireSound`). It stays true while sessions are issued, tasks are
  created and time passes (`Grows`). `HonestTools`, `AuthorizedEffects` (of all
  routes but the agents', which ask for no such bearer) and `TrueAcceptance` follow.
* `HonestAdmission` needs `AdmissionInv`: what was admitted since any decision,
  with what is left in the bucket, is at most a full bucket and the refill since
  (`Spent`); while nobody is admitted, what a refused client was told to wait for
  makes up for what is missing (`Saved`); and every request that may still become
  a task (`Credits`) was admitted besides those that did.

TLC evaluated the inductive invariants on the instances of the runs while the
proofs were made. `SafetyInv` is also a property of a run.

Only model-checked:

* liveness, which is beyond the prover: `LeaseEnds`, `ClaimReturnsWhilePolled`,
  `WorkflowEnds`, `Answered`, `GatewayAnswers`.

All other properties of the passing runs are theorems. The expected violations are
`ClaimReturns` (with silent agents) and `ReportByOwner`.

## 5. Not modelled, and the plan

Not modelled by choice: HTTP, JSON and URL syntax, limits on sizes,
configuration, the development mode without a root token, logging, read-only
queries and the reading of files, the floating-point iteration, encoding and
signing of tokens, installers and examples. The unfenced methods of
`RobustSinkhornQueue` and the in-process runtime are not part of the deployment.
The listing of registered processes in the tool list and the catalogue is left
out; their calls are modelled.

Known weaknesses that no property states, because the code makes no promise there:

* candidates are cut to the free slots before they are matched with workers
  (`src/worker_protocol.rs:390`), so tasks nobody free can take may hide others;
  a poll looks at the first pending agent task only (`agent-direct.ts:61`);
* a worker may register more slots than it executes at once
  (`workers/document-bun/src/worker.ts:125`), and a worker that lost its lease
  still renames its result file over another's (`processor.ts:125`);
* cancelling a workflow leaves its submitted children running
  (`workflows.ts:258`), and a FAILED child keeps its key, so retries of the
  workflow fail with it (`workflow-handler.ts:502`);
* a decision is consumed before its code is issued
  (`oauth-authorization-api.ts:319`), so a full code store loses an approval (the
  exception of `ConsentKept`);
* the two reads of head are not one snapshot (`git-api.ts:356`): sha and branch
  may come from two moments;
* the catalogue calls a task executable by the task's own descriptor, although
  submitting it also needs `task.submit` (`capability-api.ts:84`); the MCP tool
  list asks for both.

Next, in this order:

1. **Proofs**: idempotent acknowledgements and retention beside the polling agents.
2. **Worker loop, the rest**: registration after a 401, the session heartbeat of
   an idle worker and the other handlers of `workers/document-bun`, composed with
   `WorkerBroker`; result files.
3. **Rust gateway** (`gateway-rs/`): the second implementation of agent polling.
4. **Dispatch algorithm**: the greedy rounding as an operator, checked against
   `Rounded` as its reference definition.
5. **Operations** (`ops/termux-reference-machine.sh`, `scripts/tqq-watchdog.sh`):
   start, stop and recovery of the processes.
