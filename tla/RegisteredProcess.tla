------------------------- MODULE RegisteredProcess -------------------------
(***************************************************************************)
(* Operator-registered commands: POST /v1/process/<name> (process-api.ts), *)
(* the MCP tools that stand for them (mcp-process.ts), the registry file   *)
(* and the runner's checks (process-substrate.ts), and the Rust helper     *)
(* that opens and executes the program (process_exec.rs).                  *)
(*                                                                         *)
(* The registry file and the program at the registered path may be         *)
(* replaced at any moment; nothing is cached, every request loads the      *)
(* registry again, an MCP call twice.  The program is opened by the helper *)
(* and executed by descriptor.  Loading and validating the registry is one *)
(* step: what changes during it might as well change after it.             *)
(***************************************************************************)
EXTENDS ChildRunner, CapabilityGrants, SequencesExt

CONSTANTS
    RegistryFiles,  \* what the registry file may contain: sequences of entries
                    \* [name, authority, mutates, scope, outside]
    ScopeOf,        \* [names -> Scopes], process.command.<name>
    Programs,       \* what may be at the path: [id, native, executable, symlink]
    Grants,         \* grants of the bearer tokens; NoGrant for an invalid one
    NoGrant,
    MaxChanges      \* bound: replacements of the file and of the program

VARIABLES
    registry,   \* the content of the registry file
    program,    \* the file at the registered path
    changes,    \* replacements so far
    call        \* the request

process == <<registry, program, changes, call>>

NoEntry == [name |-> "", authority |-> "", mutates |-> FALSE, scope |-> "", outside |-> FALSE]

NoProgram == [id |-> 0, native |-> FALSE, executable |-> FALSE, symlink |-> FALSE]

\* A request for a command.  "plain" is one without query, body or arguments.
Idle == [pc |-> "none", via |-> "http", name |-> "", plain |-> TRUE, grant |-> NoGrant,
         provider |-> {}, entry |-> NoEntry, gone |-> FALSE,
         seen |-> NoProgram, opened |-> NoProgram, image |-> NoProgram, answer |-> 0]

ProcessInit ==
    /\ registry \in RegistryFiles
    /\ program \in Programs
    /\ changes = 0

Request(name, pc, plain, grant) ==
    [Idle EXCEPT !.pc = pc, !.via = IF pc = "tools/call" THEN "mcp" ELSE "http",
                 !.name = name, !.plain = plain, !.grant = grant]

Requested(name) ==
    {Request(name, pc, plain, grant) :
        pc \in {"tools/call", "route"}, plain \in BOOLEAN, grant \in Grants}

-----------------------------------------------------------------------------
\* validateProcessPolicy
ValidPolicy(e) ==
    /\ e.authority \in {"invoke", "mutate_scoped"}
    /\ e.mutates <=> e.authority = "mutate_scoped"
    /\ e.scope = ScopeOf[e.name]

\* validateCanonicalNativeExecutable
Canonical(p) == p.native /\ p.executable /\ ~p.symlink

\* loadRegisteredProcessProvider: the commands, or none at all when any part of
\* the file is not in order.
Load(file, p) ==
    IF /\ file # <<>>
       /\ \A i \in DOMAIN file : ValidPolicy(file[i]) /\ file[i].outside
       /\ \A i, k \in DOMAIN file : file[i].name = file[k].name => i = k
       /\ Canonical(p)
    THEN ToSet(file) ELSE {}

\* registeredProcessCapability, evaluateRegisteredProcessGrant
Capability(e) ==
    [required |-> {e.scope}, minDepth |-> 5, minAuthority |-> IF e.authority = "invoke" THEN 1 ELSE 3]

Named(provider, name) == {e \in provider : e.name = name}

\* The runner sees the departure of the client: the route passes the request's
\* own signal on, the inner request of an MCP call has none.
Signalled == call.gone /\ call.via = "http"

Answer(status) == [call EXCEPT !.pc = "answered", !.answer = status]

-----------------------------------------------------------------------------
\* tools/call (processDescriptorForCall): the command must be registered and
\* within the grant now; then the request is sent through the router, where it
\* is checked again.  The inner request has no abort signal: it is not told that
\* the client of the outer one has gone.
McpCall ==
    LET found == {e \in Named(Load(registry, program), call.name) : Allowed(call.grant, Capability(e))}
    IN  /\ call.pc = "tools/call"
        /\ call' = IF call.grant = NoGrant THEN Answer(401)
                   ELSE IF found = {} \/ ~call.plain THEN Answer(-32602)
                   ELSE [call EXCEPT !.pc = "route"]
        /\ UNCHANGED <<registry, program, changes, job>>

\* handleRegisteredProcessRequest up to the provider.
Route ==
    /\ call.pc = "route"
    /\ call' = IF ~call.plain THEN Answer(400)
               ELSE IF call.grant = NoGrant THEN Answer(401)
               ELSE [call EXCEPT !.pc = "load"]
    /\ UNCHANGED <<registry, program, changes, job>>

LoadProvider ==
    /\ call.pc = "load"
    /\ LET provider == Load(registry, program)
       IN  call' = IF provider = {} THEN Answer(503)
                   ELSE [call EXCEPT !.pc = "check", !.provider = provider]
    /\ UNCHANGED <<registry, program, changes, job>>

\* Mutant: an MCP call has been checked before.
DeniedUnlessMcp(e) == call.via = "http" /\ ~Allowed(call.grant, Capability(e))

Denied(e) == ~Allowed(call.grant, Capability(e))

\* The command is looked up in the registry that was loaded and checked against
\* the grant; so does runRegisteredProcess, synchronously, and it looks at the
\* abort signal.
Check ==
    LET found == Named(call.provider, call.name)
    IN  /\ call.pc = "check"
        /\ call' = IF found = {} THEN Answer(404)
                   ELSE LET e == CHOOSE e \in found : TRUE
                        IN  IF Denied(e) THEN Answer(403)
                            ELSE IF Signalled THEN Answer(409)
                            ELSE [call EXCEPT !.pc = "spawn", !.entry = e]
        /\ UNCHANGED <<registry, program, changes, job>>

\* Mutant: the signal is not looked at again once the listener is there.
StartedUnchecked(c) == c

\* After the awaits: the listener is added and the signal looked at once more.
Started(c) == IF Signalled THEN Terminate(c, "cancelled") ELSE c

\* The helper binary is validated (or is not there), then spawned.
SpawnHelper ==
    /\ call.pc = "spawn"
    /\ \/ call' = Answer(503) /\ UNCHANGED job
       \/ /\ call' = [call EXCEPT !.pc = "running"]
          /\ \/ \E c \in Spawned("process") : job' = [job EXCEPT ![1] = Started(c)]
             \/ job' = [job EXCEPT ![1] = SpawnThrows("process")]
    /\ UNCHANGED <<registry, program, changes>>

\* The client goes away, or cancels its call.  The runner's listener is there
\* once the process runs, and fires only for a client of the route.
Abort ==
    /\ call.pc \notin {"none", "answered"}
    /\ ~call.gone
    /\ call' = [call EXCEPT !.gone = TRUE]
    /\ job' = IF call.pc = "running" /\ call.via = "http"
              THEN [job EXCEPT ![1] = Terminate(@, "cancelled")] ELSE job
    /\ UNCHANGED <<registry, program, changes>>

\* resultResponse
Status ==
    [ok |-> 200, failed |-> 422, unavailable |-> 503, timeout |-> 504, cancelled |-> 409,
     too_large |-> 502]

ProcessAnswer ==
    /\ call.pc = "running"
    /\ job[1].answer # "none"
    /\ call' = Answer(Status[job[1].answer])
    /\ UNCHANGED <<registry, program, changes, job>>

-----------------------------------------------------------------------------
\* The helper, exec_fd_bound: a snapshot of the file's identity; open without
\* following links, compare, read the magic number; execute the descriptor.
Helper == call.pc = "running" /\ job[1].leader = "helper"

\* It prints what is wrong and exits with 70.
HelperFails ==
    /\ job' = [job EXCEPT ![1].leader = "exited", ![1].code = "nonzero",
                          ![1].written["stderr"] = @ + 1]
    /\ UNCHANGED <<registry, program, changes, call>>

HelperSnapshot ==
    /\ Helper /\ call.seen = NoProgram
    /\ \/ (~program.executable \/ program.symlink) /\ HelperFails
       \/ /\ program.executable /\ ~program.symlink
          /\ call' = [call EXCEPT !.seen = program]
          /\ UNCHANGED <<registry, program, changes, job>>

Acceptable(p) == Canonical(p) /\ p.id = call.seen.id

HelperOpen ==
    /\ Helper /\ call.seen # NoProgram /\ call.opened = NoProgram
    /\ \/ ~Acceptable(program) /\ HelperFails
       \/ /\ Acceptable(program)
          /\ call' = [call EXCEPT !.opened = program]
          /\ UNCHANGED <<registry, program, changes, job>>

\* Mutant: the program is executed by its path.
ImageByPath == program

Image == call.opened

\* The directory cannot be opened, or execveat fails; or the program runs.
HelperExec ==
    /\ Helper /\ call.opened # NoProgram
    /\ \/ HelperFails
       \/ /\ job' = [job EXCEPT ![1].leader = "alive"]
          /\ call' = [call EXCEPT !.image = Image]
          /\ UNCHANGED <<registry, program, changes>>

-----------------------------------------------------------------------------
\* The operator edits the registry or installs another program.
ReplaceRegistry ==
    /\ changes < MaxChanges
    /\ registry' \in RegistryFiles \ {registry}
    /\ changes' = changes + 1
    /\ UNCHANGED <<program, call, job>>

ReplaceProgram ==
    /\ changes < MaxChanges
    /\ program' \in Programs \ {program}
    /\ changes' = changes + 1
    /\ UNCHANGED <<registry, call, job>>

ProcessGateway == McpCall \/ Route \/ LoadProvider \/ Check \/ SpawnHelper \/ ProcessAnswer

ProcessHelper == HelperSnapshot \/ HelperOpen \/ HelperExec

ProcessNext ==
    /\ call.pc \notin {"none", "answered"}
    /\ ProcessGateway \/ ProcessHelper \/ Abort \/ ReplaceRegistry \/ ReplaceProgram
=============================================================================
