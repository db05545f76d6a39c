-------------------------- MODULE HelperRequests ---------------------------
(***************************************************************************)
(* A request that is served by running programs: a registered command, a   *)
(* git operation or a discovery, with the runner they have in common, the  *)
(* programs, their descendants, and clients that go away.  Requests of     *)
(* different kinds share nothing, so one is looked at at a time.           *)
(***************************************************************************)
EXTENDS RegisteredProcess, GitMetadata, CimdDiscovery

CONSTANTS
    Commands,       \* names that may be called
    Discoveries     \* bound: <<client id, transport, timeout>> looked at

\* A request has at most two children at once (git's head), in the places 1 and 2.
ASSUME PlacesAssumption == {1, 2} \subseteq Jobs

\* The host of a client identifier is an address or a name.
ASSUME HostsAssumption == \A d \in Discoveries : d[1].host \in Addresses \cup {NotIp}

helperVars == <<job, registry, program, changes, call, git, disc>>

HelperInit ==
    /\ RunnerInit
    /\ \/ /\ ProcessInit
          /\ call \in UNION {Requested(name) : name \in Commands}
          /\ git = NoGit /\ disc = NoDiscovery
       \/ /\ registry = <<>> /\ program = NoProgram /\ changes = 0 /\ call = Idle
          /\ git \in {GitRequest(op) : op \in Operations}
          /\ disc = NoDiscovery
       \/ /\ registry = <<>> /\ program = NoProgram /\ changes = 0 /\ call = Idle
          /\ git = NoGit
          /\ disc \in {Discovery(d[1], d[2], d[3]) : d \in Discoveries}

HelperNext ==
    \/ \E j \in Jobs : RunnerStep(j) /\ UNCHANGED <<process, git, disc>>
    \/ ProcessNext /\ UNCHANGED <<git, disc>>
    \/ GitNext /\ UNCHANGED <<process, disc>>
    \/ CimdNext /\ UNCHANGED <<process, git>>

HelperSpec == HelperInit /\ [][HelperNext]_helperVars

\* Node delivers events and fires timers, and the gateway's own code goes on.
\* Nothing is assumed of a program, its descendants or the client.
RunnerFairness(j) ==
    /\ WF_helperVars(SpawnError(j) /\ UNCHANGED <<process, git, disc>>)
    /\ WF_helperVars(Timeout(j) /\ UNCHANGED <<process, git, disc>>)
    /\ WF_helperVars(Close(j) /\ UNCHANGED <<process, git, disc>>)
    /\ \A s \in Streams : WF_helperVars(Data(j, s) /\ UNCHANGED <<process, git, disc>>)

HelperFairness ==
    /\ \A j \in Jobs : RunnerFairness(j)
    /\ WF_helperVars(ProcessGateway /\ UNCHANGED <<git, disc>>)
    /\ WF_helperVars(GitNext /\ UNCHANGED <<process, disc>>)
    /\ WF_helperVars(CimdNext /\ UNCHANGED <<process, git>>)

HelperFairSpec == HelperSpec /\ HelperFairness

-----------------------------------------------------------------------------
Running(c) == c.leader \in {"helper", "alive"}

\* A descendant that left the process group has the pipes open.
Escaped(c) == c.runner \in {"process", "curl"} /\ c.holds /\ c.away

\* Once a runner of a process group has decided to stop it (timer, cancelled
\* request, too much output), no process of the group is alive, neither the
\* child nor a descendant that is still a member, and none appears later.
StoppedGroupDead ==
    \A j \in Jobs : LET c == job[j] IN
        c.runner \in {"process", "curl"} /\ c.term # "none" =>
            ~Running(c) /\ (c.kin = "alive" => c.away)

\* An answer that reports how the program ended is given when all that the
\* program and its descendants will ever write has been read, and it fits.
AnswerComplete ==
    \A j \in Jobs : LET c == job[j] IN
        c.answer \in {"ok", "failed", "invalid"} =>
            /\ c.read = c.written
            /\ ~Running(c) /\ ~c.holds
            /\ IF c.runner = "process" THEN Total(c.written) <= MaxBytes
               ELSE \A s \in Streams : c.written[s] <= MaxBytes
            /\ c.answer # "failed" <=> c.code = "zero"

\* A client of POST /v1/process/<name> that goes away, at whatever moment of the
\* request, leaves no command running: not when the signal comes before the
\* process exists, not between the last look at it and the listener.  (A client of
\* the MCP tool does, though the tool says that it is cancellable: the request it
\* makes of the gateway carries no signal.)
AbortHeeded == Signalled => ~Running(job[1])

\* A program that runs is a native executable that is the very file the helper
\* inspected, and the command was within the grant by the registry the run was
\* started from, whatever was edited or installed since the request came in.
RunsAsRegistered ==
    call.image # NoProgram =>
        /\ Canonical(call.image) /\ call.image.id = call.seen.id
        /\ call.entry.name = call.name
        /\ ValidPolicy(call.entry)
        /\ Allowed(call.grant, Capability(call.entry))

\* A discovered client's document came from an address its own name resolved
\* to, none of the addresses of that resolution is in a reserved block, and the
\* document names the identifier that was asked for.  A resolution is refused
\* only for such an address, for something that is no address, or for its size.
DocumentVetted ==
    /\ disc.pc = "done" /\ disc.answer = "ok" =>
          /\ disc.document = disc.id.url
          /\ \E i \in DOMAIN disc.resolved : disc.resolved[i].ip = disc.peer
          /\ \A i \in DOMAIN disc.resolved : ~Reserved(disc.resolved[i].ip)
    /\ disc.pc = "done" /\ disc.answer = "unsafe_resolution" =>
          \/ Len(disc.resolved) \notin 1..16
          \/ \E i \in DOMAIN disc.resolved :
                disc.resolved[i].ip = NotIp \/ Reserved(disc.resolved[i].ip)

\* A discovery that fails because curl failed has tried an address of every
\* family of the resolution; in particular no timeout the discovery accepts
\* makes it give up before the first attempt.
FallbackTried ==
    disc.pc = "done" /\ disc.cause \in {"contract", "exhausted"} =>
        \A i \in DOMAIN disc.resolved : \E j \in Jobs \cap DOMAIN disc.attempts :
            /\ job[j].answer \notin {"none", "ok"}
            /\ \E ip \in disc.attempts[j] : ip.version = disc.resolved[i].ip.version

Answering ==
    \/ call.pc \notin {"none", "answered"}
    \/ git.op # "none" /\ git.answer = 0
    \/ disc.pc \notin {"none", "done"}

\* Every request is answered, however the programs behave, unless a descendant
\* left the process group of a command or of curl with the pipes open: "close"
\* does not come before it lets go of them.
Answered == Answering ~> (~Answering \/ \E j \in Jobs : Escaped(job[j]))
=============================================================================
