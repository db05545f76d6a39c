---------------------------- MODULE ChildRunner ----------------------------
(***************************************************************************)
(* How the gateway runs a program: runRegisteredProcess                    *)
(* (process-substrate.ts), runCimdCurlCommand                              *)
(* (oauth-cimd-curl-transport.ts) and defaultGitMetadataRunner             *)
(* (git-api.ts).  Each spawns a child with two pipes, collects what comes  *)
(* out, and resolves its promise once.  The first two make the child the   *)
(* leader of a process group, kill the group when they give up, and answer *)
(* only when Node reports "close"; the third kills its child and answers   *)
(* at once.                                                                *)
(*                                                                         *)
(* The operating system and Node are external: a killed process takes no   *)
(* further step, and "close" comes when the child has exited, no process   *)
(* has the pipes open any more, and all that was written has been handed   *)
(* to the "data" handlers.  The child may leave a descendant behind        *)
(* ("kin"), which inherits the pipes, may close them, and may leave the    *)
(* group.  Output is counted in chunks.                                    *)
(***************************************************************************)
EXTENDS Integers

CONSTANTS
    Jobs,       \* places for child processes
    MaxBytes,   \* what a runner accepts of the output
    MaxWrites   \* bound: chunks each child and its kin write

ASSUME RunnerAssumption == MaxBytes \in Nat \ {0} /\ MaxWrites \in [Jobs -> Nat]

VARIABLE job    \* [Jobs -> Job], the children and their runners' local state

Streams == {"stdout", "stderr"}

Stops == {"timeout", "cancelled", "too_large"}

Job == [runner  : {"none", "process", "curl", "git"},
        leader  : {"none", "failed", "helper", "alive", "exited"},
        code    : {"none", "zero", "nonzero", "signal"},
        kin     : {"none", "alive", "dead"},
        holds   : BOOLEAN,                  \* kin has the pipes open
        away    : BOOLEAN,                  \* kin left the process group
        written : [Streams -> Nat],
        read    : [Streams -> Nat], \* stdoutBytes, stderrBytes
        term    : {"none"} \cup Stops,      \* terminationError
        answer  : {"none", "ok", "failed", "invalid", "unavailable"} \cup Stops]

NoJob == [runner |-> "none", leader |-> "none", code |-> "none", kin |-> "none",
          holds |-> FALSE, away |-> FALSE,
          written |-> [s \in Streams |-> 0], read |-> [s \in Streams |-> 0],
          term |-> "none", answer |-> "none"]

RunnerInit == job = [j \in Jobs |-> NoJob]

\* The promise is not settled yet.
Pending(j) == job[j].runner # "none" /\ job[j].answer = "none"

Total(count) == count["stdout"] + count["stderr"]

-----------------------------------------------------------------------------
\* Mutant: only the child is killed, as child.kill() would.
KillProcessGroupLeaderOnly(c) ==
    [c EXCEPT !.leader = IF @ \in {"helper", "alive"} THEN "exited" ELSE @,
              !.code   = IF c.leader \in {"helper", "alive"} THEN "signal" ELSE @]

\* killProcessGroup: SIGKILL to the child and to what is left of its group.
\* (The fallback to child.kill finds no process left to kill.)
KillProcessGroup(c) ==
    [c EXCEPT !.leader = IF @ \in {"helper", "alive"} THEN "exited" ELSE @,
              !.code   = IF c.leader \in {"helper", "alive"} THEN "signal" ELSE @,
              !.kin    = IF @ = "alive" /\ ~c.away THEN "dead" ELSE @,
              !.holds  = @ /\ c.away]

\* child.kill("SIGKILL") of the git runner.
KillChild(c) ==
    [c EXCEPT !.leader = IF @ = "alive" THEN "exited" ELSE @,
              !.code   = IF c.leader = "alive" THEN "signal" ELSE @]

\* terminate(error): the first reason to stop is the one that is answered,
\* after "close".  The git runner answers without waiting.
Terminate(c, error) ==
    IF c.runner = "git"
    THEN [KillChild(c) EXCEPT !.answer = IF @ = "none" THEN error ELSE @]
    ELSE IF c.answer # "none" \/ c.term # "none" THEN c
    ELSE [KillProcessGroup(c) EXCEPT !.term = error]

\* One limit for both streams of a registered process, one for each otherwise.
Overflows(c, s) ==
    IF c.runner = "process" THEN Total(c.read) > MaxBytes ELSE c.read[s] > MaxBytes

-----------------------------------------------------------------------------
\* spawn: the child runs (a registered process starts as the helper), or an
\* "error" event is on its way.
Spawned(runner) ==
    {[NoJob EXCEPT !.runner = runner, !.leader = l] :
        l \in {IF runner = "process" THEN "helper" ELSE "alive", "failed"}}

\* spawn throws.
SpawnThrows(runner) == [NoJob EXCEPT !.runner = runner, !.answer = "unavailable"]

\* Mutant: the "error" event is logged and not answered.
SpawnErrorLogged(j) ==
    /\ Pending(j)
    /\ job[j].leader = "failed"
    /\ UNCHANGED job

\* The "error" event of a child that could not be started.
SpawnError(j) ==
    /\ Pending(j)
    /\ job[j].leader = "failed"
    /\ job' = [job EXCEPT ![j].answer = "unavailable"]

\* A "data" event.  What arrives after the runner gave up is dropped.
Data(j, s) ==
    LET c == [job[j] EXCEPT !.read[s] = @ + 1]
    IN  /\ Pending(j)
        /\ job[j].read[s] < job[j].written[s]
        /\ job' = [job EXCEPT ![j] = IF c.term = "none" /\ Overflows(c, s)
                                     THEN Terminate(c, "too_large") ELSE c]

\* The timer, which finish clears.
Timeout(j) ==
    /\ Pending(j)
    /\ job[j].term = "none"
    /\ job' = [job EXCEPT ![j] = Terminate(@, "timeout")]

\* Mutant: "exit" is taken for the end of the output.
ClosableAtExit(c) == c.leader = "exited"

\* Node reports "close".
Closable(c) ==
    /\ c.leader = "exited"
    /\ ~c.holds
    /\ c.read = c.written

\* The answers of the "close" handler.  Only git's output must be UTF-8.
CloseAnswers(c) ==
    IF c.term # "none" THEN {c.term}
    ELSE IF c.code # "zero" THEN {"failed"}
    ELSE IF c.runner = "git" THEN {"ok", "invalid"} ELSE {"ok"}

Close(j) ==
    /\ Pending(j)
    /\ Closable(job[j])
    /\ \E a \in CloseAnswers(job[j]) : job' = [job EXCEPT ![j].answer = a]

-----------------------------------------------------------------------------
\* What the program does: write, leave a descendant behind, exit, be killed by
\* somebody else; what the descendant does.  All of it is followed until the
\* runner has answered, and groups only where the runner made one.
Write(j, s) ==
    /\ Pending(j)
    /\ job[j].leader = "alive" \/ job[j].holds
    /\ Total(job[j].written) < MaxWrites[j]
    /\ job' = [job EXCEPT ![j].written[s] = @ + 1]

Fork(j) ==
    /\ Pending(j)
    /\ job[j].leader = "alive"
    /\ job[j].kin = "none"
    /\ job' = [job EXCEPT ![j].kin = "alive", ![j].holds = TRUE]

Exit(j) ==
    /\ Pending(j)
    /\ job[j].leader = "alive"
    /\ \E code \in {"zero", "nonzero", "signal"} :
          job' = [job EXCEPT ![j].leader = "exited", ![j].code = code]

KinCloses(j) ==
    /\ Pending(j)
    /\ job[j].holds
    /\ job' = [job EXCEPT ![j].holds = FALSE]

KinLeaves(j) ==
    /\ Pending(j) /\ job[j].runner # "git"
    /\ job[j].kin = "alive"
    /\ ~job[j].away
    /\ job' = [job EXCEPT ![j].away = TRUE]

KinExits(j) ==
    /\ Pending(j)
    /\ job[j].kin = "alive"
    /\ job' = [job EXCEPT ![j].kin = "dead", ![j].holds = FALSE]

\* One step of a child or of its runner.
RunnerStep(j) ==
    \/ SpawnError(j) \/ Timeout(j) \/ Close(j)
    \/ Fork(j) \/ Exit(j) \/ KinCloses(j) \/ KinLeaves(j) \/ KinExits(j)
    \/ \E s \in Streams : Data(j, s) \/ Write(j, s)
=============================================================================
