---------------------------- MODULE GitMetadata ----------------------------
(***************************************************************************)
(* The git metadata routes (git-api.ts): GET /v1/git/head, log and refs,   *)
(* and the probe behind the capability catalogue.  Each operation          *)
(* validates the configured repository and binary, runs one git command    *)
(* and parses what it printed; head runs two at once and waits for both.   *)
(* A command that exits with an error is an answer of head ("no such       *)
(* thing": an unborn branch, a detached HEAD), every other failure is not. *)
(*                                                                         *)
(* What git prints and how it exits is arbitrary (external).               *)
(***************************************************************************)
EXTENDS ChildRunner, FiniteSets

VARIABLE git    \* [op, step per job, result per job, answer]

Operations == {"head", "log", "refs", "probe"}

\* The jobs of an operation: rev-parse and symbolic-ref for head.
JobsOf(op) == IF op = "head" THEN {1, 2} ELSE {1}

GitRequest(op) ==
    [op |-> op, step |-> [j \in JobsOf(op) |-> "validate"],
     result |-> [j \in JobsOf(op) |-> "none"], answer |-> 0]

NoGit == [op |-> "none", step |-> <<>>, result |-> <<>>, answer |-> 0]

\* invokeGit: the provider is validated after a few awaits; without it the
\* command is not run.
GitInvoke(j) ==
    /\ j \in DOMAIN git.step /\ git.step[j] = "validate"
    /\ \/ /\ git' = [git EXCEPT !.step[j] = "done", !.result[j] = "unavailable"]
          /\ UNCHANGED job
       \/ /\ git' = [git EXCEPT !.step[j] = "run"]
          /\ \E c \in Spawned("git") \cup {SpawnThrows("git")} : job' = [job EXCEPT ![j] = c]

\* The promise of the runner resolves.  Output that does not parse (parseHash,
\* parseLog, parseRefs, the branch name, the probe's path) is "malformed".
GitResult(j) ==
    /\ j \in DOMAIN git.step /\ git.step[j] = "run"
    /\ job[j].answer # "none"
    /\ \E parsed \in IF job[j].answer = "ok" THEN {"ok", "malformed"} ELSE {job[j].answer} :
          git' = [git EXCEPT !.step[j] = "done", !.result[j] = parsed]
    /\ UNCHANGED job

\* mapGitFailure, and the invalid_git_response of the parsers.
GitStatus ==
    [ok |-> 200, failed |-> 502, malformed |-> 502, invalid |-> 502, unavailable |-> 503,
     timeout |-> 504, too_large |-> 502]

\* handleHead: the first of the two, sha before branch, that is neither a value
\* nor a failed command decides; two failed commands are a failure.
HeadStatus(sha, branch) ==
    IF sha \notin {"ok", "malformed", "failed"} THEN GitStatus[sha]
    ELSE IF branch \notin {"ok", "malformed", "failed"} THEN GitStatus[branch]
    ELSE IF "malformed" \in {sha, branch} THEN 502
    ELSE IF {sha, branch} = {"failed"} THEN GitStatus[sha]
    ELSE 200

GitAnswer ==
    /\ git.op # "none" /\ git.answer = 0
    /\ \A j \in DOMAIN git.step : git.step[j] = "done"
    /\ git' = [git EXCEPT !.answer =
                  CASE git.op = "head"  -> HeadStatus(git.result[1], git.result[2])
                    [] git.op = "probe" -> IF git.result[1] = "ok" THEN 200 ELSE 503
                    [] OTHER            -> GitStatus[git.result[1]]]
    /\ UNCHANGED job

GitNext == GitAnswer \/ \E j \in Jobs : GitInvoke(j) \/ GitResult(j)
=============================================================================
