---------------------------- MODULE FileMutation ----------------------------
(***************************************************************************)
(* filesystem.write and filesystem.mkdir: the gateway starts one helper    *)
(* process per request, hands it the payload through a pipe, and answers   *)
(* from its exit or from a timer.  The helper replaces a file by writing a *)
(* temporary one and renaming it.  Helpers of several requests, timeouts,  *)
(* I/O errors, the death of the gateway and a loss of power interleave.    *)
(*                                                                         *)
(* All requests are for entries of one directory.  entries[p] is the log   *)
(* of what path p held, of which the first persisted[p] survive a loss of  *)
(* power; the later ones may or may not.                                   *)
(***************************************************************************)
EXTENDS Naturals, Sequences, FiniteSets

CONSTANTS
    Requests,       \* the requests of a behaviour
    Paths,
    PathOf,         \* [Requests -> Paths]
    Directories     \* the requests that are filesystem.mkdir

ASSUME RequestAssumption ==
    /\ PathOf \in [Requests -> Paths]
    /\ Directories \subseteq Requests

VARIABLES
    answer,     \* request -> what the client was told
    helper,     \* request -> stage of its helper process
    fed,        \* request -> how much of the payload went into its pipe
    read,       \* request -> what the helper read from it
    entries,    \* path -> log of its entries
    persisted,  \* path -> number of entries that survive a loss of power
    synced,     \* requests whose temporary file was synced
    landed,     \* history: requests that changed the directory
    ordered     \* history: <<r, q>>, r had a definite answer before q began

files == <<entries, persisted, synced, landed>>
mvars == <<answer, helper, fed, read, files, ordered>>

\* The answers, by what they say: written and durable; committed, durability
\* unknown; failed before the commit; refused; outcome unknown.  A request
\* whose gateway died gets none.
Answers == {"none", "synced", "committed", "failed", "refused", "unknown", "unanswered"}
Definite == {"synced", "committed", "failed", "refused"}

Running == {"reading", "ready", "created", "written", "renamed"}
Exits == {"ok", "rejected", "mutation_io_error", "committed_durability_unknown", "no_proof"}

Entry == [by : Requests, data : {"whole", "prefix", "lost"}]

MutationTypeOK ==
    /\ answer \in [Requests -> Answers]
    /\ helper \in [Requests -> {"none"} \cup Running \cup Exits]
    /\ fed \in [Requests -> {"part", "all", "cut"}]
    /\ read \in [Requests -> {"none", "whole", "prefix"}]
    /\ entries \in [Paths -> Seq(Entry)]
    /\ persisted \in [Paths -> Nat]
    /\ \A p \in Paths : persisted[p] <= Len(entries[p])
    /\ synced \subseteq Requests
    /\ landed \subseteq Requests
    /\ ordered \subseteq Requests \X Requests

-----------------------------------------------------------------------------
(* The gateway.                                                            *)

\* handleFilesystemMutationRequest: the request is malformed, or invokeMutator
\* finds no helper or cannot start it.
Refuse(r) ==
    /\ answer[r] = "none"
    /\ helper[r] = "none"
    /\ answer' = [answer EXCEPT ![r] = "refused"]
    /\ UNCHANGED <<helper, fed, read, files, ordered>>

\* The helper is spawned.  It reads the payload of a write only.
Begin(r) ==
    /\ answer[r] = "none"
    /\ helper[r] = "none"
    /\ helper' = [helper EXCEPT ![r] = IF r \in Directories THEN "ready" ELSE "reading"]
    /\ ordered' = ordered \cup {q \in Requests : answer[q] \in Definite} \X {r}
    /\ UNCHANGED <<answer, fed, read, files>>

\* child.stdin.end has written all of the payload.
Feed(r) ==
    /\ helper[r] = "reading"
    /\ fed[r] = "part"
    /\ fed' = [fed EXCEPT ![r] = "all"]
    /\ UNCHANGED <<answer, helper, read, files, ordered>>

\* Mutant: an exit that proves nothing is taken for a failure.
AnswerForOptimist(exit) ==
    CASE exit = "ok"                                -> "synced"
      [] exit = "rejected"                          -> "refused"
      [] exit \in {"mutation_io_error", "no_proof"} -> "failed"
      [] exit = "committed_durability_unknown"      -> "committed"

\* parseMutatorError and mapMutationFailure, after the exit.  "no_proof" is any
\* other exit: by a signal, or with an error record that is not recognized.
AnswerFor(exit) ==
    CASE exit = "ok"                           -> "synced"
      [] exit = "rejected"                     -> "refused"
      [] exit = "mutation_io_error"            -> "failed"
      [] exit = "committed_durability_unknown" -> "committed"
      [] exit = "no_proof"                     -> "unknown"

\* The close event.
Close(r) ==
    /\ answer[r] = "none"
    /\ helper[r] \in Exits
    /\ answer' = [answer EXCEPT ![r] = AnswerFor(helper[r])]
    /\ UNCHANGED <<helper, fed, read, files, ordered>>

\* Mutant: a timeout is taken for a failure.
TimeoutFails(r) ==
    /\ answer[r] = "none"
    /\ helper[r] # "none"
    /\ answer' = [answer EXCEPT ![r] = "failed"]
    /\ UNCHANGED <<helper, fed, read, files, ordered>>

\* The timer: the helper is sent SIGKILL and the client answered.  The helper
\* goes on until the signal arrives (HelperDies), which may be after its exit.
Timeout(r) ==
    /\ answer[r] = "none"
    /\ helper[r] # "none"
    /\ answer' = [answer EXCEPT ![r] = "unknown"]
    /\ UNCHANGED <<helper, fed, read, files, ordered>>

\* The pipes of a gateway that died are closed; its helpers go on.
Abandoned == [r \in Requests |-> IF answer[r] = "none" /\ helper[r] # "none"
                                 THEN "unanswered" ELSE answer[r]]

GatewayDies ==
    /\ answer' = Abandoned
    /\ fed' = [r \in Requests |-> IF helper[r] = "reading" /\ fed[r] = "part"
                                  THEN "cut" ELSE fed[r]]
    /\ UNCHANGED <<helper, read, files, ordered>>

-----------------------------------------------------------------------------
(* The helper: main, atomic_write and create_directory.                    *)

At(r, stage) == helper' = [helper EXCEPT ![r] = stage]

\* Killed by the timer or by the system.
HelperDies(r) ==
    /\ helper[r] \in Running
    /\ At(r, "no_proof")
    /\ UNCHANGED <<answer, fed, read, files, ordered>>

\* read_to_end: until the other end of the pipe is closed, for whatever reason.
ReadToEnd(r) ==
    /\ helper[r] = "reading"
    /\ fed[r] # "part"
    /\ read' = [read EXCEPT ![r] = IF fed[r] = "all" THEN "whole" ELSE "prefix"]
    /\ At(r, "ready")
    /\ UNCHANGED <<answer, fed, files, ordered>>

\* open_parent finds the root or the path invalid.
Reject(r) ==
    /\ helper[r] = "ready"
    /\ At(r, "rejected")
    /\ UNCHANGED <<answer, fed, read, files, ordered>>

\* open_parent, then a temporary file under a fresh name.
CreateTemp(r) ==
    /\ helper[r] = "ready"
    /\ r \notin Directories
    /\ At(r, "created")
    /\ UNCHANGED <<answer, fed, read, files, ordered>>

\* Mutant: the file is not synced.
WriteTempOnly(r) ==
    /\ helper[r] = "created"
    /\ At(r, "written")
    /\ UNCHANGED <<answer, fed, read, files, ordered>>

\* write_all and sync_all.
WriteTemp(r) ==
    /\ helper[r] = "created"
    /\ synced' = synced \cup {r}
    /\ At(r, "written")
    /\ UNCHANGED <<answer, fed, read, entries, persisted, landed, ordered>>

Holds(p) == IF entries[p] = <<>> THEN "nothing"
            ELSE IF entries[p][Len(entries[p])].by \in Directories THEN "directory" ELSE "file"

\* A new entry of the parent directory, not yet synced.
Land(r, data) ==
    /\ entries' = [entries EXCEPT ![PathOf[r]] = Append(@, [by |-> r, data |-> data])]
    /\ landed' = landed \cup {r}
    /\ At(r, "renamed")
    /\ UNCHANGED <<answer, fed, read, persisted, synced, ordered>>

\* renameat: the commit of a write.  It replaces no directory.
Rename(r) ==
    /\ helper[r] = "written"
    /\ Holds(PathOf[r]) # "directory"
    /\ Land(r, read[r])

\* mkdirat: the commit of a mkdir.
MakeDirectory(r) ==
    /\ helper[r] = "ready"
    /\ r \in Directories
    /\ Holds(PathOf[r]) = "nothing"
    /\ Land(r, "whole")

\* A system call before the commit, or the commit itself, fails; the temporary
\* file is removed.
IoError(r) ==
    /\ helper[r] \in {"ready", "created", "written"}
    /\ At(r, "mutation_io_error")
    /\ UNCHANGED <<answer, fed, read, files, ordered>>

\* fsync_fd of the parent directory ...
SyncParent(r) ==
    /\ helper[r] = "renamed"
    /\ persisted' = [p \in Paths |-> Len(entries[p])]
    /\ At(r, "ok")
    /\ UNCHANGED <<answer, fed, read, entries, synced, landed, ordered>>

\* ... which may fail.
SyncParentFails(r) ==
    /\ helper[r] = "renamed"
    /\ At(r, "committed_durability_unknown")
    /\ UNCHANGED <<answer, fed, read, files, ordered>>

-----------------------------------------------------------------------------
\* Power is lost and returns: every path holds one of the entries it had since
\* the last sync, without the data that was not synced.
PowerLoss ==
    \E kept \in [Paths -> 0..Cardinality(Requests)] :
        /\ \A p \in Paths : kept[p] \in persisted[p]..Len(entries[p])
        /\ entries' = [p \in Paths |->
                         [i \in 1..kept[p] |->
                            IF entries[p][i].by \in synced \cup Directories
                            THEN entries[p][i]
                            ELSE [entries[p][i] EXCEPT !.data = "lost"]]]
        /\ persisted' = kept
        /\ answer' = Abandoned
        /\ helper' = [r \in Requests |-> IF helper[r] \in Running THEN "no_proof" ELSE helper[r]]
        /\ UNCHANGED <<fed, read, synced, landed, ordered>>

MutationInit ==
    /\ answer = [r \in Requests |-> "none"]
    /\ helper = [r \in Requests |-> "none"]
    /\ fed = [r \in Requests |-> "part"]
    /\ read = [r \in Requests |-> "none"]
    /\ entries = [p \in Paths |-> <<>>]
    /\ persisted = [p \in Paths |-> 0]
    /\ synced = {} /\ landed = {} /\ ordered = {}

GatewayStep(r) == Refuse(r) \/ Begin(r) \/ Feed(r) \/ Close(r) \/ Timeout(r)

HelperStep(r) ==
    \/ ReadToEnd(r) \/ Reject(r) \/ CreateTemp(r) \/ WriteTemp(r) \/ Rename(r)
    \/ MakeDirectory(r) \/ IoError(r) \/ SyncParent(r) \/ SyncParentFails(r)
    \/ HelperDies(r)

MutationNext ==
    \/ \E r \in Requests : GatewayStep(r) \/ HelperStep(r)
    \/ GatewayDies
    \/ PowerLoss

MutationSpec == MutationInit /\ [][MutationNext]_mvars

-----------------------------------------------------------------------------
\* The answers are proofs, and stay true whatever happens afterwards: what was
\* said to have failed before its commit never changes the directory, what was
\* said to be durable survives every loss of power, and what was said to be
\* committed was (mapMutationFailure; CAPABILITIES.md, "proof state").
AnswersHonest ==
    \A r \in Requests :
        /\ answer[r] \in {"failed", "refused"} => r \notin landed
        /\ answer[r] = "committed" => r \in landed
        /\ answer[r] = "synced" =>
              \E i \in 1..persisted[PathOf[r]] : entries[PathOf[r]][i].by = r

\* No path ever holds part of a payload, through timeouts, kills and losses of
\* power, except where the gateway died while it handed the payload over: the
\* helper takes the closed pipe for the end of the payload and commits.  Then
\* nobody was told that the write succeeded or failed.
WholeFiles ==
    \A p \in Paths : \A i \in 1..Len(entries[p]) :
        \/ entries[p][i].data = "whole"
        \/ /\ entries[p][i].data = "prefix"
           /\ fed[entries[p][i].by] = "cut"
           /\ answer[entries[p][i].by] \in {"unknown", "unanswered"}

\* A client that got a definite answer to one request and then sent another for
\* the same path never sees the first one land on top of the second, as a
\* request that timed out may ("do not retry blindly").
NoLateOverwrite ==
    \A p \in Paths : \A i, j \in 1..Len(entries[p]) :
        i < j => <<entries[p][j].by, entries[p][i].by>> \notin ordered

\* What makes the three inductive.  An answer is the word of a helper that has
\* exited, so whatever it says cannot change any more ...
AnswersBacked ==
    \A r \in Requests :
        /\ helper[r] = "none" => answer[r] \in {"none", "refused"}
        /\ answer[r] = "refused" => helper[r] \in {"none", "rejected"}
        /\ answer[r] = "failed" => helper[r] = "mutation_io_error"
        /\ answer[r] = "committed" => helper[r] = "committed_durability_unknown"
        /\ answer[r] = "synced" => helper[r] = "ok"

\* ... the stage of a helper says what it did to the directory ...
Uncommitted == {"none", "reading", "ready", "created", "written", "rejected", "mutation_io_error"}
Committed   == {"renamed", "ok", "committed_durability_unknown"}

StagesBacked ==
    \A r \in Requests :
        /\ helper[r] \in Uncommitted => r \notin landed
        /\ helper[r] \in Committed => r \in landed
        /\ helper[r] = "renamed" =>
              \E i \in 1..Len(entries[PathOf[r]]) : entries[PathOf[r]][i].by = r
        /\ helper[r] = "ok" =>
              \E i \in 1..persisted[PathOf[r]] : entries[PathOf[r]][i].by = r

\* ... a helper holds part of a payload only if its gateway died, and the data of
\* every file in the directory was synced before ...
PayloadsTraced ==
    \A r \in Requests :
        /\ fed[r] = "cut" => answer[r] \in {"unknown", "unanswered"}
        /\ read[r] = "prefix" => fed[r] = "cut"
        /\ helper[r] \in {"ready", "created", "written"} =>
              r \in Directories \/ read[r] # "none"
        /\ helper[r] \in {"created", "written"} => r \notin Directories
        /\ helper[r] = "written" => r \in synced

EntriesTraced ==
    \A p \in Paths : \A i \in 1..Len(entries[p]) :
        /\ entries[p][i].by \in landed
        /\ entries[p][i].by \in synced \cup Directories

\* ... and the history of answers is one of definite answers.
OrderBacked == \A o \in ordered : answer[o[1]] \in Definite

\* The inductive invariant.
MutationInv ==
    /\ MutationTypeOK
    /\ AnswersBacked
    /\ StagesBacked
    /\ PayloadsTraced
    /\ EntriesTraced
    /\ OrderBacked
    /\ WholeFiles
    /\ NoLateOverwrite
=============================================================================
