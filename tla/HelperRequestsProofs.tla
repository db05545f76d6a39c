------------------------ MODULE HelperRequestsProofs ------------------------
(***************************************************************************)
(* The runner that commands, git and curl have in common, the life of a    *)
(* registered command and that of a discovery, for any number of children, *)
(* any output, any replacement of the registry and of the program, and any *)
(* resolution, peer and reply.                                             *)
(*                                                                         *)
(* The invariant says of each child what its runner has decided and what   *)
(* that implies for the processes, of a command what has been checked by   *)
(* the time it is used, and of a discovery what was vetted and which       *)
(* attempts have failed.  The byte tests that judge an address are shown   *)
(* to agree with the reserved blocks, compared bit by bit, for all         *)
(* addresses.                                                              *)
(***************************************************************************)
EXTENDS HelperRequests, WellFoundedInduction, TLAPS

-----------------------------------------------------------------------------
(* The invariant.                                                          *)

Grouped(c) == c.runner \in {"process", "curl"}

\* What was read is within the runner's limit.
Within(c) ==
  IF c.runner = "process" THEN Total(c.read) <= MaxBytes
  ELSE \A s \in Streams : c.read[s] <= MaxBytes

\* Who is alive, by what the runner decided and answered.
Alive(c) ==
  /\ c.leader = "helper" => c.runner = "process" /\ c.answer = "none" /\ c.term = "none"
  /\ c.answer # "none" => ~ Running(c)
  /\ Grouped(c) /\ c.term # "none" => ~ Running(c) /\ (c.kin = "alive" => c.away)
  /\ c.runner = "none" => c = NoJob

\* What an answer that reports the program's end says.
Complete(c) ==
  c.answer \in {"ok", "failed", "invalid"} =>
    /\ c.read = c.written
    /\ ~ Running(c) /\ ~ c.holds
    /\ IF c.runner = "process" THEN Total(c.written) <= MaxBytes
       ELSE \A s \in Streams : c.written[s] <= MaxBytes
    /\ c.answer # "failed" <=> c.code = "zero"

JobSound(c) ==
  /\ c \in Job
  /\ Alive(c)
  /\ c.answer = "none" /\ c.term = "none" => Within(c)
  /\ Complete(c)

\* The request is a record with the fields of Idle.
IsCall(c) ==
  c = [pc |-> c.pc, via |-> c.via, name |-> c.name, plain |-> c.plain, grant |-> c.grant,
       provider |-> c.provider, entry |-> c.entry, gone |-> c.gone,
       seen |-> c.seen, opened |-> c.opened, image |-> c.image, answer |-> c.answer]

Deciding == {"tools/call", "route", "load", "check", "spawn"}

\* The entry a command runs from is in order and within the grant.
EntryChecked(c) ==
  /\ c.entry.name = c.name
  /\ ValidPolicy(c.entry)
  /\ Allowed(c.grant, Capability(c.entry))

CallSound ==
  /\ IsCall(call)
  /\ call.gone \in BOOLEAN
  /\ call.pc \in {"none", "running", "answered"} \cup Deciding
  /\ call.pc = "none" => call = Idle
  /\ call.pc # "none" => git = NoGit /\ disc = NoDiscovery
  /\ call.pc \in Deciding => /\ job[1] = NoJob
                             /\ call.seen = NoProgram /\ call.opened = NoProgram
                             /\ call.image = NoProgram
  /\ call.pc = "running" => job[1].runner = "process"
  /\ call.pc = "answered" => ~ Pending(1)

\* What was checked of the entry and of the program, and when.
Checked ==
  /\ \A e \in call.provider : ValidPolicy(e)
  /\ call.pc \in {"spawn", "running"} => EntryChecked(call)
  /\ call.opened # NoProgram => /\ Canonical(call.opened)
                                /\ call.opened.id = call.seen.id
                                /\ call.seen # NoProgram
  /\ call.image # NoProgram => call.image = call.opened /\ EntryChecked(call)

HelperInv ==
  /\ job \in [Jobs -> Job]
  /\ \A j \in Jobs : JobSound(job[j])
  /\ CallSound
  /\ Checked
  /\ AbortHeeded

-----------------------------------------------------------------------------
(* One child.                                                              *)

\* The values of the fields that a kill changes.
Leaders == {"none", "failed", "helper", "alive", "exited"}
Codes == {"none", "zero", "nonzero", "signal"}
Kins == {"none", "alive", "dead"}

\* Writing the fields a kill changes.
Killed(c, l, d, k, h) == [c EXCEPT !.leader = l, !.code = d, !.kin = k, !.holds = h]

\* It yields a child that differs in these fields only.
LEMMA KilledRecord ==
  ASSUME NEW c \in Job, NEW l \in Leaders,
         NEW d \in Codes,
         NEW k \in Kins, NEW h \in BOOLEAN,
         NEW g, g = Killed(c, l, d, k, h)
  PROVE  /\ g \in Job /\ g.leader = l /\ g.kin = k
         /\ g.away = c.away /\ g.runner = c.runner /\ g.answer = c.answer /\ g.term = c.term
<1>1. g = [runner |-> c.runner, leader |-> l, code |-> d, kin |-> k, holds |-> h,
           away |-> c.away, written |-> c.written, read |-> c.read,
           term |-> c.term, answer |-> c.answer]
  BY DEF Job, Killed
<1>2. /\ c.runner \in {"none", "process", "curl", "git"}
      /\ c.away \in BOOLEAN
      /\ c.written \in [Streams -> Nat] /\ c.read \in [Streams -> Nat]
      /\ c.term \in {"none"} \cup Stops
      /\ c.answer \in {"none", "ok", "failed", "invalid", "unavailable"} \cup Stops
  BY DEF Job
<1>3. g \in Job
  BY <1>1, <1>2 DEF Job, Leaders, Codes, Kins
<1> QED
  BY <1>1, <1>3

\* killProcessGroup leaves nothing running that is still in the group.
LEMMA GroupKilled ==
  ASSUME NEW c \in Job, NEW g, g = KillProcessGroup(c)
  PROVE  /\ g \in Job
         /\ g.leader \notin {"helper", "alive"}
         /\ g.kin = "alive" => g.away
         /\ g.runner = c.runner /\ g.answer = c.answer /\ g.term = c.term
<1>1. PICK l : l = IF c.leader \in {"helper", "alive"} THEN "exited" ELSE c.leader
  OBVIOUS
<1>2. PICK d : d = IF c.leader \in {"helper", "alive"} THEN "signal" ELSE c.code
  OBVIOUS
<1>3. PICK k : k = IF c.kin = "alive" /\ ~ c.away THEN "dead" ELSE c.kin
  OBVIOUS
<1>4. PICK h : h = (c.holds /\ c.away)
  OBVIOUS
<1>5. g = Killed(c, l, d, k, h)
  BY <1>1, <1>2, <1>3, <1>4 DEF KillProcessGroup, Killed
<1>6. /\ l \in Leaders /\ l \notin {"helper", "alive"}
      /\ d \in Codes
      /\ k \in Kins /\ h \in BOOLEAN
      /\ k = "alive" => c.away
  BY <1>1, <1>2, <1>3, <1>4 DEF Job, Leaders, Codes, Kins
<1>7. /\ g \in Job /\ g.leader = l /\ g.kin = k
      /\ g.away = c.away /\ g.runner = c.runner /\ g.answer = c.answer /\ g.term = c.term
  BY <1>5, <1>6, KilledRecord
<1> QED
  BY <1>6, <1>7

\* child.kill.
LEMMA ChildKilled ==
  ASSUME NEW c \in Job, NEW g, g = KillChild(c)
  PROVE  /\ g \in Job
         /\ g.leader # "alive" /\ (c.leader # "helper" => g.leader # "helper")
         /\ g.runner = c.runner /\ g.answer = c.answer /\ g.term = c.term
<1>1. PICK l : l = IF c.leader = "alive" THEN "exited" ELSE c.leader
  OBVIOUS
<1>2. PICK d : d = IF c.leader = "alive" THEN "signal" ELSE c.code
  OBVIOUS
<1>3. PICK k, h : k = c.kin /\ h = c.holds
  OBVIOUS
<1>5. g = Killed(c, l, d, k, h)
  BY <1>1, <1>2, <1>3 DEF KillChild, Job, Killed
<1>6. /\ l \in Leaders /\ l # "alive"
      /\ d \in Codes
      /\ c.leader # "helper" => l # "helper"
      /\ k \in Kins /\ h \in BOOLEAN
  BY <1>1, <1>2, <1>3 DEF Job, Leaders, Codes, Kins
<1>7. /\ g \in Job /\ g.leader = l /\ g.kin = k
      /\ g.away = c.away /\ g.runner = c.runner /\ g.answer = c.answer /\ g.term = c.term
  BY <1>5, <1>6, KilledRecord
<1> QED
  BY <1>6, <1>7

\* A runner that gives up on a pending child leaves nothing of it running, and
\* whatever was read no longer matters.
LEMMA TerminateStops ==
  ASSUME NEW c \in Job, Alive(c), c.runner # "none",
         c.answer = "none", c.term = "none", NEW e \in Stops
  PROVE  /\ JobSound(Terminate(c, e))
         /\ ~ Running(Terminate(c, e))
         /\ Terminate(c, e).runner = c.runner
<1>1. CASE c.runner = "git"
  <2> PICK k : k = KillChild(c)
    OBVIOUS
  <2>1. /\ k \in Job /\ k.runner = "git" /\ k.term = "none" /\ k.answer = "none"
        /\ k.leader \notin {"alive", "helper"}
    BY <1>1, ChildKilled DEF Alive
  <2>2. Terminate(c, e) = [k EXCEPT !.answer = e]
    BY <1>1, <2>1 DEF Terminate
  <2> QED
    BY <1>1, <2>1, <2>2 DEF JobSound, Alive, Complete, Running, Grouped, Job, Stops
<1>2. CASE c.runner # "git"
  <2> PICK k : k = KillProcessGroup(c)
    OBVIOUS
  <2>1. /\ k \in Job /\ k.runner = c.runner /\ k.answer = "none"
        /\ k.leader \notin {"alive", "helper"}
        /\ k.kin = "alive" => k.away
    BY <1>2, GroupKilled
  <2>2. Terminate(c, e) = [k EXCEPT !.term = e]
    BY <1>2, <2>1 DEF Terminate
  <2> QED
    BY <1>2, <2>1, <2>2 DEF JobSound, Alive, Complete, Running, Grouped, Job, Stops
<1> QED
  BY <1>1, <1>2

\* A child whose runner has neither answered nor read anything: what a step of
\* the program or of its kin has to respect.
LEMMA ProgramStepSound ==
  ASSUME NEW c, JobSound(c), c.runner # "none", c.answer = "none",
         NEW d \in Job, d.runner = c.runner, d.answer = "none",
         d.term = c.term, d.read = c.read,
         Running(d) => Running(c),
         d.leader = "helper" => c.leader = "helper",
         Grouped(c) /\ c.term # "none" => (d.kin = "alive" => d.away)
  PROVE  JobSound(d)
  BY DEF JobSound, Alive, Complete, Within, Grouped

\* Output is read: within the limit, or the runner gives up.
LEMMA DataSound ==
  ASSUME NEW c, JobSound(c), c.runner # "none", c.answer = "none", NEW s \in Streams,
         NEW d, d = [c EXCEPT !.read[s] = @ + 1]
  PROVE  /\ d \in Job /\ Alive(d) /\ d.runner = c.runner /\ d.answer = "none"
         /\ d.term = c.term /\ d.leader = c.leader
         /\ ~ (d.term = "none" /\ Overflows(d, s)) => JobSound(d)
<1>1. PICK r : r = [c.read EXCEPT ![s] = @ + 1]
  OBVIOUS
<1>2. c \in Job /\ c.read \in [Streams -> Nat]
  BY DEF JobSound, Job
<1>3. r \in [Streams -> Nat]
  BY <1>1, <1>2
<1>4. d = [c EXCEPT !.read = r]
  BY <1>1, <1>2 DEF Job
<1>5. /\ d \in Job /\ d.read = r /\ d.runner = c.runner /\ d.answer = c.answer
      /\ d.term = c.term /\ d.leader = c.leader /\ d.kin = c.kin /\ d.away = c.away
  BY <1>2, <1>3, <1>4 DEF Job
<1>6. Alive(d)
  BY <1>5 DEF JobSound, Alive, Running, Grouped
<1>7. ASSUME c.term = "none", ~ Overflows(d, s)
      PROVE  Within(d)
  <2>1. Within(c)
    BY <1>7 DEF JobSound
  <2>2. CASE c.runner = "process"
    <3>1. Total(r) \in Nat /\ ~ (Total(r) > MaxBytes)
      BY <1>3, <1>5, <1>7, <2>2 DEF Overflows, Total, Streams
    <3> QED
      BY <1>5, <2>2, <3>1, RunnerAssumption DEF Within
  <2>3. CASE c.runner # "process"
    BY <1>1, <1>2, <1>3, <1>5, <1>7, <2>1, <2>3, RunnerAssumption DEF Within, Overflows
  <2> QED
    BY <2>2, <2>3
<1> QED
  BY <1>5, <1>6, <1>7 DEF JobSound, Complete

\* "close" and the answer it gives.
LEMMA CloseSound ==
  ASSUME NEW c, JobSound(c), c.runner # "none", c.answer = "none", Closable(c),
         NEW a \in CloseAnswers(c), NEW d, d = [c EXCEPT !.answer = a]
  PROVE  JobSound(d) /\ d.runner = c.runner /\ ~ Running(d)
<1>1. c \in Job
  BY DEF JobSound
<1>2. a \in {"ok", "failed", "invalid", "unavailable"} \cup Stops
  BY <1>1 DEF CloseAnswers, Job
<1>3. /\ d \in Job /\ d.answer = a /\ d.read = c.read /\ d.written = c.written
      /\ d.runner = c.runner /\ d.term = c.term /\ d.leader = c.leader
      /\ d.kin = c.kin /\ d.away = c.away /\ d.holds = c.holds /\ d.code = c.code
  BY <1>1, <1>2 DEF Job
<1>4. ~ Running(d) /\ d.leader = "exited"
  BY <1>3 DEF Closable, Running
<1>5. Alive(d)
  BY <1>2, <1>3, <1>4 DEF JobSound, Alive, Grouped
<1>6. ASSUME a \in {"ok", "failed", "invalid"} PROVE c.term = "none"
  BY <1>1, <1>6 DEF CloseAnswers, Job, Stops
<1>7. ASSUME a \in {"ok", "failed", "invalid"} PROVE a # "failed" <=> c.code = "zero"
  BY <1>6, <1>7 DEF CloseAnswers
<1>8. Complete(d)
  BY <1>3, <1>4, <1>6, <1>7 DEF JobSound, Complete, Within, Closable
<1> QED
  BY <1>2, <1>3, <1>4, <1>5, <1>8 DEF JobSound, Stops

\* What a step of a child or of its runner does to it.
Moved(c, d) ==
  /\ JobSound(d)
  /\ d.runner = c.runner
  /\ Running(d) => Running(c)

\* One step of one child: it was pending, and its record moved.
LEMMA RunnerMoves ==
  ASSUME job \in [Jobs -> Job], NEW j \in Jobs, JobSound(job[j]), RunnerStep(j)
  PROVE  /\ Pending(j)
         /\ \E d : job' = [job EXCEPT ![j] = d] /\ Moved(job[j], d)
<1>0. Pending(j)
  BY DEF RunnerStep, SpawnError, Timeout, Close, Fork, Exit, KinCloses, KinLeaves, KinExits,
         Data, Write
<1>1. PICK c : c = job[j]
  OBVIOUS
<1>2. c \in Job /\ JobSound(c) /\ c.runner # "none" /\ c.answer = "none"
  BY <1>0, <1>1 DEF Pending
<1>3. Alive(c)
  BY <1>2 DEF JobSound
<1> SUFFICES \E d : job' = [job EXCEPT ![j] = d] /\ Moved(c, d)
  BY <1>0, <1>1
<1>4. CASE SpawnError(j)
  <2>1. PICK d : d = [c EXCEPT !.answer = "unavailable"]
    OBVIOUS
  <2>2. job' = [job EXCEPT ![j] = d] /\ c.leader = "failed"
    BY <1>1, <1>4, <2>1 DEF SpawnError
  <2>3. /\ d \in Job /\ d.runner = c.runner /\ d.answer = "unavailable" /\ d.term = c.term
        /\ d.leader = "failed" /\ d.kin = c.kin /\ d.away = c.away
    BY <1>2, <2>1, <2>2 DEF Job
  <2>4. JobSound(d)
    BY <1>2, <1>3, <2>3 DEF JobSound, Alive, Complete, Running, Grouped
  <2> QED
    BY <2>2, <2>3, <2>4 DEF Moved, Running
<1>5. CASE Timeout(j)
  <2>1. PICK d : d = Terminate(c, "timeout")
    OBVIOUS
  <2>2. job' = [job EXCEPT ![j] = d] /\ c.term = "none"
    BY <1>1, <1>5, <2>1 DEF Timeout
  <2> QED
    BY <1>2, <1>3, <2>1, <2>2, TerminateStops DEF Moved, Stops
<1>6. CASE Close(j)
  <2>1. PICK a \in CloseAnswers(c) : job' = [job EXCEPT ![j].answer = a]
    BY <1>1, <1>6 DEF Close
  <2>2. PICK d : d = [c EXCEPT !.answer = a]
    OBVIOUS
  <2>3. job' = [job EXCEPT ![j] = d]
    BY <1>1, <2>1, <2>2
  <2>4. Closable(c)
    BY <1>1, <1>6 DEF Close
  <2> QED
    BY <1>2, <2>2, <2>3, <2>4, CloseSound DEF Moved
<1>7. CASE Fork(j)
  <2>1. PICK d : d = [c EXCEPT !.kin = "alive", !.holds = TRUE]
    OBVIOUS
  <2>2. job' = [job EXCEPT ![j] = d] /\ c.leader = "alive"
    BY <1>1, <1>7, <2>1 DEF Fork
  <2>3. /\ d \in Job /\ d.runner = c.runner /\ d.answer = c.answer /\ d.term = c.term
        /\ d.read = c.read /\ d.leader = "alive"
    BY <1>2, <2>1, <2>2 DEF Job
  <2>4. JobSound(d)
    BY <1>2, <1>3, <2>2, <2>3, ProgramStepSound DEF Alive, Running
  <2> QED
    BY <2>2, <2>3, <2>4 DEF Moved, Running
<1>8. CASE Exit(j)
  <2>1. PICK code \in {"zero", "nonzero", "signal"} :
          job' = [job EXCEPT ![j].leader = "exited", ![j].code = code]
    BY <1>8 DEF Exit
  <2>2. PICK d : d = [c EXCEPT !.leader = "exited", !.code = code]
    OBVIOUS
  <2>3. job' = [job EXCEPT ![j] = d]
    BY <1>1, <2>1, <2>2
  <2>4. /\ d \in Job /\ d.runner = c.runner /\ d.answer = c.answer /\ d.term = c.term
        /\ d.read = c.read /\ d.leader = "exited" /\ d.kin = c.kin /\ d.away = c.away
    BY <1>2, <2>2 DEF Job
  <2>5. JobSound(d)
    BY <1>2, <1>3, <2>4, ProgramStepSound DEF Alive, Running
  <2> QED
    BY <2>3, <2>4, <2>5 DEF Moved, Running
<1>9. CASE KinCloses(j)
  <2>1. PICK d : d = [c EXCEPT !.holds = FALSE]
    OBVIOUS
  <2>2. job' = [job EXCEPT ![j] = d]
    BY <1>1, <1>9, <2>1 DEF KinCloses
  <2>3. /\ d \in Job /\ d.runner = c.runner /\ d.answer = c.answer /\ d.term = c.term
        /\ d.read = c.read /\ d.leader = c.leader /\ d.kin = c.kin /\ d.away = c.away
    BY <1>2, <2>1 DEF Job
  <2>4. JobSound(d)
    BY <1>2, <1>3, <2>3, ProgramStepSound DEF Alive, Running
  <2> QED
    BY <2>2, <2>3, <2>4 DEF Moved, Running
<1>10. CASE KinLeaves(j)
  <2>1. PICK d : d = [c EXCEPT !.away = TRUE]
    OBVIOUS
  <2>2. job' = [job EXCEPT ![j] = d]
    BY <1>1, <1>10, <2>1 DEF KinLeaves
  <2>3. /\ d \in Job /\ d.runner = c.runner /\ d.answer = c.answer /\ d.term = c.term
        /\ d.read = c.read /\ d.leader = c.leader /\ d.away = TRUE
    BY <1>2, <2>1 DEF Job
  <2>4. JobSound(d)
    BY <1>2, <2>3, ProgramStepSound DEF Running
  <2> QED
    BY <2>2, <2>3, <2>4 DEF Moved, Running
<1>11. CASE KinExits(j)
  <2>1. PICK d : d = [c EXCEPT !.kin = "dead", !.holds = FALSE]
    OBVIOUS
  <2>2. job' = [job EXCEPT ![j] = d]
    BY <1>1, <1>11, <2>1 DEF KinExits
  <2>3. /\ d \in Job /\ d.runner = c.runner /\ d.answer = c.answer /\ d.term = c.term
        /\ d.read = c.read /\ d.leader = c.leader /\ d.kin = "dead"
    BY <1>2, <2>1 DEF Job
  <2>4. JobSound(d)
    BY <1>2, <2>3, ProgramStepSound DEF Running
  <2> QED
    BY <2>2, <2>3, <2>4 DEF Moved, Running
<1>12. ASSUME NEW s \in Streams, Data(j, s)
       PROVE  \E d : job' = [job EXCEPT ![j] = d] /\ Moved(c, d)
  <2>1. PICK d : d = [c EXCEPT !.read[s] = @ + 1]
    OBVIOUS
  <2>2. PICK e : e = IF d.term = "none" /\ Overflows(d, s) THEN Terminate(d, "too_large") ELSE d
    OBVIOUS
  <2>3. job' = [job EXCEPT ![j] = e]
    BY <1>1, <1>12, <2>1, <2>2 DEF Data
  <2>4. /\ d \in Job /\ Alive(d) /\ d.runner = c.runner /\ d.answer = "none"
        /\ d.term = c.term /\ d.leader = c.leader
        /\ ~ (d.term = "none" /\ Overflows(d, s)) => JobSound(d)
    BY <1>2, <2>1, DataSound
  <2>5. CASE d.term = "none" /\ Overflows(d, s)
    <3>1. e = Terminate(d, "too_large")
      BY <2>2, <2>5
    <3> QED
      BY <1>2, <2>3, <2>4, <2>5, <3>1, TerminateStops DEF Moved, Stops
  <2>6. CASE ~ (d.term = "none" /\ Overflows(d, s))
    <3>1. e = d
      BY <2>2, <2>6
    <3> QED
      BY <2>3, <2>4, <2>6, <3>1 DEF Moved, Running
  <2> QED
    BY <2>5, <2>6
<1>13. ASSUME NEW s \in Streams, Write(j, s)
       PROVE  \E d : job' = [job EXCEPT ![j] = d] /\ Moved(c, d)
  <2>1. PICK w : w = [c.written EXCEPT ![s] = @ + 1]
    OBVIOUS
  <2>2. PICK d : d = [c EXCEPT !.written = w]
    OBVIOUS
  <2>3. c.written \in [Streams -> Nat]
    BY <1>2 DEF Job
  <2>4. w \in [Streams -> Nat]
    BY <2>1, <2>3
  <2>5. job' = [job EXCEPT ![j] = d]
    BY <1>1, <1>13, <2>1, <2>2 DEF Write
  <2>6. /\ d \in Job /\ d.runner = c.runner /\ d.answer = c.answer /\ d.term = c.term
        /\ d.read = c.read /\ d.leader = c.leader /\ d.kin = c.kin /\ d.away = c.away
    BY <1>2, <2>2, <2>4 DEF Job
  <2>7. JobSound(d)
    BY <1>2, <1>3, <2>6, ProgramStepSound DEF Alive, Running
  <2> QED
    BY <2>5, <2>6, <2>7 DEF Moved, Running
<1> QED
  BY <1>4, <1>5, <1>6, <1>7, <1>8, <1>9, <1>10, <1>11, <1>12, <1>13 DEF RunnerStep

\* A child that was just spawned, or could not be.
LEMMA FreshSound ==
  ASSUME NEW r \in {"process", "curl", "git"}, NEW c \in Spawned(r) \cup {SpawnThrows(r)}
  PROVE  /\ JobSound(c)
         /\ c.runner = r
         /\ c.term = "none"
         /\ c \in Spawned(r) => c.answer = "none"
         /\ c = SpawnThrows(r) => ~ Running(c)
<1>1. CASE c \in Spawned(r)
  <2>1. PICK l \in {IF r = "process" THEN "helper" ELSE "alive", "failed"} :
          c = [NoJob EXCEPT !.runner = r, !.leader = l]
    BY <1>1 DEF Spawned
  <2>2. c = [runner |-> r, leader |-> l, code |-> "none", kin |-> "none",
             holds |-> FALSE, away |-> FALSE,
             written |-> [s \in Streams |-> 0], read |-> [s \in Streams |-> 0],
             term |-> "none", answer |-> "none"]
    BY <2>1 DEF NoJob
  <2>0. l \in {"helper", "alive", "failed"} /\ (l = "helper" => r = "process")
    BY <2>1
  <2>3. c \in Job
    BY <2>0, <2>2 DEF Job
  <2>4. Alive(c)
    BY <2>0, <2>2 DEF Alive, Grouped
  <2>5. Within(c)
    BY <2>2, RunnerAssumption DEF Within, Total, Streams
  <2>6. c # SpawnThrows(r)
    <3>1. SpawnThrows(r).answer = "unavailable"
      BY DEF SpawnThrows, NoJob
    <3> QED
      BY <2>2, <3>1
  <2> QED
    BY <2>2, <2>3, <2>4, <2>5, <2>6 DEF JobSound, Complete
<1>2. CASE c = SpawnThrows(r)
  <2>1. c = [runner |-> r, leader |-> "none", code |-> "none", kin |-> "none",
             holds |-> FALSE, away |-> FALSE,
             written |-> [s \in Streams |-> 0], read |-> [s \in Streams |-> 0],
             term |-> "none", answer |-> "unavailable"]
    BY <1>2 DEF SpawnThrows, NoJob
  <2>2. c \in Job
    BY <2>1 DEF Job
  <2>3. Alive(c)
    BY <2>1 DEF Alive, Grouped, Running
  <2>4. \A d \in Spawned(r) : d.answer = "none"
    BY DEF Spawned, NoJob
  <2>5. c \notin Spawned(r)
    BY <2>1, <2>4
  <2>6. c.runner = r /\ c.term = "none" /\ c.answer = "unavailable" /\ ~ Running(c)
    BY <2>1 DEF Running
  <2>7. JobSound(c)
    BY <2>2, <2>3, <2>6 DEF JobSound, Complete
  <2> QED
    BY <2>5, <2>6, <2>7
<1> QED
  BY <1>1, <1>2

-----------------------------------------------------------------------------
(* A registered command.                                                   *)

\* A place without a child runs nothing.
LEMMA NoJobStill ==
  ~ Running(NoJob) /\ NoJob.runner = "none"
  BY DEF Running, NoJob

\* A request is answered before a child exists, or when its child was.
LEMMA AnswerSound ==
  ASSUME HelperInv, call.pc # "none", ~ Pending(1), NEW status, call' = Answer(status),
         job' = job, git' = git, disc' = disc
  PROVE  HelperInv'
<1>1. /\ IsCall(call') /\ call'.pc = "answered" /\ call'.gone = call.gone /\ call'.via = call.via
      /\ call'.seen = call.seen /\ call'.opened = call.opened /\ call'.image = call.image
      /\ call'.entry = call.entry /\ call'.name = call.name /\ call'.grant = call.grant
      /\ call'.provider = call.provider
  BY DEF HelperInv, CallSound, IsCall, Answer
<1>2. CallSound'
  BY <1>1 DEF HelperInv, CallSound, Deciding, Pending
<1>3. Checked'
  BY <1>1 DEF HelperInv, Checked, EntryChecked
<1> QED
  BY <1>1, <1>2, <1>3 DEF HelperInv, AbortHeeded, Signalled

\* The steps before the child: only the request changes.
LEMMA DecidingSound ==
  ASSUME HelperInv, call.pc \in Deciding, job' = job, git' = git, disc' = disc,
         IsCall(call'), call'.pc \in Deciding, call'.gone = call.gone /\ call'.via = call.via,
         call'.seen = call.seen, call'.opened = call.opened, call'.image = call.image,
         \A e \in call'.provider : ValidPolicy(e),
         call'.pc = "spawn" => EntryChecked(call')
  PROVE  HelperInv'
<1>1. call.pc # "none" /\ call'.pc # "none" /\ call'.pc # "running" /\ call'.pc # "answered"
  BY DEF Deciding
<1>2. CallSound'
  BY <1>1 DEF HelperInv, CallSound
<1>3. Checked'
  BY <1>1 DEF HelperInv, CallSound, Checked
<1> QED
  BY <1>2, <1>3 DEF HelperInv, AbortHeeded, Signalled

\* Before the child exists there is no child.
LEMMA DecidingNotPending ==
  ASSUME HelperInv, call.pc \in Deciding
  PROVE  ~ Pending(1) /\ call.pc # "none"
  BY NoJobStill DEF HelperInv, CallSound, Pending, Deciding

\* A provider that was loaded holds valid policies only.
LEMMA LoadValid ==
  ASSUME NEW file, NEW p, NEW e \in Load(file, p)
  PROVE  ValidPolicy(e)
  BY DEF Load, ToSet

\* tools/call.
LEMMA McpCallSound ==
  ASSUME HelperInv, McpCall, git' = git, disc' = disc
  PROVE  HelperInv'
<1>1. call.pc \in Deciding /\ job' = job
  BY DEF McpCall, Deciding
<1>2. CASE \E status : call' = Answer(status)
  BY <1>1, <1>2, AnswerSound, DecidingNotPending
<1>3. CASE call' = [call EXCEPT !.pc = "route"]
  <2>1. /\ IsCall(call') /\ call'.pc = "route" /\ call'.gone = call.gone /\ call'.via = call.via
        /\ call'.seen = call.seen /\ call'.opened = call.opened /\ call'.image = call.image
        /\ call'.provider = call.provider
    BY <1>3 DEF HelperInv, CallSound, IsCall
  <2> QED
    BY <1>1, <2>1, DecidingSound DEF HelperInv, Checked, Deciding
<1> QED
  BY <1>2, <1>3 DEF McpCall

\* The route up to the provider.
LEMMA RouteSound ==
  ASSUME HelperInv, Route, git' = git, disc' = disc
  PROVE  HelperInv'
<1>1. call.pc \in Deciding /\ job' = job
  BY DEF Route, Deciding
<1>2. CASE \E status : call' = Answer(status)
  BY <1>1, <1>2, AnswerSound, DecidingNotPending
<1>3. CASE call' = [call EXCEPT !.pc = "load"]
  <2>1. /\ IsCall(call') /\ call'.pc = "load" /\ call'.gone = call.gone /\ call'.via = call.via
        /\ call'.seen = call.seen /\ call'.opened = call.opened /\ call'.image = call.image
        /\ call'.provider = call.provider
    BY <1>3 DEF HelperInv, CallSound, IsCall
  <2> QED
    BY <1>1, <2>1, DecidingSound DEF HelperInv, Checked, Deciding
<1> QED
  BY <1>2, <1>3 DEF Route

\* The registry is loaded.
LEMMA LoadProviderSound ==
  ASSUME HelperInv, LoadProvider, git' = git, disc' = disc
  PROVE  HelperInv'
<1>1. call.pc \in Deciding /\ job' = job
  BY DEF LoadProvider, Deciding
<1>2. CASE \E status : call' = Answer(status)
  BY <1>1, <1>2, AnswerSound, DecidingNotPending
<1>3. CASE call' = [call EXCEPT !.pc = "check", !.provider = Load(registry, program)]
  <2>1. PICK p : p = Load(registry, program)
    OBVIOUS
  <2>2. /\ IsCall(call') /\ call'.pc = "check" /\ call'.gone = call.gone /\ call'.via = call.via
        /\ call'.seen = call.seen /\ call'.opened = call.opened /\ call'.image = call.image
        /\ call'.provider = p
    BY <1>3, <2>1 DEF HelperInv, CallSound, IsCall
  <2>3. \A e \in call'.provider : ValidPolicy(e)
    BY <2>1, <2>2, LoadValid
  <2> QED
    BY <1>1, <2>2, <2>3, DecidingSound DEF Deciding
<1> QED
  BY <1>2, <1>3 DEF LoadProvider

\* The command is found and allowed.
LEMMA CheckSound ==
  ASSUME HelperInv, Check, git' = git, disc' = disc
  PROVE  HelperInv'
<1>1. call.pc \in Deciding /\ job' = job
  BY DEF Check, Deciding
<1>2. CASE \E status : call' = Answer(status)
  BY <1>1, <1>2, AnswerSound, DecidingNotPending
<1>3. PICK e : e = CHOOSE x \in Named(call.provider, call.name) : TRUE
  OBVIOUS
<1>4. CASE /\ Named(call.provider, call.name) # {}
           /\ ~ Denied(e)
           /\ call' = [call EXCEPT !.pc = "spawn", !.entry = e]
  <2>1. e \in Named(call.provider, call.name)
    BY <1>3, <1>4
  <2>2. e.name = call.name /\ ValidPolicy(e) /\ Allowed(call.grant, Capability(e))
    BY <1>4, <2>1 DEF Named, Denied, HelperInv, Checked
  <2>3. /\ IsCall(call') /\ call'.pc = "spawn" /\ call'.gone = call.gone /\ call'.via = call.via
        /\ call'.seen = call.seen /\ call'.opened = call.opened /\ call'.image = call.image
        /\ call'.provider = call.provider /\ call'.entry = e
        /\ call'.name = call.name /\ call'.grant = call.grant
    BY <1>4 DEF HelperInv, CallSound, IsCall
  <2>4. EntryChecked(call')
    BY <2>2, <2>3 DEF EntryChecked
  <2> QED
    BY <1>1, <2>3, <2>4, DecidingSound DEF HelperInv, Checked, Deciding
<1> QED
  BY <1>2, <1>3, <1>4, ZenonT(40) DEF Check

\* The child is spawned; a request whose signal came before finds it stopped.
LEMMA SpawnHelperSound ==
  ASSUME HelperInv, SpawnHelper, git' = git, disc' = disc
  PROVE  HelperInv'
<1>1. call.pc \in Deciding /\ call.pc # "none" /\ call.pc = "spawn"
  BY DEF SpawnHelper, Deciding
<1>2. CASE call' = Answer(503) /\ job' = job
  BY <1>1, <1>2, AnswerSound, DecidingNotPending
<1>3. ASSUME NEW c, job' = [job EXCEPT ![1] = c], call' = [call EXCEPT !.pc = "running"],
             JobSound(c), c.runner = "process", Signalled => ~ Running(c)
      PROVE  HelperInv'
  <2>1. /\ IsCall(call') /\ call'.pc = "running" /\ call'.gone = call.gone /\ call'.via = call.via
        /\ call'.seen = call.seen /\ call'.opened = call.opened /\ call'.image = call.image
        /\ call'.entry = call.entry /\ call'.name = call.name /\ call'.grant = call.grant
        /\ call'.provider = call.provider
    BY <1>3 DEF HelperInv, CallSound, IsCall
  <2>2. /\ job' \in [Jobs -> Job] /\ job'[1] = c
        /\ \A j \in Jobs : JobSound(job'[j])
    BY <1>3, PlacesAssumption DEF HelperInv, JobSound
  <2>3. CallSound'
    BY <1>1, <1>3, <2>1, <2>2 DEF HelperInv, CallSound, Deciding
  <2>4. Checked'
    BY <1>1, <2>1 DEF HelperInv, Checked, EntryChecked
  <2>5. AbortHeeded'
    BY <1>3, <2>1, <2>2 DEF AbortHeeded, Signalled, Running
  <2> QED
    BY <2>2, <2>3, <2>4, <2>5 DEF HelperInv, JobSound
<1>4. ASSUME NEW c \in Spawned("process"), job' = [job EXCEPT ![1] = Started(c)],
             call' = [call EXCEPT !.pc = "running"]
      PROVE  HelperInv'
  <2>1. JobSound(c) /\ c.runner = "process" /\ c.term = "none" /\ c.answer = "none"
    BY FreshSound
  <2>2. PICK d : d = Started(c)
    OBVIOUS
  <2>3. CASE Signalled
    <3>1. d = Terminate(c, "cancelled")
      BY <2>2, <2>3 DEF Started
    <3>2. JobSound(d) /\ d.runner = "process" /\ ~ Running(d)
      BY <2>1, <3>1, TerminateStops DEF JobSound, Stops
    <3> QED
      BY <1>3, <1>4, <2>2, <3>2
  <2>4. CASE ~ Signalled
    <3>1. d = c
      BY <2>2, <2>4 DEF Started
    <3> QED
      BY <1>3, <1>4, <2>1, <2>2, <2>4, <3>1
  <2> QED
    BY <2>3, <2>4
<1>5. ASSUME job' = [job EXCEPT ![1] = SpawnThrows("process")],
             call' = [call EXCEPT !.pc = "running"]
      PROVE  HelperInv'
  <2>1. PICK c : c = SpawnThrows("process")
    OBVIOUS
  <2>2. JobSound(c) /\ c.runner = "process" /\ ~ Running(c)
    BY <2>1, FreshSound
  <2> QED
    BY <1>3, <1>5, <2>1, <2>2
<1> QED
  BY <1>2, <1>4, <1>5 DEF SpawnHelper

\* The child's answer becomes the request's.
LEMMA ProcessAnswerSound ==
  ASSUME HelperInv, ProcessAnswer, git' = git, disc' = disc
  PROVE  HelperInv'
  BY AnswerSound DEF ProcessAnswer, Pending

\* The client goes away: before the child exists nothing runs, and after that
\* the runner stops it, if it has not done so already, or it was an MCP call
\* and the runner is not told.
LEMMA AbortSound ==
  ASSUME HelperInv, Abort, git' = git, disc' = disc
  PROVE  HelperInv'
<1>1. /\ call' = [call EXCEPT !.gone = TRUE]
      /\ call.pc \notin {"none", "answered"}
  BY DEF Abort
<1>2. /\ IsCall(call') /\ call'.pc = call.pc /\ call'.gone = TRUE /\ call'.via = call.via
      /\ call'.seen = call.seen /\ call'.opened = call.opened /\ call'.image = call.image
      /\ call'.entry = call.entry /\ call'.name = call.name /\ call'.grant = call.grant
      /\ call'.provider = call.provider
  BY <1>1 DEF HelperInv, CallSound, IsCall
<1>3. Checked'
  BY <1>2 DEF HelperInv, Checked, EntryChecked
<1>4. CASE call.pc = "running" /\ call.via = "http"
  <2>1. PICK c : c = job[1]
    OBVIOUS
  <2>2. PICK d : d = Terminate(c, "cancelled")
    OBVIOUS
  <2>3. JobSound(c) /\ c.runner = "process"
    BY <1>4, <2>1, PlacesAssumption DEF HelperInv, CallSound
  <2>4. job' = [job EXCEPT ![1] = d]
    BY <1>4, <2>1, <2>2 DEF Abort
  <2>5. JobSound(d) /\ d.runner = "process" /\ ~ Running(d)
    <3>1. CASE c.answer = "none" /\ c.term = "none"
      BY <2>2, <2>3, <3>1, TerminateStops DEF JobSound, Stops
    <3>2. CASE c.answer # "none" \/ c.term # "none"
      <4>1. d = c
        BY <2>2, <2>3, <3>2 DEF Terminate
      <4> QED
        BY <2>3, <3>2, <4>1 DEF JobSound, Alive, Grouped
    <3> QED
      BY <3>1, <3>2
  <2>6. /\ job' \in [Jobs -> Job] /\ job'[1] = d
        /\ \A j \in Jobs : JobSound(job'[j])
    BY <2>4, <2>5, PlacesAssumption DEF HelperInv, JobSound
  <2>7. CallSound'
    BY <1>2, <1>4, <2>5, <2>6 DEF HelperInv, CallSound, Deciding
  <2>8. AbortHeeded'
    BY <2>5, <2>6 DEF AbortHeeded, Signalled, Running
  <2> QED
    BY <1>3, <2>6, <2>7, <2>8 DEF HelperInv, JobSound
<1>5. CASE call.pc = "running" /\ call.via # "http"
  <2>1. job' = job
    BY <1>5 DEF Abort
  <2>2. CallSound'
    BY <1>2, <1>5, <2>1 DEF HelperInv, CallSound, Deciding
  <2>3. AbortHeeded'
    BY <1>2, <1>5 DEF AbortHeeded, Signalled
  <2> QED
    BY <1>3, <2>1, <2>2, <2>3 DEF HelperInv
<1>6. CASE call.pc # "running"
  <2>1. job' = job
    BY <1>6 DEF Abort
  <2>2. call.pc \in Deciding
    BY <1>1, <1>6 DEF HelperInv, CallSound
  <2>3. CallSound'
    BY <1>2, <2>1, <2>2 DEF HelperInv, CallSound, Deciding
  <2>4. AbortHeeded'
    BY <2>1, <2>2, NoJobStill DEF HelperInv, CallSound, AbortHeeded, Signalled
  <2> QED
    BY <1>3, <2>1, <2>3, <2>4 DEF HelperInv
<1> QED
  BY <1>4, <1>5, <1>6

\* The helper prints what is wrong and exits.
LEMMA HelperFailsSound ==
  ASSUME HelperInv, Helper, HelperFails, git' = git, disc' = disc
  PROVE  HelperInv'
<1>1. PICK c : c = job[1]
  OBVIOUS
<1>2. PICK w : w = [c.written EXCEPT !["stderr"] = @ + 1]
  OBVIOUS
<1>3. PICK d : d = [c EXCEPT !.leader = "exited", !.code = "nonzero", !.written = w]
  OBVIOUS
<1>4. c \in Job /\ JobSound(c) /\ c.leader = "helper" /\ call.pc = "running" /\ c.runner = "process"
  BY <1>1, PlacesAssumption DEF HelperInv, CallSound, Helper
<1>5. c.answer = "none" /\ c.term = "none"
  BY <1>4 DEF JobSound, Alive
<1>6. job' = [job EXCEPT ![1] = d] /\ call' = call
  BY <1>1, <1>2, <1>3, <1>4 DEF HelperFails, Job
<1>7. w \in [Streams -> Nat]
  BY <1>2, <1>4 DEF Job, Streams
<1>8. /\ d \in Job /\ d.runner = "process" /\ d.answer = "none" /\ d.term = "none"
      /\ d.read = c.read /\ d.leader = "exited"
  BY <1>3, <1>4, <1>5, <1>7 DEF Job
<1>9. JobSound(d) /\ ~ Running(d)
  BY <1>4, <1>5, <1>8, ProgramStepSound DEF Running
<1>10. /\ job' \in [Jobs -> Job] /\ job'[1] = d
       /\ \A j \in Jobs : JobSound(job'[j])
  BY <1>6, <1>9, PlacesAssumption DEF HelperInv, JobSound
<1>11. CallSound'
  BY <1>4, <1>6, <1>8, <1>10 DEF HelperInv, CallSound, Deciding
<1>12. AbortHeeded'
  BY <1>9, <1>10 DEF AbortHeeded, Signalled, Running
<1> QED
  BY <1>6, <1>10, <1>11, <1>12 DEF HelperInv, JobSound, Checked, EntryChecked

\* The program is inspected.
LEMMA HelperSnapshotSound ==
  ASSUME HelperInv, HelperSnapshot, git' = git, disc' = disc
  PROVE  HelperInv'
<1>1. CASE HelperFails
  BY <1>1, HelperFailsSound DEF HelperSnapshot
<1>2. CASE call' = [call EXCEPT !.seen = program] /\ job' = job
  <2>1. call.pc = "running" /\ call.seen = NoProgram
    BY DEF HelperSnapshot, Helper
  <2>2. /\ IsCall(call') /\ call'.pc = call.pc /\ call'.gone = call.gone /\ call'.via = call.via
        /\ call'.opened = call.opened /\ call'.image = call.image
        /\ call'.entry = call.entry /\ call'.name = call.name /\ call'.grant = call.grant
        /\ call'.provider = call.provider
    BY <1>2 DEF HelperInv, CallSound, IsCall
  <2>3. CallSound'
    BY <1>2, <2>1, <2>2 DEF HelperInv, CallSound, Deciding
  <2>4. call.opened = NoProgram
    BY <2>1 DEF HelperInv, Checked
  <2>5. Checked'
    BY <2>2, <2>4 DEF HelperInv, Checked, EntryChecked
  <2> QED
    BY <1>2, <2>2, <2>3, <2>5 DEF HelperInv, AbortHeeded, Signalled
<1> QED
  BY <1>1, <1>2 DEF HelperSnapshot

\* It is opened: a native executable, and the file that was inspected.
LEMMA HelperOpenSound ==
  ASSUME HelperInv, HelperOpen, git' = git, disc' = disc
  PROVE  HelperInv'
<1>1. CASE HelperFails
  BY <1>1, HelperFailsSound DEF HelperOpen
<1>2. CASE Acceptable(program) /\ call' = [call EXCEPT !.opened = program] /\ job' = job
  <2>1. call.pc = "running" /\ call.seen # NoProgram /\ call.opened = NoProgram
    BY DEF HelperOpen, Helper
  <2>2. /\ IsCall(call') /\ call'.pc = call.pc /\ call'.gone = call.gone /\ call'.via = call.via
        /\ call'.seen = call.seen /\ call'.opened = program /\ call'.image = call.image
        /\ call'.entry = call.entry /\ call'.name = call.name /\ call'.grant = call.grant
        /\ call'.provider = call.provider
    BY <1>2 DEF HelperInv, CallSound, IsCall
  <2>3. CallSound'
    BY <1>2, <2>1, <2>2 DEF HelperInv, CallSound, Deciding
  <2>4. call.image = NoProgram
    BY <2>1 DEF HelperInv, Checked
  <2>5. Checked'
    BY <1>2, <2>1, <2>2, <2>4 DEF HelperInv, Checked, EntryChecked, Acceptable
  <2> QED
    BY <1>2, <2>2, <2>3, <2>5 DEF HelperInv, AbortHeeded, Signalled
<1> QED
  BY <1>1, <1>2 DEF HelperOpen

\* It is executed, by its descriptor.
LEMMA HelperExecSound ==
  ASSUME HelperInv, HelperExec, git' = git, disc' = disc
  PROVE  HelperInv'
<1>1. CASE HelperFails
  BY <1>1, HelperFailsSound DEF HelperExec
<1>2. CASE call' = [call EXCEPT !.image = Image] /\ job' = [job EXCEPT ![1].leader = "alive"]
  <2>1. PICK c : c = job[1]
    OBVIOUS
  <2>2. PICK d : d = [c EXCEPT !.leader = "alive"]
    OBVIOUS
  <2>3. /\ c \in Job /\ JobSound(c) /\ c.leader = "helper" /\ call.pc = "running"
        /\ c.runner = "process"
    BY <2>1, PlacesAssumption DEF HelperInv, CallSound, HelperExec, Helper
  <2>4. c.answer = "none" /\ c.term = "none"
    BY <2>3 DEF JobSound, Alive
  <2>5. ~ Signalled
    BY <2>1, <2>3 DEF HelperInv, AbortHeeded, Signalled, Running
  <2>6. /\ d \in Job /\ d.runner = "process" /\ d.answer = "none" /\ d.term = "none"
        /\ d.read = c.read /\ d.leader = "alive"
    BY <2>2, <2>3, <2>4 DEF Job
  <2>7. JobSound(d)
    BY <2>3, <2>4, <2>6, ProgramStepSound DEF Running
  <2>8. job' = [job EXCEPT ![1] = d]
    BY <1>2, <2>1, <2>2
  <2>9. /\ job' \in [Jobs -> Job] /\ job'[1] = d
        /\ \A j \in Jobs : JobSound(job'[j])
    BY <2>7, <2>8, PlacesAssumption DEF HelperInv, JobSound
  <2>10. /\ IsCall(call') /\ call'.pc = call.pc /\ call'.gone = call.gone /\ call'.via = call.via
         /\ call'.seen = call.seen /\ call'.opened = call.opened /\ call'.image = call.opened
         /\ call'.entry = call.entry /\ call'.name = call.name /\ call'.grant = call.grant
         /\ call'.provider = call.provider
    BY <1>2 DEF HelperInv, CallSound, IsCall, Image
  <2>11. CallSound'
    BY <2>3, <2>6, <2>9, <2>10 DEF HelperInv, CallSound, Deciding
  <2>12. Checked'
    BY <2>3, <2>10 DEF HelperInv, Checked, EntryChecked
  <2> QED
    BY <2>5, <2>9, <2>10, <2>11, <2>12 DEF HelperInv, AbortHeeded, Signalled, JobSound
<1> QED
  BY <1>1, <1>2 DEF HelperExec

\* Edits of the registry and of the program touch neither.
LEMMA ReplaceSound ==
  ASSUME HelperInv, ReplaceRegistry \/ ReplaceProgram, git' = git, disc' = disc
  PROVE  HelperInv'
<1>1. call' = call /\ job' = job
  BY DEF ReplaceRegistry, ReplaceProgram
<1> QED
  BY <1>1 DEF HelperInv, CallSound, Checked, AbortHeeded, Signalled, EntryChecked, Pending

-----------------------------------------------------------------------------
(* The other requests, and the specification.                              *)

\* A step of a child.
LEMMA RunnerStepSound ==
  ASSUME HelperInv, NEW j \in Jobs, RunnerStep(j), UNCHANGED <<process, git, disc>>
  PROVE  HelperInv'
<1>1. call' = call /\ git' = git /\ disc' = disc
  BY DEF process
<1>2. Pending(j)
  BY RunnerMoves DEF HelperInv
<1>3. PICK d : job' = [job EXCEPT ![j] = d] /\ Moved(job[j], d)
  BY RunnerMoves DEF HelperInv
<1>4. /\ job' \in [Jobs -> Job] /\ job'[j] = d
      /\ \A i \in Jobs : JobSound(job'[i])
      /\ j # 1 => job'[1] = job[1]
  BY <1>3, PlacesAssumption DEF HelperInv, JobSound, Moved
<1>5. job'[1].runner = job[1].runner /\ (Running(job'[1]) => Running(job[1]))
  BY <1>3, <1>4 DEF Moved
<1>6. j = 1 => call.pc \notin Deciding /\ call.pc # "answered"
  BY <1>2, NoJobStill DEF HelperInv, CallSound, Pending
<1>7. CallSound'
  BY <1>1, <1>4, <1>5, <1>6 DEF HelperInv, CallSound, Pending
<1>8. AbortHeeded'
  BY <1>1, <1>5 DEF HelperInv, AbortHeeded, Signalled, Running
<1> QED
  BY <1>1, <1>4, <1>7, <1>8 DEF HelperInv, Checked, EntryChecked, JobSound

\* A request of another kind starts its children in its own places.
LEMMA FreshJobSound ==
  ASSUME HelperInv, call.pc = "none", NEW r \in {"curl", "git"},
         NEW c \in Spawned(r) \cup {SpawnThrows(r)}, NEW j, job' = [job EXCEPT ![j] = c],
         call' = call
  PROVE  HelperInv'
<1>1. JobSound(c)
  BY FreshSound
<1>2. job' \in [Jobs -> Job] /\ \A i \in Jobs : JobSound(job'[i])
  BY <1>1 DEF HelperInv, JobSound
<1>3. CallSound'
  BY DEF HelperInv, CallSound, Deciding
<1>4. ~ Signalled
  <2>1. call = Idle
    BY DEF HelperInv, CallSound
  <2> QED
    BY <2>1 DEF Idle, Signalled
<1> QED
  BY <1>2, <1>3, <1>4 DEF HelperInv, Checked, EntryChecked, AbortHeeded, Signalled, JobSound

\* Nothing changes but the other request.
LEMMA OtherRequestSound ==
  ASSUME HelperInv, call.pc = "none", job' = job, call' = call
  PROVE  HelperInv'
  BY DEF HelperInv, CallSound, Deciding, Checked, EntryChecked, AbortHeeded, Signalled

\* Git.
LEMMA GitSound ==
  ASSUME HelperInv, GitNext, UNCHANGED <<process, disc>>
  PROVE  HelperInv'
<1>1. call' = call
  BY DEF process
<1>2. git # NoGit
  <2>1. NoGit.op = "none" /\ DOMAIN NoGit.step = {}
    BY DEF NoGit
  <2> QED
    BY <2>1 DEF GitNext, GitAnswer, GitInvoke, GitResult
<1>3. call.pc = "none"
  BY <1>2 DEF HelperInv, CallSound
<1>4. CASE job' = job
  BY <1>1, <1>3, <1>4, OtherRequestSound
<1>5. CASE \E j \in Jobs : \E c \in Spawned("git") \cup {SpawnThrows("git")} :
             job' = [job EXCEPT ![j] = c]
  BY <1>1, <1>3, <1>5, FreshJobSound
<1> QED
  BY <1>4, <1>5 DEF GitNext, GitAnswer, GitInvoke, GitResult

\* A discovery.
LEMMA CimdSound ==
  ASSUME HelperInv, CimdNext, UNCHANGED <<process, git>>
  PROVE  HelperInv'
<1>1. call' = call
  BY DEF process
<1>2. disc.pc # "none"
  BY DEF CimdNext, Validate, Resolve, Attempt, AttemptFailed, AttemptAnswered
<1>3. call.pc = "none"
  BY <1>2 DEF HelperInv, CallSound, NoDiscovery
<1>4. CASE job' = job
  BY <1>1, <1>3, <1>4, OtherRequestSound
<1>5. CASE \E c \in Spawned("curl") \cup {SpawnThrows("curl")} : job' = [job EXCEPT ![disc.next] = c]
  BY <1>1, <1>3, <1>5, FreshJobSound
<1> QED
  BY <1>4, <1>5 DEF CimdNext, Validate, Resolve, Attempt, AttemptFailed, AttemptAnswered

\* Initially no child exists, and at most a command is asked for.
LEMMA HelperInitSound ==
  HelperInit => HelperInv
<1> SUFFICES ASSUME HelperInit PROVE HelperInv
  OBVIOUS
<1>1. job = [j \in Jobs |-> NoJob]
  BY DEF HelperInit, RunnerInit
<1>2. NoJob \in Job
  BY DEF NoJob, Job
<1>3. JobSound(NoJob)
  <2>1. Within(NoJob)
    BY RunnerAssumption DEF Within, NoJob, Streams, Total
  <2> QED
    BY <1>2, <2>1 DEF JobSound, Alive, Complete, Running, Grouped, NoJob
<1>4. job \in [Jobs -> Job] /\ \A j \in Jobs : JobSound(job[j])
  BY <1>1, <1>2, <1>3
<1>5. job[1] = NoJob
  BY <1>1, PlacesAssumption
<1>6. CASE call = Idle
  <2>1. IsCall(call) /\ call.gone = FALSE /\ call.pc = "none" /\ call.provider = {}
        /\ call.opened = NoProgram /\ call.image = NoProgram
    BY <1>6 DEF IsCall, Idle
  <2> QED
    BY <1>4, <1>6, <2>1 DEF HelperInv, CallSound, Checked, AbortHeeded, Signalled, Deciding
<1>7. ASSUME NEW name \in Commands, call \in Requested(name), git = NoGit, disc = NoDiscovery
      PROVE  HelperInv
  <2>1. PICK pc \in {"tools/call", "route"}, plain \in BOOLEAN, grant \in Grants :
          call = Request(name, pc, plain, grant)
    BY <1>7 DEF Requested
  <2>2. IsCall(call) /\ call.gone = FALSE /\ call.pc \in {"tools/call", "route"}
        /\ call.provider = {} /\ call.seen = NoProgram
        /\ call.opened = NoProgram /\ call.image = NoProgram
    BY <2>1 DEF Request, IsCall, Idle
  <2> QED
    BY <1>4, <1>5, <1>7, <2>2 DEF HelperInv, CallSound, Checked, AbortHeeded, Signalled, Deciding
<1> QED
  BY <1>6, <1>7 DEF HelperInit

\* The invariant holds throughout.
LEMMA HelperInvariant ==
  HelperSpec => []HelperInv
<1>1. HelperInv /\ [HelperNext]_helperVars => HelperInv'
  <2> SUFFICES ASSUME HelperInv, [HelperNext]_helperVars PROVE HelperInv'
    OBVIOUS
  <2>1. ASSUME NEW j \in Jobs, RunnerStep(j), UNCHANGED <<process, git, disc>> PROVE HelperInv'
    BY <2>1, RunnerStepSound
  <2>2. CASE ProcessNext /\ UNCHANGED <<git, disc>>
    BY <2>2, McpCallSound, RouteSound, LoadProviderSound, CheckSound, SpawnHelperSound,
       ProcessAnswerSound, HelperSnapshotSound, HelperOpenSound, HelperExecSound, AbortSound,
       ReplaceSound
       DEF ProcessNext, ProcessGateway, ProcessHelper
  <2>3. CASE GitNext /\ UNCHANGED <<process, disc>>
    BY <2>3, GitSound
  <2>4. CASE CimdNext /\ UNCHANGED <<process, git>>
    BY <2>4, CimdSound
  <2>5. CASE UNCHANGED helperVars
    BY <2>5 DEF helperVars, HelperInv, CallSound, Checked, EntryChecked, AbortHeeded, Signalled, Pending
  <2> QED
    BY <2>1, <2>2, <2>3, <2>4, <2>5 DEF HelperNext
<1> QED
  BY <1>1, HelperInitSound, PTL DEF HelperSpec

\* A command or a curl whose runner decided to stop it has no living process
\* in its group, ever after, whatever the program and its descendants do.
THEOREM StoppedGroups ==
  HelperSpec => []StoppedGroupDead
<1>1. HelperInv => StoppedGroupDead
  BY DEF HelperInv, JobSound, Alive, Grouped, StoppedGroupDead
<1> QED
  BY <1>1, HelperInvariant, PTL

\* A reported end is the end: all output was read, it is within the limit,
\* nobody is left to write more, and the exit code was the reported one.
THEOREM CompleteAnswers ==
  HelperSpec => []AnswerComplete
<1>1. HelperInv => AnswerComplete
  BY DEF HelperInv, JobSound, Complete, AnswerComplete
<1> QED
  BY <1>1, HelperInvariant, PTL

\* A client of the HTTP route that went away leaves nothing running, whenever
\* it went.  (Of the MCP route this is not so: Signalled.)
THEOREM AbortsHeeded ==
  HelperSpec => []AbortHeeded
<1>1. HelperInv => AbortHeeded
  BY DEF HelperInv
<1> QED
  BY <1>1, HelperInvariant, PTL

\* What runs is the file that was inspected and opened, and the command was
\* within the grant, for every sequence of edits of the registry and of
\* replacements of the program.
THEOREM RegisteredRuns ==
  HelperSpec => []RunsAsRegistered
<1>1. HelperInv => RunsAsRegistered
  BY DEF HelperInv, Checked, EntryChecked, RunsAsRegistered
<1> QED
  BY <1>1, HelperInvariant, PTL

-----------------------------------------------------------------------------
(* The judgement of addresses.                                             *)

\* The byte without what comes after its bit q.
High(x, q) == x \div Weights[q]

\* Bit q of a byte.
BitOf(x, q) == High(x, q) % 2

\* Dividing by half as much adds one bit.
LEMMA Halved ==
  ASSUME NEW x \in Int, NEW h1 \in Int, NEW h2 \in Int, NEW h3 \in Int, NEW h4 \in Int,
         NEW h5 \in Int, NEW h6 \in Int, NEW h7 \in Int,
         h1 = x \div 128, h2 = x \div 64, h3 = x \div 32, h4 = x \div 16,
         h5 = x \div 8, h6 = x \div 4, h7 = x \div 2
  PROVE  /\ h2 = 2 * h1 + (h2 % 2) /\ h3 = 2 * h2 + (h3 % 2) /\ h4 = 2 * h3 + (h4 % 2)
         /\ h5 = 2 * h4 + (h5 % 2) /\ h6 = 2 * h5 + (h6 % 2) /\ h7 = 2 * h6 + (h7 % 2)
         /\ x = 2 * h7 + (x % 2)
<1>1. h2 = 2 * h1 + (h2 % 2)
  OBVIOUS
<1>2. h3 = 2 * h2 + (h3 % 2)
  OBVIOUS
<1>3. h4 = 2 * h3 + (h4 % 2)
  OBVIOUS
<1>4. h5 = 2 * h4 + (h5 % 2)
  OBVIOUS
<1>5. h6 = 2 * h5 + (h6 % 2)
  OBVIOUS
<1>6. h7 = 2 * h6 + (h7 % 2)
  OBVIOUS
<1>7. x = 2 * h7 + (x % 2)
  OBVIOUS
<1> QED
  BY <1>1, <1>2, <1>3, <1>4, <1>5, <1>6, <1>7

\* A byte without the bits after q is the one without those after q - 1 and
\* bit q, and all of the byte for the last one.
LEMMA HighStep ==
  ASSUME NEW x \in Byte
  PROVE  /\ High(x, 1) = BitOf(x, 1)
         /\ \A q \in 2..8 : High(x, q) = 2 * High(x, q - 1) + BitOf(x, q)
         /\ High(x, 8) = x
         /\ \A q \in 1..8 : High(x, q) \in Int /\ BitOf(x, q) \in {0, 1}
<1>1. /\ High(x, 1) = x \div 128 /\ High(x, 2) = x \div 64 /\ High(x, 3) = x \div 32
      /\ High(x, 4) = x \div 16 /\ High(x, 5) = x \div 8 /\ High(x, 6) = x \div 4
      /\ High(x, 7) = x \div 2 /\ High(x, 8) = x \div 1
  BY DEF High, Weights
<1>2. x \in Int /\ 0 <= x /\ x <= 255
  BY DEF Byte
<1>3. PICK h1 \in Int, h2 \in Int, h3 \in Int, h4 \in Int, h5 \in Int, h6 \in Int, h7 \in Int :
        /\ h1 = x \div 128 /\ h2 = x \div 64 /\ h3 = x \div 32 /\ h4 = x \div 16
        /\ h5 = x \div 8 /\ h6 = x \div 4 /\ h7 = x \div 2
  <2>1. /\ x \div 128 \in Int /\ x \div 64 \in Int /\ x \div 32 \in Int /\ x \div 16 \in Int
        /\ x \div 8 \in Int /\ x \div 4 \in Int /\ x \div 2 \in Int
    BY <1>2
  <2> QED
    BY <2>1
<1>4. x \div 1 = x
  BY <1>2
<1>5. /\ h2 = 2 * h1 + (h2 % 2) /\ h3 = 2 * h2 + (h3 % 2) /\ h4 = 2 * h3 + (h4 % 2)
      /\ h5 = 2 * h4 + (h5 % 2) /\ h6 = 2 * h5 + (h6 % 2) /\ h7 = 2 * h6 + (h7 % 2)
      /\ x = 2 * h7 + (x % 2)
  BY <1>2, <1>3, Halved
<1>12. h1 = (h1 % 2)
  BY <1>2, <1>3
<1>13. /\ High(x, 1) = h1 /\ High(x, 2) = h2 /\ High(x, 3) = h3 /\ High(x, 4) = h4
       /\ High(x, 5) = h5 /\ High(x, 6) = h6 /\ High(x, 7) = h7 /\ High(x, 8) = x
  BY <1>1, <1>3, <1>4
<1>14. \A q \in 2..8 : High(x, q) = 2 * High(x, q - 1) + BitOf(x, q)
  <2>1. /\ High(x, 2) = 2 * High(x, 1) + BitOf(x, 2) /\ High(x, 3) = 2 * High(x, 2) + BitOf(x, 3)
        /\ High(x, 4) = 2 * High(x, 3) + BitOf(x, 4) /\ High(x, 5) = 2 * High(x, 4) + BitOf(x, 5)
        /\ High(x, 6) = 2 * High(x, 5) + BitOf(x, 6) /\ High(x, 7) = 2 * High(x, 6) + BitOf(x, 7)
        /\ High(x, 8) = 2 * High(x, 7) + BitOf(x, 8)
    BY <1>5, <1>13 DEF BitOf
  <2>2. \A q \in 2..8 : q \in {2, 3, 4, 5, 6, 7, 8}
    OBVIOUS
  <2>3. 2 - 1 = 1 /\ 3 - 1 = 2 /\ 4 - 1 = 3 /\ 5 - 1 = 4 /\ 6 - 1 = 5 /\ 7 - 1 = 6 /\ 8 - 1 = 7
    OBVIOUS
  <2> QED
    BY <2>1, <2>2, <2>3
<1>15. \A q \in 1..8 : High(x, q) \in Int
  <2>1. \A q \in 1..8 : q \in {1, 2, 3, 4, 5, 6, 7, 8}
    OBVIOUS
  <2> QED
    BY <1>2, <1>13, <2>1
<1>16. \A q \in 1..8 : BitOf(x, q) \in {0, 1}
  BY <1>15 DEF BitOf
<1>17. High(x, 1) = BitOf(x, 1)
  BY <1>12, <1>13 DEF BitOf
<1> QED
  BY <1>13, <1>14, <1>15, <1>16, <1>17

\* The first r bits of two bytes are the same.
SameBits(x, y, r) == \A q \in 1..r : BitOf(x, q) = BitOf(y, q)

\* The first r bits of two bytes agree exactly when nothing differs before bit
\* r + 1.
LEMMA HighBits ==
  ASSUME NEW x \in Byte, NEW y \in Byte, NEW r \in 1..8
  PROVE  SameBits(x, y, r) <=> High(x, r) = High(y, r)
<1>1. \A q \in 1..8 : /\ High(x, q) \in Int /\ BitOf(x, q) \in {0, 1}
                      /\ High(y, q) \in Int /\ BitOf(y, q) \in {0, 1}
  BY HighStep
<1>2. \A q \in 2..8 : High(x, q) = High(y, q) <=>
                        High(x, q - 1) = High(y, q - 1) /\ BitOf(x, q) = BitOf(y, q)
  <2> SUFFICES ASSUME NEW q \in 2..8
               PROVE  High(x, q) = High(y, q) <=>
                        High(x, q - 1) = High(y, q - 1) /\ BitOf(x, q) = BitOf(y, q)
    OBVIOUS
  <2>1. q - 1 \in 1..8 /\ q \in 1..8
    OBVIOUS
  <2>2. /\ High(x, q) = 2 * High(x, q - 1) + BitOf(x, q)
        /\ High(y, q) = 2 * High(y, q - 1) + BitOf(y, q)
    BY HighStep
  <2>3. PICK hx, hy, bx, by : /\ hx = High(x, q - 1) /\ hy = High(y, q - 1)
                              /\ bx = BitOf(x, q) /\ by = BitOf(y, q)
    OBVIOUS
  <2>4. hx \in Int /\ hy \in Int /\ bx \in {0, 1} /\ by \in {0, 1}
    BY <1>1, <2>1, <2>3
  <2>5. 2 * hx + bx = 2 * hy + by <=> hx = hy /\ bx = by
    BY <2>4
  <2> QED
    BY <2>2, <2>3, <2>5
<1>3. High(x, 1) = High(y, 1) <=> BitOf(x, 1) = BitOf(y, 1)
  BY HighStep
<1>4. \A q \in 1..8 : (\A p \in 1..q : BitOf(x, p) = BitOf(y, p)) <=>
                        (\A p \in 1..(q - 1) : BitOf(x, p) = BitOf(y, p)) /\ BitOf(x, q) = BitOf(y, q)
  OBVIOUS
<1>5. PICK P : P = [q \in 0..8 |-> (\A p \in 1..q : BitOf(x, p) = BitOf(y, p))]
  OBVIOUS
<1>6. P[0] = TRUE
  BY <1>5
<1>7. \A q \in 1..8 : P[q] <=> P[q - 1] /\ BitOf(x, q) = BitOf(y, q)
  <2>1. \A q \in 1..8 : q \in 0..8 /\ q - 1 \in 0..8
    OBVIOUS
  <2> QED
    BY <1>4, <1>5, <2>1
<1>8. P[1] <=> High(x, 1) = High(y, 1)
  BY <1>3, <1>6, <1>7
<1>9. \A q \in 2..8 : P[q] <=> P[q - 1] /\ BitOf(x, q) = BitOf(y, q)
  BY <1>7
<1>10. \A q \in 2..8 : (P[q - 1] <=> High(x, q - 1) = High(y, q - 1)) => (P[q] <=> High(x, q) = High(y, q))
  BY <1>2, <1>9
<1>11. P[2] <=> High(x, 2) = High(y, 2)
  BY <1>8, <1>10
<1>12. P[3] <=> High(x, 3) = High(y, 3)
  BY <1>10, <1>11
<1>13. P[4] <=> High(x, 4) = High(y, 4)
  BY <1>10, <1>12
<1>14. P[5] <=> High(x, 5) = High(y, 5)
  BY <1>10, <1>13
<1>15. P[6] <=> High(x, 6) = High(y, 6)
  BY <1>10, <1>14
<1>16. P[7] <=> High(x, 7) = High(y, 7)
  BY <1>10, <1>15
<1>17. P[8] <=> High(x, 8) = High(y, 8)
  BY <1>10, <1>16
<1>18. r \in {1, 2, 3, 4, 5, 6, 7, 8}
  OBVIOUS
<1>19. P[r] <=> High(x, r) = High(y, r)
  BY <1>8, <1>11, <1>12, <1>13, <1>14, <1>15, <1>16, <1>17, <1>18
<1> QED
  BY <1>5, <1>19 DEF SameBits

\* Bytes with the same eight bits are the same.
LEMMA ByteBits ==
  ASSUME NEW x \in Byte, NEW y \in Byte
  PROVE  SameBits(x, y, 8) <=> x = y
<1>1. PICK r \in 1..8 : r = 8
  OBVIOUS
<1>2. SameBits(x, y, r) <=> High(x, r) = High(y, r)
  BY HighBits
<1>3. High(x, 8) = x /\ High(y, 8) = y
  BY HighStep
<1> QED
  BY <1>1, <1>2, <1>3

\* Where bit i is.
LEMMA BitPlace ==
  ASSUME NEW b, NEW i \in Nat
  PROVE  Bit(b, i) = BitOf(b[(i \div 8) + 1], (i % 8) + 1)
  BY DEF Bit, BitOf, High

\* Division by eight, for the place of a bit.
LEMMA EightSplit ==
  ASSUME NEW bits \in Nat, NEW w \in Nat, NEW r \in 0..7, bits = 8 * w + r
  PROVE  /\ bits \div 8 = w /\ bits % 8 = r
         /\ \A i \in 0..(bits - 1) : \/ (i \div 8) + 1 \in 1..w
                                     \/ (i \div 8) + 1 = w + 1 /\ (i % 8) + 1 \in 1..r
         /\ \A i \in Nat : i % 8 \in 0..7
<1>1. bits \div 8 = w /\ bits % 8 = r
  OBVIOUS
<1>2. \A i \in Nat : i % 8 \in 0..7
  OBVIOUS
<1>3. ASSUME NEW i \in Nat, i < bits, NEW k \in Nat, NEW m \in 0..7, k = i \div 8, m = i % 8
      PROVE  k + 1 \in 1..w \/ (k + 1 = w + 1 /\ m + 1 \in 1..r)
  <2>1. i = 8 * k + m
    BY <1>3
  <2> QED
    BY <1>3, <2>1
<1>4. \A i \in Nat : i \div 8 \in Nat
  OBVIOUS
<1> QED
  BY <1>1, <1>2, <1>3, <1>4

\* The place of bit q of byte k.
LEMMA BitIndex ==
  ASSUME NEW bits \in Nat, NEW w \in Nat, NEW r \in 0..7, bits = 8 * w + r,
         NEW k \in Nat, NEW q \in 1..8, NEW i \in Int, i = 8 * k + (q - 1),
         k < w \/ (k = w /\ q <= r)
  PROVE  i \in 0..(bits - 1) /\ i \div 8 = k /\ i % 8 = q - 1
<1>1. i \div 8 = k /\ i % 8 = q - 1
  OBVIOUS
<1>2. i >= 0 /\ i <= bits - 1
  OBVIOUS
<1> QED
  BY <1>1, <1>2

\* The bits before a bound are the same.
SameStart(b, p, bits) == \A i \in 0..(bits - 1) : Bit(b, i) = Bit(p, i)

\* As many bytes as w bytes and r bits need.
HasBytes(b, w, r) == /\ \A k \in 1..w : b[k] \in Byte
                     /\ r # 0 => b[w + 1] \in Byte

\* Comparing bit by bit is comparing the whole bytes and the first bits of the
\* next: what prefixMatches does under a mask.
LEMMA PrefixBits ==
  ASSUME NEW b, NEW p, NEW w \in Nat, NEW r \in 0..7, NEW bits \in Nat, bits = 8 * w + r,
         HasBytes(b, w, r), HasBytes(p, w, r)
  PROVE  SameStart(b, p, bits) <=> PrefixMatches(b, p, bits)
<1>1. bits \div 8 = w /\ bits % 8 = r
  BY EightSplit
<1>2. (\A i \in 0..(bits - 1) : Bit(b, i) = Bit(p, i)) <=>
        (\A k \in 1..w : SameBits(b[k], p[k], 8)) /\ SameBits(b[w + 1], p[w + 1], r)
  <2>1. ASSUME \A i \in 0..(bits - 1) : Bit(b, i) = Bit(p, i), NEW k \in Nat, NEW q \in 1..8,
               k < w \/ (k = w /\ q <= r)
        PROVE  BitOf(b[k + 1], q) = BitOf(p[k + 1], q)
    <3>1. PICK i \in Int : i = 8 * k + (q - 1)
      OBVIOUS
    <3>2. i \in 0..(bits - 1) /\ i \div 8 = k /\ i % 8 = q - 1
      BY <2>1, <3>1, BitIndex
    <3>3. (i % 8) + 1 = q /\ i \in Nat
      BY <3>2
    <3> QED
      BY <2>1, <3>2, <3>3, BitPlace
  <2>2. ASSUME \A i \in 0..(bits - 1) : Bit(b, i) = Bit(p, i)
        PROVE  (\A k \in 1..w : SameBits(b[k], p[k], 8)) /\ SameBits(b[w + 1], p[w + 1], r)
    <3>1. ASSUME NEW k \in 1..w, NEW q \in 1..8
          PROVE  BitOf(b[k], q) = BitOf(p[k], q)
      <4>1. k - 1 \in Nat /\ k - 1 < w /\ (k - 1) + 1 = k
        OBVIOUS
      <4> QED
        BY <2>1, <2>2, <4>1
    <3>2. ASSUME NEW q \in 1..r
          PROVE  BitOf(b[w + 1], q) = BitOf(p[w + 1], q)
      BY <2>1, <2>2
    <3> QED
      BY <3>1, <3>2 DEF SameBits
  <2>3. ASSUME \A k \in 1..w : SameBits(b[k], p[k], 8), SameBits(b[w + 1], p[w + 1], r),
               NEW i \in 0..(bits - 1)
        PROVE  Bit(b, i) = Bit(p, i)
    <3>1. i \in Nat /\ (i % 8) + 1 \in 1..8
      BY EightSplit
    <3>4. PICK k, q : k = (i \div 8) + 1 /\ q = (i % 8) + 1
      OBVIOUS
    <3>5. Bit(b, i) = BitOf(b[k], q) /\ Bit(p, i) = BitOf(p[k], q)
      BY <3>1, <3>4, BitPlace
    <3>2. CASE (i \div 8) + 1 \in 1..w
      BY <2>3, <3>1, <3>2, <3>4, <3>5 DEF SameBits
    <3>3. CASE (i \div 8) + 1 = w + 1 /\ (i % 8) + 1 \in 1..r
      BY <2>3, <3>3, <3>4, <3>5 DEF SameBits
    <3> QED
      BY <3>2, <3>3, EightSplit
  <2> QED
    BY <2>2, <2>3
<1>3. ASSUME NEW k \in 1..w
      PROVE  SameBits(b[k], p[k], 8) <=> b[k] = p[k]
  BY ByteBits DEF HasBytes
<1>4. SameBits(b[w + 1], p[w + 1], r) <=>
        (r # 0 => b[w + 1] \div Weights[r] = p[w + 1] \div Weights[r])
  <2>1. CASE r = 0
    BY <2>1 DEF SameBits
  <2>2. CASE r # 0
    <3>1. r \in 1..8
      BY <2>2
    <3>2. b[w + 1] \in Byte /\ p[w + 1] \in Byte
      BY <2>2 DEF HasBytes
    <3> QED
      BY <2>2, <3>1, <3>2, HighBits DEF High
  <2> QED
    BY <2>1, <2>2
<1>5. PrefixMatches(b, p, bits) <=>
        /\ \A k \in 1..w : b[k] = p[k]
        /\ r # 0 => b[w + 1] \div Weights[r] = p[w + 1] \div Weights[r]
  BY <1>1 DEF PrefixMatches
<1> QED
  BY <1>2, <1>3, <1>4, <1>5 DEF SameStart

\* Matching a prefix, by whole bytes and the first bits of the next.
FirstBits(b, p, w, r) ==
  /\ \A k \in 1..w : b[k] = p[k]
  /\ r # 0 => b[w + 1] \div Weights[r] = p[w + 1] \div Weights[r]

\* prefixMatches, for a length of w bytes and r bits.
LEMMA PrefixByBytes ==
  ASSUME NEW b, NEW p, NEW w \in Nat, NEW r \in 0..7, NEW bits \in Nat, bits = 8 * w + r
  PROVE  PrefixMatches(b, p, bits) <=> FirstBits(b, p, w, r)
<1>1. bits \div 8 = w /\ bits % 8 = r
  BY EightSplit
<1> QED
  BY <1>1 DEF PrefixMatches, FirstBits

\* An address is in a block exactly when it matches the block's prefix.
LEMMA BlockMatches ==
  ASSUME NEW ip, NEW block, NEW p, NEW n \in Nat, NEW w \in Nat, NEW r \in 0..7,
         NEW bits \in Nat, bits = 8 * w + r, bits <= 8 * n,
         ip.bytes \in [1..n -> Byte], p \in [1..n -> Byte],
         block = <<ip.version, p, bits>>
  PROVE  InBlock(ip, block) <=> FirstBits(ip.bytes, p, w, r)
<1>1. PICK b : b = ip.bytes
  OBVIOUS
<1>2. (\A k \in 1..w : k \in 1..n) /\ (r # 0 => w + 1 \in 1..n)
  OBVIOUS
<1>3. HasBytes(b, w, r) /\ HasBytes(p, w, r)
  BY <1>1, <1>2 DEF HasBytes
<1>4. SameStart(b, p, bits) <=> PrefixMatches(b, p, bits)
  BY <1>3, PrefixBits
<1>5. InBlock(ip, block) <=> SameStart(b, p, bits)
  BY <1>1 DEF InBlock, SameStart
<1>6. PrefixMatches(b, p, bits) <=> FirstBits(b, p, w, r)
  BY PrefixByBytes
<1> QED
  BY <1>1, <1>4, <1>5, <1>6

\* Four bytes.
LEMMA FourBytes ==
  ASSUME NEW a \in Byte, NEW b \in Byte, NEW c \in Byte, NEW d \in Byte,
         NEW p, p = <<a, b, c, d>>
  PROVE  p \in [1..4 -> Byte] /\ p[1] = a /\ p[2] = b /\ p[3] = c /\ p[4] = d
  OBVIOUS

\* The lengths that the blocks of IPv4 have.
LEMMA FirstBitsOf ==
  ASSUME NEW b, NEW p
  PROVE  /\ FirstBits(b, p, 1, 0) <=> b[1] = p[1]
         /\ FirstBits(b, p, 2, 0) <=> b[1] = p[1] /\ b[2] = p[2]
         /\ FirstBits(b, p, 3, 0) <=> b[1] = p[1] /\ b[2] = p[2] /\ b[3] = p[3]
         /\ FirstBits(b, p, 1, 2) <=> b[1] = p[1] /\ b[2] \div 64 = p[2] \div 64
         /\ FirstBits(b, p, 1, 4) <=> b[1] = p[1] /\ b[2] \div 16 = p[2] \div 16
         /\ FirstBits(b, p, 1, 7) <=> b[1] = p[1] /\ b[2] \div 2 = p[2] \div 2
         /\ FirstBits(b, p, 0, 4) <=> b[1] \div 16 = p[1] \div 16
<1>1. Weights[2] = 64 /\ Weights[4] = 16 /\ Weights[7] = 2
  BY DEF Weights
<1>2. FirstBits(b, p, 1, 0) <=> b[1] = p[1]
  BY <1>1 DEF FirstBits
<1>3. FirstBits(b, p, 2, 0) <=> b[1] = p[1] /\ b[2] = p[2]
  BY <1>1 DEF FirstBits
<1>4. FirstBits(b, p, 3, 0) <=> b[1] = p[1] /\ b[2] = p[2] /\ b[3] = p[3]
  BY <1>1 DEF FirstBits
<1>5. FirstBits(b, p, 1, 2) <=> b[1] = p[1] /\ b[2] \div 64 = p[2] \div 64
  BY <1>1 DEF FirstBits
<1>6. FirstBits(b, p, 1, 4) <=> b[1] = p[1] /\ b[2] \div 16 = p[2] \div 16
  BY <1>1 DEF FirstBits
<1>7. FirstBits(b, p, 1, 7) <=> b[1] = p[1] /\ b[2] \div 2 = p[2] \div 2
  BY <1>1 DEF FirstBits
<1>8. FirstBits(b, p, 0, 4) <=> b[1] \div 16 = p[1] \div 16
  BY <1>1 DEF FirstBits
<1> QED
  BY <1>2, <1>3, <1>4, <1>5, <1>6, <1>7, <1>8

\* A block of IPv4.
LEMMA BlockOfFour ==
  ASSUME NEW ip, ip.version = 4, ip.bytes \in [1..4 -> Byte], NEW p \in [1..4 -> Byte],
         NEW w \in Nat, NEW r \in 0..7, NEW bits \in Nat, bits = 8 * w + r, bits <= 32
  PROVE  InBlock(ip, <<4, p, bits>>) <=> FirstBits(ip.bytes, p, w, r)
<1>1. PICK n \in Nat : n = 4
  OBVIOUS
<1>2. p \in [1..n -> Byte] /\ ip.bytes \in [1..n -> Byte] /\ bits <= 8 * n
  BY <1>1
<1>3. InBlock(ip, <<ip.version, p, bits>>) <=> FirstBits(ip.bytes, p, w, r)
  BY <1>2, BlockMatches
<1> QED
  BY <1>3

\* A block of 8 bits.
LEMMA Block8 ==
  ASSUME NEW ip, ip.version = 4, ip.bytes \in [1..4 -> Byte], NEW p \in [1..4 -> Byte],
         NEW b, b = ip.bytes
  PROVE  InBlock(ip, <<4, p, 8>>) <=> (b[1] = p[1])
<1>1. PICK w \in Nat, r \in 0..7, bits \in Nat : w = 1 /\ r = 0 /\ bits = 8
  OBVIOUS
<1>2. InBlock(ip, <<4, p, bits>>) <=> FirstBits(b, p, w, r)
  BY <1>1, BlockOfFour
<1>3. FirstBits(b, p, w, r) <=> (b[1] = p[1])
  BY <1>1, FirstBitsOf
<1> QED
  BY <1>1, <1>2, <1>3

\* A block of 16 bits.
LEMMA Block16 ==
  ASSUME NEW ip, ip.version = 4, ip.bytes \in [1..4 -> Byte], NEW p \in [1..4 -> Byte],
         NEW b, b = ip.bytes
  PROVE  InBlock(ip, <<4, p, 16>>) <=> (b[1] = p[1] /\ b[2] = p[2])
<1>1. PICK w \in Nat, r \in 0..7, bits \in Nat : w = 2 /\ r = 0 /\ bits = 16
  OBVIOUS
<1>2. InBlock(ip, <<4, p, bits>>) <=> FirstBits(b, p, w, r)
  BY <1>1, BlockOfFour
<1>3. FirstBits(b, p, w, r) <=> (b[1] = p[1] /\ b[2] = p[2])
  BY <1>1, FirstBitsOf
<1> QED
  BY <1>1, <1>2, <1>3

\* A block of 24 bits.
LEMMA Block24 ==
  ASSUME NEW ip, ip.version = 4, ip.bytes \in [1..4 -> Byte], NEW p \in [1..4 -> Byte],
         NEW b, b = ip.bytes
  PROVE  InBlock(ip, <<4, p, 24>>) <=> (b[1] = p[1] /\ b[2] = p[2] /\ b[3] = p[3])
<1>1. PICK w \in Nat, r \in 0..7, bits \in Nat : w = 3 /\ r = 0 /\ bits = 24
  OBVIOUS
<1>2. InBlock(ip, <<4, p, bits>>) <=> FirstBits(b, p, w, r)
  BY <1>1, BlockOfFour
<1>3. FirstBits(b, p, w, r) <=> (b[1] = p[1] /\ b[2] = p[2] /\ b[3] = p[3])
  BY <1>1, FirstBitsOf
<1> QED
  BY <1>1, <1>2, <1>3

\* A block of 10 bits.
LEMMA Block10 ==
  ASSUME NEW ip, ip.version = 4, ip.bytes \in [1..4 -> Byte], NEW p \in [1..4 -> Byte],
         NEW b, b = ip.bytes
  PROVE  InBlock(ip, <<4, p, 10>>) <=> (b[1] = p[1] /\ b[2] \div 64 = p[2] \div 64)
<1>1. PICK w \in Nat, r \in 0..7, bits \in Nat : w = 1 /\ r = 2 /\ bits = 10
  OBVIOUS
<1>2. InBlock(ip, <<4, p, bits>>) <=> FirstBits(b, p, w, r)
  BY <1>1, BlockOfFour
<1>3. FirstBits(b, p, w, r) <=> (b[1] = p[1] /\ b[2] \div 64 = p[2] \div 64)
  BY <1>1, FirstBitsOf
<1> QED
  BY <1>1, <1>2, <1>3

\* A block of 12 bits.
LEMMA Block12 ==
  ASSUME NEW ip, ip.version = 4, ip.bytes \in [1..4 -> Byte], NEW p \in [1..4 -> Byte],
         NEW b, b = ip.bytes
  PROVE  InBlock(ip, <<4, p, 12>>) <=> (b[1] = p[1] /\ b[2] \div 16 = p[2] \div 16)
<1>1. PICK w \in Nat, r \in 0..7, bits \in Nat : w = 1 /\ r = 4 /\ bits = 12
  OBVIOUS
<1>2. InBlock(ip, <<4, p, bits>>) <=> FirstBits(b, p, w, r)
  BY <1>1, BlockOfFour
<1>3. FirstBits(b, p, w, r) <=> (b[1] = p[1] /\ b[2] \div 16 = p[2] \div 16)
  BY <1>1, FirstBitsOf
<1> QED
  BY <1>1, <1>2, <1>3

\* A block of 15 bits.
LEMMA Block15 ==
  ASSUME NEW ip, ip.version = 4, ip.bytes \in [1..4 -> Byte], NEW p \in [1..4 -> Byte],
         NEW b, b = ip.bytes
  PROVE  InBlock(ip, <<4, p, 15>>) <=> (b[1] = p[1] /\ b[2] \div 2 = p[2] \div 2)
<1>1. PICK w \in Nat, r \in 0..7, bits \in Nat : w = 1 /\ r = 7 /\ bits = 15
  OBVIOUS
<1>2. InBlock(ip, <<4, p, bits>>) <=> FirstBits(b, p, w, r)
  BY <1>1, BlockOfFour
<1>3. FirstBits(b, p, w, r) <=> (b[1] = p[1] /\ b[2] \div 2 = p[2] \div 2)
  BY <1>1, FirstBitsOf
<1> QED
  BY <1>1, <1>2, <1>3

\* A block of 4 bits.
LEMMA Block4 ==
  ASSUME NEW ip, ip.version = 4, ip.bytes \in [1..4 -> Byte], NEW p \in [1..4 -> Byte],
         NEW b, b = ip.bytes
  PROVE  InBlock(ip, <<4, p, 4>>) <=> (b[1] \div 16 = p[1] \div 16)
<1>1. PICK w \in Nat, r \in 0..7, bits \in Nat : w = 0 /\ r = 4 /\ bits = 4
  OBVIOUS
<1>2. InBlock(ip, <<4, p, bits>>) <=> FirstBits(b, p, w, r)
  BY <1>1, BlockOfFour
<1>3. FirstBits(b, p, w, r) <=> (b[1] \div 16 = p[1] \div 16)
  BY <1>1, FirstBitsOf
<1> QED
  BY <1>1, <1>2, <1>3

\* The four bytes of an IPv4 address against each block.
LEMMA BlocksOfFour ==
  ASSUME NEW ip, ip.version = 4, ip.bytes \in [1..4 -> Byte],
         NEW a \in Byte, NEW b \in Byte, NEW c \in Byte,
         a = ip.bytes[1], b = ip.bytes[2], c = ip.bytes[3]
  PROVE  /\ InBlock(ip, <<4, <<0, 0, 0, 0>>, 8>>) <=> (a = 0)
         /\ InBlock(ip, <<4, <<10, 0, 0, 0>>, 8>>) <=> (a = 10)
         /\ InBlock(ip, <<4, <<127, 0, 0, 0>>, 8>>) <=> (a = 127)
         /\ InBlock(ip, <<4, <<100, 64, 0, 0>>, 10>>) <=> (a = 100 /\ b \in 64..127)
         /\ InBlock(ip, <<4, <<169, 254, 0, 0>>, 16>>) <=> (a = 169 /\ b = 254)
         /\ InBlock(ip, <<4, <<172, 16, 0, 0>>, 12>>) <=> (a = 172 /\ b \in 16..31)
         /\ InBlock(ip, <<4, <<192, 0, 0, 0>>, 24>>) <=> (a = 192 /\ b = 0 /\ c = 0)
         /\ InBlock(ip, <<4, <<192, 0, 2, 0>>, 24>>) <=> (a = 192 /\ b = 0 /\ c = 2)
         /\ InBlock(ip, <<4, <<192, 88, 99, 0>>, 24>>) <=> (a = 192 /\ b = 88 /\ c = 99)
         /\ InBlock(ip, <<4, <<192, 168, 0, 0>>, 16>>) <=> (a = 192 /\ b = 168)
         /\ InBlock(ip, <<4, <<198, 18, 0, 0>>, 15>>) <=> (a = 198 /\ b \in {18, 19})
         /\ InBlock(ip, <<4, <<198, 51, 100, 0>>, 24>>) <=> (a = 198 /\ b = 51 /\ c = 100)
         /\ InBlock(ip, <<4, <<203, 0, 113, 0>>, 24>>) <=> (a = 203 /\ b = 0 /\ c = 113)
         /\ InBlock(ip, <<4, <<224, 0, 0, 0>>, 4>>) <=> (a \in 224..239)
         /\ InBlock(ip, <<4, <<240, 0, 0, 0>>, 4>>) <=> (a \in 240..255)
<1>0. PICK x : x = ip.bytes /\ a = x[1] /\ b = x[2] /\ c = x[3]
  OBVIOUS
<1>1. InBlock(ip, <<4, <<0, 0, 0, 0>>, 8>>) <=> (a = 0)
  <2>1. PICK p : p = <<0, 0, 0, 0>>
    OBVIOUS
  <2>0. 0 \in Byte
    BY DEF Byte
  <2>2. p \in [1..4 -> Byte] /\ p[1] = 0 /\ p[2] = 0 /\ p[3] = 0
    BY <2>0, <2>1, FourBytes
  <2>3. InBlock(ip, <<4, p, 8>>) <=> x[1] = p[1]
    BY <2>2, <1>0, Block8
  <2>4. (x[1] = p[1]) <=> (a = 0)
    BY <2>2, <1>0 DEF Byte
  <2> QED
    BY <2>1, <2>3, <2>4
<1>2. InBlock(ip, <<4, <<10, 0, 0, 0>>, 8>>) <=> (a = 10)
  <2>1. PICK p : p = <<10, 0, 0, 0>>
    OBVIOUS
  <2>0. 10 \in Byte /\ 0 \in Byte
    BY DEF Byte
  <2>2. p \in [1..4 -> Byte] /\ p[1] = 10 /\ p[2] = 0 /\ p[3] = 0
    BY <2>0, <2>1, FourBytes
  <2>3. InBlock(ip, <<4, p, 8>>) <=> x[1] = p[1]
    BY <2>2, <1>0, Block8
  <2>4. (x[1] = p[1]) <=> (a = 10)
    BY <2>2, <1>0 DEF Byte
  <2> QED
    BY <2>1, <2>3, <2>4
<1>3. InBlock(ip, <<4, <<127, 0, 0, 0>>, 8>>) <=> (a = 127)
  <2>1. PICK p : p = <<127, 0, 0, 0>>
    OBVIOUS
  <2>0. 127 \in Byte /\ 0 \in Byte
    BY DEF Byte
  <2>2. p \in [1..4 -> Byte] /\ p[1] = 127 /\ p[2] = 0 /\ p[3] = 0
    BY <2>0, <2>1, FourBytes
  <2>3. InBlock(ip, <<4, p, 8>>) <=> x[1] = p[1]
    BY <2>2, <1>0, Block8
  <2>4. (x[1] = p[1]) <=> (a = 127)
    BY <2>2, <1>0 DEF Byte
  <2> QED
    BY <2>1, <2>3, <2>4
<1>4. InBlock(ip, <<4, <<100, 64, 0, 0>>, 10>>) <=> (a = 100 /\ b \in 64..127)
  <2>1. PICK p : p = <<100, 64, 0, 0>>
    OBVIOUS
  <2>0. 100 \in Byte /\ 64 \in Byte /\ 0 \in Byte
    BY DEF Byte
  <2>2. p \in [1..4 -> Byte] /\ p[1] = 100 /\ p[2] = 64 /\ p[3] = 0
    BY <2>0, <2>1, FourBytes
  <2>3. InBlock(ip, <<4, p, 10>>) <=> x[1] = p[1] /\ x[2] \div 64 = p[2] \div 64
    BY <2>2, <1>0, Block10
  <2>4. (x[1] = p[1] /\ x[2] \div 64 = p[2] \div 64) <=> (a = 100 /\ b \in 64..127)
    BY <2>2, <1>0 DEF Byte
  <2> QED
    BY <2>1, <2>3, <2>4
<1>5. InBlock(ip, <<4, <<169, 254, 0, 0>>, 16>>) <=> (a = 169 /\ b = 254)
  <2>1. PICK p : p = <<169, 254, 0, 0>>
    OBVIOUS
  <2>0. 169 \in Byte /\ 254 \in Byte /\ 0 \in Byte
    BY DEF Byte
  <2>2. p \in [1..4 -> Byte] /\ p[1] = 169 /\ p[2] = 254 /\ p[3] = 0
    BY <2>0, <2>1, FourBytes
  <2>3. InBlock(ip, <<4, p, 16>>) <=> x[1] = p[1] /\ x[2] = p[2]
    BY <2>2, <1>0, Block16
  <2>4. (x[1] = p[1] /\ x[2] = p[2]) <=> (a = 169 /\ b = 254)
    BY <2>2, <1>0 DEF Byte
  <2> QED
    BY <2>1, <2>3, <2>4
<1>6. InBlock(ip, <<4, <<172, 16, 0, 0>>, 12>>) <=> (a = 172 /\ b \in 16..31)
  <2>1. PICK p : p = <<172, 16, 0, 0>>
    OBVIOUS
  <2>0. 172 \in Byte /\ 16 \in Byte /\ 0 \in Byte
    BY DEF Byte
  <2>2. p \in [1..4 -> Byte] /\ p[1] = 172 /\ p[2] = 16 /\ p[3] = 0
    BY <2>0, <2>1, FourBytes
  <2>3. InBlock(ip, <<4, p, 12>>) <=> x[1] = p[1] /\ x[2] \div 16 = p[2] \div 16
    BY <2>2, <1>0, Block12
  <2>4. (x[1] = p[1] /\ x[2] \div 16 = p[2] \div 16) <=> (a = 172 /\ b \in 16..31)
    BY <2>2, <1>0 DEF Byte
  <2> QED
    BY <2>1, <2>3, <2>4
<1>7. InBlock(ip, <<4, <<192, 0, 0, 0>>, 24>>) <=> (a = 192 /\ b = 0 /\ c = 0)
  <2>1. PICK p : p = <<192, 0, 0, 0>>
    OBVIOUS
  <2>0. 192 \in Byte /\ 0 \in Byte
    BY DEF Byte
  <2>2. p \in [1..4 -> Byte] /\ p[1] = 192 /\ p[2] = 0 /\ p[3] = 0
    BY <2>0, <2>1, FourBytes
  <2>3. InBlock(ip, <<4, p, 24>>) <=> x[1] = p[1] /\ x[2] = p[2] /\ x[3] = p[3]
    BY <2>2, <1>0, Block24
  <2>4. (x[1] = p[1] /\ x[2] = p[2] /\ x[3] = p[3]) <=> (a = 192 /\ b = 0 /\ c = 0)
    BY <2>2, <1>0 DEF Byte
  <2> QED
    BY <2>1, <2>3, <2>4
<1>8. InBlock(ip, <<4, <<192, 0, 2, 0>>, 24>>) <=> (a = 192 /\ b = 0 /\ c = 2)
  <2>1. PICK p : p = <<192, 0, 2, 0>>
    OBVIOUS
  <2>0. 192 \in Byte /\ 0 \in Byte /\ 2 \in Byte
    BY DEF Byte
  <2>2. p \in [1..4 -> Byte] /\ p[1] = 192 /\ p[2] = 0 /\ p[3] = 2
    BY <2>0, <2>1, FourBytes
  <2>3. InBlock(ip, <<4, p, 24>>) <=> x[1] = p[1] /\ x[2] = p[2] /\ x[3] = p[3]
    BY <2>2, <1>0, Block24
  <2>4. (x[1] = p[1] /\ x[2] = p[2] /\ x[3] = p[3]) <=> (a = 192 /\ b = 0 /\ c = 2)
    BY <2>2, <1>0 DEF Byte
  <2> QED
    BY <2>1, <2>3, <2>4
<1>9. InBlock(ip, <<4, <<192, 88, 99, 0>>, 24>>) <=> (a = 192 /\ b = 88 /\ c = 99)
  <2>1. PICK p : p = <<192, 88, 99, 0>>
    OBVIOUS
  <2>0. 192 \in Byte /\ 88 \in Byte /\ 99 \in Byte /\ 0 \in Byte
    BY DEF Byte
  <2>2. p \in [1..4 -> Byte] /\ p[1] = 192 /\ p[2] = 88 /\ p[3] = 99
    BY <2>0, <2>1, FourBytes
  <2>3. InBlock(ip, <<4, p, 24>>) <=> x[1] = p[1] /\ x[2] = p[2] /\ x[3] = p[3]
    BY <2>2, <1>0, Block24
  <2>4. (x[1] = p[1] /\ x[2] = p[2] /\ x[3] = p[3]) <=> (a = 192 /\ b = 88 /\ c = 99)
    BY <2>2, <1>0 DEF Byte
  <2> QED
    BY <2>1, <2>3, <2>4
<1>10. InBlock(ip, <<4, <<192, 168, 0, 0>>, 16>>) <=> (a = 192 /\ b = 168)
  <2>1. PICK p : p = <<192, 168, 0, 0>>
    OBVIOUS
  <2>0. 192 \in Byte /\ 168 \in Byte /\ 0 \in Byte
    BY DEF Byte
  <2>2. p \in [1..4 -> Byte] /\ p[1] = 192 /\ p[2] = 168 /\ p[3] = 0
    BY <2>0, <2>1, FourBytes
  <2>3. InBlock(ip, <<4, p, 16>>) <=> x[1] = p[1] /\ x[2] = p[2]
    BY <2>2, <1>0, Block16
  <2>4. (x[1] = p[1] /\ x[2] = p[2]) <=> (a = 192 /\ b = 168)
    BY <2>2, <1>0 DEF Byte
  <2> QED
    BY <2>1, <2>3, <2>4
<1>11. InBlock(ip, <<4, <<198, 18, 0, 0>>, 15>>) <=> (a = 198 /\ b \in {18, 19})
  <2>1. PICK p : p = <<198, 18, 0, 0>>
    OBVIOUS
  <2>0. 198 \in Byte /\ 18 \in Byte /\ 0 \in Byte
    BY DEF Byte
  <2>2. p \in [1..4 -> Byte] /\ p[1] = 198 /\ p[2] = 18 /\ p[3] = 0
    BY <2>0, <2>1, FourBytes
  <2>3. InBlock(ip, <<4, p, 15>>) <=> x[1] = p[1] /\ x[2] \div 2 = p[2] \div 2
    BY <2>2, <1>0, Block15
  <2>4. (x[1] = p[1] /\ x[2] \div 2 = p[2] \div 2) <=> (a = 198 /\ b \in {18, 19})
    BY <2>2, <1>0 DEF Byte
  <2> QED
    BY <2>1, <2>3, <2>4
<1>12. InBlock(ip, <<4, <<198, 51, 100, 0>>, 24>>) <=> (a = 198 /\ b = 51 /\ c = 100)
  <2>1. PICK p : p = <<198, 51, 100, 0>>
    OBVIOUS
  <2>0. 198 \in Byte /\ 51 \in Byte /\ 100 \in Byte /\ 0 \in Byte
    BY DEF Byte
  <2>2. p \in [1..4 -> Byte] /\ p[1] = 198 /\ p[2] = 51 /\ p[3] = 100
    BY <2>0, <2>1, FourBytes
  <2>3. InBlock(ip, <<4, p, 24>>) <=> x[1] = p[1] /\ x[2] = p[2] /\ x[3] = p[3]
    BY <2>2, <1>0, Block24
  <2>4. (x[1] = p[1] /\ x[2] = p[2] /\ x[3] = p[3]) <=> (a = 198 /\ b = 51 /\ c = 100)
    BY <2>2, <1>0 DEF Byte
  <2> QED
    BY <2>1, <2>3, <2>4
<1>13. InBlock(ip, <<4, <<203, 0, 113, 0>>, 24>>) <=> (a = 203 /\ b = 0 /\ c = 113)
  <2>1. PICK p : p = <<203, 0, 113, 0>>
    OBVIOUS
  <2>0. 203 \in Byte /\ 0 \in Byte /\ 113 \in Byte
    BY DEF Byte
  <2>2. p \in [1..4 -> Byte] /\ p[1] = 203 /\ p[2] = 0 /\ p[3] = 113
    BY <2>0, <2>1, FourBytes
  <2>3. InBlock(ip, <<4, p, 24>>) <=> x[1] = p[1] /\ x[2] = p[2] /\ x[3] = p[3]
    BY <2>2, <1>0, Block24
  <2>4. (x[1] = p[1] /\ x[2] = p[2] /\ x[3] = p[3]) <=> (a = 203 /\ b = 0 /\ c = 113)
    BY <2>2, <1>0 DEF Byte
  <2> QED
    BY <2>1, <2>3, <2>4
<1>14. InBlock(ip, <<4, <<224, 0, 0, 0>>, 4>>) <=> (a \in 224..239)
  <2>1. PICK p : p = <<224, 0, 0, 0>>
    OBVIOUS
  <2>0. 224 \in Byte /\ 0 \in Byte
    BY DEF Byte
  <2>2. p \in [1..4 -> Byte] /\ p[1] = 224 /\ p[2] = 0 /\ p[3] = 0
    BY <2>0, <2>1, FourBytes
  <2>3. InBlock(ip, <<4, p, 4>>) <=> x[1] \div 16 = p[1] \div 16
    BY <2>2, <1>0, Block4
  <2>4. (x[1] \div 16 = p[1] \div 16) <=> (a \in 224..239)
    BY <2>2, <1>0 DEF Byte
  <2> QED
    BY <2>1, <2>3, <2>4
<1>15. InBlock(ip, <<4, <<240, 0, 0, 0>>, 4>>) <=> (a \in 240..255)
  <2>1. PICK p : p = <<240, 0, 0, 0>>
    OBVIOUS
  <2>0. 240 \in Byte /\ 0 \in Byte
    BY DEF Byte
  <2>2. p \in [1..4 -> Byte] /\ p[1] = 240 /\ p[2] = 0 /\ p[3] = 0
    BY <2>0, <2>1, FourBytes
  <2>3. InBlock(ip, <<4, p, 4>>) <=> x[1] \div 16 = p[1] \div 16
    BY <2>2, <1>0, Block4
  <2>4. (x[1] \div 16 = p[1] \div 16) <=> (a \in 240..255)
    BY <2>2, <1>0 DEF Byte
  <2> QED
    BY <2>1, <2>3, <2>4
<1> QED
  BY <1>1, <1>2, <1>3, <1>4, <1>5, <1>6, <1>7, <1>8, <1>9, <1>10, <1>11, <1>12, <1>13, <1>14, <1>15

\* Prefixes that agree where w bytes and r bits look.
SamePrefix(p, q, w, r) == /\ \A k \in 1..w : p[k] = q[k]
                          /\ r # 0 => p[w + 1] = q[w + 1]

\* A block of IPv6 is a prefix, of which the code writes only the bytes it needs.
LEMMA BlockOfSix ==
  ASSUME NEW ip, ip.version = 6, ip.bytes \in [1..16 -> Byte],
         NEW p, NEW q \in [1..16 -> Byte],
         NEW w \in Nat, NEW r \in 0..7, NEW bits \in Nat, bits = 8 * w + r, bits <= 128,
         SamePrefix(p, q, w, r)
  PROVE  InBlock(ip, <<6, q, bits>>) <=> PrefixMatches(ip.bytes, p, bits)
<1>1. PICK n \in Nat : n = 16
  OBVIOUS
<1>2. q \in [1..n -> Byte] /\ ip.bytes \in [1..n -> Byte] /\ bits <= 8 * n
  BY <1>1
<1>3. InBlock(ip, <<ip.version, q, bits>>) <=> FirstBits(ip.bytes, q, w, r)
  BY <1>2, BlockMatches
<1>4. FirstBits(ip.bytes, q, w, r) <=> FirstBits(ip.bytes, p, w, r)
  BY DEF FirstBits, SamePrefix
<1>5. PrefixMatches(ip.bytes, p, bits) <=> FirstBits(ip.bytes, p, w, r)
  BY PrefixByBytes
<1> QED
  BY <1>3, <1>4, <1>5

\* The bytes of V6.
LEMMA SixteenBytes ==
  ASSUME NEW head \in Seq(Byte), NEW q, q = V6(head).bytes
  PROVE  /\ q \in [1..16 -> Byte]
         /\ \A k \in 1..16 : q[k] = IF k <= Len(head) THEN head[k] ELSE 0
<1>1. q = [k \in 1..16 |-> IF k <= Len(head) THEN head[k] ELSE 0]
  BY DEF V6
<1>2. \A k \in 1..16 : k <= Len(head) => head[k] \in Byte
  OBVIOUS
<1>3. 0 \in Byte
  BY DEF Byte
<1> QED
  BY <1>1, <1>2, <1>3

\* The sixteen bytes of an IPv6 address against each block.
LEMMA BlocksOfSix ==
  ASSUME NEW ip, ip.version = 6, ip.bytes \in [1..16 -> Byte]
  PROVE  /\ InBlock(ip, <<6, V6(<<0>>).bytes, 8>>) <=>
              PrefixMatches(ip.bytes, <<0>>, 8)
         /\ InBlock(ip, <<6, V6(<<0, 100, 255, 155>>).bytes, 96>>) <=>
              PrefixMatches(ip.bytes, <<0, 100, 255, 155, 0, 0, 0, 0, 0, 0, 0, 0>>, 96)
         /\ InBlock(ip, <<6, V6(<<1>>).bytes, 64>>) <=>
              PrefixMatches(ip.bytes, <<1, 0, 0, 0, 0, 0, 0, 0>>, 64)
         /\ InBlock(ip, <<6, V6(<<32, 1>>).bytes, 23>>) <=>
              PrefixMatches(ip.bytes, <<32, 1, 0>>, 23)
         /\ InBlock(ip, <<6, V6(<<32, 1, 13, 184>>).bytes, 32>>) <=>
              PrefixMatches(ip.bytes, <<32, 1, 13, 184>>, 32)
         /\ InBlock(ip, <<6, V6(<<32, 2>>).bytes, 16>>) <=>
              PrefixMatches(ip.bytes, <<32, 2>>, 16)
         /\ InBlock(ip, <<6, V6(<<63, 255>>).bytes, 20>>) <=>
              PrefixMatches(ip.bytes, <<63, 255, 0>>, 20)
         /\ InBlock(ip, <<6, V6(<<252>>).bytes, 7>>) <=>
              PrefixMatches(ip.bytes, <<252>>, 7)
         /\ InBlock(ip, <<6, V6(<<254, 128>>).bytes, 10>>) <=>
              PrefixMatches(ip.bytes, <<254, 128>>, 10)
         /\ InBlock(ip, <<6, V6(<<255>>).bytes, 8>>) <=>
              PrefixMatches(ip.bytes, <<255>>, 8)
<1>1. InBlock(ip, <<6, V6(<<0>>).bytes, 8>>) <=>
        PrefixMatches(ip.bytes, <<0>>, 8)
  <2>1. PICK head, p : head = <<0>> /\ p = <<0>>
    OBVIOUS
  <2>2. PICK q : q = V6(head).bytes
    OBVIOUS
  <2>3. head \in Seq(Byte) /\ Len(head) = 1
    BY <2>1 DEF Byte
  <2>4. /\ q \in [1..16 -> Byte]
        /\ \A k \in 1..16 : q[k] = IF k <= Len(head) THEN head[k] ELSE 0
    BY <2>2, <2>3, SixteenBytes
  <2>5. q[1] = 0
    BY <2>1, <2>3, <2>4
  <2>6. p[1] = 0
    BY <2>1
  <2>7. PICK w \in Nat, r \in 0..7, bits \in Nat : w = 1 /\ r = 0 /\ bits = 8
    OBVIOUS
  <2>8. SamePrefix(p, q, w, r)
    BY <2>5, <2>6, <2>7 DEF SamePrefix
  <2>9. q \in [1..16 -> Byte] /\ bits = 8 * w + r /\ bits <= 128
    BY <2>4, <2>7
  <2>10. InBlock(ip, <<6, q, bits>>) <=> PrefixMatches(ip.bytes, p, bits)
    BY <2>8, <2>9, BlockOfSix
  <2> QED
    BY <2>2, <2>1, <2>7, <2>10
<1>2. InBlock(ip, <<6, V6(<<0, 100, 255, 155>>).bytes, 96>>) <=>
        PrefixMatches(ip.bytes, <<0, 100, 255, 155, 0, 0, 0, 0, 0, 0, 0, 0>>, 96)
  <2>1. PICK head, p : head = <<0, 100, 255, 155>> /\ p = <<0, 100, 255, 155, 0, 0, 0, 0, 0, 0, 0, 0>>
    OBVIOUS
  <2>2. PICK q : q = V6(head).bytes
    OBVIOUS
  <2>3. head \in Seq(Byte) /\ Len(head) = 4
    BY <2>1 DEF Byte
  <2>4. /\ q \in [1..16 -> Byte]
        /\ \A k \in 1..16 : q[k] = IF k <= Len(head) THEN head[k] ELSE 0
    BY <2>2, <2>3, SixteenBytes
  <2>5. q[1] = 0 /\ q[2] = 100 /\ q[3] = 255 /\ q[4] = 155 /\ q[5] = 0 /\ q[6] = 0 /\ q[7] = 0 /\ q[8] = 0 /\ q[9] = 0 /\ q[10] = 0 /\ q[11] = 0 /\ q[12] = 0
    BY <2>1, <2>3, <2>4
  <2>6. p[1] = 0 /\ p[2] = 100 /\ p[3] = 255 /\ p[4] = 155 /\ p[5] = 0 /\ p[6] = 0 /\ p[7] = 0 /\ p[8] = 0 /\ p[9] = 0 /\ p[10] = 0 /\ p[11] = 0 /\ p[12] = 0
    BY <2>1
  <2>7. PICK w \in Nat, r \in 0..7, bits \in Nat : w = 12 /\ r = 0 /\ bits = 96
    OBVIOUS
  <2>8. SamePrefix(p, q, w, r)
    BY <2>5, <2>6, <2>7 DEF SamePrefix
  <2>9. q \in [1..16 -> Byte] /\ bits = 8 * w + r /\ bits <= 128
    BY <2>4, <2>7
  <2>10. InBlock(ip, <<6, q, bits>>) <=> PrefixMatches(ip.bytes, p, bits)
    BY <2>8, <2>9, BlockOfSix
  <2> QED
    BY <2>2, <2>1, <2>7, <2>10
<1>3. InBlock(ip, <<6, V6(<<1>>).bytes, 64>>) <=>
        PrefixMatches(ip.bytes, <<1, 0, 0, 0, 0, 0, 0, 0>>, 64)
  <2>1. PICK head, p : head = <<1>> /\ p = <<1, 0, 0, 0, 0, 0, 0, 0>>
    OBVIOUS
  <2>2. PICK q : q = V6(head).bytes
    OBVIOUS
  <2>3. head \in Seq(Byte) /\ Len(head) = 1
    BY <2>1 DEF Byte
  <2>4. /\ q \in [1..16 -> Byte]
        /\ \A k \in 1..16 : q[k] = IF k <= Len(head) THEN head[k] ELSE 0
    BY <2>2, <2>3, SixteenBytes
  <2>5. q[1] = 1 /\ q[2] = 0 /\ q[3] = 0 /\ q[4] = 0 /\ q[5] = 0 /\ q[6] = 0 /\ q[7] = 0 /\ q[8] = 0
    BY <2>1, <2>3, <2>4
  <2>6. p[1] = 1 /\ p[2] = 0 /\ p[3] = 0 /\ p[4] = 0 /\ p[5] = 0 /\ p[6] = 0 /\ p[7] = 0 /\ p[8] = 0
    BY <2>1
  <2>7. PICK w \in Nat, r \in 0..7, bits \in Nat : w = 8 /\ r = 0 /\ bits = 64
    OBVIOUS
  <2>8. SamePrefix(p, q, w, r)
    BY <2>5, <2>6, <2>7 DEF SamePrefix
  <2>9. q \in [1..16 -> Byte] /\ bits = 8 * w + r /\ bits <= 128
    BY <2>4, <2>7
  <2>10. InBlock(ip, <<6, q, bits>>) <=> PrefixMatches(ip.bytes, p, bits)
    BY <2>8, <2>9, BlockOfSix
  <2> QED
    BY <2>2, <2>1, <2>7, <2>10
<1>4. InBlock(ip, <<6, V6(<<32, 1>>).bytes, 23>>) <=>
        PrefixMatches(ip.bytes, <<32, 1, 0>>, 23)
  <2>1. PICK head, p : head = <<32, 1>> /\ p = <<32, 1, 0>>
    OBVIOUS
  <2>2. PICK q : q = V6(head).bytes
    OBVIOUS
  <2>3. head \in Seq(Byte) /\ Len(head) = 2
    BY <2>1 DEF Byte
  <2>4. /\ q \in [1..16 -> Byte]
        /\ \A k \in 1..16 : q[k] = IF k <= Len(head) THEN head[k] ELSE 0
    BY <2>2, <2>3, SixteenBytes
  <2>5. q[1] = 32 /\ q[2] = 1 /\ q[3] = 0
    BY <2>1, <2>3, <2>4
  <2>6. p[1] = 32 /\ p[2] = 1 /\ p[3] = 0
    BY <2>1
  <2>7. PICK w \in Nat, r \in 0..7, bits \in Nat : w = 2 /\ r = 7 /\ bits = 23
    OBVIOUS
  <2>8. SamePrefix(p, q, w, r)
    BY <2>5, <2>6, <2>7 DEF SamePrefix
  <2>9. q \in [1..16 -> Byte] /\ bits = 8 * w + r /\ bits <= 128
    BY <2>4, <2>7
  <2>10. InBlock(ip, <<6, q, bits>>) <=> PrefixMatches(ip.bytes, p, bits)
    BY <2>8, <2>9, BlockOfSix
  <2> QED
    BY <2>2, <2>1, <2>7, <2>10
<1>5. InBlock(ip, <<6, V6(<<32, 1, 13, 184>>).bytes, 32>>) <=>
        PrefixMatches(ip.bytes, <<32, 1, 13, 184>>, 32)
  <2>1. PICK head, p : head = <<32, 1, 13, 184>> /\ p = <<32, 1, 13, 184>>
    OBVIOUS
  <2>2. PICK q : q = V6(head).bytes
    OBVIOUS
  <2>3. head \in Seq(Byte) /\ Len(head) = 4
    BY <2>1 DEF Byte
  <2>4. /\ q \in [1..16 -> Byte]
        /\ \A k \in 1..16 : q[k] = IF k <= Len(head) THEN head[k] ELSE 0
    BY <2>2, <2>3, SixteenBytes
  <2>5. q[1] = 32 /\ q[2] = 1 /\ q[3] = 13 /\ q[4] = 184
    BY <2>1, <2>3, <2>4
  <2>6. p[1] = 32 /\ p[2] = 1 /\ p[3] = 13 /\ p[4] = 184
    BY <2>1
  <2>7. PICK w \in Nat, r \in 0..7, bits \in Nat : w = 4 /\ r = 0 /\ bits = 32
    OBVIOUS
  <2>8. SamePrefix(p, q, w, r)
    BY <2>5, <2>6, <2>7 DEF SamePrefix
  <2>9. q \in [1..16 -> Byte] /\ bits = 8 * w + r /\ bits <= 128
    BY <2>4, <2>7
  <2>10. InBlock(ip, <<6, q, bits>>) <=> PrefixMatches(ip.bytes, p, bits)
    BY <2>8, <2>9, BlockOfSix
  <2> QED
    BY <2>2, <2>1, <2>7, <2>10
<1>6. InBlock(ip, <<6, V6(<<32, 2>>).bytes, 16>>) <=>
        PrefixMatches(ip.bytes, <<32, 2>>, 16)
  <2>1. PICK head, p : head = <<32, 2>> /\ p = <<32, 2>>
    OBVIOUS
  <2>2. PICK q : q = V6(head).bytes
    OBVIOUS
  <2>3. head \in Seq(Byte) /\ Len(head) = 2
    BY <2>1 DEF Byte
  <2>4. /\ q \in [1..16 -> Byte]
        /\ \A k \in 1..16 : q[k] = IF k <= Len(head) THEN head[k] ELSE 0
    BY <2>2, <2>3, SixteenBytes
  <2>5. q[1] = 32 /\ q[2] = 2
    BY <2>1, <2>3, <2>4
  <2>6. p[1] = 32 /\ p[2] = 2
    BY <2>1
  <2>7. PICK w \in Nat, r \in 0..7, bits \in Nat : w = 2 /\ r = 0 /\ bits = 16
    OBVIOUS
  <2>8. SamePrefix(p, q, w, r)
    BY <2>5, <2>6, <2>7 DEF SamePrefix
  <2>9. q \in [1..16 -> Byte] /\ bits = 8 * w + r /\ bits <= 128
    BY <2>4, <2>7
  <2>10. InBlock(ip, <<6, q, bits>>) <=> PrefixMatches(ip.bytes, p, bits)
    BY <2>8, <2>9, BlockOfSix
  <2> QED
    BY <2>2, <2>1, <2>7, <2>10
<1>7. InBlock(ip, <<6, V6(<<63, 255>>).bytes, 20>>) <=>
        PrefixMatches(ip.bytes, <<63, 255, 0>>, 20)
  <2>1. PICK head, p : head = <<63, 255>> /\ p = <<63, 255, 0>>
    OBVIOUS
  <2>2. PICK q : q = V6(head).bytes
    OBVIOUS
  <2>3. head \in Seq(Byte) /\ Len(head) = 2
    BY <2>1 DEF Byte
  <2>4. /\ q \in [1..16 -> Byte]
        /\ \A k \in 1..16 : q[k] = IF k <= Len(head) THEN head[k] ELSE 0
    BY <2>2, <2>3, SixteenBytes
  <2>5. q[1] = 63 /\ q[2] = 255 /\ q[3] = 0
    BY <2>1, <2>3, <2>4
  <2>6. p[1] = 63 /\ p[2] = 255 /\ p[3] = 0
    BY <2>1
  <2>7. PICK w \in Nat, r \in 0..7, bits \in Nat : w = 2 /\ r = 4 /\ bits = 20
    OBVIOUS
  <2>8. SamePrefix(p, q, w, r)
    BY <2>5, <2>6, <2>7 DEF SamePrefix
  <2>9. q \in [1..16 -> Byte] /\ bits = 8 * w + r /\ bits <= 128
    BY <2>4, <2>7
  <2>10. InBlock(ip, <<6, q, bits>>) <=> PrefixMatches(ip.bytes, p, bits)
    BY <2>8, <2>9, BlockOfSix
  <2> QED
    BY <2>2, <2>1, <2>7, <2>10
<1>8. InBlock(ip, <<6, V6(<<252>>).bytes, 7>>) <=>
        PrefixMatches(ip.bytes, <<252>>, 7)
  <2>1. PICK head, p : head = <<252>> /\ p = <<252>>
    OBVIOUS
  <2>2. PICK q : q = V6(head).bytes
    OBVIOUS
  <2>3. head \in Seq(Byte) /\ Len(head) = 1
    BY <2>1 DEF Byte
  <2>4. /\ q \in [1..16 -> Byte]
        /\ \A k \in 1..16 : q[k] = IF k <= Len(head) THEN head[k] ELSE 0
    BY <2>2, <2>3, SixteenBytes
  <2>5. q[1] = 252
    BY <2>1, <2>3, <2>4
  <2>6. p[1] = 252
    BY <2>1
  <2>7. PICK w \in Nat, r \in 0..7, bits \in Nat : w = 0 /\ r = 7 /\ bits = 7
    OBVIOUS
  <2>8. SamePrefix(p, q, w, r)
    BY <2>5, <2>6, <2>7 DEF SamePrefix
  <2>9. q \in [1..16 -> Byte] /\ bits = 8 * w + r /\ bits <= 128
    BY <2>4, <2>7
  <2>10. InBlock(ip, <<6, q, bits>>) <=> PrefixMatches(ip.bytes, p, bits)
    BY <2>8, <2>9, BlockOfSix
  <2> QED
    BY <2>2, <2>1, <2>7, <2>10
<1>9. InBlock(ip, <<6, V6(<<254, 128>>).bytes, 10>>) <=>
        PrefixMatches(ip.bytes, <<254, 128>>, 10)
  <2>1. PICK head, p : head = <<254, 128>> /\ p = <<254, 128>>
    OBVIOUS
  <2>2. PICK q : q = V6(head).bytes
    OBVIOUS
  <2>3. head \in Seq(Byte) /\ Len(head) = 2
    BY <2>1 DEF Byte
  <2>4. /\ q \in [1..16 -> Byte]
        /\ \A k \in 1..16 : q[k] = IF k <= Len(head) THEN head[k] ELSE 0
    BY <2>2, <2>3, SixteenBytes
  <2>5. q[1] = 254 /\ q[2] = 128
    BY <2>1, <2>3, <2>4
  <2>6. p[1] = 254 /\ p[2] = 128
    BY <2>1
  <2>7. PICK w \in Nat, r \in 0..7, bits \in Nat : w = 1 /\ r = 2 /\ bits = 10
    OBVIOUS
  <2>8. SamePrefix(p, q, w, r)
    BY <2>5, <2>6, <2>7 DEF SamePrefix
  <2>9. q \in [1..16 -> Byte] /\ bits = 8 * w + r /\ bits <= 128
    BY <2>4, <2>7
  <2>10. InBlock(ip, <<6, q, bits>>) <=> PrefixMatches(ip.bytes, p, bits)
    BY <2>8, <2>9, BlockOfSix
  <2> QED
    BY <2>2, <2>1, <2>7, <2>10
<1>10. InBlock(ip, <<6, V6(<<255>>).bytes, 8>>) <=>
        PrefixMatches(ip.bytes, <<255>>, 8)
  <2>1. PICK head, p : head = <<255>> /\ p = <<255>>
    OBVIOUS
  <2>2. PICK q : q = V6(head).bytes
    OBVIOUS
  <2>3. head \in Seq(Byte) /\ Len(head) = 1
    BY <2>1 DEF Byte
  <2>4. /\ q \in [1..16 -> Byte]
        /\ \A k \in 1..16 : q[k] = IF k <= Len(head) THEN head[k] ELSE 0
    BY <2>2, <2>3, SixteenBytes
  <2>5. q[1] = 255
    BY <2>1, <2>3, <2>4
  <2>6. p[1] = 255
    BY <2>1
  <2>7. PICK w \in Nat, r \in 0..7, bits \in Nat : w = 1 /\ r = 0 /\ bits = 8
    OBVIOUS
  <2>8. SamePrefix(p, q, w, r)
    BY <2>5, <2>6, <2>7 DEF SamePrefix
  <2>9. q \in [1..16 -> Byte] /\ bits = 8 * w + r /\ bits <= 128
    BY <2>4, <2>7
  <2>10. InBlock(ip, <<6, q, bits>>) <=> PrefixMatches(ip.bytes, p, bits)
    BY <2>8, <2>9, BlockOfSix
  <2> QED
    BY <2>2, <2>1, <2>7, <2>10
<1> QED
  BY <1>1, <1>2, <1>3, <1>4, <1>5, <1>6, <1>7, <1>8, <1>9, <1>10

\* An address is in a block of its own version only.
LEMMA OwnVersion ==
  ASSUME NEW ip, NEW block, InBlock(ip, block)
  PROVE  ip.version = block[1]
  BY DEF InBlock

\* The blocks of a version carry its number.
LEMMA BlockVersions ==
  (\A block \in Blocks4 : block[1] = 4) /\ (\A block \in Blocks6 : block[1] = 6)
<1>1. \A block \in Blocks4 : block[1] = 4
  BY DEF Blocks4
<1>2. \A block \in Blocks6 : block[1] = 6
  BY DEF Blocks6
<1> QED
  BY <1>1, <1>2

\* ipv4SpecialUse tells exactly the reserved blocks of IPv4.
LEMMA JudgedFour ==
  ASSUME NEW ip, ip.version = 4, ip.bytes \in [1..4 -> Byte]
  PROVE  SpecialUse(ip) <=> Reserved(ip)
<1>1. PICK a \in Byte, b \in Byte, c \in Byte :
        a = ip.bytes[1] /\ b = ip.bytes[2] /\ c = ip.bytes[3]
  OBVIOUS
<1>2. SpecialUse(ip) <=> Ipv4SpecialUse(a, b, c)
  BY <1>1 DEF SpecialUse
<1>3. Reserved(ip) <=> \E block \in Blocks4 : InBlock(ip, block)
  BY OwnVersion, BlockVersions DEF Reserved
<1>4. (\E block \in Blocks4 : InBlock(ip, block)) <=>
        \/ InBlock(ip, <<4, <<0, 0, 0, 0>>, 8>>)
        \/ InBlock(ip, <<4, <<10, 0, 0, 0>>, 8>>)
        \/ InBlock(ip, <<4, <<127, 0, 0, 0>>, 8>>)
        \/ InBlock(ip, <<4, <<100, 64, 0, 0>>, 10>>)
        \/ InBlock(ip, <<4, <<169, 254, 0, 0>>, 16>>)
        \/ InBlock(ip, <<4, <<172, 16, 0, 0>>, 12>>)
        \/ InBlock(ip, <<4, <<192, 0, 0, 0>>, 24>>)
        \/ InBlock(ip, <<4, <<192, 0, 2, 0>>, 24>>)
        \/ InBlock(ip, <<4, <<192, 88, 99, 0>>, 24>>)
        \/ InBlock(ip, <<4, <<192, 168, 0, 0>>, 16>>)
        \/ InBlock(ip, <<4, <<198, 18, 0, 0>>, 15>>)
        \/ InBlock(ip, <<4, <<198, 51, 100, 0>>, 24>>)
        \/ InBlock(ip, <<4, <<203, 0, 113, 0>>, 24>>)
        \/ InBlock(ip, <<4, <<224, 0, 0, 0>>, 4>>)
        \/ InBlock(ip, <<4, <<240, 0, 0, 0>>, 4>>)
  BY DEF Blocks4
<1>5. Ipv4SpecialUse(a, b, c) <=>
        \/ a = 0
        \/ a = 10
        \/ a = 127
        \/ (a = 100 /\ b \in 64..127)
        \/ (a = 169 /\ b = 254)
        \/ (a = 172 /\ b \in 16..31)
        \/ (a = 192 /\ b = 0 /\ c = 0)
        \/ (a = 192 /\ b = 0 /\ c = 2)
        \/ (a = 192 /\ b = 88 /\ c = 99)
        \/ (a = 192 /\ b = 168)
        \/ (a = 198 /\ b \in {18, 19})
        \/ (a = 198 /\ b = 51 /\ c = 100)
        \/ (a = 203 /\ b = 0 /\ c = 113)
        \/ a \in 224..239
        \/ a \in 240..255
  BY DEF Ipv4SpecialUse, Byte
<1> QED
  BY <1>1, <1>2, <1>3, <1>4, <1>5, BlocksOfFour

\* ipv6SpecialUse tells exactly the reserved blocks of IPv6.
LEMMA JudgedSix ==
  ASSUME NEW ip, ip.version = 6, ip.bytes \in [1..16 -> Byte]
  PROVE  SpecialUse(ip) <=> Reserved(ip)
<1>1. SpecialUse(ip) <=> \E p \in Ipv6Prefixes : PrefixMatches(ip.bytes, p[1], p[2])
  BY DEF SpecialUse
<1>2. Reserved(ip) <=> \E block \in Blocks6 : InBlock(ip, block)
  BY OwnVersion, BlockVersions DEF Reserved
<1>3. (\E block \in Blocks6 : InBlock(ip, block)) <=>
        \/ InBlock(ip, <<6, V6(<<0>>).bytes, 8>>)
        \/ InBlock(ip, <<6, V6(<<0, 100, 255, 155>>).bytes, 96>>)
        \/ InBlock(ip, <<6, V6(<<1>>).bytes, 64>>)
        \/ InBlock(ip, <<6, V6(<<32, 1>>).bytes, 23>>)
        \/ InBlock(ip, <<6, V6(<<32, 1, 13, 184>>).bytes, 32>>)
        \/ InBlock(ip, <<6, V6(<<32, 2>>).bytes, 16>>)
        \/ InBlock(ip, <<6, V6(<<63, 255>>).bytes, 20>>)
        \/ InBlock(ip, <<6, V6(<<252>>).bytes, 7>>)
        \/ InBlock(ip, <<6, V6(<<254, 128>>).bytes, 10>>)
        \/ InBlock(ip, <<6, V6(<<255>>).bytes, 8>>)
  BY DEF Blocks6
<1>4. (\E p \in Ipv6Prefixes : PrefixMatches(ip.bytes, p[1], p[2])) <=>
        \/ PrefixMatches(ip.bytes, <<0>>, 8)
        \/ PrefixMatches(ip.bytes, <<0, 100, 255, 155, 0, 0, 0, 0, 0, 0, 0, 0>>, 96)
        \/ PrefixMatches(ip.bytes, <<1, 0, 0, 0, 0, 0, 0, 0>>, 64)
        \/ PrefixMatches(ip.bytes, <<32, 1, 0>>, 23)
        \/ PrefixMatches(ip.bytes, <<32, 1, 13, 184>>, 32)
        \/ PrefixMatches(ip.bytes, <<32, 2>>, 16)
        \/ PrefixMatches(ip.bytes, <<63, 255, 0>>, 20)
        \/ PrefixMatches(ip.bytes, <<252>>, 7)
        \/ PrefixMatches(ip.bytes, <<254, 128>>, 10)
        \/ PrefixMatches(ip.bytes, <<255>>, 8)
  BY DEF Ipv6Prefixes
<1>5. /\ InBlock(ip, <<6, V6(<<0>>).bytes, 8>>) <=>
           PrefixMatches(ip.bytes, <<0>>, 8)
      /\ InBlock(ip, <<6, V6(<<0, 100, 255, 155>>).bytes, 96>>) <=>
           PrefixMatches(ip.bytes, <<0, 100, 255, 155, 0, 0, 0, 0, 0, 0, 0, 0>>, 96)
      /\ InBlock(ip, <<6, V6(<<1>>).bytes, 64>>) <=>
           PrefixMatches(ip.bytes, <<1, 0, 0, 0, 0, 0, 0, 0>>, 64)
      /\ InBlock(ip, <<6, V6(<<32, 1>>).bytes, 23>>) <=>
           PrefixMatches(ip.bytes, <<32, 1, 0>>, 23)
      /\ InBlock(ip, <<6, V6(<<32, 1, 13, 184>>).bytes, 32>>) <=>
           PrefixMatches(ip.bytes, <<32, 1, 13, 184>>, 32)
      /\ InBlock(ip, <<6, V6(<<32, 2>>).bytes, 16>>) <=>
           PrefixMatches(ip.bytes, <<32, 2>>, 16)
      /\ InBlock(ip, <<6, V6(<<63, 255>>).bytes, 20>>) <=>
           PrefixMatches(ip.bytes, <<63, 255, 0>>, 20)
      /\ InBlock(ip, <<6, V6(<<252>>).bytes, 7>>) <=>
           PrefixMatches(ip.bytes, <<252>>, 7)
      /\ InBlock(ip, <<6, V6(<<254, 128>>).bytes, 10>>) <=>
           PrefixMatches(ip.bytes, <<254, 128>>, 10)
      /\ InBlock(ip, <<6, V6(<<255>>).bytes, 8>>) <=>
           PrefixMatches(ip.bytes, <<255>>, 8)
  BY BlocksOfSix
<1>6. (\/ InBlock(ip, <<6, V6(<<0>>).bytes, 8>>)
       \/ InBlock(ip, <<6, V6(<<0, 100, 255, 155>>).bytes, 96>>)
       \/ InBlock(ip, <<6, V6(<<1>>).bytes, 64>>)
       \/ InBlock(ip, <<6, V6(<<32, 1>>).bytes, 23>>)
       \/ InBlock(ip, <<6, V6(<<32, 1, 13, 184>>).bytes, 32>>)
       \/ InBlock(ip, <<6, V6(<<32, 2>>).bytes, 16>>)
       \/ InBlock(ip, <<6, V6(<<63, 255>>).bytes, 20>>)
       \/ InBlock(ip, <<6, V6(<<252>>).bytes, 7>>)
       \/ InBlock(ip, <<6, V6(<<254, 128>>).bytes, 10>>)
       \/ InBlock(ip, <<6, V6(<<255>>).bytes, 8>>)) <=>
        (\/ PrefixMatches(ip.bytes, <<0>>, 8)
         \/ PrefixMatches(ip.bytes, <<0, 100, 255, 155, 0, 0, 0, 0, 0, 0, 0, 0>>, 96)
         \/ PrefixMatches(ip.bytes, <<1, 0, 0, 0, 0, 0, 0, 0>>, 64)
         \/ PrefixMatches(ip.bytes, <<32, 1, 0>>, 23)
         \/ PrefixMatches(ip.bytes, <<32, 1, 13, 184>>, 32)
         \/ PrefixMatches(ip.bytes, <<32, 2>>, 16)
         \/ PrefixMatches(ip.bytes, <<63, 255, 0>>, 20)
         \/ PrefixMatches(ip.bytes, <<252>>, 7)
         \/ PrefixMatches(ip.bytes, <<254, 128>>, 10)
         \/ PrefixMatches(ip.bytes, <<255>>, 8))
  BY <1>5
<1> QED
  BY <1>1, <1>2, <1>3, <1>4, <1>6

\* isSpecialUseIpAddress is right about every address there is: its byte tests
\* and prefixes accept an address exactly when, compared bit by bit, it is in
\* none of the reserved blocks.
THEOREM AddressesJudged ==
  \A ip \in Addresses : SpecialUse(ip) <=> Reserved(ip)
<1> SUFFICES ASSUME NEW ip \in Addresses
             PROVE  SpecialUse(ip) <=> Reserved(ip)
  OBVIOUS
<1>1. CASE ip \in [version : {4}, bytes : [1..4 -> Byte]]
  BY <1>1, JudgedFour
<1>2. CASE ip \in [version : {6}, bytes : [1..16 -> Byte]]
  BY <1>2, JudgedSix
<1> QED
  BY <1>1, <1>2 DEF Addresses

-----------------------------------------------------------------------------
(* A discovery.                                                            *)

\* The discovery is a record with the fields Discovery gives it.
IsDiscovery(d) ==
  d = [pc |-> d.pc, id |-> d.id, transport |-> d.transport, timeout |-> d.timeout,
       resolved |-> d.resolved, vetted |-> d.vetted, attempts |-> d.attempts, next |-> d.next,
       peer |-> d.peer, document |-> d.document, cause |-> d.cause, answer |-> d.answer]

\* The resolution was accepted, and the attempts follow from it.
Vetted(d) ==
  /\ SafeResolution(d.resolved)
  /\ d.timeout \in Timeouts
  /\ d.vetted = Unique(d.resolved)
  /\ d.attempts = Attempts(d.transport, d.vetted)

\* Where a discovery is, and what has been decided by then.
DiscoveryPlaced(d) ==
  /\ IsDiscovery(d)
  /\ d.pc \in {"validate", "resolve", "fetch", "wait", "done"}
  /\ d.id.host \in Addresses \cup {NotIp}
  /\ d.resolved \in Seq(Resolved)
  /\ d.pc # "done" => d.cause = "none"
  /\ d.pc \in {"validate", "resolve"} => d.next = 1
  /\ d.pc \in {"fetch", "wait"} => Vetted(d) /\ d.next \in DOMAIN d.attempts
  /\ d.cause # "contract"
  /\ d.cause = "exhausted" => Vetted(d)

\* What an answer says of the addresses.
AnswerVetted(d) ==
  /\ d.pc = "done" /\ d.answer = "ok" =>
       /\ d.document = d.id.url
       /\ SafeResolution(d.resolved)
       /\ d.peer \in Range(Unique(d.resolved))
  /\ d.pc = "done" /\ d.answer = "unsafe_resolution" => ~ SafeResolution(d.resolved)

\* The curl of attempt j has failed.
Failed(j) == j \in Jobs /\ job[j].answer \notin {"none", "ok"}

\* The attempts before the current one failed; of an exhausted discovery, all.
Tried(d) ==
  /\ d.pc \in {"fetch", "wait"} => \A j \in 1..(d.next - 1) : Failed(j)
  /\ d.cause = "exhausted" => \A j \in DOMAIN d.attempts : Failed(j)

DiscoverySound == DiscoveryPlaced(disc) /\ AnswerVetted(disc) /\ Tried(disc)

DiscoveryInv ==
  /\ git = NoGit \/ disc = NoDiscovery
  /\ disc # NoDiscovery => DiscoverySound

\* A set of positions that is not empty has a first one.
LEMMA LeastPosition ==
  ASSUME NEW T, T \subseteq Nat, T # {}
  PROVE  Min(T) \in T /\ \A k \in T : Min(T) <= k
<1> DEFINE before == {ss \in Nat \X Nat : ss[1] < ss[2]}
<1>1. IsWellFoundedOn(before, Nat)
  BY NatLessThanWellFounded DEF OpToRel
<1>2. \A k, m \in Nat : k < m => <<k, m>> \in before
  OBVIOUS
<1>3. PICK m \in T : \A k \in T : m <= k
  <2> HIDE DEF before
  <2>1. PICK m \in T : \A k \in T : ~ (<<k, m>> \in before)
    BY <1>1, WFMin
  <2>2. \A k \in T : ~ (k < m)
    BY <1>2, <2>1
  <2> QED
    BY <2>2
<1> QED
  BY <1>3 DEF Min

\* Unique keeps each address, and nothing else.
LEMMA UniqueAddresses ==
  ASSUME NEW addresses \in Seq(Resolved), NEW u, u = Unique(addresses)
  PROVE  /\ DOMAIN u \subseteq DOMAIN addresses
         /\ DOMAIN u \subseteq Nat
         /\ \A k \in DOMAIN u : u[k] = addresses[k].ip
         /\ \A i \in DOMAIN addresses : \E k \in DOMAIN u : u[k] = addresses[i].ip
<1>1. PICK F : F = {k \in DOMAIN addresses : \A m \in 1..(k - 1) : addresses[m].ip # addresses[k].ip}
  OBVIOUS
<1>2. u = [k \in F |-> addresses[k].ip]
  BY <1>1 DEF Unique
<1>3. DOMAIN addresses = 1..Len(addresses) /\ Len(addresses) \in Nat
  OBVIOUS
<1>4. ASSUME NEW i \in DOMAIN addresses
      PROVE  \E k \in F : addresses[k].ip = addresses[i].ip
  <2>1. PICK T : T = {k \in DOMAIN addresses : addresses[k].ip = addresses[i].ip}
    OBVIOUS
  <2>2. T \subseteq Nat /\ T # {}
    BY <1>3, <1>4, <2>1
  <2>3. PICK k \in T : \A m \in T : k <= m
    BY <2>2, LeastPosition
  <2>4. k \in DOMAIN addresses /\ addresses[k].ip = addresses[i].ip /\ k \in 1..Len(addresses)
    BY <1>3, <2>1
  <2>5. ASSUME NEW m \in 1..(k - 1)
        PROVE  addresses[m].ip # addresses[k].ip
    <3>1. m \in DOMAIN addresses /\ ~ (k <= m)
      BY <1>3, <2>4, <2>5
    <3> QED
      BY <2>1, <2>3, <2>4, <3>1
  <2> QED
    BY <1>1, <2>4, <2>5
<1>5. F \subseteq DOMAIN addresses /\ DOMAIN u = F
  BY <1>1, <1>2
<1>6. \A i \in DOMAIN addresses : \E k \in DOMAIN u : u[k] = addresses[i].ip
  BY <1>2, <1>4, <1>5
<1> QED
  BY <1>2, <1>3, <1>5, <1>6

\* There is an address of the family.
HasFamily(u, v) == \E k \in DOMAIN u : u[k].version = v

\* The first address of a family, if there is one.
LEMMA FirstOfFamily ==
  ASSUME NEW u, DOMAIN u \subseteq Nat, NEW v, HasFamily(u, v)
  PROVE  \E ip \in Range(u) : FirstOf(u, v) = <<ip>> /\ ip.version = v
<1>1. PICK T : T = {k \in DOMAIN u : u[k].version = v}
  OBVIOUS
<1>2. T \subseteq Nat /\ T # {} /\ T \subseteq DOMAIN u
  BY <1>1 DEF HasFamily
<1>3. PICK m : m = Min(T)
  OBVIOUS
<1>4. m \in T
  BY <1>2, <1>3, LeastPosition
<1>5. FirstOf(u, v) = <<u[m]>>
  BY <1>1, <1>2, <1>3 DEF FirstOf
<1>6. u[m] \in Range(u) /\ u[m].version = v
  BY <1>1, <1>2, <1>4 DEF Range
<1> QED
  BY <1>5, <1>6

\* No address of a family.
LEMMA NoneOfFamily ==
  ASSUME NEW u, NEW v, ~ HasFamily(u, v)
  PROVE  FirstOf(u, v) = <<>>
<1>1. {k \in DOMAIN u : u[k].version = v} = {}
  BY DEF HasFamily
<1> QED
  BY <1>1 DEF FirstOf

\* One address after the other.
LEMMA Joined ==
  ASSUME NEW x, NEW y, NEW s, s = <<x>> \o <<y>>
  PROVE  DOMAIN s = 1..2 /\ s[1] = x /\ s[2] = y
<1>1. PICK S : S = {x, y}
  OBVIOUS
<1>2. PICK f, g : f = <<x>> /\ g = <<y>>
  OBVIOUS
<1>3. f \in Seq(S) /\ g \in Seq(S) /\ Len(f) = 1 /\ Len(g) = 1 /\ f[1] = x /\ g[1] = y
  BY <1>1, <1>2
<1>4. s = f \o g
  BY <1>2
<1>5. s \in Seq(S) /\ Len(s) = 2
  BY <1>3, <1>4
<1>6. s[1] = f[1] /\ s[2] = g[1]
  BY <1>3, <1>4
<1> QED
  BY <1>3, <1>5, <1>6

\* The address sets of the attempts, one for each preferred address.
LEMMA OneEach ==
  ASSUME NEW s, NEW n \in {1, 2}, DOMAIN s = 1..n, NEW a, a = [i \in DOMAIN s |-> {s[i]}]
  PROVE  DOMAIN a = 1..n /\ Len(a) = n /\ \A j \in 1..n : a[j] = {s[j]}
<1>1. n \in Nat
  OBVIOUS
<1>2. DOMAIN a = 1..n /\ \A j \in 1..n : a[j] = {s[j]}
  OBVIOUS
<1>3. PICK S : S = {{s[j]} : j \in 1..n}
  OBVIOUS
<1>4. a \in [1..n -> S]
  BY <1>3
<1>5. a \in Seq(S)
  BY <1>1, <1>4
<1>6. Len(a) = n
  BY <1>1, <1>4, <1>5
<1> QED
  BY <1>2, <1>6

\* The attempts reach every family that the resolution has.
Reaches(a, n, addresses) ==
  \A i \in DOMAIN addresses : \E j \in 1..n : \E ip \in a[j] : ip.version = addresses[i].ip.version

\* The attempts are numbered from 1, and each is confined to vetted addresses.
Numbered(a, n, u) == DOMAIN a = 1..n /\ Len(a) = n /\ \A j \in 1..n : a[j] \subseteq Range(u)

\* preferredAddresses and the address sets made of it.
LEMMA AttemptsReach ==
  ASSUME NEW addresses \in Seq(Resolved), SafeResolution(addresses),
         NEW tr, NEW u, u = Unique(addresses), NEW a, a = Attempts(tr, u)
  PROVE  \E n \in {1, 2} : Numbered(a, n, u) /\ Reaches(a, n, addresses)
<1>1. /\ DOMAIN u \subseteq DOMAIN addresses
      /\ DOMAIN u \subseteq Nat
      /\ \A k \in DOMAIN u : u[k] = addresses[k].ip
      /\ \A i \in DOMAIN addresses : \E k \in DOMAIN u : u[k] = addresses[i].ip
  BY UniqueAddresses
<1>2. \A i \in DOMAIN addresses : addresses[i].ip.version \in {4, 6}
  <2> SUFFICES ASSUME NEW i \in DOMAIN addresses
               PROVE  addresses[i].ip.version \in {4, 6}
    OBVIOUS
  <2>1. addresses[i] \in Resolved
    OBVIOUS
  <2>2. addresses[i].ip \in Addresses
    BY <2>1 DEF SafeResolution, Resolved
  <2> QED
    BY <2>2 DEF Addresses
<1>3. DOMAIN addresses # {}
  BY DEF SafeResolution
<1>4. CASE tr = "single"
  <2>1. a = <<Range(u)>>
    BY <1>4 DEF Attempts
  <2>2. DOMAIN a = 1..1 /\ Len(a) = 1 /\ a[1] = Range(u)
    BY <2>1
  <2>3. Numbered(a, 1, u)
    BY <2>2 DEF Numbered
  <2>4. \A i \in DOMAIN addresses : addresses[i].ip \in a[1]
    BY <1>1, <2>2 DEF Range
  <2>5. Reaches(a, 1, addresses)
    BY <2>4 DEF Reaches
  <2> QED
    BY <2>3, <2>5
<1>5. CASE tr # "single"
  <2>1. PICK s : s = PreferredAddresses(u)
    OBVIOUS
  <2>2. a = [i \in DOMAIN s |-> {s[i]}] /\ s = FirstOf(u, 4) \o FirstOf(u, 6)
    BY <1>5, <2>1 DEF Attempts, PreferredAddresses
  <2>3. CASE HasFamily(u, 4) /\ HasFamily(u, 6)
    <3>1. PICK x \in Range(u) : FirstOf(u, 4) = <<x>> /\ x.version = 4
      BY <1>1, <2>3, FirstOfFamily
    <3>2. PICK y \in Range(u) : FirstOf(u, 6) = <<y>> /\ y.version = 6
      BY <1>1, <2>3, FirstOfFamily
    <3>3. s = <<x>> \o <<y>>
      BY <2>2, <3>1, <3>2
    <3>4. DOMAIN s = 1..2 /\ s[1] = x /\ s[2] = y
      BY <3>3, Joined
    <3>5. DOMAIN a = 1..2 /\ Len(a) = 2 /\ a[1] = {x} /\ a[2] = {y}
      <4>1. PICK n \in {1, 2} : n = 2
        OBVIOUS
      <4>2. DOMAIN s = 1..n
        BY <3>4, <4>1
      <4>3. a = [i \in DOMAIN s |-> {s[i]}]
        BY <2>2
      <4>4. DOMAIN a = 1..n /\ Len(a) = n /\ \A j \in 1..n : a[j] = {s[j]}
        BY <4>2, <4>3, OneEach
      <4> QED
        BY <3>4, <4>1, <4>4
    <3>6. Numbered(a, 2, u)
      BY <3>5 DEF Numbered
    <3>7. Reaches(a, 2, addresses)
      BY <1>2, <3>1, <3>2, <3>5 DEF Reaches
    <3> QED
      BY <3>6, <3>7
  <2>4. ASSUME NEW v \in {4, 6}, NEW w \in {4, 6}, v # w, HasFamily(u, v), ~ HasFamily(u, w)
        PROVE  \E n \in {1, 2} : Numbered(a, n, u) /\ Reaches(a, n, addresses)
    <3>1. PICK x \in Range(u) : FirstOf(u, v) = <<x>> /\ x.version = v
      BY <1>1, <2>4, FirstOfFamily
    <3>2. FirstOf(u, w) = <<>>
      BY <2>4, NoneOfFamily
    <3>3. (s = <<x>> \o <<>>) \/ (s = <<>> \o <<x>>)
      <4>1. CASE v = 4
        <5>1. w = 6
          BY <2>4, <4>1
        <5> QED
          BY <2>2, <3>1, <3>2, <4>1, <5>1
      <4>2. CASE v = 6
        <5>1. w = 4
          BY <2>4, <4>2
        <5> QED
          BY <2>2, <3>1, <3>2, <4>2, <5>1
      <4> QED
        BY <4>1, <4>2
    <3>4. <<x>> \o <<>> = <<x>> /\ <<>> \o <<x>> = <<x>>
      OBVIOUS
    <3>5. DOMAIN s = 1..1 /\ s[1] = x
      BY <3>3, <3>4
    <3>6. DOMAIN a = 1..1 /\ Len(a) = 1 /\ a[1] = {x}
      <4>1. PICK n \in {1, 2} : n = 1
        OBVIOUS
      <4>2. DOMAIN s = 1..n
        BY <3>5, <4>1
      <4>3. a = [i \in DOMAIN s |-> {s[i]}]
        BY <2>2
      <4>4. DOMAIN a = 1..n /\ Len(a) = n /\ \A j \in 1..n : a[j] = {s[j]}
        BY <4>2, <4>3, OneEach
      <4> QED
        BY <3>5, <4>1, <4>4
    <3>7. Numbered(a, 1, u)
      BY <3>6 DEF Numbered
    <3>8. \A i \in DOMAIN addresses : addresses[i].ip.version # w
      BY <1>1, <2>4 DEF HasFamily
    <3>9. \A i \in DOMAIN addresses : addresses[i].ip.version = v
      BY <1>2, <2>4, <3>8
    <3>10. Reaches(a, 1, addresses)
      BY <3>1, <3>6, <3>9 DEF Reaches
    <3> QED
      BY <3>7, <3>10
  <2>5. HasFamily(u, 4) \/ HasFamily(u, 6)
    BY <1>1, <1>2, <1>3 DEF HasFamily
  <2> QED
    BY <2>3, <2>4, <2>5
<1> QED
  BY <1>4, <1>5

\* The shortest timeout the discovery accepts.
LEMMA LeastTimeout ==
  ASSUME NEW t \in Timeouts
  PROVE  t \in Int /\ 100 <= t
  BY DEF Timeouts

\* Every timeout the discovery accepts leaves each attempt one the transport
\* accepts.
LEMMA AlwaysAccepted ==
  ASSUME NEW d, d.timeout \in Timeouts, Len(d.attempts) \in {1, 2}
  PROVE  Accepted(d)
<1>1. PICK t \in Timeouts : t = d.timeout
  OBVIOUS
<1>2. PICK n : n = Len(d.attempts)
  OBVIOUS
<1>0. t \in Int /\ 100 <= t /\ n \in {1, 2}
  <2>1. t \in Int /\ 100 <= t
    BY LeastTimeout
  <2> QED
    BY <1>2, <2>1
<1>3. PICK q \in Int : q = t \div n /\ q <= t
  <2>1. t \div 1 = t /\ t \div 2 \in Int /\ t \div 2 <= t
    BY <1>0
  <2> QED
    BY <1>0, <2>1
<1>4. PICK m : m = Max({100, q})
  OBVIOUS
<1>5. \E x \in {100, q} : \A y \in {100, q} : x >= y
  OBVIOUS
<1>6. m \in {100, q} /\ \A y \in {100, q} : m >= y
  BY <1>4, <1>5 DEF Max
<1>7. m >= 100 /\ m <= t
  BY <1>0, <1>3, <1>6
<1>8. AttemptTimeout(d.timeout, Len(d.attempts)) = m
  BY <1>1, <1>2, <1>3, <1>4 DEF AttemptTimeout
<1> QED
  BY <1>0, <1>1, <1>7, <1>8 DEF Accepted

\* What a discovery that ends leaves alone.
Ends(d, f) ==
  /\ IsDiscovery(f)
  /\ f.pc = "done"
  /\ f.id = d.id /\ f.transport = d.transport /\ f.timeout = d.timeout
  /\ f.resolved = d.resolved /\ f.vetted = d.vetted /\ f.attempts = d.attempts
  /\ f.next = d.next

\* A failed discovery.
LEMMA FailEnds ==
  ASSUME NEW d, IsDiscovery(d), NEW e, NEW f, f = Fail(d, e)
  PROVE  Ends(d, f) /\ f.answer = e /\ f.cause = d.cause
<1>1. f = [pc |-> "done", id |-> d.id, transport |-> d.transport, timeout |-> d.timeout,
           resolved |-> d.resolved, vetted |-> d.vetted, attempts |-> d.attempts, next |-> d.next,
           peer |-> d.peer, document |-> d.document, cause |-> d.cause, answer |-> e]
  BY DEF Fail, IsDiscovery
<1> QED
  BY <1>1 DEF Ends, IsDiscovery

\* A failed fetch.
LEMMA FetchFailedEnds ==
  ASSUME NEW d, IsDiscovery(d), NEW c, NEW f, f = FetchFailed(d, c)
  PROVE  Ends(d, f) /\ f.answer = "fetch_failed" /\ f.cause = c
<1>1. f = [pc |-> "done", id |-> d.id, transport |-> d.transport, timeout |-> d.timeout,
           resolved |-> d.resolved, vetted |-> d.vetted, attempts |-> d.attempts, next |-> d.next,
           peer |-> d.peer, document |-> d.document, cause |-> c, answer |-> "fetch_failed"]
  BY DEF FetchFailed, Fail, IsDiscovery
<1> QED
  BY <1>1 DEF Ends, IsDiscovery

\* A discovery that succeeds.
Succeeded(d, p, u) == [Fail(d, "ok") EXCEPT !.peer = p, !.document = u]

\* Its record.
LEMMA OkEnds ==
  ASSUME NEW d, IsDiscovery(d), NEW p, NEW u,
         NEW f, f = Succeeded(d, p, u)
  PROVE  Ends(d, f) /\ f.answer = "ok" /\ f.cause = d.cause /\ f.peer = p /\ f.document = u
<1>1. f = [pc |-> "done", id |-> d.id, transport |-> d.transport, timeout |-> d.timeout,
           resolved |-> d.resolved, vetted |-> d.vetted, attempts |-> d.attempts, next |-> d.next,
           peer |-> p, document |-> u, cause |-> d.cause, answer |-> "ok"]
  BY DEF Succeeded, Fail, IsDiscovery
<1>2. IsDiscovery(f)
  BY <1>1 DEF IsDiscovery
<1> QED
  BY <1>1, <1>2 DEF Ends

\* A discovery that ends for a reason that says nothing about addresses.
LEMMA PlainEnd ==
  ASSUME NEW d, d.id.host \in Addresses \cup {NotIp}, d.resolved \in Seq(Resolved),
         NEW e, Ends(d, e), e.cause \notin {"contract", "exhausted"},
         e.answer = "ok" => AnswerVetted(e),
         e.answer = "unsafe_resolution" => AnswerVetted(e)
  PROVE  DiscoveryPlaced(e) /\ AnswerVetted(e) /\ Tried(e)'
<1>1. DiscoveryPlaced(e)
  BY DEF DiscoveryPlaced, Ends
<1>2. AnswerVetted(e)
  BY DEF AnswerVetted
<1>3. Tried(e)'
  BY DEF Tried, Ends
<1> QED
  BY <1>1, <1>2, <1>3

\* The number of attempts of a vetted discovery.
LEMMA VettedAttempts ==
  ASSUME NEW d, Vetted(d), d.resolved \in Seq(Resolved)
  PROVE  \E n \in {1, 2} : /\ DOMAIN d.attempts = 1..n /\ Len(d.attempts) = n
                           /\ Reaches(d.attempts, n, d.resolved)
<1>1. \E n \in {1, 2} : Numbered(d.attempts, n, d.vetted) /\ Reaches(d.attempts, n, d.resolved)
  <2>1. PICK addresses, u, a, tr : /\ addresses = d.resolved /\ u = d.vetted
                                   /\ a = d.attempts /\ tr = d.transport
    OBVIOUS
  <2>2. /\ addresses \in Seq(Resolved) /\ SafeResolution(addresses)
        /\ u = Unique(addresses) /\ a = Attempts(tr, u)
    BY <2>1 DEF Vetted
  <2>3. \E n \in {1, 2} : Numbered(a, n, u) /\ Reaches(a, n, addresses)
    BY <2>2, AttemptsReach
  <2> QED
    BY <2>1, <2>3
<1> QED
  BY <1>1 DEF Numbered

\* Vetting the addresses.
LEMMA VetSound ==
  ASSUME DiscoverySound, disc.pc \in {"validate", "resolve"}, job' = job,
         NEW addresses \in Seq(Resolved), disc' = Vet(disc, addresses)
  PROVE  DiscoverySound'
<1>1. PICK d, e : d = disc /\ e = disc'
  OBVIOUS
<1>2. PICK seen : seen = [d EXCEPT !.resolved = addresses]
  OBVIOUS
<1>3. /\ IsDiscovery(d) /\ d.cause = "none" /\ d.next = 1
      /\ d.id.host \in Addresses \cup {NotIp}
  BY <1>1 DEF DiscoverySound, DiscoveryPlaced
<1>4. seen = [pc |-> d.pc, id |-> d.id, transport |-> d.transport, timeout |-> d.timeout,
              resolved |-> addresses, vetted |-> d.vetted, attempts |-> d.attempts,
              next |-> d.next, peer |-> d.peer, document |-> d.document, cause |-> d.cause,
              answer |-> d.answer]
  BY <1>2, <1>3 DEF IsDiscovery
<1>5. /\ IsDiscovery(seen) /\ seen.cause = "none" /\ seen.next = 1 /\ seen.id = d.id
      /\ seen.resolved = addresses /\ seen.timeout = d.timeout /\ seen.transport = d.transport
  BY <1>3, <1>4 DEF IsDiscovery
<1>6. CASE ~ SafeResolution(addresses)
  <2>1. e = Fail(seen, "unsafe_resolution")
    BY <1>1, <1>2, <1>6 DEF Vet
  <2>2. Ends(seen, e) /\ e.answer = "unsafe_resolution" /\ e.cause = seen.cause
    BY <1>5, <2>1, FailEnds
  <2>3. AnswerVetted(e)
    BY <1>5, <1>6, <2>2 DEF AnswerVetted, Ends
  <2>4. DiscoveryPlaced(e) /\ AnswerVetted(e) /\ Tried(e)'
    BY <1>3, <1>5, <2>2, <2>3, PlainEnd
  <2> QED
    BY <1>1, <2>4 DEF DiscoverySound
<1>7. CASE SafeResolution(addresses) /\ d.timeout \notin Timeouts
  <2>1. e = FetchFailed(seen, "timeout_ms")
    BY <1>1, <1>2, <1>7 DEF Vet
  <2>2. Ends(seen, e) /\ e.answer = "fetch_failed" /\ e.cause = "timeout_ms"
    BY <1>5, <2>1, FetchFailedEnds
  <2>3. DiscoveryPlaced(e) /\ AnswerVetted(e) /\ Tried(e)'
    BY <1>3, <1>5, <2>2, PlainEnd
  <2> QED
    BY <1>1, <2>3 DEF DiscoverySound
<1>8. CASE SafeResolution(addresses) /\ d.timeout \in Timeouts
  <2>1. PICK u, a : u = Unique(addresses) /\ a = Attempts(d.transport, u)
    OBVIOUS
  <2>2. e = [seen EXCEPT !.pc = "fetch", !.vetted = u, !.attempts = a]
    BY <1>1, <1>2, <1>8, <2>1 DEF Vet
  <2>3. e = [pc |-> "fetch", id |-> d.id, transport |-> d.transport, timeout |-> d.timeout,
             resolved |-> addresses, vetted |-> u, attempts |-> a,
             next |-> 1, peer |-> d.peer, document |-> d.document, cause |-> "none",
             answer |-> d.answer]
    BY <1>3, <1>4, <2>2
  <2>4. /\ IsDiscovery(e) /\ e.pc = "fetch" /\ e.cause = "none" /\ e.next = 1 /\ e.id = d.id
        /\ e.resolved = addresses /\ e.timeout = d.timeout /\ e.transport = d.transport
        /\ e.vetted = u /\ e.attempts = a
    BY <2>3 DEF IsDiscovery
  <2>5. Vetted(e)
    BY <1>8, <2>1, <2>4 DEF Vetted
  <2>6. 1 \in DOMAIN e.attempts
    BY <2>4, <2>5, VettedAttempts
  <2>7. DiscoveryPlaced(e)
    BY <1>3, <2>4, <2>5, <2>6 DEF DiscoveryPlaced
  <2>8. AnswerVetted(e)
    BY <2>4 DEF AnswerVetted
  <2>9. Tried(e)'
    <3>1. \A j \in 1..(e.next - 1) : FALSE
      BY <2>4
    <3> QED
      BY <2>4, <3>1 DEF Tried
  <2> QED
    BY <1>1, <2>7, <2>8, <2>9 DEF DiscoverySound
<1> QED
  BY <1>6, <1>7, <1>8

\* discoverCimdClient up to the resolver, and the resolver.
LEMMA ResolutionSound ==
  ASSUME DiscoverySound, Validate \/ Resolve
  PROVE  DiscoverySound'
<1>0. PICK d, e : d = disc /\ e = disc'
  OBVIOUS
<1>1. DiscoveryPlaced(d) /\ job' = job /\ d.pc \in {"validate", "resolve"}
  BY <1>0 DEF DiscoverySound, Validate, Resolve
<1>2. /\ IsDiscovery(d) /\ d.cause = "none" /\ d.next = 1
      /\ d.id.host \in Addresses \cup {NotIp} /\ d.resolved \in Seq(Resolved)
  BY <1>1 DEF DiscoveryPlaced
<1>3. ASSUME NEW x \in {"invalid_client_id", "resolution_failed"}, e = Fail(d, x)
      PROVE  DiscoverySound'
  <2>1. Ends(d, e) /\ e.answer = x /\ e.cause = d.cause
    BY <1>2, <1>3, FailEnds
  <2>2. DiscoveryPlaced(e) /\ AnswerVetted(e) /\ Tried(e)'
    BY <1>2, <1>3, <2>1, PlainEnd
  <2> QED
    BY <1>0, <2>2 DEF DiscoverySound
<1>4. CASE Validate
  <2>1. CASE ~ ValidClientId(d.id)
    BY <1>0, <1>3, <1>4, <2>1 DEF Validate
  <2>2. CASE ValidClientId(d.id) /\ d.id.host # NotIp
    <3>1. PICK addresses : addresses = <<[ip |-> d.id.host, bracketed |-> FALSE]>>
      OBVIOUS
    <3>2. addresses \in Seq(Resolved)
      BY <1>2, <2>2, <3>1 DEF Resolved
    <3>3. disc' = Vet(disc, addresses)
      BY <1>0, <1>4, <2>2, <3>1 DEF Validate
    <3> QED
      BY <1>0, <1>1, <3>2, <3>3, VetSound
  <2>3. CASE ValidClientId(d.id) /\ d.id.host = NotIp
    <3>1. e = [d EXCEPT !.pc = "resolve"]
      BY <1>0, <1>4, <2>3 DEF Validate
    <3>2. e = [pc |-> "resolve", id |-> d.id, transport |-> d.transport, timeout |-> d.timeout,
               resolved |-> d.resolved, vetted |-> d.vetted, attempts |-> d.attempts,
               next |-> d.next, peer |-> d.peer, document |-> d.document, cause |-> d.cause,
               answer |-> d.answer]
      BY <1>2, <3>1 DEF IsDiscovery
    <3>3. /\ IsDiscovery(e) /\ e.pc = "resolve" /\ e.cause = "none" /\ e.next = 1
          /\ e.id = d.id /\ e.resolved = d.resolved
      BY <1>2, <3>2 DEF IsDiscovery
    <3>4. DiscoveryPlaced(e)
      BY <1>2, <3>3 DEF DiscoveryPlaced
    <3>5. AnswerVetted(e) /\ Tried(e)'
      BY <3>3 DEF AnswerVetted, Tried
    <3> QED
      BY <1>0, <3>4, <3>5 DEF DiscoverySound
  <2> QED
    BY <2>1, <2>2, <2>3
<1>5. CASE Resolve
  <2>1. CASE disc' = Fail(disc, "resolution_failed")
    BY <1>0, <1>3, <2>1
  <2>2. ASSUME NEW addresses \in Resolutions, disc' = Vet(disc, addresses)
        PROVE  DiscoverySound'
    BY <1>0, <1>1, <2>2, ResolutionsAssumption, VetSound
  <2> QED
    BY <1>5, <2>1, <2>2 DEF Resolve
<1> QED
  BY <1>4, <1>5

\* Attempts that failed stay failed while other children move.
LEMMA FailedStays ==
  ASSUME job \in [Jobs -> Job], NEW j, NEW c, job' = [job EXCEPT ![j] = c],
         NEW i, Failed(i), i # j
  PROVE  Failed(i)'
  BY DEF Failed

\* The next curl.
LEMMA AttemptSound ==
  ASSUME HelperInv, DiscoverySound, Attempt
  PROVE  DiscoverySound'
<1>0. PICK d, e : d = disc /\ e = disc'
  OBVIOUS
<1>1. DiscoveryPlaced(d) /\ Tried(d) /\ d.pc = "fetch"
  BY <1>0 DEF DiscoverySound, Attempt
<1>2. /\ IsDiscovery(d) /\ d.cause = "none" /\ Vetted(d) /\ d.next \in DOMAIN d.attempts
      /\ d.id.host \in Addresses \cup {NotIp} /\ d.resolved \in Seq(Resolved)
  BY <1>1 DEF DiscoveryPlaced
<1>3. PICK n \in {1, 2} : DOMAIN d.attempts = 1..n /\ Len(d.attempts) = n
  BY <1>2, VettedAttempts
<1>4. Accepted(d)
  BY <1>2, <1>3, AlwaysAccepted DEF Vetted
<1>5. CASE e = FetchFailed(d, "binary")
  <2>1. Ends(d, e) /\ e.answer = "fetch_failed" /\ e.cause = "binary"
    BY <1>2, <1>5, FetchFailedEnds
  <2>2. DiscoveryPlaced(e) /\ AnswerVetted(e) /\ Tried(e)'
    BY <1>2, <2>1, PlainEnd
  <2> QED
    BY <1>0, <2>2 DEF DiscoverySound
<1>6. ASSUME e = [d EXCEPT !.pc = "wait"], NEW c, job' = [job EXCEPT ![d.next] = c]
      PROVE  DiscoverySound'
  <2>1. e = [pc |-> "wait", id |-> d.id, transport |-> d.transport, timeout |-> d.timeout,
             resolved |-> d.resolved, vetted |-> d.vetted, attempts |-> d.attempts,
             next |-> d.next, peer |-> d.peer, document |-> d.document, cause |-> d.cause,
             answer |-> d.answer]
    BY <1>2, <1>6 DEF IsDiscovery
  <2>2. /\ IsDiscovery(e) /\ e.pc = "wait" /\ e.cause = "none" /\ e.next = d.next
        /\ e.id = d.id /\ e.resolved = d.resolved /\ e.attempts = d.attempts
        /\ e.vetted = d.vetted /\ e.transport = d.transport /\ e.timeout = d.timeout
    BY <1>2, <2>1 DEF IsDiscovery
  <2>3. Vetted(e)
    BY <1>2, <2>2 DEF Vetted
  <2>4. DiscoveryPlaced(e)
    BY <1>2, <2>2, <2>3 DEF DiscoveryPlaced
  <2>5. AnswerVetted(e)
    BY <2>2 DEF AnswerVetted
  <2>6. ASSUME NEW j \in 1..(e.next - 1)
        PROVE  Failed(j)'
    <3>1. d.next \in Int
      BY <1>2, <1>3
    <3>2. Failed(j) /\ j # d.next
      BY <1>1, <2>2, <3>1 DEF Tried
    <3> QED
      BY <1>6, <3>2, FailedStays DEF HelperInv
  <2>7. Tried(e)'
    BY <2>2, <2>6 DEF Tried
  <2> QED
    BY <1>0, <2>4, <2>5, <2>7 DEF DiscoverySound
<1> QED
  BY <1>0, <1>4, <1>5, <1>6 DEF Attempt

\* A curl that failed.
LEMMA AttemptFailedSound ==
  ASSUME DiscoverySound, AttemptFailed
  PROVE  DiscoverySound'
<1>0. PICK d, e : d = disc /\ e = disc'
  OBVIOUS
<1>1. DiscoveryPlaced(d) /\ Tried(d) /\ d.pc = "wait" /\ job' = job
  BY <1>0 DEF DiscoverySound, AttemptFailed
<1>2. /\ IsDiscovery(d) /\ d.cause = "none" /\ Vetted(d) /\ d.next \in DOMAIN d.attempts
      /\ d.id.host \in Addresses \cup {NotIp} /\ d.resolved \in Seq(Resolved)
  BY <1>1 DEF DiscoveryPlaced
<1>3. PICK n \in {1, 2} : DOMAIN d.attempts = 1..n /\ Len(d.attempts) = n
  BY <1>2, VettedAttempts
<1>4. d.next \in {1, 2} /\ d.next <= n
  BY <1>2, <1>3
<1>5. Failed(d.next)
  BY <1>0, <1>4, PlacesAssumption DEF Failed, AttemptFailed
<1>6. \A j \in 1..d.next : Failed(j)
  <2>1. \A j \in 1..(d.next - 1) : Failed(j)
    BY <1>1 DEF Tried
  <2> QED
    BY <1>4, <1>5, <2>1
<1>7. \A j \in 1..d.next : Failed(j)'
  BY <1>1, <1>6 DEF Failed
<1>8. CASE d.next < n
  <2>1. e = [d EXCEPT !.pc = "fetch", !.next = d.next + 1]
    BY <1>0, <1>3, <1>8 DEF AttemptFailed
  <2>2. e = [pc |-> "fetch", id |-> d.id, transport |-> d.transport, timeout |-> d.timeout,
             resolved |-> d.resolved, vetted |-> d.vetted, attempts |-> d.attempts,
             next |-> d.next + 1, peer |-> d.peer, document |-> d.document, cause |-> d.cause,
             answer |-> d.answer]
    BY <1>2, <2>1 DEF IsDiscovery
  <2>3. /\ IsDiscovery(e) /\ e.pc = "fetch" /\ e.cause = "none" /\ e.next = d.next + 1
        /\ e.id = d.id /\ e.resolved = d.resolved /\ e.attempts = d.attempts
        /\ e.vetted = d.vetted /\ e.transport = d.transport /\ e.timeout = d.timeout
    BY <1>2, <2>2 DEF IsDiscovery
  <2>4. Vetted(e)
    BY <1>2, <2>3 DEF Vetted
  <2>5. e.next \in DOMAIN e.attempts
    BY <1>3, <1>4, <1>8, <2>3
  <2>6. DiscoveryPlaced(e)
    BY <1>2, <2>3, <2>4, <2>5 DEF DiscoveryPlaced
  <2>7. AnswerVetted(e)
    BY <2>3 DEF AnswerVetted
  <2>8. e.next - 1 = d.next
    BY <1>4, <2>3
  <2>9. Tried(e)'
    BY <1>7, <2>3, <2>8 DEF Tried
  <2> QED
    BY <1>0, <2>6, <2>7, <2>9 DEF DiscoverySound
<1>9. CASE ~ (d.next < n)
  <2>1. e = FetchFailed(d, "exhausted")
    BY <1>0, <1>3, <1>9 DEF AttemptFailed
  <2>2. Ends(d, e) /\ e.answer = "fetch_failed" /\ e.cause = "exhausted"
    BY <1>2, <2>1, FetchFailedEnds
  <2>3. Vetted(e)
    BY <1>2, <2>2 DEF Vetted, Ends
  <2>4. DiscoveryPlaced(e)
    BY <1>2, <2>2, <2>3 DEF DiscoveryPlaced, Ends
  <2>5. AnswerVetted(e)
    BY <2>2 DEF AnswerVetted
  <2>6. DOMAIN e.attempts = 1..d.next
    BY <1>3, <1>4, <1>9, <2>2 DEF Ends
  <2>7. Tried(e)'
    BY <1>7, <2>2, <2>6 DEF Tried, Ends
  <2> QED
    BY <1>0, <2>4, <2>5, <2>7 DEF DiscoverySound
<1> QED
  BY <1>8, <1>9

\* A curl that brought an answer.
LEMMA AttemptAnsweredSound ==
  ASSUME DiscoverySound, AttemptAnswered
  PROVE  DiscoverySound'
<1>0. PICK d, e : d = disc /\ e = disc'
  OBVIOUS
<1>1. DiscoveryPlaced(d) /\ d.pc = "wait"
  BY <1>0 DEF DiscoverySound, AttemptAnswered
<1>2. /\ IsDiscovery(d) /\ d.cause = "none" /\ Vetted(d)
      /\ d.id.host \in Addresses \cup {NotIp} /\ d.resolved \in Seq(Resolved)
  BY <1>1 DEF DiscoveryPlaced
<1>3. PICK peer, reply : e = Judge(d, peer, reply)
  BY <1>0 DEF AttemptAnswered
<1>4. CASE e = FetchFailed(d, "reply")
  <2>1. Ends(d, e) /\ e.answer = "fetch_failed" /\ e.cause = "reply"
    BY <1>2, <1>4, FetchFailedEnds
  <2>2. DiscoveryPlaced(e) /\ AnswerVetted(e) /\ Tried(e)'
    BY <1>2, <2>1, PlainEnd
  <2> QED
    BY <1>0, <2>2 DEF DiscoverySound
<1>5. ASSUME NEW x \in {"peer_mismatch", "http_status", "invalid_content_type",
                        "invalid_document"},
             e = Fail(d, x)
      PROVE  DiscoverySound'
  <2>1. Ends(d, e) /\ e.answer = x /\ e.cause = "none"
    BY <1>2, <1>5, FailEnds
  <2>2. e.answer # "ok" /\ e.answer # "unsafe_resolution"
    BY <2>1
  <2>3. DiscoveryPlaced(e) /\ AnswerVetted(e) /\ Tried(e)'
    BY <1>2, <2>1, <2>2, PlainEnd
  <2> QED
    BY <1>0, <2>3 DEF DiscoverySound
<1>6. ASSUME peer \in Range(d.vetted), reply.document.client_id = d.id.url,
             e = Succeeded(d, peer, reply.document.client_id)
      PROVE  DiscoverySound'
  <2>1. PICK u : u = reply.document.client_id
    OBVIOUS
  <2>2. Ends(d, e) /\ e.answer = "ok" /\ e.cause = d.cause /\ e.peer = peer /\ e.document = u
    BY <1>2, <1>6, <2>1, OkEnds
  <2>3. AnswerVetted(e)
    BY <1>2, <1>6, <2>1, <2>2 DEF AnswerVetted, Ends, Vetted
  <2>4. DiscoveryPlaced(e) /\ AnswerVetted(e) /\ Tried(e)'
    BY <1>2, <2>2, <2>3, PlainEnd
  <2> QED
    BY <1>0, <2>4 DEF DiscoverySound
<1>7. \/ e = FetchFailed(d, "reply")
      \/ \E x \in {"peer_mismatch", "http_status", "invalid_content_type",
                   "invalid_document"} : e = Fail(d, x)
      \/ /\ peer \in Range(d.vetted) /\ reply.document.client_id = d.id.url
         /\ e = Succeeded(d, peer, reply.document.client_id)
  <2>1. ValidDocument(d.id, reply.document) => reply.document.client_id = d.id.url
    BY DEF ValidDocument
  <2> QED
    BY <1>3, <2>1 DEF Judge, Succeeded
<1> QED
  BY <1>4, <1>5, <1>6, <1>7

\* A discovery starts with nothing decided.
LEMMA DiscoveryStarts ==
  ASSUME NEW x \in Discoveries, disc = Discovery(x[1], x[2], x[3])
  PROVE  DiscoverySound
<1>1. PICK d, id, tr, t : d = disc /\ id = x[1] /\ tr = x[2] /\ t = x[3]
  OBVIOUS
<1>2. d = [pc |-> "validate", id |-> id, transport |-> tr, timeout |-> t,
           resolved |-> <<>>, vetted |-> <<>>, attempts |-> <<>>, next |-> 1, peer |-> NotIp,
           document |-> "none", cause |-> "none", answer |-> "none"]
  BY <1>1 DEF Discovery
<1>3. /\ IsDiscovery(d) /\ d.pc = "validate" /\ d.id = id /\ d.resolved = <<>>
      /\ d.cause = "none" /\ d.next = 1
  BY <1>2 DEF IsDiscovery
<1>4. id.host \in Addresses \cup {NotIp}
  BY <1>1, HostsAssumption
<1>5. <<>> \in Seq(Resolved)
  OBVIOUS
<1>6. DiscoveryPlaced(d)
  BY <1>3, <1>4, <1>5 DEF DiscoveryPlaced
<1>7. AnswerVetted(d) /\ Tried(d)
  BY <1>3 DEF AnswerVetted, Tried
<1> QED
  BY <1>1, <1>6, <1>7 DEF DiscoverySound

\* A child that moves is not one that failed.
LEMMA RunnerKeepsDiscovery ==
  ASSUME HelperInv, DiscoverySound, NEW j \in Jobs, RunnerStep(j), disc' = disc
  PROVE  DiscoverySound'
<1>1. Pending(j)
  BY RunnerMoves DEF HelperInv
<1>2. PICK c : job' = [job EXCEPT ![j] = c]
  BY RunnerMoves DEF HelperInv
<1>3. ASSUME NEW i, Failed(i)
      PROVE  Failed(i)'
  <2>1. i # j
    BY <1>1, <1>3 DEF Failed, Pending
  <2> QED
    BY <1>2, <1>3, <2>1, FailedStays DEF HelperInv
<1>4. PICK d : d = disc
  OBVIOUS
<1>5. DiscoveryPlaced(d) /\ AnswerVetted(d) /\ Tried(d)
  BY <1>4 DEF DiscoverySound
<1>6. Tried(d)'
  BY <1>3, <1>5 DEF Tried
<1> QED
  BY <1>4, <1>5, <1>6 DEF DiscoverySound

\* The discovery's invariant holds throughout.
LEMMA DiscoveryInvariant ==
  HelperSpec => []DiscoveryInv
<1>1. HelperInit => DiscoveryInv
  <2> SUFFICES ASSUME HelperInit PROVE DiscoveryInv
    OBVIOUS
  <2>1. CASE disc = NoDiscovery
    BY <2>1 DEF DiscoveryInv
  <2>2. ASSUME git = NoGit, NEW x \in Discoveries, disc = Discovery(x[1], x[2], x[3])
        PROVE  DiscoveryInv
    BY <2>2, DiscoveryStarts DEF DiscoveryInv
  <2> QED
    BY <2>1, <2>2 DEF HelperInit
<1>2. HelperInv /\ DiscoveryInv /\ [HelperNext]_helperVars => DiscoveryInv'
  <2> SUFFICES ASSUME HelperInv, DiscoveryInv, [HelperNext]_helperVars PROVE DiscoveryInv'
    OBVIOUS
  <2>1. ASSUME NEW j \in Jobs, RunnerStep(j), UNCHANGED <<process, git, disc>>
        PROVE  DiscoveryInv'
    BY <2>1, RunnerKeepsDiscovery DEF DiscoveryInv
  <2>2. CASE ProcessNext /\ UNCHANGED <<git, disc>>
    BY <2>2 DEF ProcessNext, HelperInv, CallSound, DiscoveryInv
  <2>3. CASE GitNext /\ UNCHANGED <<process, disc>>
    <3>1. git # NoGit
      <4>1. NoGit.op = "none" /\ DOMAIN NoGit.step = {}
        BY DEF NoGit
      <4> QED
        BY <2>3, <4>1 DEF GitNext, GitAnswer, GitInvoke, GitResult
    <3> QED
      BY <2>3, <3>1 DEF DiscoveryInv
  <2>4. CASE CimdNext /\ UNCHANGED <<process, git>>
    <3>1. disc # NoDiscovery
      BY <2>4 DEF NoDiscovery, CimdNext, Validate, Resolve, Attempt, AttemptFailed,
                  AttemptAnswered
    <3>2. DiscoverySound /\ git' = NoGit
      BY <2>4, <3>1 DEF DiscoveryInv
    <3>3. DiscoverySound'
      BY <2>4, <3>2, ResolutionSound, AttemptSound, AttemptFailedSound, AttemptAnsweredSound
         DEF CimdNext
    <3> QED
      BY <3>2, <3>3 DEF DiscoveryInv
  <2>5. CASE UNCHANGED helperVars
    BY <2>5 DEF helperVars, DiscoveryInv, DiscoverySound, Tried, Failed
  <2> QED
    BY <2>1, <2>2, <2>3, <2>4, <2>5 DEF HelperNext
<1> QED
  BY <1>1, <1>2, HelperInvariant, PTL DEF HelperSpec

\* A safe resolution has addresses only, none of them in a reserved block.
LEMMA SafeMeansUnreserved ==
  ASSUME NEW addresses \in Seq(Resolved)
  PROVE  SafeResolution(addresses) <=>
           /\ Len(addresses) \in 1..16
           /\ \A i \in DOMAIN addresses :
                addresses[i].ip # NotIp /\ ~ Reserved(addresses[i].ip)
<1>1. ASSUME NEW i \in DOMAIN addresses, addresses[i].ip # NotIp
      PROVE  SpecialUse(addresses[i].ip) <=> Reserved(addresses[i].ip)
  <2>1. addresses[i] \in Resolved
    BY <1>1
  <2>2. addresses[i].ip \in Addresses
    BY <1>1, <2>1 DEF Resolved
  <2> QED
    BY <2>2, AddressesJudged
<1> QED
  BY <1>1 DEF SafeResolution

\* A document is taken only from an address that the identifier's own name
\* resolved to, when no address of the resolution is in a reserved block, and
\* only if it names the identifier; and a resolution is refused only when one
\* of its addresses is in such a block or is no address, or for its size.  Of
\* every resolution, every address curl may end up at and every reply.
THEOREM DocumentsVetted ==
  HelperSpec => []DocumentVetted
<1>1. DiscoveryInv => DocumentVetted
  <2> SUFFICES ASSUME DiscoveryInv, disc.pc = "done"
               PROVE  DocumentVetted
    BY DEF DocumentVetted
  <2>1. PICK d : d = disc
    OBVIOUS
  <2>2. AnswerVetted(d) /\ d.resolved \in Seq(Resolved) /\ d.pc = "done"
    BY <2>1 DEF DiscoveryInv, DiscoverySound, DiscoveryPlaced, NoDiscovery
  <2>3. PICK addresses \in Seq(Resolved) : addresses = d.resolved
    BY <2>2
  <2>4. CASE d.answer = "ok"
    <3>1. d.document = d.id.url /\ SafeResolution(addresses) /\ d.peer \in Range(Unique(addresses))
      BY <2>2, <2>3, <2>4 DEF AnswerVetted
    <3>2. \A i \in DOMAIN addresses : ~ Reserved(addresses[i].ip)
      BY <3>1, SafeMeansUnreserved
    <3>3. PICK u : u = Unique(addresses)
      OBVIOUS
    <3>4. PICK k \in DOMAIN u : u[k] = d.peer
      BY <3>1, <3>3 DEF Range
    <3>5. k \in DOMAIN addresses /\ addresses[k].ip = d.peer
      BY <3>3, <3>4, UniqueAddresses
    <3> QED
      BY <2>1, <2>3, <2>4, <3>1, <3>2, <3>5 DEF DocumentVetted
  <2>5. CASE d.answer = "unsafe_resolution"
    <3>1. ~ SafeResolution(addresses)
      BY <2>2, <2>3, <2>5 DEF AnswerVetted
    <3>2. \/ Len(addresses) \notin 1..16
          \/ \E i \in DOMAIN addresses : addresses[i].ip = NotIp \/ Reserved(addresses[i].ip)
      BY <3>1, SafeMeansUnreserved
    <3> QED
      BY <2>1, <2>3, <2>5, <3>2 DEF DocumentVetted
  <2> QED
    BY <2>1, <2>4, <2>5 DEF DocumentVetted
<1> QED
  BY <1>1, DiscoveryInvariant, PTL

\* A discovery that gives up because curl failed has run a curl that failed
\* for every family of the resolution, with either transport and every timeout
\* it accepts; it never gives up because the share of the timeout is outside
\* the transport's own limits.
THEOREM FallbacksTried ==
  HelperSpec => []FallbackTried
<1>1. DiscoveryInv => FallbackTried
  <2> SUFFICES ASSUME DiscoveryInv, disc.pc = "done", disc.cause \in {"contract", "exhausted"}
               PROVE  \A i \in DOMAIN disc.resolved : \E j \in Jobs \cap DOMAIN disc.attempts :
                        /\ job[j].answer \notin {"none", "ok"}
                        /\ \E ip \in disc.attempts[j] : ip.version = disc.resolved[i].ip.version
    BY DEF FallbackTried
  <2>1. PICK d : d = disc
    OBVIOUS
  <2>2. DiscoveryPlaced(d) /\ Tried(d)
    BY <2>1 DEF DiscoveryInv, DiscoverySound, NoDiscovery
  <2>3. d.cause = "exhausted" /\ Vetted(d) /\ d.resolved \in Seq(Resolved)
    BY <2>1, <2>2 DEF DiscoveryPlaced
  <2>4. PICK n \in {1, 2} : DOMAIN d.attempts = 1..n /\ Reaches(d.attempts, n, d.resolved)
    BY <2>3, VettedAttempts
  <2>5. \A j \in 1..n : j \in Jobs /\ job[j].answer \notin {"none", "ok"}
    BY <2>2, <2>3, <2>4 DEF Tried, Failed
  <2>6. ASSUME NEW i \in DOMAIN d.resolved
        PROVE  \E j \in Jobs \cap DOMAIN d.attempts :
                 /\ job[j].answer \notin {"none", "ok"}
                 /\ \E ip \in d.attempts[j] : ip.version = d.resolved[i].ip.version
    <3>1. PICK j \in 1..n : \E ip \in d.attempts[j] : ip.version = d.resolved[i].ip.version
      BY <2>4 DEF Reaches
    <3> QED
      BY <2>4, <2>5, <3>1
  <2> QED
    BY <2>1, <2>6
<1> QED
  BY <1>1, DiscoveryInvariant, PTL
=============================================================================
