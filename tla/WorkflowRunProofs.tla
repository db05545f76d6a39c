------------------------- MODULE WorkflowRunProofs -------------------------
(***************************************************************************)
(* Why a workflow survives several executions at once.  Nothing ties the   *)
(* workers together but the children they find under the keys of the       *)
(* steps, so the invariant says what each piece of knowledge that travels  *)
(* through a run, a request or a result still means when it is used: a     *)
(* child id leads to the child of that step unless retention deleted it,   *)
(* and what was completed stays completed.                                 *)
(***************************************************************************)
EXTENDS WorkflowRun, FiniteSetTheorems, WellFoundedInduction, TLAPS

-----------------------------------------------------------------------------
(* The invariant.                                                          *)

Stages == {"idle", "poll", "submit", "enqueue", "pass", "returned", "threw"}

RunRecord ==
  [stage : Stages, epoch : Nat, at : Nat, child : [Steps -> Nat], done : SUBSET Steps,
   lost : BOOLEAN]

Payloads == UNION {[Refs[s] -> Values] : s \in Steps}

ChildRecord ==
  [step : Steps, input : Payloads,
   status : {"active"} \cup Terminal, projection : Values \cup {NoValue}]

\* The child c of step s is known: it still exists, or retention deleted it.
Known(s, c) ==
  /\ c \in 1..lastChild
  /\ IF c \in DOMAIN children THEN children[c].step = s ELSE s \in forgotten

\* The step s is finished, and c is the task that finished it.
Settled(s, c) ==
  \/ s \in forgotten
  \/ c \in ChildOf(s) /\ children[c].status = "COMPLETED"

\* A payload for a step stands on finished dependencies and true projections.
Fed(step, input) ==
  /\ input \in [Refs[step] -> Values]
  /\ \A s \in DependsOn[step] :
        s \in forgotten \/ \E d \in ChildOf(s) : children[d].status = "COMPLETED"
  /\ \A s \in Refs[step] :
        s \in forgotten \/ \E d \in ChildOf(s) : children[d].projection = input[s]

\* What an execution believes of its children is true.
Backed(r) ==
  /\ \A s \in Steps : r.child[s] # 0 => Known(s, r.child[s])
  /\ \A s \in r.done : r.child[s] # 0 /\ Settled(s, r.child[s])

\* Where an execution is agrees with what it has found out.
Placed(r) ==
  /\ r.stage = "poll" => r.at \in Steps /\ r.child[r.at] # 0
  /\ r.stage \in {"submit", "enqueue"} => r.at \in Steps /\ r.child[r.at] = 0 /\ Ready(r, r.at)
  /\ r.stage = "returned" => r.done = Steps

ChildrenSound ==
  /\ lastChild \in Nat
  /\ DOMAIN children \subseteq 1..lastChild
  /\ forgotten \subseteq Steps
  /\ \A c \in DOMAIN children :
        /\ children[c] \in ChildRecord
        /\ children[c].status = "active" => children[c].projection = NoValue
        /\ Fed(children[c].step, children[c].input)

RunsSound ==
  /\ run \in [Workers -> RunRecord]
  /\ \A w \in Workers : Backed(run[w]) /\ Placed(run[w])

RequestSound(req) ==
  /\ req.worker \in Workers
  /\ req.kind = "enqueue" => req.step \in Steps /\ Fed(req.step, req.input)
  /\ req.kind = "complete" => \A s \in Steps : Settled(s, req.steps[s])

RequestsSound == \A req \in net : RequestSound(req)

ResultSound == result # NoResult => \A s \in Steps : Settled(s, result[s])

\* Everything that travels still means what it meant.
WorkflowInv ==
  /\ epoch \in Nat
  /\ ChildrenSound
  /\ OneChildPerStep
  /\ RunsSound
  /\ RequestsSound
  /\ ResultSound

-----------------------------------------------------------------------------
(* Positions: the two loops of executeWorkflow.                            *)

\* A set of positions that is not empty has a first one.
LEMMA MinIsMember ==
  ASSUME NEW T, T \subseteq Nat, T # {}
  PROVE  Min(T) \in T
  <1> DEFINE less == {ss \in Nat \X Nat : ss[1] < ss[2]}
  <1>1. IsWellFoundedOn(less, Nat)
    BY NatLessThanWellFounded DEF OpToRel
  <1>2. \E x \in T : \A y \in T : ~ (<<y, x>> \in less)
    <2> HIDE DEF less
    <2> QED
      BY <1>1, WFMin
  <1>3. \A x, y \in Nat : y < x => <<y, x>> \in less
    OBVIOUS
  <1>4. PICK x \in T : \A y \in T : x <= y
    <2> HIDE DEF less
    <2>1. PICK x \in T : \A y \in T : ~ (<<y, x>> \in less)
      BY <1>2
    <2>2. \A y \in T : ~ (y < x)
      BY <1>3, <2>1
    <2> QED
      BY <2>2
  <1> QED
    BY <1>4 DEF Min

\* The steps are numbered from 1.
LEMMA StepsAreNats == Steps \subseteq Nat
  <1>1. Cardinality(Steps) \in Nat
    BY DefinitionAssumption, FS_CardinalityType
  <1> QED
    BY <1>1, DefinitionAssumption

\* What moving an execution to another position leaves alone.
SameKnowledge(q, r) ==
  /\ q.child = r.child
  /\ q.done = r.done
  /\ q.lost = r.lost
  /\ q.epoch = r.epoch

\* An execution that knows the same is backed by the same children.
LEMMA SameKnowledgeBacked ==
  ASSUME NEW q, NEW r, SameKnowledge(q, r), Backed(r)
  PROVE  Backed(q)
  BY DEF SameKnowledge, Backed

\* The submission loop stops at a step that is ready, or ends the pass.
LEMMA AtSubmitPlaced ==
  ASSUME NEW r \in RunRecord
  PROVE  /\ AtSubmit(r) \in RunRecord
         /\ SameKnowledge(AtSubmit(r), r)
         /\ Placed(AtSubmit(r))
  <1>1. CASE ToSubmit(r) # {}
    <2>1. Min(ToSubmit(r)) \in ToSubmit(r)
      BY <1>1, MinIsMember, StepsAreNats DEF ToSubmit
    <2> DEFINE m == Min(ToSubmit(r))
    <2>2. m \in Steps /\ m \in Nat /\ r.child[m] = 0 /\ \A d \in DependsOn[m] : d \in r.done
      BY <2>1, StepsAreNats DEF ToSubmit, Ready, Completed
    <2>3. AtSubmit(r) = [r EXCEPT !.stage = "submit", !.at = m]
      BY <1>1 DEF AtSubmit
    <2> HIDE DEF m
    <2> QED
      BY <2>2, <2>3 DEF RunRecord, Stages, SameKnowledge, Placed, Ready, Completed
  <1>2. CASE ToSubmit(r) = {}
    BY <1>2 DEF AtSubmit, RunRecord, Stages, SameKnowledge, Placed
  <1> QED
    BY <1>1, <1>2

\* The polling loop stops at a step that has a child, or gives way to the
\* submission loop.
LEMMA AtPollPlaced ==
  ASSUME NEW r \in RunRecord
  PROVE  /\ AtPoll(r) \in RunRecord
         /\ SameKnowledge(AtPoll(r), r)
         /\ Placed(AtPoll(r))
  <1>1. CASE ToPoll(r) # {}
    <2>1. Min(ToPoll(r)) \in ToPoll(r)
      BY <1>1, MinIsMember, StepsAreNats DEF ToPoll
    <2> DEFINE m == Min(ToPoll(r))
    <2>2. m \in Steps /\ m \in Nat /\ r.child[m] # 0
      BY <2>1, StepsAreNats DEF ToPoll
    <2>3. AtPoll(r) = [r EXCEPT !.stage = "poll", !.at = m]
      BY <1>1 DEF AtPoll
    <2> HIDE DEF m
    <2> QED
      BY <2>2, <2>3 DEF RunRecord, Stages, SameKnowledge, Placed
  <1>2. CASE ToPoll(r) = {}
    <2> DEFINE q == [r EXCEPT !.at = 1]
    <2>1. q \in RunRecord /\ SameKnowledge(q, r)
      BY DEF RunRecord, SameKnowledge
    <2>2. AtPoll(r) = AtSubmit(q)
      BY <1>2 DEF AtPoll
    <2> HIDE DEF q
    <2> QED
      BY <2>1, <2>2, AtSubmitPlaced DEF SameKnowledge
  <1> QED
    BY <1>1, <1>2

\* An exception keeps what the execution knows.
LEMMA ThrewPlaced ==
  ASSUME NEW r \in RunRecord
  PROVE  /\ Threw(r) \in RunRecord
         /\ SameKnowledge(Threw(r), r)
         /\ Placed(Threw(r))
  BY DEF Threw, RunRecord, Stages, SameKnowledge, Placed

\* An execution that polled a step goes on to the next position.
LEMMA PolledRecord ==
  ASSUME NEW r \in RunRecord, NEW known \in SUBSET Steps
  PROVE  LET q == [r EXCEPT !.at = r.at + 1, !.done = known] IN
         q \in RunRecord /\ q.child = r.child /\ q.done = known
  <1>1. r.at + 1 \in Nat
    BY DEF RunRecord
  <1> QED
    BY <1>1 DEF RunRecord

\* A fresh execution knows nothing yet.
LEMMA FreshRun ==
  ASSUME NEW e \in Nat, NEW n \in Nat
  PROVE  LET fresh == [NotRunning EXCEPT !.epoch = e, !.at = n] IN
         /\ fresh \in RunRecord /\ Backed(fresh)
         /\ NotRunning \in RunRecord /\ Backed(NotRunning) /\ Placed(NotRunning)
  BY DEF NotRunning, RunRecord, Stages, Backed, Placed

-----------------------------------------------------------------------------
(* The children only move forward.                                         *)

\* Children keep their step and their payload, a finished one does not change
\* any more, one that disappears leaves its step among the forgotten, and a new
\* one has an id never used.
ChildrenMoveOn ==
  /\ lastChild' \in Nat /\ lastChild <= lastChild'
  /\ forgotten \subseteq forgotten'
  /\ \A c \in DOMAIN children :
        IF c \in DOMAIN children'
        THEN /\ children'[c].step = children[c].step
             /\ children'[c].input = children[c].input
             /\ children[c].status # "active" => children'[c] = children[c]
        ELSE children[c].step \in forgotten'
  /\ \A c \in DOMAIN children' \ DOMAIN children : c > lastChild

\* So a child that was known stays known,
LEMMA KnownStays ==
  ASSUME ChildrenSound, ChildrenMoveOn, NEW s \in Steps, NEW c, Known(s, c)
  PROVE  Known(s, c)'
  BY DEF ChildrenSound, ChildrenMoveOn, Known

\* a step that was finished stays finished,
LEMMA SettledStays ==
  ASSUME ChildrenMoveOn, NEW s, NEW c, Settled(s, c)
  PROVE  Settled(s, c)'
  BY DEF ChildrenMoveOn, Settled, ChildOf

\* and a payload that was true stays true.
LEMMA FedStays ==
  ASSUME ChildrenSound, ChildrenMoveOn, NEW step \in Steps, NEW input, Fed(step, input)
  PROVE  Fed(step, input)'
  <1>1. ASSUME NEW s, NEW d \in ChildOf(s), children[d].status # "active"
        PROVE  s \in forgotten' \/ (d \in ChildOf(s)' /\ children'[d] = children[d])
    BY <1>1 DEF ChildrenMoveOn, ChildOf
  <1>2. \A s \in Refs[step] : \A d \in ChildOf(s) :
            children[d].projection = input[s] => children[d].status # "active"
    BY RunAssumption DEF ChildrenSound, Fed, ChildOf
  <1> QED
    BY <1>1, <1>2 DEF Fed, ChildrenMoveOn

\* What an execution believed stays true.
LEMMA BackedStays ==
  ASSUME ChildrenSound, ChildrenMoveOn, NEW r \in RunRecord, Backed(r)
  PROVE  Backed(r)'
  BY KnownStays, SettledStays DEF Backed, RunRecord

\* Requests in the network and the stored result keep their meaning too.
LEMMA CarriesOver ==
  ASSUME WorkflowInv, ChildrenMoveOn
  PROVE  /\ \A req \in net : RequestSound(req)'
         /\ result' = result => ResultSound'
  <1>1. ChildrenSound
    BY DEF WorkflowInv
  <1>2. ASSUME NEW req \in net PROVE RequestSound(req)'
    <2>1. RequestSound(req)
      BY DEF WorkflowInv, RequestsSound
    <2> QED
      BY <1>1, <2>1, FedStays, SettledStays DEF RequestSound
  <1>3. ASSUME result' = result PROVE ResultSound'
    BY <1>3, SettledStays DEF WorkflowInv, ResultSound
  <1> QED
    BY <1>2, <1>3

\* A step that touches no child moves them on trivially.
LEMMA KidsUnchanged ==
  ASSUME WorkflowInv, UNCHANGED kids
  PROVE  ChildrenMoveOn /\ ChildrenSound' /\ OneChildPerStep'
  <1>1. UNCHANGED <<children, lastChild, forgotten>>
    BY DEF kids
  <1>2. ChildrenMoveOn
    BY <1>1 DEF WorkflowInv, ChildrenSound, ChildrenMoveOn
  <1>3. OneChildPerStep'
    BY <1>1 DEF WorkflowInv, OneChildPerStep
  <1>4. ChildrenSound'
    BY <1>1 DEF WorkflowInv, ChildrenSound, Fed, ChildOf
  <1> QED
    BY <1>2, <1>3, <1>4

\* One execution moves to q, or none does.
LEMMA RunsStaySound ==
  ASSUME WorkflowInv, ChildrenMoveOn,
         \/ UNCHANGED run
         \/ \E w \in Workers : \E q \in RunRecord :
               Backed(q)' /\ Placed(q) /\ run' = [run EXCEPT ![w] = q]
  PROVE  RunsSound'
  <1>1. ChildrenSound /\ RunsSound
    BY DEF WorkflowInv
  <1>2. ASSUME NEW w \in Workers PROVE Backed(run[w])' \/ run'[w] # run[w]
    <2>1. run[w] \in RunRecord /\ Backed(run[w])
      BY <1>1 DEF RunsSound
    <2>2. ASSUME NEW r \in RunRecord, Backed(r), run'[w] = r PROVE Backed(run[w])'
      <3>1. Backed(r)'
        BY <1>1, <2>2, BackedStays
      <3> QED
        BY <2>2, <3>1
    <2> QED
      BY <2>1, <2>2
  <1>3. ASSUME NEW w \in Workers, run'[w] = run[w]
        PROVE  run'[w] \in RunRecord /\ Backed(run[w])' /\ Placed(run[w])'
    BY <1>1, <1>2, <1>3 DEF RunsSound, Placed, Ready, Completed
  <1>4. CASE UNCHANGED run
    BY <1>1, <1>3, <1>4 DEF RunsSound
  <1>5. ASSUME NEW w \in Workers, NEW q \in RunRecord,
               Backed(q)', Placed(q), run' = [run EXCEPT ![w] = q]
        PROVE  RunsSound'
    <2>1. run' \in [Workers -> RunRecord] /\ run'[w] = q
      BY <1>1, <1>5 DEF RunsSound
    <2>2. Backed(run[w])' /\ Placed(run[w])'
      BY <1>5, <2>1 DEF Backed, Placed, Ready, Completed
    <2>3. \A v \in Workers : v # w => run'[v] = run[v]
      BY <1>1, <1>5 DEF RunsSound
    <2> QED
      BY <1>3, <2>1, <2>2, <2>3 DEF RunsSound
  <1> QED
    BY <1>4, <1>5

\* A step of a worker: one execution moves, and one request may be sent.
LEMMA WorkerMoves ==
  ASSUME WorkflowInv, UNCHANGED kids, UNCHANGED result, epoch' \in Nat,
         NEW w \in Workers, NEW q \in RunRecord, Backed(q), Placed(q),
         run' = [run EXCEPT ![w] = q] \/ UNCHANGED run,
         \/ net' \subseteq net
         \/ \E req : RequestSound(req) /\ net' = net \cup {req}
  PROVE  WorkflowInv'
  <1>1. ChildrenSound /\ ChildrenMoveOn /\ ChildrenSound' /\ OneChildPerStep'
    BY KidsUnchanged DEF WorkflowInv
  <1>2. Backed(q)'
    BY <1>1, BackedStays
  <1>3. RunsSound'
    BY <1>1, <1>2, RunsStaySound
  <1>4. ResultSound' /\ \A req \in net : RequestSound(req)'
    BY <1>1, CarriesOver
  <1>5. ASSUME NEW req, RequestSound(req) PROVE RequestSound(req)'
    BY <1>1, <1>5, FedStays, SettledStays DEF RequestSound
  <1>6. RequestsSound'
    BY <1>4, <1>5 DEF RequestsSound
  <1> QED
    BY <1>1, <1>3, <1>4, <1>6 DEF WorkflowInv

\* Every step of a worker keeps the invariant.
LEMMA WorkerStepSound ==
  ASSUME WorkflowInv, NEW w \in Workers, WorkerStep(w)
  PROVE  WorkflowInv'
  <1> DEFINE r == run[w]
  <1>1. r \in RunRecord /\ Backed(r) /\ Placed(r) /\ epoch \in Nat
    BY DEF WorkflowInv, RunsSound
  <1>2. CASE Poll(w)
    <2> DEFINE c == r.child[r.at]
               known == IF children[c].status = "COMPLETED" THEN r.done \cup {r.at} ELSE r.done
               q == [r EXCEPT !.at = r.at + 1, !.done = known]
    <2>1. /\ r.stage = "poll" /\ c \in DOMAIN children
          /\ run' = [run EXCEPT ![w] = AtPoll(q)]
          /\ UNCHANGED <<task, kids, net>>
      BY <1>2 DEF Poll
    <2>2. r.at \in Steps /\ c # 0 /\ Known(r.at, c)
      BY <1>1, <2>1 DEF Placed, Backed
    <2>3. c \in ChildOf(r.at)
      BY <2>1, <2>2 DEF Known, ChildOf
    <2>4. known \in SUBSET Steps /\ \A s \in known : s \in r.done \/ (s = r.at /\ Settled(s, c))
      <3>1. r.done \subseteq Steps
        BY <1>1 DEF RunRecord
      <3>2. CASE children[c].status = "COMPLETED"
        BY <2>2, <2>3, <3>1, <3>2 DEF Settled
      <3>3. CASE children[c].status # "COMPLETED"
        BY <3>1, <3>3
      <3> QED
        BY <3>2, <3>3
    <2> HIDE DEF known
    <2>5. q \in RunRecord /\ q.child = r.child /\ q.done = known
      BY <1>1, <2>4, PolledRecord
    <2>6. Backed(q)
      BY <1>1, <2>2, <2>4, <2>5 DEF Backed
    <2> HIDE DEF q
    <2>7. AtPoll(q) \in RunRecord /\ Backed(AtPoll(q)) /\ Placed(AtPoll(q))
      BY <2>5, <2>6, AtPollPlaced, SameKnowledgeBacked
    <2> QED
      BY <1>1, <2>1, <2>7, WorkerMoves DEF task
  <1>3. CASE Submit(w)
    <2> DEFINE input == [s \in Refs[r.at] |-> Projection(r.child[s])]
               req == [kind |-> "enqueue", worker |-> w, epoch |-> r.epoch,
                       step |-> r.at, input |-> input]
               q == [r EXCEPT !.stage = "enqueue"]
    <2>1. /\ r.stage = "submit" /\ Resolvable(r, Refs[r.at])
          /\ run' = [run EXCEPT ![w] = q] /\ net' = net \cup {req}
          /\ UNCHANGED <<task, kids>>
      BY <1>3 DEF Submit
    <2>2. /\ r.at \in Steps /\ Refs[r.at] \subseteq Steps
          /\ DependsOn[r.at] \subseteq r.done
      BY <1>1, <2>1, DefinitionAssumption DEF Placed, Ready, Completed, Accepted, ReferencesAccepted
    <2>3. q \in RunRecord /\ SameKnowledge(q, r) /\ Placed(q)
      BY <1>1, <2>1 DEF RunRecord, Stages, SameKnowledge, Placed, Ready, Completed
    <2>4. ASSUME NEW s \in Refs[r.at]
          PROVE  /\ input[s] \in Values
                 /\ \E d \in ChildOf(s) : children[d].projection = input[s]
      <3> DEFINE d == r.child[s]
      <3>1. d \in DOMAIN children /\ children[d].projection # NoValue
        BY <2>1 DEF Resolvable, Projection
      <3>2. d \in 1..lastChild /\ children[d] \in ChildRecord
        BY <3>1 DEF WorkflowInv, ChildrenSound
      <3>3. Known(s, d)
        BY <1>1, <2>2, <3>2 DEF Backed, WorkflowInv, ChildrenSound
      <3>4. d \in ChildOf(s) /\ input[s] = children[d].projection
        BY <3>1, <3>3 DEF Known, ChildOf, Projection
      <3> QED
        BY <3>1, <3>2, <3>4 DEF ChildRecord
    <2>5. \A s \in DependsOn[r.at] :
              s \in forgotten \/ \E d \in ChildOf(s) : children[d].status = "COMPLETED"
      BY <1>1, <2>2 DEF Backed, Settled
    <2>6. Fed(r.at, input)
      BY <2>4, <2>5 DEF Fed
    <2>7. RequestSound(req)
      BY <2>2, <2>6 DEF RequestSound
    <2>8. Backed(q)
      BY <1>1, <2>3, SameKnowledgeBacked
    <2> HIDE DEF q, req
    <2> QED
      BY <1>1, <2>1, <2>3, <2>7, <2>8, WorkerMoves DEF task
  <1>4. CASE Return(w)
    <2> DEFINE q == [r EXCEPT !.stage = "returned"]
    <2>1. run' = [run EXCEPT ![w] = q] /\ r.done = Steps /\ UNCHANGED <<task, kids, net>>
      BY <1>4 DEF Return
    <2>2. q \in RunRecord /\ SameKnowledge(q, r) /\ Placed(q)
      BY <1>1, <2>1 DEF RunRecord, Stages, SameKnowledge, Placed
    <2>3. Backed(q)
      BY <1>1, <2>2, SameKnowledgeBacked
    <2> HIDE DEF q
    <2> QED
      BY <1>1, <2>1, <2>2, <2>3, WorkerMoves DEF task
  <1>5. CASE NextPass(w)
    <2> DEFINE q == [r EXCEPT !.at = 1]
    <2>1. run' = [run EXCEPT ![w] = AtPoll(q)] /\ UNCHANGED <<task, kids, net>>
      BY <1>5 DEF NextPass
    <2>2. q \in RunRecord /\ SameKnowledge(q, r)
      BY <1>1 DEF RunRecord, SameKnowledge
    <2> HIDE DEF q
    <2>3. AtPoll(q) \in RunRecord /\ Backed(AtPoll(q)) /\ Placed(AtPoll(q))
      BY <1>1, <2>2, AtPollPlaced, SameKnowledgeBacked
    <2> QED
      BY <1>1, <2>1, <2>3, WorkerMoves DEF task
  <1>6. CASE TimeIsUp(w) \/ Throws(w)
    <2>1. run' = [run EXCEPT ![w] = Threw(r)] /\ UNCHANGED <<task, kids, net>>
      BY <1>6 DEF TimeIsUp, Throws
    <2>2. Threw(r) \in RunRecord /\ Backed(Threw(r)) /\ Placed(Threw(r))
      BY <1>1, ThrewPlaced, SameKnowledgeBacked
    <2> QED
      BY <1>1, <2>1, <2>2, WorkerMoves DEF task
  <1>7. CASE Report(w)
    <2> DEFINE req == [kind |-> IF r.stage = "returned" THEN "complete" ELSE "fail",
                       worker |-> w, epoch |-> r.epoch, steps |-> r.child]
    <2>1. /\ run' = [run EXCEPT ![w] = NotRunning] /\ UNCHANGED <<task, kids>>
          /\ net' = net \/ net' = net \cup {req}
      BY <1>7 DEF Report
    <2>2. RequestSound(req)
      BY <1>1 DEF RequestSound, Placed, Backed
    <2>3. NotRunning \in RunRecord /\ Backed(NotRunning) /\ Placed(NotRunning)
      BY FreshRun
    <2> HIDE DEF req
    <2> QED
      BY <1>1, <2>1, <2>2, <2>3, WorkerMoves DEF task
  <1>8. CASE Claim(w)
    <2>1. PICK e \in Nat : e = epoch + 1
      BY <1>1
    <2> DEFINE q == AtPoll([NotRunning EXCEPT !.epoch = e, !.at = 1])
    <2>2. /\ run' = [run EXCEPT ![w] = q] \/ UNCHANGED run
          /\ epoch' = e
          /\ UNCHANGED <<result, kids, net>>
      BY <1>8, <2>1 DEF Claim
    <2>3. q \in RunRecord /\ Backed(q) /\ Placed(q)
      BY <2>1, FreshRun, AtPollPlaced, SameKnowledgeBacked
    <2> HIDE DEF q
    <2> QED
      BY <2>1, <2>2, <2>3, WorkerMoves
  <1>9. CASE LoseLease(w)
    <2> DEFINE q == [r EXCEPT !.lost = TRUE]
    <2>1. run' = [run EXCEPT ![w] = q] /\ UNCHANGED <<task, kids, net>>
      BY <1>9 DEF LoseLease
    <2>2. q \in RunRecord /\ Backed(q) /\ Placed(q)
      BY <1>1 DEF RunRecord, Backed, Placed, Ready, Completed
    <2> HIDE DEF q
    <2> QED
      BY <1>1, <2>1, <2>2, WorkerMoves DEF task
  <1>10. CASE Crash(w)
    <2>1. run' = [run EXCEPT ![w] = NotRunning] /\ UNCHANGED <<task, kids, net>>
      BY <1>10 DEF Crash
    <2>2. NotRunning \in RunRecord /\ Backed(NotRunning) /\ Placed(NotRunning)
      BY FreshRun
    <2> QED
      BY <1>1, <2>1, <2>2, WorkerMoves DEF task
  <1> QED
    BY <1>2, <1>3, <1>4, <1>5, <1>6, <1>7, <1>8, <1>9, <1>10 DEF WorkerStep, Executes

-----------------------------------------------------------------------------
(* The queue's side.                                                       *)

\* A request that is taken off the network without touching the children:
\* dropped, or applied to the workflow task.
LEMMA RequestTaken ==
  ASSUME WorkflowInv, NEW req \in net,
         Drop(req) \/ Complete(req) \/ Fail(req)
  PROVE  WorkflowInv'
  <1>1. /\ UNCHANGED <<kids, run, epoch>> /\ net' \subseteq net
        /\ result' = result \/ (req.kind = "complete" /\ result' = req.steps)
    BY DEF Drop, Complete, Fail, task
  <1>2. ChildrenMoveOn /\ ChildrenSound' /\ OneChildPerStep'
    BY <1>1, KidsUnchanged
  <1>3. RunsSound'
    BY <1>1, <1>2, RunsStaySound
  <1>4. RequestsSound' /\ RequestSound(req)'
    BY <1>1, <1>2, CarriesOver DEF RequestsSound
  <1>5. ResultSound'
    <2>1. CASE result' = result
      BY <1>2, <2>1, CarriesOver
    <2>2. CASE req.kind = "complete" /\ result' = req.steps
      BY <1>4, <2>2 DEF RequestSound, ResultSound
    <2> QED
      BY <1>1, <2>1, <2>2
  <1> QED
    BY <1>1, <1>2, <1>3, <1>4, <1>5 DEF WorkflowInv

\* An answer that arrives tells its sender about a child of the step it asked
\* for, or makes it throw.
LEMMA AcceptSound ==
  ASSUME NEW r \in RunRecord, r.stage = "enqueue", Placed(r), Backed(r)',
         NEW c \in Nat, Known(r.at, c)'
  PROVE  Accept(r, c) \in RunRecord /\ Backed(Accept(r, c))' /\ Placed(Accept(r, c))
  <1> DEFINE q == [r EXCEPT !.child[r.at] = c, !.at = @ + 1]
  <1>1. r.at \in Steps
    BY DEF Placed
  <1>2. /\ q \in RunRecord /\ q.done = r.done /\ q.child[r.at] = c
        /\ \A s \in Steps : s # r.at => q.child[s] = r.child[s]
    <2> DEFINE child == [r.child EXCEPT ![r.at] = c]
    <2>1. /\ child \in [Steps -> Nat] /\ child[r.at] = c
          /\ \A s \in Steps : s # r.at => child[s] = r.child[s]
      BY <1>1 DEF RunRecord
    <2>2. r.at + 1 \in Nat
      BY DEF RunRecord
    <2>3. q = [r EXCEPT !.child = child, !.at = r.at + 1]
      BY DEF RunRecord
    <2> HIDE DEF child, q
    <2>4. q \in RunRecord /\ q.done = r.done /\ q.child = child
      BY <2>1, <2>2, <2>3 DEF RunRecord
    <2> QED
      BY <2>1, <2>4
  <1>3. r.at \notin r.done /\ r.done \subseteq Steps
    BY DEF Placed, Backed, RunRecord
  <1>4. Backed(q)'
    BY <1>1, <1>2, <1>3 DEF Backed
  <1>5. Accept(r, c) = AtSubmit(q)
    BY DEF Accept
  <1> HIDE DEF q
  <1>6. AtSubmit(q) \in RunRecord /\ SameKnowledge(AtSubmit(q), q) /\ Placed(AtSubmit(q))
    BY <1>2, AtSubmitPlaced
  <1>7. PICK p \in RunRecord : p = AtSubmit(q)
    BY <1>6
  <1>8. Backed(p)'
    BY <1>4, <1>6, <1>7 DEF Backed, SameKnowledge
  <1> QED
    BY <1>5, <1>6, <1>7, <1>8

\* The answer to an enqueue request: its sender, if it still waits for it,
\* moves to q.
LEMMA AnswerSound ==
  ASSUME WorkflowInv, ChildrenMoveOn, NEW req \in net, NEW q, Answer(req, q),
         ASSUME run[req.worker].stage = "enqueue", run[req.worker].at = req.step
         PROVE  q \in RunRecord /\ Backed(q)' /\ Placed(q)
  PROVE  RunsSound'
  <1>1. req.worker \in Workers
    BY DEF WorkflowInv, RequestsSound, RequestSound
  <1>2. CASE UNCHANGED run
    BY <1>2, RunsStaySound
  <1>3. CASE /\ run[req.worker].stage = "enqueue"
             /\ run[req.worker].at = req.step
             /\ run' = [run EXCEPT ![req.worker] = q]
    BY <1>1, <1>3, RunsStaySound
  <1> QED
    BY <1>2, <1>3 DEF Answer

\* A replayed request finds the child of its step.
LEMMA EnqueueKnownSound ==
  ASSUME WorkflowInv, NEW req \in net, EnqueueKnown(req)
  PROVE  WorkflowInv'
  <1>1. /\ UNCHANGED <<kids, result, epoch>> /\ net' \subseteq net
    BY DEF EnqueueKnown, task
  <1>2. ChildrenSound /\ ChildrenMoveOn /\ ChildrenSound' /\ OneChildPerStep'
    BY <1>1, KidsUnchanged DEF WorkflowInv
  <1>3. req.worker \in Workers
    BY DEF WorkflowInv, RequestsSound, RequestSound
  <1>4. PICK r \in RunRecord : r = run[req.worker] /\ Backed(r) /\ Placed(r)
    BY <1>3 DEF WorkflowInv, RunsSound
  <1>5. Backed(r)'
    BY <1>2, <1>4, BackedStays
  <1>6. PICK c \in ChildOf(req.step) :
            Answer(req, Accept(r, c)) \/ Answer(req, Threw(r))
    BY <1>4 DEF EnqueueKnown
  <1>7. c \in Nat /\ Known(req.step, c)'
    <2>1. UNCHANGED <<children, lastChild, forgotten>>
      BY <1>1 DEF kids
    <2> QED
      BY <1>2, <2>1 DEF ChildrenSound, ChildOf, Known
  <1>8. RunsSound'
    <2>1. CASE Answer(req, Accept(r, c))
      <3>1. ASSUME run[req.worker].stage = "enqueue", run[req.worker].at = req.step
            PROVE  /\ Accept(r, c) \in RunRecord
                   /\ Backed(Accept(r, c))'
                   /\ Placed(Accept(r, c))
        BY <1>4, <1>5, <1>7, <3>1, AcceptSound
      <3>2. PICK q : q = Accept(r, c)
        OBVIOUS
      <3> QED
        BY <1>2, <2>1, <3>1, <3>2, AnswerSound
    <2>2. CASE Answer(req, Threw(r))
      <3>1. PICK q \in RunRecord : q = Threw(r) /\ SameKnowledge(q, r) /\ Placed(q)
        BY ThrewPlaced
      <3>2. Backed(q)'
        BY <1>5, <3>1 DEF Backed, SameKnowledge
      <3> QED
        BY <1>2, <2>2, <3>1, <3>2, AnswerSound
    <2> QED
      BY <1>6, <2>1, <2>2
  <1>9. RequestsSound' /\ ResultSound'
    BY <1>1, <1>2, CarriesOver DEF RequestsSound
  <1> QED
    BY <1>1, <1>2, <1>8, <1>9 DEF WorkflowInv

\* A created child is the only one of its step and stands on its payload.
LEMMA EnqueueCreatedSound ==
  ASSUME WorkflowInv, NEW req \in net, EnqueueCreated(req)
  PROVE  WorkflowInv'
  <1>1. PICK n \in Nat : n = lastChild + 1
    BY DEF WorkflowInv, ChildrenSound
  <1> DEFINE new == [step |-> req.step, input |-> req.input,
                     status |-> "active", projection |-> NoValue]
  <1>2. /\ ChildOf(req.step) = {}
        /\ lastChild' = n
        /\ children' = [c \in DOMAIN children \cup {n} |-> IF c = n THEN new ELSE children[c]]
        /\ net' \subseteq net
        /\ Answer(req, Accept(run[req.worker], n))
        /\ UNCHANGED <<result, epoch, forgotten>>
    BY <1>1 DEF EnqueueCreated, task
  <1>3. /\ req.worker \in Workers /\ req.step \in Steps /\ Fed(req.step, req.input)
        /\ ChildrenSound /\ OneChildPerStep
    BY DEF WorkflowInv, RequestsSound, RequestSound, EnqueueCreated
  <1>4. n \notin DOMAIN children /\ n > lastChild /\ lastChild \in Nat
    BY <1>1, <1>3 DEF ChildrenSound
  <1>5. /\ DOMAIN children' = DOMAIN children \cup {n}
        /\ children'[n] = new
        /\ \A c \in DOMAIN children : children'[c] = children[c]
    BY <1>2, <1>4
  <1>6. ChildrenMoveOn
    BY <1>2, <1>4, <1>5 DEF ChildrenMoveOn
  <1>7. ChildrenSound'
    <2>1. new \in ChildRecord /\ new.status = "active" /\ new.projection = NoValue
      BY <1>3 DEF ChildRecord, Payloads, Fed
    <2>2. Fed(req.step, req.input)'
      BY <1>3, <1>6, FedStays
    <2>3. ASSUME NEW c \in DOMAIN children
          PROVE  Fed(children[c].step, children[c].input)'
      <3>1. PICK step, input : /\ step \in Steps /\ Fed(step, input)
                               /\ step = children[c].step /\ input = children[c].input
        BY <1>3 DEF ChildrenSound, ChildRecord
      <3>2. Fed(step, input)'
        BY <1>3, <1>6, <3>1, FedStays
      <3>3. children'[c].step = step /\ children'[c].input = input
        BY <1>5, <3>1
      <3> QED
        BY <3>2, <3>3
    <2>4. Fed(children[n].step, children[n].input)'
      BY <1>5, <2>2
    <2>5. /\ lastChild' \in Nat /\ forgotten' \subseteq Steps
          /\ DOMAIN children' \subseteq 1..lastChild'
      BY <1>1, <1>2, <1>3, <1>4, <1>5 DEF ChildrenSound
    <2> HIDE DEF new
    <2>6. \A c \in DOMAIN children' :
              /\ children'[c] \in ChildRecord
              /\ children'[c].status = "active" => children'[c].projection = NoValue
      BY <1>3, <1>5, <2>1 DEF ChildrenSound
    <2> QED
      BY <1>5, <2>3, <2>4, <2>5, <2>6 DEF ChildrenSound
  <1>8. OneChildPerStep'
    BY <1>2, <1>3, <1>5 DEF OneChildPerStep, ChildOf
  <1>9. RunsSound'
    <2>1. PICK r \in RunRecord : r = run[req.worker] /\ Backed(r) /\ Placed(r)
      BY <1>3 DEF WorkflowInv, RunsSound
    <2>2. Backed(r)'
      BY <1>3, <1>6, <2>1, BackedStays
    <2>3. Known(req.step, n)'
      BY <1>1, <1>2, <1>4, <1>5 DEF Known
    <2>4. ASSUME run[req.worker].stage = "enqueue", run[req.worker].at = req.step
          PROVE  /\ Accept(r, n) \in RunRecord
                 /\ Backed(Accept(r, n))'
                 /\ Placed(Accept(r, n))
      BY <2>1, <2>2, <2>3, <2>4, AcceptSound
    <2>5. PICK q : q = Accept(r, n)
      OBVIOUS
    <2> QED
      BY <1>2, <1>6, <2>1, <2>4, <2>5, AnswerSound
  <1>10. RequestsSound' /\ ResultSound'
    BY <1>2, <1>6, CarriesOver DEF RequestsSound
  <1> QED
    BY <1>2, <1>7, <1>8, <1>9, <1>10 DEF WorkflowInv

\* A child ends once, and keeps its projection from then on.
LEMMA ChildEndsSound ==
  ASSUME WorkflowInv, NEW c \in DOMAIN children, NEW status \in Terminal,
         NEW value \in Values \cup {NoValue}, ChildEnds(c, status, value)
  PROVE  ChildrenMoveOn /\ ChildrenSound' /\ OneChildPerStep'
  <1>1. ChildrenSound /\ OneChildPerStep
    BY DEF WorkflowInv
  <1>2. /\ children[c].status = "active"
        /\ children' = [children EXCEPT ![c].status = status, ![c].projection = value]
        /\ UNCHANGED <<lastChild, forgotten>>
    BY DEF ChildEnds
  <1>3. PICK old \in ChildRecord : old = children[c]
    BY <1>1 DEF ChildrenSound
  <1>4. PICK new \in ChildRecord :
            /\ new = [old EXCEPT !.status = status, !.projection = value]
            /\ new.step = old.step /\ new.input = old.input /\ new.status = status
    <2> DEFINE new == [old EXCEPT !.status = status, !.projection = value]
    <2>1. status \in {"active"} \cup Terminal
      OBVIOUS
    <2>2. /\ new \in ChildRecord
          /\ new.step = old.step /\ new.input = old.input /\ new.status = status
      BY <2>1 DEF ChildRecord
    <2> QED
      BY <2>2
  <1>5. /\ DOMAIN children' = DOMAIN children
        /\ children'[c] = new
        /\ \A d \in DOMAIN children : d # c => children'[d] = children[d]
    BY <1>2, <1>3, <1>4
  <1>6. "active" \notin Terminal
    BY DEF Terminal
  <1>7. ChildrenMoveOn
    BY <1>1, <1>2, <1>3, <1>4, <1>5 DEF ChildrenMoveOn, ChildrenSound
  <1>8. ASSUME NEW d \in DOMAIN children
        PROVE  Fed(children[d].step, children[d].input)'
    <2>1. PICK step, input : /\ step \in Steps /\ Fed(step, input)
                             /\ step = children[d].step /\ input = children[d].input
      BY <1>1 DEF ChildrenSound, ChildRecord
    <2>2. Fed(step, input)'
      BY <1>1, <1>7, <2>1, FedStays
    <2>3. children'[d].step = step /\ children'[d].input = input
      BY <1>3, <1>4, <1>5, <2>1
    <2> QED
      BY <2>2, <2>3
  <1>9. \A d \in DOMAIN children :
            /\ children'[d] \in ChildRecord
            /\ children'[d].status = "active" => children'[d].projection = NoValue
    <2>1. children'[c] \in ChildRecord /\ children'[c].status # "active"
      BY <1>4, <1>5, <1>6
    <2>2. ASSUME NEW d \in DOMAIN children, d # c
          PROVE  /\ children'[d] \in ChildRecord
                 /\ children'[d].status = "active" => children'[d].projection = NoValue
      BY <1>1, <1>5, <2>2 DEF ChildrenSound
    <2> QED
      BY <2>1, <2>2
  <1>10. ChildrenSound'
    BY <1>1, <1>2, <1>5, <1>8, <1>9 DEF ChildrenSound
  <1>11. OneChildPerStep'
    <2>1. \A d \in DOMAIN children : children'[d].step = children[d].step
      BY <1>3, <1>4, <1>5
    <2> QED
      BY <1>1, <1>5, <2>1 DEF OneChildPerStep
  <1> QED
    BY <1>7, <1>10, <1>11

\* Retention deletes a finished child and remembers its step.
LEMMA ForgetChildSound ==
  ASSUME WorkflowInv, NEW c \in DOMAIN children, ForgetChild(c)
  PROVE  ChildrenMoveOn /\ ChildrenSound' /\ OneChildPerStep'
  <1>1. ChildrenSound /\ OneChildPerStep
    BY DEF WorkflowInv
  <1>2. /\ forgotten' = forgotten \cup {children[c].step}
        /\ DOMAIN children' = DOMAIN children \ {c}
        /\ \A d \in DOMAIN children' : children'[d] = children[d]
        /\ UNCHANGED lastChild
    BY DEF ForgetChild
  <1>3. ChildrenMoveOn
    BY <1>1, <1>2 DEF ChildrenMoveOn, ChildrenSound
  <1>4. ASSUME NEW d \in DOMAIN children'
        PROVE  Fed(children[d].step, children[d].input)'
    <2>1. PICK step, input : /\ step \in Steps /\ Fed(step, input)
                             /\ step = children[d].step /\ input = children[d].input
      BY <1>1, <1>2 DEF ChildrenSound, ChildRecord
    <2>2. Fed(step, input)'
      BY <1>1, <1>3, <2>1, FedStays
    <2>3. children'[d].step = step /\ children'[d].input = input
      BY <1>2, <2>1
    <2> QED
      BY <2>2, <2>3
  <1>5. children[c].step \in Steps
    BY <1>1 DEF ChildrenSound, ChildRecord
  <1>6. ChildrenSound'
    BY <1>1, <1>2, <1>4, <1>5 DEF ChildrenSound
  <1>7. OneChildPerStep'
    BY <1>1, <1>2 DEF OneChildPerStep
  <1> QED
    BY <1>3, <1>6, <1>7

\* A step that sends nothing and moves no execution keeps the invariant as
\* soon as the children move on soundly.
LEMMA BystanderSound ==
  ASSUME WorkflowInv, ChildrenMoveOn, ChildrenSound', OneChildPerStep',
         UNCHANGED <<run, net>>, epoch' \in Nat,
         result' = result \/ result' = NoResult
  PROVE  WorkflowInv'
  <1>1. RunsSound'
    BY RunsStaySound
  <1>2. RequestsSound'
    BY CarriesOver DEF RequestsSound
  <1>3. ResultSound'
    <2>1. CASE result' = result
      BY <2>1, CarriesOver
    <2>2. CASE result' = NoResult
      BY <2>2 DEF ResultSound
    <2> QED
      BY <2>1, <2>2
  <1> QED
    BY <1>1, <1>2, <1>3 DEF WorkflowInv

-----------------------------------------------------------------------------
\* A freshly submitted workflow has no children and no executions.
LEMMA InitSound == RunInit => WorkflowInv
  <1> SUFFICES ASSUME RunInit PROVE WorkflowInv
    OBVIOUS
  <1>1. NotRunning \in RunRecord /\ Backed(NotRunning) /\ Placed(NotRunning)
    BY FreshRun
  <1>2. RunsSound
    BY <1>1 DEF RunInit, RunsSound
  <1>3. /\ epoch \in Nat /\ ChildrenSound /\ OneChildPerStep /\ RequestsSound /\ ResultSound
    BY DEF RunInit, ChildrenSound, OneChildPerStep, RequestsSound, ResultSound
  <1> QED
    BY <1>2, <1>3 DEF WorkflowInv

\* Every step of a worker, of the network, of the queue and of the children
\* keeps the invariant.
LEMMA NextSound == WorkflowInv /\ [RunNext]_vars => WorkflowInv'
  <1> SUFFICES ASSUME WorkflowInv, [RunNext]_vars PROVE WorkflowInv'
    OBVIOUS
  <1>1. CASE \E w \in Workers : WorkerStep(w)
    BY <1>1, WorkerStepSound
  <1>2. CASE \E req \in net : RequestStep(req)
    BY <1>2, RequestTaken, EnqueueKnownSound, EnqueueCreatedSound DEF RequestStep
  <1>3. CASE QueueStep
    <2>1. /\ UNCHANGED <<kids, run, net>>
          /\ epoch' \in Nat
          /\ result' = result \/ result' = NoResult
      BY <1>3 DEF WorkflowInv, QueueStep, Recover, CancelWorkflow, ForgetWorkflow
    <2> QED
      BY <2>1, KidsUnchanged, BystanderSound
  <1>4. CASE ChildStep
    <2>1. UNCHANGED <<task, run, net>>
      BY <1>4 DEF ChildStep, ChildEnds, ForgetChild
    <2>2. epoch' \in Nat /\ result' = result
      BY <2>1 DEF WorkflowInv, task
    <2>3. ChildrenMoveOn /\ ChildrenSound' /\ OneChildPerStep'
      BY <1>4, ChildEndsSound, ForgetChildSound DEF ChildStep
    <2> QED
      BY <2>1, <2>2, <2>3, BystanderSound
  <1>5. CASE UNCHANGED vars
    <2>1. UNCHANGED <<kids, run, net, result, epoch>>
      BY <1>5 DEF vars, task
    <2>2. epoch' \in Nat
      BY <2>1 DEF WorkflowInv
    <2> QED
      BY <2>1, <2>2, KidsUnchanged, BystanderSound
  <1> QED
    BY <1>1, <1>2, <1>3, <1>4, <1>5 DEF RunNext

\* Everything an execution, a request or a result says stays true, for any
\* step graph, any number of workers and any loss, delay or repetition.
THEOREM WorkflowSafety == RunSpec => []WorkflowInv
  BY InitSound, NextSound, PTL DEF RunSpec

\* A step has one child task, however many executions submit it.
THEOREM OneChild == RunSpec => []OneChildPerStep
  <1>1. WorkflowInv => OneChildPerStep
    BY DEF WorkflowInv
  <1> QED
    BY <1>1, WorkflowSafety, PTL

\* A child was submitted after its dependencies were durably completed, with
\* the projections they durably have.
THEOREM DurableInputs == RunSpec => []InputsDurable
  <1>1. WorkflowInv => InputsDurable
    <2> SUFFICES ASSUME WorkflowInv, NEW c \in DOMAIN children, NEW s \in Steps
                 PROVE  InputsDurable!(c, s)
      BY DEF InputsDurable
    <2>1. Fed(children[c].step, children[c].input)
      BY DEF WorkflowInv, ChildrenSound
    <2> QED
      BY <2>1 DEF Fed
  <1> QED
    BY <1>1, WorkflowSafety, PTL

\* All executions compute the same payload for a step, as long as retention
\* has deleted no child.
THEOREM AgreeingReplays == RunSpec => []ReplayAgrees
  <1>1. WorkflowInv => ReplayAgrees
    <2> SUFFICES ASSUME WorkflowInv, forgotten = {},
                        NEW req \in net, NEW c \in DOMAIN children,
                        req.kind = "enqueue", children[c].step = req.step
                 PROVE  children[c].input = req.input
      BY DEF ReplayAgrees
    <2>1. Fed(req.step, req.input) /\ Fed(req.step, children[c].input)
      BY DEF WorkflowInv, RequestsSound, RequestSound, ChildrenSound
    <2>2. ASSUME NEW s \in Refs[req.step] PROVE children[c].input[s] = req.input[s]
      <3>1. PICK d \in ChildOf(s) : children[d].projection = req.input[s]
        BY <2>1 DEF Fed
      <3>2. PICK e \in ChildOf(s) : children[e].projection = children[c].input[s]
        BY <2>1 DEF Fed
      <3>3. d = e
        BY DEF WorkflowInv, OneChildPerStep, ChildOf
      <3> QED
        BY <3>1, <3>2, <3>3
    <2> QED
      BY <2>1, <2>2 DEF Fed
  <1> QED
    BY <1>1, WorkflowSafety, PTL

\* What a client reads of a completed workflow names tasks that completed.
THEOREM TrueResult == RunSpec => []ResultTrue
  <1>1. WorkflowInv => ResultTrue
    BY DEF WorkflowInv, ResultSound, ResultTrue, PublicResult, Settled
  <1> QED
    BY <1>1, WorkflowSafety, PTL

\* An execution that lost its lease sends nothing more.
THEOREM LostRunsStop == RunSpec => LostRunStops
  <1>1. WorkflowInv /\ [RunNext]_vars =>
          [\A w \in Workers : run[w].lost => {r \in net' : r.worker = w} \subseteq net]_vars
    <2> SUFFICES ASSUME WorkflowInv, RunNext, NEW w \in Workers, run[w].lost
                 PROVE  {r \in net' : r.worker = w} \subseteq net
      BY DEF vars
    <2>1. ASSUME NEW v \in Workers, Submit(v) \/ Report(v)
          PROVE  {r \in net' : r.worker = w} \subseteq net
      BY <2>1 DEF Submit, Report
    <2>2. CASE \E v \in Workers : WorkerStep(v)
      BY <2>1, <2>2 DEF WorkerStep, Executes, Poll, Return, NextPass, TimeIsUp, Throws,
                        Claim, LoseLease, Crash
    <2>3. CASE \E req \in net : RequestStep(req)
      BY <2>3 DEF RequestStep, EnqueueCreated, EnqueueKnown, Complete, Fail, Drop
    <2>4. CASE QueueStep \/ ChildStep
      BY <2>4 DEF QueueStep, Recover, CancelWorkflow, ForgetWorkflow,
                  ChildStep, ChildEnds, ForgetChild
    <2> QED
      BY <2>2, <2>3, <2>4 DEF RunNext
  <1> QED
    BY <1>1, WorkflowSafety, PTL DEF RunSpec, LostRunStops

\* The workflow task moves as the queue's life cycle allows.
THEOREM WithinContract == RunSpec => QueueContract
  <1>1. [RunNext]_vars => [L!Next]_(L!lifecycle)
    <2> SUFFICES ASSUME [RunNext]_vars PROVE L!Next \/ UNCHANGED L!lifecycle
      OBVIOUS
    <2>1. ASSUME UNCHANGED task PROVE UNCHANGED L!lifecycle
      BY <2>1 DEF task, L!lifecycle
    <2>2. ASSUME NEW w \in Workers, Claim(w) PROVE L!Next
      <3>1. L!Lend(1, w)
        BY <2>2 DEF Claim, L!Lend
      <3> QED
        BY <3>1 DEF L!Next
    <2>3. ASSUME NEW w \in Workers, Executes(w) \/ LoseLease(w) \/ Crash(w)
          PROVE  UNCHANGED task
      BY <2>3 DEF Executes, Poll, Submit, Return, NextPass, TimeIsUp, Throws, Report,
                  LoseLease, Crash
    <2>4. ASSUME NEW req, Complete(req) PROVE L!Next
      <3>1. L!Finish(1, "COMPLETED")
        BY <2>4 DEF Complete, HoldsLease, L!Finish
      <3> QED
        BY <3>1 DEF L!Next
    <2>5. ASSUME NEW req, Fail(req) PROVE L!Next
      <3>1. CASE failures' >= MaxRetries
        <4>1. L!Finish(1, "FAILED")
          BY <2>5, <3>1 DEF Fail, HoldsLease, L!Finish
        <4> QED
          BY <4>1 DEF L!Next
      <3>2. CASE ~ (failures' >= MaxRetries)
        <4>1. L!TakeBack({1})
          BY <2>5, <3>2 DEF Fail, HoldsLease, L!TakeBack
        <4> QED
          BY <4>1 DEF L!Next
      <3> QED
        BY <3>1, <3>2
    <2>6. ASSUME NEW req, EnqueueCreated(req) \/ EnqueueKnown(req) \/ Drop(req)
          PROVE  UNCHANGED task
      BY <2>6 DEF EnqueueCreated, EnqueueKnown, Drop
    <2>7. ASSUME Recover PROVE L!Next
      <3>1. L!TakeBack({1})
        BY <2>7 DEF Recover, L!TakeBack
      <3> QED
        BY <3>1 DEF L!Next
    <2>8. ASSUME CancelWorkflow PROVE L!Next
      <3>1. L!Cancel(1)
        BY <2>8 DEF CancelWorkflow, L!Cancel
      <3> QED
        BY <3>1 DEF L!Next
    <2>9. ASSUME ForgetWorkflow PROVE L!Next
      <3>1. L!Forget({1})
        BY <2>9 DEF ForgetWorkflow, L!Forget
      <3> QED
        BY <3>1 DEF L!Next
    <2>10. ASSUME ChildStep \/ UNCHANGED vars PROVE UNCHANGED task
      BY <2>10 DEF ChildStep, ChildEnds, ForgetChild, vars
    <2> QED
      BY <2>1, <2>2, <2>3, <2>4, <2>5, <2>6, <2>7, <2>8, <2>9, <2>10
      DEF RunNext, WorkerStep, RequestStep, QueueStep
  <1> QED
    BY <1>1, PTL DEF RunSpec, QueueContract
=============================================================================
