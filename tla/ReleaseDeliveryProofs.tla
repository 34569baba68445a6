----------------------- MODULE ReleaseDeliveryProofs -----------------------
(***************************************************************************)
(* Proofs about ReleaseDelivery and the DeploymentCheck inside it, for any *)
(* number of workflow runs, operators, versions, commits, tag moves and    *)
(* bootstraps: what is live is what was meant, deliveries only go forward, *)
(* and the verdict of the check is the truth about its run.                *)
(***************************************************************************)
EXTENDS ReleaseDelivery, FiniteSetTheorems, SequenceTheorems, TLAPS

Resting == {"idle", "done"}

(* The stretches of the deploy job after its gate, after the migration,    *)
(* after the rollout of the execution services and of the API.             *)
Gated == Deploying \ {"reject", "gate"}
Migrated == Gated \ {"migrate", "migrating"}
RolledOut == {"verify", "apply", "verification", "checking"}
Complete == {"verification", "checking"}

WorkType ==
    [pc : Preparing \cup Deploying \cup {"idle", "waiting", "done"},
     v : 0..MaxVersion, n : 0..MaxAttempts, commit : Commits \cup {NULL},
     images : [Roles -> Images] \cup Seq(Images), source : Commits \cup {NULL}]

JobType == [v : 0..MaxVersion, state : {"none", "running", "complete", "failed"}]

UsedType == [attempts : 0..MaxAttempts, moves : Nat, boots : Nat]

BootType ==
    [pc : {"idle", "read", "annotate", "release"}, v : 0..MaxVersion,
     repair : BOOLEAN, seen : Seq(Deployment), role : Execution]

Types ==
    /\ tag \in [Versions -> Commits]
    /\ registry \in [Roles -> [Versions -> Images \cup {NULL}]]
    /\ record \in [Versions -> Release \cup {NULL}]
    /\ live \in [Roles -> Deployment]
    /\ helm \in {"deployed", "failed", "pending-upgrade"}
    /\ schema \in Versions
    /\ jobs \in [1..MaxAttempts -> JobType]
    /\ work \in [Slots -> WorkType]
    /\ boot \in [Operators -> BootType]
    /\ used \in UsedType

(* A release is what its record says it is.                                *)
RecordTrue(v) ==
    record[v] # NULL => \A r \in Roles : /\ record[v].images[r].version = v
                                         /\ record[v].images[r].commit = record[v].commit

(* What a prepare job knows: its tag is still free where it has not pushed *)
(* yet, and what it is about to save is what it pushed.                    *)
PrepareTrue(s) ==
    /\ work[s].pc \notin Resting => /\ work[s].v \in Versions /\ work[s].source \in Commits
                                    /\ work[s].n \in 1..used.attempts
    /\ work[s].pc \in {"preflight", "publish", "discover"} => work[s].images = <<>>
    /\ work[s].pc = "push" =>
         /\ work[s].images \in Seq(Images) /\ Len(work[s].images) < 3
         /\ \A i \in 1..3 : i > Len(work[s].images) => registry[RoleOrder[i]][work[s].v] = NULL
    /\ work[s].pc = "save" =>
         /\ work[s].images \in [Roles -> Images] /\ work[s].commit \in Commits
         /\ \A r \in Roles : /\ work[s].images[r].version = work[s].v
                             /\ work[s].images[r].commit = work[s].commit

(* What a deploy job knows: its release is the recorded one, built from    *)
(* the commit it checked out.                                              *)
ReleaseTrue(s) ==
    /\ work[s].pc \in {"validate", "waiting"} \cup Deploying =>
         /\ record[work[s].v] # NULL
         /\ work[s].images = record[work[s].v].images
         /\ work[s].commit = record[work[s].v].commit
    /\ work[s].pc \in {"waiting"} \cup Deploying => work[s].commit = work[s].source

(* Nothing in the cluster is ahead of a release that has passed the gate,  *)
(* its migrations are there once its Job is complete, and what it rolled   *)
(* out stays.                                                              *)
ClusterTrue(s) ==
    /\ work[s].pc \in Gated =>
         \A r \in Roles : live[r].version # 0 /\ live[r].version <= work[s].v
    /\ work[s].pc = "migrating" => jobs[work[s].n].v = work[s].v
    /\ work[s].pc \in Migrated => work[s].v <= schema
    /\ work[s].pc \in RolledOut =>
         \A r \in Execution : live[r].image = work[s].images[r] /\ live[r].version = work[s].v
    /\ work[s].pc \in Complete =>
         live["api"].image = work[s].images["api"] /\ live["api"].version = work[s].v

(* The concurrency groups, and the numbers of workflow runs.               *)
Exclusive(s, t) ==
    /\ ~(work[s].pc \in Preparing /\ work[t].pc \in Preparing /\ work[s].v = work[t].v)
    /\ ~(work[s].pc \in Deploying /\ work[t].pc \in Deploying)
    /\ work[s].pc \notin Resting /\ work[t].pc \notin Resting => work[s].n # work[t].n

JobTrue(n) == jobs[n].state = "complete" => jobs[n].v <= schema

OneMigration ==
    \A m, n \in DOMAIN jobs : jobs[m].state = "running" /\ jobs[n].state = "running" => m = n

(* A bootstrap labels only what it has compared with a record.             *)
BootTrue(o) ==
    /\ boot[o].pc # "idle" => boot[o].v \in Versions /\ record[boot[o].v] # NULL
    /\ boot[o].pc = "read" => Len(boot[o].seen) < 3
    /\ boot[o].pc \in {"annotate", "release"} => Len(boot[o].seen) = 3
    /\ boot[o].pc # "idle" =>
         \A i \in 1..Len(boot[o].seen) : planned_annotations(o, RoleOrder[i], boot[o].seen[i])

ReleaseInv ==
    /\ Types
    /\ \A v \in Versions : RecordTrue(v)
    /\ \A s \in Slots : PrepareTrue(s) /\ ReleaseTrue(s) /\ ClusterTrue(s)
    /\ \A s, t \in Slots : s # t => Exclusive(s, t)
    /\ \A n \in DOMAIN jobs : JobTrue(n)
    /\ OneMigration
    /\ \A o \in Operators : BootTrue(o)
    /\ LabelsTrue /\ SchemaFirst

-----------------------------------------------------------------------------
(* The check inside the cluster                                            *)

EventTypes == {"run.requested", "run.succeeded", "run.failed"}

(* The phase tells which events there are.                                 *)
EventsOf ==
    IF phase[Diagnostic] = "none" THEN {}
    ELSE {"run.requested"} \cup
         (IF phase[Diagnostic] = "succeeded" THEN {"run.succeeded"} ELSE {}) \cup
         (IF phase[Diagnostic] = "failed" THEN {"run.failed"} ELSE {})

(* What show has read is true of a run that is over.                       *)
CheckInv ==
    /\ phase \in [{Diagnostic} -> Lifecycle!Phases]
    /\ events \in [{Diagnostic} -> Seq(EventTypes)]
    /\ ToSet(events[Diagnostic]) = EventsOf
    /\ marked \subseteq EventsOf
    /\ check \in [pc : {"off", "submit", "run", "show", "passed", "failed", "defect", "timeout"},
                  read : 0..2,
                  seen : [status : Lifecycle!Phases, artifacts : 0..1,
                          published : SUBSET EventTypes]]
    /\ check.pc # "show" => check.read = 0
    /\ check.read > 0 /\ check.seen.status \in {"succeeded", "failed"} =>
         phase[Diagnostic] = check.seen.status
    /\ check.read > 1 /\ check.seen.status = "succeeded" => check.seen.artifacts = 1
    /\ VerdictTrue

RunPhases == {"none", "queued", "accepted", "running", "succeeded", "failed"}

(* The phases of the lifecycle, spelled out.                               *)
LEMMA PhasesAre == Lifecycle!Phases = RunPhases
BY DEF Lifecycle!Phases, RunPhases

(* Before the submission there are no events.                              *)
LEMMA NoEvents == ToSet(<<>>) = {} /\ <<>> \in Seq(EventTypes)
BY DEF ToSet

(* The submission stores one event.                                        *)
LEMMA OneEvent ==
    ASSUME NEW e \in EventTypes
    PROVE  ToSet(<<e>>) = {e} /\ <<e>> \in Seq(EventTypes)
BY DEF ToSet

(* Storing an event adds it to the events there are.                       *)
LEMMA AppendEvent ==
    ASSUME NEW q \in Seq(EventTypes), NEW e \in EventTypes
    PROVE  /\ Append(q, e) \in Seq(EventTypes)
           /\ ToSet(Append(q, e)) = ToSet(q) \cup {e}
<1>1. /\ Append(q, e) \in Seq(EventTypes) /\ Len(Append(q, e)) = Len(q) + 1
      /\ \A i \in 1..Len(q) : Append(q, e)[i] = q[i]
      /\ Append(q, e)[Len(q) + 1] = e
  BY AppendProperties
<1> QED
  BY <1>1 DEF ToSet

(* The statements of show, in their order.                                 *)
LEMMA ShowOrderIs ==
    /\ Len(ShowOrder) = 3
    /\ ShowOrder[1] = "status" /\ ShowOrder[2] = "artifacts" /\ ShowOrder[3] = "published"
BY DEF ShowOrder

CheckType ==
    [pc : {"off", "submit", "run", "show", "passed", "failed", "defect", "timeout"},
     read : 0..2,
     seen : [status : RunPhases, artifacts : 0..1,
             published : SUBSET EventTypes]]

(* The script is not in the middle of show.                                *)
LEMMA ScriptType ==
    ASSUME NEW pc \in {"off", "submit", "run", "passed", "failed", "defect", "timeout"}
    PROVE  /\ Script(pc) \in CheckType
           /\ Script(pc).pc = pc /\ Script(pc).read = 0
BY DEF Script, Unread, CheckType, RunPhases

(* A script that was not started has nothing to be wrong about.            *)
LEMMA InitCheckInv == CheckInit => CheckInv
<1> SUFFICES ASSUME CheckInit PROVE CheckInv
  OBVIOUS
<1>1. /\ phase = [d \in {Diagnostic} |-> "none"] /\ events = [d \in {Diagnostic} |-> <<>>]
      /\ marked = {} /\ check = Script("off")
  BY DEF CheckInit, Lifecycle!LifecycleInit
<1>2. phase[Diagnostic] = "none" /\ phase \in [{Diagnostic} -> RunPhases]
  BY <1>1 DEF RunPhases
<1>3. EventsOf = {} /\ events \in [{Diagnostic} -> Seq(EventTypes)] /\ ToSet(events[Diagnostic]) = {}
  BY <1>1, <1>2, NoEvents DEF EventsOf
<1>4. check \in CheckType /\ check.pc = "off" /\ check.read = 0
  BY <1>1, ScriptType
<1> QED
  BY <1>1, <1>2, <1>3, <1>4, PhasesAre DEF CheckInv, CheckType, VerdictTrue

(* Starting the script keeps its invariant.                                *)
LEMMA StartCheckInv == ASSUME CheckInv, StartCheck PROVE CheckInv'
<1>1. check' \in CheckType /\ check'.pc = "submit" /\ check'.read = 0
  BY ScriptType DEF StartCheck
<1> QED
  BY <1>1, PhasesAre DEF StartCheck, CheckInv, CheckType, VerdictTrue, EventsOf

(* So does forgetting a script that has ended.                             *)
LEMMA ForgetCheckInv == ASSUME CheckInv, ForgetCheck PROVE CheckInv'
<1>1. /\ phase' \in [{Diagnostic} -> RunPhases] /\ phase'[Diagnostic] = "none"
      /\ events' = [events EXCEPT ![Diagnostic] = <<>>] /\ marked' = {}
  BY PhasesAre DEF ForgetCheck, CheckInv, RunPhases
<1>2. EventsOf' = {} /\ events' \in [{Diagnostic} -> Seq(EventTypes)] /\ ToSet(events'[Diagnostic]) = {}
  BY <1>1, NoEvents DEF EventsOf, CheckInv
<1>3. check' \in CheckType /\ check'.pc = "off" /\ check'.read = 0
  BY ScriptType DEF ForgetCheck
<1> QED
  BY <1>1, <1>2, <1>3, PhasesAre DEF CheckInv, CheckType, VerdictTrue

(* And the submission of the diagnostic run.                               *)
LEMMA SubmitInv == ASSUME CheckInv, register_and_submit PROVE CheckInv'
<1>1. /\ phase[Diagnostic] = "none"
      /\ phase' = [phase EXCEPT ![Diagnostic] = "queued"]
      /\ events' = [events EXCEPT ![Diagnostic] = <<"run.requested">>]
      /\ marked' = marked
  BY DEF register_and_submit, Lifecycle!Submit
<1>2. /\ phase' \in [{Diagnostic} -> RunPhases] /\ phase'[Diagnostic] = "queued"
  BY <1>1, PhasesAre DEF CheckInv, RunPhases
<1>3. /\ EventsOf' = {"run.requested"} /\ marked = {}
      /\ events' \in [{Diagnostic} -> Seq(EventTypes)]
      /\ ToSet(events'[Diagnostic]) = {"run.requested"}
  <2>1. "run.requested" \in EventTypes
    BY DEF EventTypes
  <2>2. EventsOf' = {"run.requested"} /\ marked = {}
    BY <1>1, <1>2 DEF CheckInv, EventsOf
  <2> QED
    BY <1>1, <2>1, <2>2, OneEvent DEF CheckInv
<1>4. check' \in CheckType /\ check'.pc = "run" /\ check'.read = 0
  BY ScriptType DEF register_and_submit
<1> QED
  BY <1>1, <1>2, <1>3, <1>4, PhasesAre DEF CheckInv, CheckType, VerdictTrue

(* The run's events follow its phase, and a run that has ended stays.      *)
RunMoves ==
    /\ phase' \in [{Diagnostic} -> RunPhases]
    /\ phase[Diagnostic] \notin {"succeeded", "failed"}
    /\ events' \in [{Diagnostic} -> Seq(EventTypes)]
    /\ ToSet(events'[Diagnostic]) = EventsOf'
    /\ EventsOf \subseteq EventsOf'

(* Acceptance and start move the run forward.                              *)
LEMMA AdvanceMoves ==
    ASSUME CheckInv, Lifecycle!Accept(Diagnostic) \/ Lifecycle!Start(Diagnostic)
    PROVE  RunMoves
<1>1. phase \in [{Diagnostic} -> RunPhases]
  BY PhasesAre DEF CheckInv
<1>2. /\ phase[Diagnostic] \in {"queued", "accepted"} /\ events' = events
      /\ phase' \in [{Diagnostic} -> RunPhases] /\ phase'[Diagnostic] \in {"accepted", "running"}
  BY <1>1 DEF Lifecycle!Accept, Lifecycle!Start, RunPhases
<1>3. EventsOf' = EventsOf
  BY <1>2 DEF EventsOf
<1> QED
  BY <1>1, <1>2, <1>3 DEF RunMoves, CheckInv

(* An outcome moves it forward and stores its event.                       *)
LEMMA ConcludeMoves ==
    ASSUME CheckInv, NEW outcome \in Lifecycle!Finished, Lifecycle!Conclude(Diagnostic, outcome)
    PROVE  RunMoves
<1> DEFINE e == Lifecycle!TerminalEvent(outcome)
<1>1. /\ phase \in [{Diagnostic} -> RunPhases]
      /\ events \in [{Diagnostic} -> Seq(EventTypes)]
      /\ ToSet(events[Diagnostic]) = EventsOf
  BY PhasesAre DEF CheckInv
<1>2. /\ phase[Diagnostic] \in {"queued", "running"}
      /\ phase' = [phase EXCEPT ![Diagnostic] = outcome]
      /\ events' = [events EXCEPT ![Diagnostic] = Append(events[Diagnostic], e)]
  BY DEF Lifecycle!Conclude
<1>3. \/ outcome = "succeeded" /\ e = "run.succeeded"
      \/ outcome = "failed" /\ e = "run.failed"
  BY DEF Lifecycle!Finished, Lifecycle!TerminalEvent
<1>4. e \in EventTypes
  BY <1>3 DEF EventTypes
<1> HIDE DEF e
<1>5. phase' \in [{Diagnostic} -> RunPhases] /\ phase'[Diagnostic] = outcome
  BY <1>1, <1>2, <1>3 DEF RunPhases
<1>6. EventsOf = {"run.requested"} /\ EventsOf' = {"run.requested", e}
  BY <1>2, <1>3, <1>5 DEF EventsOf
<1>7. /\ events' \in [{Diagnostic} -> Seq(EventTypes)]
      /\ ToSet(events'[Diagnostic]) = EventsOf \cup {e}
  BY <1>1, <1>2, <1>4, AppendEvent
<1> QED
  BY <1>2, <1>5, <1>6, <1>7 DEF RunMoves

(* A run that moves between two statements of show does not make what was  *)
(* read false.                                                             *)
LEMMA RunAdvancesInv == ASSUME CheckInv, RunAdvances PROVE CheckInv'
<1>1. RunMoves
  BY AdvanceMoves, ConcludeMoves DEF RunAdvances
<1>2. UNCHANGED <<marked, check>> /\ check.pc \in {"run", "show"}
  BY DEF RunAdvances, Looking
<1> QED
  BY <1>1, <1>2, PhasesAre DEF CheckInv, RunMoves, VerdictTrue

(* Nor does a publisher that marks an event in between.                    *)
LEMMA EventPublishedInv == ASSUME CheckInv, EventPublished PROVE CheckInv'
<1>1. /\ UNCHANGED <<phase, events, check>> /\ check.pc \in {"run", "show"}
      /\ \E e \in ToSet(events[Diagnostic]) \ marked : marked' = marked \cup {e}
  BY DEF EventPublished, Looking
<1>2. marked' \subseteq EventsOf /\ EventsOf' = EventsOf
  BY <1>1 DEF CheckInv, EventsOf
<1> QED
  BY <1>1, <1>2 DEF CheckInv, VerdictTrue

(* Giving up judges nothing.                                               *)
LEMMA TimeoutInv == ASSUME CheckInv, wait_for_run_ends PROVE CheckInv'
<1>1. check' \in CheckType /\ check'.pc = "timeout" /\ check'.read = 0
  BY ScriptType DEF wait_for_run_ends
<1>2. EventsOf' = EventsOf
  BY DEF wait_for_run_ends, EventsOf
<1> QED
  BY <1>1, <1>2, PhasesAre DEF wait_for_run_ends, CheckInv, CheckType, VerdictTrue

(* What verify_result answers, case by case.                               *)
LEMMA VerdictCases ==
    ASSUME NEW seen
    PROVE  /\ seen.status = "failed" => verify_result(seen) = "failed"
           /\ seen.status \notin {"failed", "succeeded"} => verify_result(seen) = "run"
           /\ seen.status = "succeeded" /\ seen.artifacts = 1 =>
                \/ /\ {"run.requested", "run.succeeded"} \subseteq seen.published
                   /\ verify_result(seen) = "passed"
                \/ verify_result(seen) = "run"
<1>1. ASSUME seen.status = "failed" PROVE verify_result(seen) = "failed"
  BY <1>1, "failed" # "succeeded", Zenon DEF verify_result
<1>2. ASSUME seen.status \notin {"failed", "succeeded"} PROVE verify_result(seen) = "run"
  BY <1>2, Zenon DEF verify_result
<1>3. ASSUME seen.status = "succeeded", seen.artifacts = 1
      PROVE  verify_result(seen) =
               IF {"run.requested", "run.succeeded"} \subseteq seen.published
               THEN "passed" ELSE "run"
  BY <1>3, "failed" # "succeeded", Zenon DEF verify_result
<1> QED
  BY <1>1, <1>2, <1>3

(* The verdict on an answer that is true of a run that is over.            *)
LEMMA VerdictOfAnswer ==
    ASSUME NEW seen \in [status : RunPhases, artifacts : 0..1,
               published : SUBSET EventTypes],
           seen.status = "succeeded" => seen.artifacts = 1
    PROVE  /\ verify_result(seen) \in {"failed", "run", "passed"}
           /\ verify_result(seen) = "failed" => seen.status = "failed"
           /\ verify_result(seen) = "passed" =>
                /\ seen.status = "succeeded"
                /\ {"run.requested", "run.succeeded"} \subseteq seen.published
<1>1. seen.status = "failed" => verify_result(seen) = "failed"
  BY VerdictCases
<1>2. seen.status \notin {"failed", "succeeded"} => verify_result(seen) = "run"
  BY VerdictCases
<1>3. seen.status = "succeeded" =>
        \/ /\ {"run.requested", "run.succeeded"} \subseteq seen.published
           /\ verify_result(seen) = "passed"
        \/ verify_result(seen) = "run"
  BY VerdictCases
<1> QED
  BY <1>1, <1>2, <1>3

(* Each statement of show reads what is committed, and the verdict on the  *)
(* three is true.                                                          *)
LEMMA ShowInv == ASSUME CheckInv, show PROVE CheckInv'
<1> DEFINE field == ShowOrder[check.read + 1]
           seen == [check.seen EXCEPT ![field] = Committed[field]]
<1>1. /\ UNCHANGED <<phase, events, marked>> /\ check.pc \in {"run", "show"}
      /\ check \in CheckType
      /\ check' = IF check.read + 1 < 3
                  THEN [pc |-> "show", read |-> check.read + 1, seen |-> seen]
                  ELSE Script(verify_result(seen))
  BY ShowOrderIs, PhasesAre DEF show, CheckInv, CheckType, Looking
<1>2. /\ phase[Diagnostic] \in RunPhases /\ EventsOf' = EventsOf
      /\ marked \subseteq EventsOf
  BY <1>1, PhasesAre DEF CheckInv, EventsOf
<1>3. marked \subseteq EventTypes
  BY <1>2 DEF EventsOf, EventTypes
<1>4. /\ Committed.status = phase[Diagnostic] /\ Committed.published = marked
      /\ Committed.artifacts \in 0..1
      /\ phase[Diagnostic] = "succeeded" => Committed.artifacts = 1
  BY DEF Committed
<1>5. /\ check.seen \in [status : RunPhases, artifacts : 0..1,
             published : SUBSET EventTypes]
      /\ check.read \in 0..2
  BY <1>1 DEF CheckType
<1>6. CASE check.read = 0
  <2>1. seen = [status |-> phase[Diagnostic], artifacts |-> check.seen.artifacts,
                published |-> check.seen.published]
    BY <1>5, <1>6, ShowOrderIs DEF Committed
  <2>2. check' = [pc |-> "show", read |-> 1, seen |-> seen]
    BY <1>1, <1>6
  <2> HIDE DEF seen
  <2>3. check' \in CheckType /\ check'.read = 1 /\ check'.pc = "show"
        /\ check'.seen.status = phase[Diagnostic]
    BY <1>2, <1>5, <2>1, <2>2 DEF CheckType
  <2> QED
    BY <1>1, <1>2, <2>3, PhasesAre DEF CheckInv, CheckType, VerdictTrue
<1>7. CASE check.read = 1
  <2>1. seen = [status |-> check.seen.status, artifacts |-> Committed.artifacts,
                published |-> check.seen.published]
    BY <1>5, <1>7, ShowOrderIs DEF Committed
  <2>2. check' = [pc |-> "show", read |-> 2, seen |-> seen]
    BY <1>1, <1>7
  <2> HIDE DEF seen
  <2>3. check' \in CheckType /\ check'.read = 2 /\ check'.pc = "show"
        /\ check'.seen.status = check.seen.status
        /\ check'.seen.artifacts = Committed.artifacts
    BY <1>4, <1>5, <2>1, <2>2 DEF CheckType
  <2>4. check.seen.status \in {"succeeded", "failed"} => phase[Diagnostic] = check.seen.status
    BY <1>7 DEF CheckInv
  <2> QED
    BY <1>1, <1>2, <1>4, <2>3, <2>4, PhasesAre DEF CheckInv, CheckType, VerdictTrue
<1>8. CASE check.read = 2
  <2>1. seen = [status |-> check.seen.status, artifacts |-> check.seen.artifacts,
                published |-> marked]
    BY <1>5, <1>8, ShowOrderIs DEF Committed
  <2>2. check' = Script(verify_result(seen))
    BY <1>1, <1>8
  <2> HIDE DEF seen
  <2>3. /\ check.seen.status \in {"succeeded", "failed"} => phase[Diagnostic] = check.seen.status
        /\ check.seen.status = "succeeded" => check.seen.artifacts = 1
    BY <1>8 DEF CheckInv
  <2>4. /\ seen \in [status : RunPhases, artifacts : 0..1,
               published : SUBSET EventTypes]
        /\ seen.status = check.seen.status /\ seen.published = marked
        /\ seen.status = "succeeded" => seen.artifacts = 1
    BY <1>3, <1>5, <2>1, <2>3
  <2>5. check' \in CheckType /\ check'.read = 0 /\ check'.pc = verify_result(seen)
    BY <2>2, <2>4, VerdictOfAnswer, ScriptType
  <2>6. verify_result(seen) \in {"failed", "run", "passed"}
        /\ (verify_result(seen) = "failed" => phase[Diagnostic] = "failed")
    BY <2>3, <2>4, VerdictOfAnswer
  <2>7. verify_result(seen) = "passed" =>
          phase[Diagnostic] = "succeeded" /\ marked = {"run.requested", "run.succeeded"}
    BY <1>2, <2>3, <2>4, VerdictOfAnswer DEF EventsOf
  <2> QED
    BY <1>1, <1>2, <2>5, <2>6, <2>7, PhasesAre DEF CheckInv, CheckType, VerdictTrue
<1> QED
  BY <1>5, <1>6, <1>7, <1>8

(* Every step of the script and of its run keeps the invariant.            *)
LEMMA CheckStepInv ==
    ASSUME CheckInv, CheckNext \/ StartCheck \/ ForgetCheck \/ UNCHANGED checkVars
    PROVE  CheckInv'
<1>1. CASE UNCHANGED checkVars
  BY <1>1 DEF checkVars, CheckInv, VerdictTrue, EventsOf
<1> QED
  BY <1>1, StartCheckInv, ForgetCheckInv, SubmitInv, RunAdvancesInv, EventPublishedInv,
     ShowInv, TimeoutInv DEF CheckNext

-----------------------------------------------------------------------------
(* What a step leaves alone                                                *)

(* The services, in the order in which they are rolled out.                *)
LEMMA RolesAre ==
    /\ Roles = {"api", "publisher", "worker"} /\ Len(RoleOrder) = 3
    /\ RoleOrder[1] = "api" /\ RoleOrder[2] = "publisher" /\ RoleOrder[3] = "worker"
    /\ Execution = {"publisher", "worker"}
    /\ \A r \in Roles : \E i \in 1..3 : r = RoleOrder[i]
BY DEF Roles, RoleOrder, Execution, ToSet

(* The versions, attempts and commits that the constants allow.            *)
LEMMA Bounds ==
    /\ MaxVersion \in Nat /\ MaxAttempts \in Nat /\ 1 \in Versions
    /\ \A v \in Versions : v \in 0..MaxVersion /\ v # 0
    /\ FirstCommit \in Commits
BY ReleaseAssumption DEF Versions, FirstCommit

(* A release record is not the absence of one.                             *)
LEMMA RecordsAreNotNull == \A rec \in Release : rec # NULL
BY ReleaseAssumption

(* Steps that take nothing away from what a workflow run or a bootstrap    *)
(* knows.                                                                  *)
RecordsKept == \A v \in Versions : record[v] # NULL => record'[v] = record[v]
AttemptsGrow == used.attempts \in Nat /\ used'.attempts \in Nat /\ used'.attempts >= used.attempts
SchemaGrows == schema \in Nat /\ schema' \in Nat /\ schema' >= schema

(* What a prepare job relies on survives steps that leave it and the       *)
(* registry alone.                                                         *)
LEMMA PrepareKept ==
    ASSUME NEW s, PrepareTrue(s), work'[s] = work[s], AttemptsGrow, UNCHANGED registry
    PROVE  PrepareTrue(s)'
BY DEF PrepareTrue, AttemptsGrow

(* What a workflow run knows of its record survives while records are      *)
(* kept.                                                                   *)
LEMMA ReleaseKept ==
    ASSUME NEW s, PrepareTrue(s), ReleaseTrue(s), work'[s] = work[s], RecordsKept
    PROVE  ReleaseTrue(s)'
<1>1. work[s].pc \in {"validate", "waiting"} \cup Deploying => work[s].v \in Versions
  BY DEF PrepareTrue, Resting, Deploying
<1> QED
  BY <1>1 DEF ReleaseTrue, RecordsKept

(* What a deploy job has done survives while the cluster is left alone     *)
(* and the schema only grows.                                              *)
LEMMA ClusterKept ==
    ASSUME NEW s, ClusterTrue(s), work'[s] = work[s], work[s].v \in Nat,
           UNCHANGED <<live, jobs>>, SchemaGrows
    PROVE  ClusterTrue(s)'
BY DEF ClusterTrue, SchemaGrows

(* Two workflow runs that both stand still exclude each other as before.   *)
LEMMA ExclusiveKept ==
    ASSUME NEW s, NEW t, Exclusive(s, t), work'[s] = work[s], work'[t] = work[t]
    PROVE  Exclusive(s, t)'
BY DEF Exclusive

(* What a bootstrap has read of the records survives while records are     *)
(* kept.                                                                   *)
LEMMA BootKept ==
    ASSUME NEW o, BootTrue(o), boot'[o] = boot[o], RecordsKept
    PROVE  BootTrue(o)'
<1>1. boot[o].pc # "idle" => boot[o].v \in Versions /\ record[boot[o].v] # NULL
  BY DEF BootTrue
<1>2. boot[o].pc # "idle" => record'[boot[o].v] = record[boot[o].v]
  BY <1>1 DEF RecordsKept
<1> QED
  BY <1>1, <1>2 DEF BootTrue, planned_annotations

(* The numbers behind the types.                                           *)
LEMMA TypesNat ==
    ASSUME Types
    PROVE  /\ used.attempts \in Nat /\ schema \in Nat
           /\ \A s \in Slots : work[s] \in WorkType /\ work[s].v \in Nat
BY Bounds DEF Types, UsedType, WorkType, Versions

(* A step of the workflow run in slot s: what has to be shown of it.       *)
OtherWork(s) == \A t \in Slots \ {s} : work'[t] = work[t]

(* Only the pairs of the slot that moves have to be looked at.             *)
LEMMA ExclusivePairs ==
    ASSUME ReleaseInv, NEW s \in Slots, OtherWork(s), \A t \in Slots \ {s} : Exclusive(s, t)'
    PROVE  \A t, u \in Slots : t # u => Exclusive(t, u)'
<1> SUFFICES ASSUME NEW t \in Slots, NEW u \in Slots, t # u PROVE Exclusive(t, u)'
  OBVIOUS
<1>1. CASE t = s
  BY <1>1
<1>2. CASE u = s
  <2>1. Exclusive(s, t)'
    BY <1>2
  <2> QED
    BY <1>2, <2>1 DEF Exclusive
<1>3. CASE t # s /\ u # s
  BY <1>3, ExclusiveKept DEF OtherWork, ReleaseInv
<1> QED
  BY <1>1, <1>2, <1>3

(* The frame of a workflow step: it is enough to show what becomes of the  *)
(* slot that moves.                                                        *)
LEMMA WorkMoves ==
    ASSUME ReleaseInv, NEW s \in Slots,
           UNCHANGED <<tag, registry, record, live, jobs, schema, boot>>,
           helm' \in {"deployed", "failed", "pending-upgrade"},
           used' \in UsedType, used'.attempts >= used.attempts,
           work' \in [Slots -> WorkType], OtherWork(s),
           PrepareTrue(s)', ReleaseTrue(s)', ClusterTrue(s)',
           \A t \in Slots \ {s} : Exclusive(s, t)'
    PROVE  ReleaseInv'
<1>1. Types'
  BY DEF ReleaseInv, Types
<1>2. AttemptsGrow /\ RecordsKept /\ SchemaGrows
  BY TypesNat DEF ReleaseInv, AttemptsGrow, RecordsKept, SchemaGrows, UsedType
<1>3. ASSUME NEW t \in Slots PROVE PrepareTrue(t)' /\ ReleaseTrue(t)' /\ ClusterTrue(t)'
  <2>1. CASE t # s
    <3>1. work'[t] = work[t] /\ PrepareTrue(t) /\ ReleaseTrue(t) /\ ClusterTrue(t)
          /\ work[t].v \in Nat
      BY <2>1, TypesNat DEF OtherWork, ReleaseInv
    <3> QED
      BY <1>2, <3>1, PrepareKept, ReleaseKept, ClusterKept
  <2> QED
    BY <2>1
<1>4. \A t, u \in Slots : t # u => Exclusive(t, u)'
  BY ExclusivePairs
<1>5. \A v \in Versions : RecordTrue(v)'
  BY DEF ReleaseInv, RecordTrue
<1>6. (\A n \in DOMAIN jobs' : JobTrue(n)') /\ OneMigration'
  BY DEF ReleaseInv, JobTrue, OneMigration
<1>7. \A o \in Operators : BootTrue(o)'
  BY <1>2, BootKept DEF ReleaseInv
<1>8. LabelsTrue' /\ SchemaFirst'
  BY DEF ReleaseInv, LabelsTrue, SchemaFirst
<1> QED
  BY <1>1, <1>3, <1>4, <1>5, <1>6, <1>7, <1>8 DEF ReleaseInv

(* A step that only changes the label, and what the new one demands.       *)
LEMMA GoMoves ==
    ASSUME Types, NEW s \in Slots,
           NEW pc \in Preparing \cup Deploying \cup {"idle", "waiting", "done"}, Go(s, pc)
    PROVE  /\ work' \in [Slots -> WorkType] /\ OtherWork(s)
           /\ work'[s].pc = pc /\ work'[s].v = work[s].v /\ work'[s].n = work[s].n
           /\ work'[s].commit = work[s].commit /\ work'[s].images = work[s].images
           /\ work'[s].source = work[s].source
BY DEF Types, WorkType, Go, OtherWork

Labels == Preparing \cup Deploying \cup {"idle", "waiting", "done"}

(* A step inside a job, or into a job that nobody is in, keeps the         *)
(* concurrency groups apart.                                               *)
LEMMA ExclusiveGo ==
    ASSUME ReleaseInv, NEW s \in Slots, OtherWork(s), work[s].pc \notin Resting,
           work'[s].v = work[s].v, work'[s].n = work[s].n,
           work'[s].pc \in Preparing => work[s].pc \in Preparing,
           work'[s].pc \in Deploying =>
               \/ work[s].pc \in Deploying
               \/ \A t \in Slots : work[t].pc \notin Deploying
    PROVE  \A t \in Slots \ {s} : Exclusive(s, t)'
<1> SUFFICES ASSUME NEW t \in Slots \ {s} PROVE Exclusive(s, t)'
  OBVIOUS
<1>1. work'[t] = work[t] /\ Exclusive(s, t)
  BY DEF OtherWork, ReleaseInv
<1> QED
  BY <1>1 DEF Exclusive

(* A workflow run outside of its jobs excludes nobody.                     *)
LEMMA ExclusiveRest ==
    ASSUME NEW s, work'[s].pc \in Resting
    PROVE  \A t \in Slots \ {s} : Exclusive(s, t)'
BY DEF Exclusive, Resting, Preparing, Deploying

(* A workflow run that rests knows nothing.                                *)
LEMMA RestTrue ==
    ASSUME NEW s, work'[s].pc \in Resting
    PROVE  PrepareTrue(s)' /\ ReleaseTrue(s)' /\ ClusterTrue(s)'
BY DEF PrepareTrue, ReleaseTrue, ClusterTrue, Resting, Preparing, Deploying, Gated,
       Migrated, RolledOut, Complete

(* The state that these steps leave alone.                                 *)
WorldKept == UNCHANGED <<tag, registry, record, live, jobs, schema, boot>>

(* A step that only moves the label of a slot.                             *)
LEMMA GoInv ==
    ASSUME ReleaseInv, NEW s \in Slots, NEW pc \in Labels, Go(s, pc),
           work[s].pc \notin Resting,
           WorldKept, helm' \in {"deployed", "failed", "pending-upgrade"}, UNCHANGED used,
           pc \in Preparing => work[s].pc \in Preparing,
           pc \in Deploying => work[s].pc \in Deploying
                                 \/ \A t \in Slots : work[t].pc \notin Deploying,
           PrepareTrue(s)', ReleaseTrue(s)', ClusterTrue(s)'
    PROVE  ReleaseInv'
<1>1. /\ Types /\ used \in UsedType /\ used.attempts \in Nat
      /\ work' \in [Slots -> WorkType] /\ OtherWork(s)
      /\ work'[s].pc = pc /\ work'[s].v = work[s].v /\ work'[s].n = work[s].n
  BY GoMoves, TypesNat DEF Labels, ReleaseInv, Types
<1>2. \A t \in Slots \ {s} : Exclusive(s, t)'
  BY <1>1, ExclusiveGo
<1> QED
  BY <1>1, <1>2, WorkMoves DEF WorldKept

(* What a workflow run knows and keeps when only its label changes.        *)
LEMMA GoKeeps ==
    ASSUME ReleaseInv, NEW s \in Slots, NEW pc \in Labels, Go(s, pc), WorldKept,
           UNCHANGED used, work[s].pc \notin Resting
    PROVE  /\ PrepareTrue(s) /\ ReleaseTrue(s) /\ ClusterTrue(s)
           /\ work'[s].pc = pc /\ work'[s].v = work[s].v /\ work'[s].n = work[s].n
           /\ work'[s].commit = work[s].commit /\ work'[s].images = work[s].images
           /\ work'[s].source = work[s].source
           /\ work[s].v \in Versions /\ work[s].source \in Commits
           /\ work[s].n \in 1..used.attempts
           /\ UNCHANGED <<registry, record, live, jobs, schema>>
BY GoMoves DEF Labels, ReleaseInv, WorldKept, PrepareTrue

(* PreflightStep keeps the invariant.                                      *)
LEMMA PreflightStepInv ==
    ASSUME ReleaseInv, NEW s \in Slots, PreflightStep(s) PROVE ReleaseInv'
<1>1. PICK pc \in {"publish", "push"} :
        /\ Go(s, pc) /\ work[s].pc \in {"preflight", "publish"}
        /\ WorldKept /\ UNCHANGED <<helm, used>> /\ preflight(work[s].v)
  BY DEF PreflightStep, At, WorldKept, github, cluster
<1>2. pc \in Labels /\ pc \in Preparing /\ work[s].pc \in Preparing
      /\ work[s].pc \notin Resting /\ pc \notin Deploying
  BY <1>1 DEF Labels, Preparing, Deploying, Resting
<1>3. /\ PrepareTrue(s) /\ work'[s].pc = pc /\ work'[s].v = work[s].v
      /\ work'[s].n = work[s].n /\ work'[s].images = work[s].images
      /\ work'[s].source = work[s].source
      /\ work[s].v \in Versions /\ work[s].source \in Commits /\ work[s].n \in 1..used.attempts
      /\ UNCHANGED registry
  BY <1>1, <1>2, GoKeeps
<1>4. PrepareTrue(s)'
  <2>1. work[s].images = <<>>
    BY <1>1, <1>3 DEF PrepareTrue
  <2>2. \A i \in 1..3 : registry'[RoleOrder[i]][work'[s].v] = NULL
    BY <1>1, <1>3, RolesAre DEF preflight
  <2> QED
    BY <1>1, <1>3, <2>1, <2>2 DEF PrepareTrue
<1>5. ReleaseTrue(s)' /\ ClusterTrue(s)'
  BY <1>1, <1>3 DEF ReleaseTrue, ClusterTrue, Deploying, Gated, Migrated, RolledOut, Complete
<1> QED
  BY <1>1, <1>2, <1>4, <1>5, GoInv DEF ReleaseInv, Types

(* Validate keeps the invariant.                                           *)
LEMMA ValidateInv ==
    ASSUME ReleaseInv, NEW s \in Slots, Validate(s) PROVE ReleaseInv'
<1>1. /\ Go(s, "waiting") /\ work[s].pc = "validate" /\ WorldKept /\ UNCHANGED <<helm, used>>
      /\ work[s].commit = work[s].source
  BY DEF Validate, validate, At, WorldKept, github, cluster
<1>2. "waiting" \in Labels /\ "waiting" \notin Preparing /\ "waiting" \notin Deploying
      /\ work[s].pc \notin Resting
  BY <1>1 DEF Labels, Preparing, Deploying, Resting
<1>3. /\ PrepareTrue(s) /\ ReleaseTrue(s) /\ work'[s].pc = "waiting"
      /\ work'[s].v = work[s].v /\ work'[s].n = work[s].n
      /\ work'[s].commit = work[s].commit /\ work'[s].images = work[s].images
      /\ work'[s].source = work[s].source
      /\ UNCHANGED record
  BY <1>1, <1>2, GoKeeps
<1>4. PrepareTrue(s)' /\ ReleaseTrue(s)' /\ ClusterTrue(s)'
  BY <1>1, <1>2, <1>3
     DEF PrepareTrue, ReleaseTrue, ClusterTrue, Deploying, Gated, Migrated, RolledOut, Complete
<1> QED
  BY <1>1, <1>2, <1>4, GoInv DEF ReleaseInv, Types

(* StartDeploy keeps the invariant.                                        *)
LEMMA StartDeployInv ==
    ASSUME ReleaseInv, NEW s \in Slots, StartDeploy(s) PROVE ReleaseInv'
<1>1. /\ Go(s, "reject") /\ work[s].pc = "waiting" /\ WorldKept /\ UNCHANGED <<helm, used>>
      /\ \A t \in Slots : work[t].pc \notin Deploying
  BY DEF StartDeploy, At, WorldKept, github, cluster
<1>2. "reject" \in Labels /\ "reject" \notin Preparing /\ work[s].pc \notin Resting
  BY <1>1 DEF Labels, Preparing, Deploying, Resting
<1>3. /\ PrepareTrue(s) /\ ReleaseTrue(s) /\ work'[s].pc = "reject"
      /\ work'[s].v = work[s].v /\ work'[s].n = work[s].n
      /\ work'[s].commit = work[s].commit /\ work'[s].images = work[s].images
      /\ work'[s].source = work[s].source
      /\ UNCHANGED record
  BY <1>1, <1>2, GoKeeps
<1>4. PrepareTrue(s)' /\ ReleaseTrue(s)' /\ ClusterTrue(s)'
  BY <1>1, <1>2, <1>3
     DEF PrepareTrue, ReleaseTrue, ClusterTrue, Deploying, Gated, Migrated, RolledOut,
         Complete, Resting
<1> QED
  BY <1>1, <1>2, <1>4, GoInv DEF ReleaseInv, Types

(* From one label of the deploy job to another: only what it knows of the  *)
(* cluster can change.                                                     *)
LEMMA DeployGoInv ==
    ASSUME ReleaseInv, NEW s \in Slots, NEW pc \in Deploying, Go(s, pc),
           work[s].pc \in Deploying, WorldKept, UNCHANGED used,
           helm' \in {"deployed", "failed", "pending-upgrade"}, ClusterTrue(s)'
    PROVE  ReleaseInv'
<1>1. pc \in Labels /\ pc \notin Preparing /\ pc \notin Resting /\ work[s].pc \notin Resting
      /\ pc \notin {"discover", "preflight", "publish", "push", "save"}
  BY DEF Labels, Preparing, Deploying, Resting
<1>2. /\ PrepareTrue(s) /\ ReleaseTrue(s) /\ work'[s].pc = pc
      /\ work'[s].v = work[s].v /\ work'[s].n = work[s].n
      /\ work'[s].commit = work[s].commit /\ work'[s].images = work[s].images
      /\ work'[s].source = work[s].source
      /\ UNCHANGED record
  BY <1>1, GoKeeps
<1>3. PrepareTrue(s)'
  BY <1>1, <1>2 DEF PrepareTrue
<1>4. ReleaseTrue(s)'
  BY <1>2 DEF ReleaseTrue
<1> QED
  BY <1>1, <1>3, <1>4, GoInv

(* What the gate, the migration and the rollout have shown stays known.    *)
LEMMA ClusterGo ==
    ASSUME ReleaseInv, NEW s \in Slots, NEW pc \in Deploying, Go(s, pc),
           work[s].pc \in Deploying, WorldKept, UNCHANGED used
    PROVE  /\ ClusterTrue(s) /\ work'[s].pc = pc
           /\ work'[s].v = work[s].v /\ work'[s].n = work[s].n
           /\ work'[s].images = work[s].images
           /\ UNCHANGED <<live, jobs, schema>>
<1>1. pc \in Labels /\ work[s].pc \notin Resting
  BY DEF Labels, Preparing, Deploying, Resting
<1> QED
  BY <1>1, GoKeeps

(* RejectOlder keeps the invariant.                                        *)
LEMMA RejectOlderInv ==
    ASSUME ReleaseInv, NEW s \in Slots, RejectOlder(s) PROVE ReleaseInv'
<1>1. /\ Go(s, "gate") /\ work[s].pc = "reject" /\ WorldKept /\ UNCHANGED <<helm, used>>
  BY DEF RejectOlder, At, WorldKept, github, cluster
<1>2. "gate" \in Deploying /\ work[s].pc \in Deploying
  BY <1>1 DEF Deploying
<1>3. ClusterTrue(s)'
  BY <1>1, <1>2, ClusterGo DEF ClusterTrue, Deploying, Gated, Migrated, RolledOut, Complete
<1> QED
  BY <1>1, <1>2, <1>3, DeployGoInv DEF ReleaseInv, Types

(* The gate looks at all three Deployments before anything is changed.     *)
LEMMA GateInv ==
    ASSUME ReleaseInv, NEW s \in Slots, Gate(s) PROVE ReleaseInv'
<1>1. /\ Go(s, "migrate") /\ work[s].pc = "gate" /\ WorldKept /\ UNCHANGED <<helm, used>>
      /\ \A r \in Roles : live[r].version # 0 /\ live[r].version <= work[s].v
  BY DEF Gate, check_deployment, At, WorldKept, github, cluster
<1>2. "migrate" \in Deploying /\ work[s].pc \in Deploying
  BY <1>1 DEF Deploying
<1>3. ClusterTrue(s)'
  BY <1>1, <1>2, ClusterGo DEF ClusterTrue, Deploying, Gated, Migrated, RolledOut, Complete
<1> QED
  BY <1>1, <1>2, <1>3, DeployGoInv DEF ReleaseInv, Types

(* AwaitMigration keeps the invariant.                                     *)
LEMMA AwaitMigrationInv ==
    ASSUME ReleaseInv, NEW s \in Slots, AwaitMigration(s) PROVE ReleaseInv'
<1>1. /\ Go(s, "upgrade") /\ work[s].pc = "migrating" /\ WorldKept /\ UNCHANGED <<helm, used>>
      /\ jobs[work[s].n].state = "complete"
  BY DEF AwaitMigration, At, WorldKept, github, cluster
<1>2. "upgrade" \in Deploying /\ work[s].pc \in Deploying /\ work[s].pc \in Gated
  BY <1>1 DEF Deploying, Gated
<1>3. work[s].v <= schema
  <2>1. work[s].n \in DOMAIN jobs
    <3>1. work[s].n \in 1..used.attempts /\ used \in UsedType /\ DOMAIN jobs = 1..MaxAttempts
      BY <1>1 DEF ReleaseInv, PrepareTrue, Types, Resting
    <3> QED
      BY <3>1, Bounds DEF UsedType
  <2>2. JobTrue(work[s].n) /\ jobs[work[s].n].v = work[s].v
    BY <1>1, <2>1 DEF ReleaseInv, ClusterTrue
  <2> QED
    BY <1>1, <2>2 DEF JobTrue
<1>4. ClusterTrue(s)'
  BY <1>1, <1>2, <1>3, ClusterGo DEF ClusterTrue, RolledOut, Complete
<1> QED
  BY <1>1, <1>2, <1>4, DeployGoInv DEF ReleaseInv, Types

(* HelmUpgrade keeps the invariant.                                        *)
LEMMA HelmUpgradeInv ==
    ASSUME ReleaseInv, NEW s \in Slots, HelmUpgrade(s) PROVE ReleaseInv'
<1>1. /\ Go(s, "upgrading") /\ work[s].pc = "upgrade" /\ WorldKept /\ UNCHANGED used
      /\ helm' \in {"deployed", "failed", "pending-upgrade"}
  BY DEF HelmUpgrade, At, WorldKept, github
<1>2. "upgrading" \in Deploying /\ work[s].pc \in Deploying
      /\ work[s].pc \in Gated /\ work[s].pc \in Migrated
  BY <1>1 DEF Deploying, Gated, Migrated
<1>3. ClusterTrue(s)'
  BY <1>1, <1>2, ClusterGo DEF ClusterTrue, RolledOut, Complete
<1> QED
  BY <1>1, <1>2, <1>3, DeployGoInv

(* Verify keeps the invariant.                                             *)
LEMMA VerifyInv ==
    ASSUME ReleaseInv, NEW s \in Slots, Verify(s) PROVE ReleaseInv'
<1>1. /\ Go(s, "apply") /\ work[s].pc = "verify" /\ WorldKept /\ UNCHANGED <<helm, used>>
  BY DEF Verify, At, WorldKept, github, cluster
<1>2. "apply" \in Deploying /\ work[s].pc \in Deploying
      /\ work[s].pc \in Gated /\ work[s].pc \in Migrated /\ work[s].pc \in RolledOut
  BY <1>1 DEF Deploying, Gated, Migrated, RolledOut
<1>3. ClusterTrue(s)'
  BY <1>1, <1>2, ClusterGo DEF ClusterTrue, Complete
<1> QED
  BY <1>1, <1>2, <1>3, DeployGoInv DEF ReleaseInv, Types

(* CreateVerification keeps the invariant.                                 *)
LEMMA CreateVerificationInv ==
    ASSUME ReleaseInv, NEW s \in Slots, CreateVerification(s) PROVE ReleaseInv'
<1>1. /\ Go(s, "checking") /\ work[s].pc = "verification" /\ WorldKept /\ UNCHANGED <<helm, used>>
  BY DEF CreateVerification, At, WorldKept, github, cluster
<1>2. "checking" \in Deploying /\ work[s].pc \in Deploying
      /\ work[s].pc \in Gated /\ work[s].pc \in Migrated /\ work[s].pc \in RolledOut
      /\ work[s].pc \in Complete
  BY <1>1 DEF Deploying, Gated, Migrated, RolledOut, Complete
<1>3. ClusterTrue(s)'
  BY <1>1, <1>2, ClusterGo DEF ClusterTrue
<1> QED
  BY <1>1, <1>2, <1>3, DeployGoInv DEF ReleaseInv, Types

(* An empty slot and a finished one are slots.                             *)
LEMMA NoWorkIsWork ==
    /\ NoWork \in WorkType /\ NoWork.pc = "idle"
    /\ Done \in WorkType /\ Done.pc = "done"
<1>1. <<>> \in [Roles -> Images] \cup Seq(Images)
  OBVIOUS
<1> HIDE DEF Images, Roles
<1>2. NoWork \in WorkType
  BY <1>1, Bounds DEF NoWork, WorkType
<1> QED
  BY <1>2 DEF NoWork, Done, WorkType

(* A workflow run that ends, well or badly, leaves the world as it is.     *)
LEMMA RestInv ==
    ASSUME ReleaseInv, NEW s \in Slots, NEW rest \in {NoWork, Done},
           work' = [work EXCEPT ![s] = rest],
           WorldKept, helm' \in {"deployed", "failed", "pending-upgrade"}, UNCHANGED used
    PROVE  ReleaseInv'
<1>1. /\ work' \in [Slots -> WorkType] /\ OtherWork(s) /\ work'[s].pc \in Resting
      /\ used \in UsedType /\ used.attempts \in Nat
  BY NoWorkIsWork, TypesNat DEF ReleaseInv, Types, OtherWork, Resting
<1>2. PrepareTrue(s)' /\ ReleaseTrue(s)' /\ ClusterTrue(s)'
      /\ \A t \in Slots \ {s} : Exclusive(s, t)'
  BY <1>1, RestTrue, ExclusiveRest
<1> QED
  BY <1>1, <1>2, WorkMoves DEF WorldKept

(* Stop keeps the invariant.                                               *)
LEMMA StopInv ==
    ASSUME ReleaseInv, NEW s \in Slots, Stop(s) PROVE ReleaseInv'
<1>1. work' = [work EXCEPT ![s] = NoWork] /\ WorldKept /\ UNCHANGED <<helm, used>>
  BY DEF Stop, WorldKept, github, cluster
<1> QED
  BY <1>1, RestInv DEF ReleaseInv, Types

(* AwaitVerification keeps the invariant.                                  *)
LEMMA AwaitVerificationInv ==
    ASSUME ReleaseInv, NEW s \in Slots, AwaitVerification(s) PROVE ReleaseInv'
<1>1. work' = [work EXCEPT ![s] = Done] /\ WorldKept /\ UNCHANGED <<helm, used>>
  BY DEF AwaitVerification, WorldKept, github, cluster
<1> QED
  BY <1>1, RestInv DEF ReleaseInv, Types

(* What Helm writes into a Deployment.                                     *)
LEMMA DeliveredIs ==
    ASSUME NEW s, NEW r, NEW doc, doc = Delivered(s, r)
    PROVE  /\ doc.image = work[s].images[r] /\ doc.version = work[s].v
           /\ doc.commit = work[s].commit /\ doc.owner = "helm"
BY DEF Delivered

(* HelmReports keeps the invariant.                                        *)
LEMMA HelmReportsInv ==
    ASSUME ReleaseInv, NEW s \in Slots, HelmReports(s) PROVE ReleaseInv'
<1>1. /\ work[s].pc = "upgrading" /\ WorldKept /\ UNCHANGED used
      /\ helm' \in {"deployed", "failed", "pending-upgrade"}
      /\ \/ Go(s, "verify") /\ \A r \in Execution : live[r] = Delivered(s, r)
         \/ work' = [work EXCEPT ![s] = NoWork]
  BY DEF HelmReports, At, WorldKept, github
<1>2. CASE work' = [work EXCEPT ![s] = NoWork]
  BY <1>1, <1>2, RestInv
<1>3. CASE Go(s, "verify") /\ \A r \in Execution : live[r] = Delivered(s, r)
  <2>1. "verify" \in Deploying /\ work[s].pc \in Deploying
        /\ work[s].pc \in Gated /\ work[s].pc \in Migrated
    BY <1>1 DEF Deploying, Gated, Migrated
  <2>2. \A r \in Execution : live[r].image = work[s].images[r] /\ live[r].version = work[s].v
    BY <1>3, DeliveredIs
  <2>3. ClusterTrue(s)'
    BY <1>1, <1>3, <2>1, <2>2, ClusterGo DEF ClusterTrue, Complete
  <2> QED
    BY <1>1, <1>3, <2>1, <2>3, DeployGoInv
<1> QED
  BY <1>1, <1>2, <1>3

(* The concurrency group of the tag, and a number of its own.              *)
LEMMA CheckoutInv ==
    ASSUME ReleaseInv, NEW s \in Slots, NEW v \in Versions, Checkout(s, v)
    PROVE  ReleaseInv'
<1> DEFINE n == used.attempts + 1
           new == [pc |-> "discover", v |-> v, n |-> n, commit |-> NULL, images |-> <<>>,
                   source |-> tag[v]]
<1>1. /\ work' = [work EXCEPT ![s] = new]
      /\ used' = [used EXCEPT !.attempts = n] /\ used.attempts < MaxAttempts
      /\ WorldKept /\ UNCHANGED helm
      /\ \A t \in Slots : work[t].pc \in Preparing => work[t].v # v
  <2>1. [NoWork EXCEPT !.pc = "discover", !.v = v, !.n = n, !.source = tag[v]] = new
    <3> HIDE DEF n
    <3>1. [NoWork EXCEPT !.pc = "discover"] =
            [pc |-> "discover", v |-> 0, n |-> 0, commit |-> NULL, images |-> <<>>,
             source |-> NULL]
      BY DEF NoWork
    <3>2. [[pc |-> "discover", v |-> 0, n |-> 0, commit |-> NULL, images |-> <<>>,
            source |-> NULL] EXCEPT !.v = v] =
            [pc |-> "discover", v |-> v, n |-> 0, commit |-> NULL, images |-> <<>>,
             source |-> NULL]
      OBVIOUS
    <3>3. [[pc |-> "discover", v |-> v, n |-> 0, commit |-> NULL, images |-> <<>>,
            source |-> NULL] EXCEPT !.n = n] =
            [pc |-> "discover", v |-> v, n |-> n, commit |-> NULL, images |-> <<>>,
             source |-> NULL]
      OBVIOUS
    <3>4. [[pc |-> "discover", v |-> v, n |-> n, commit |-> NULL, images |-> <<>>,
            source |-> NULL] EXCEPT !.source = tag[v]] = new
      OBVIOUS
    <3> QED
      BY <3>1, <3>2, <3>3, <3>4, Zenon
  <2>2. work' = [work EXCEPT ![s] =
          [NoWork EXCEPT !.pc = "discover", !.v = v, !.n = n, !.source = tag[v]]]
    BY DEF Checkout
  <2>3. work' = [work EXCEPT ![s] = new]
    BY <2>1, <2>2, Zenon
  <2> QED
    BY <2>3 DEF Checkout, WorldKept, github, cluster
<1>2. used \in UsedType /\ Types /\ tag[v] \in Commits
  BY DEF ReleaseInv, Types
<1>3. /\ n \in 0..MaxAttempts /\ n >= 1 /\ used' \in UsedType /\ used'.attempts = n
      /\ used.attempts \in Nat
  BY <1>1, <1>2, Bounds DEF UsedType
<1>4. new \in WorkType
  <2>1. <<>> \in [Roles -> Images] \cup Seq(Images)
    OBVIOUS
  <2> HIDE DEF Images, Roles, n
  <2> QED
    BY <1>2, <1>3, <2>1, Bounds DEF WorkType, Preparing
<1>5. /\ work' \in [Slots -> WorkType] /\ OtherWork(s) /\ work'[s] = new
  BY <1>1, <1>2, <1>4 DEF Types, OtherWork
<1>6. PrepareTrue(s)' /\ ReleaseTrue(s)' /\ ClusterTrue(s)'
  BY <1>2, <1>3, <1>5
     DEF PrepareTrue, ReleaseTrue, ClusterTrue, Deploying, Gated, Migrated, RolledOut, Complete
<1>7. ASSUME NEW t \in Slots \ {s} PROVE Exclusive(s, t)'
  <2>1. work'[t] = work[t] /\ PrepareTrue(t)
    BY <1>5 DEF OtherWork, ReleaseInv
  <2>2. work[t].pc \notin Resting => n # work[t].n
    BY <1>3, <2>1 DEF PrepareTrue
  <2> QED
    BY <1>1, <1>5, <2>1, <2>2 DEF Exclusive, Deploying
<1>8. helm' \in {"deployed", "failed", "pending-upgrade"} /\ used'.attempts >= used.attempts
  BY <1>1, <1>2, <1>3 DEF Types
<1>9. UNCHANGED <<tag, registry, record, live, jobs, schema, boot>>
  BY <1>1 DEF WorldKept
<1> QED
  BY <1>3, <1>5, <1>6, <1>7, <1>8, <1>9, WorkMoves

(* discover keeps the invariant.                                           *)
LEMMA DiscoverInv ==
    ASSUME ReleaseInv, NEW s \in Slots, discover(s) PROVE ReleaseInv'
<1>1. /\ work[s].pc = "discover" /\ WorldKept /\ UNCHANGED <<helm, used>>
      /\ Types /\ used \in UsedType /\ used.attempts \in Nat
      /\ PrepareTrue(s) /\ work[s] \in WorkType /\ work[s].v \in Versions
      /\ work[s].images = <<>>
  BY TypesNat DEF discover, At, WorldKept, github, cluster, ReleaseInv, PrepareTrue, Types, Resting
<1>2. work[s].pc \notin Resting /\ work[s].pc \in Preparing
  BY <1>1 DEF Preparing, Resting
<1>3. CASE record[work[s].v] = NULL
  <2>1. Go(s, "preflight")
    BY <1>3 DEF discover, Go
  <2>2. "preflight" \in Labels /\ "preflight" \notin Deploying
    BY DEF Labels, Preparing, Deploying
  <2>3. /\ work'[s].pc = "preflight" /\ work'[s].v = work[s].v /\ work'[s].n = work[s].n
        /\ work'[s].images = work[s].images /\ work'[s].source = work[s].source
    BY <1>1, <1>2, <2>1, <2>2, GoKeeps
  <2>4. PrepareTrue(s)' /\ ReleaseTrue(s)' /\ ClusterTrue(s)'
    BY <1>1, <2>3
       DEF PrepareTrue, ReleaseTrue, ClusterTrue, Deploying, Gated, Migrated, RolledOut,
           Complete, Resting
  <2> QED
    BY <1>1, <1>2, <2>1, <2>2, <2>4, GoInv DEF Types
<1>4. CASE record[work[s].v] # NULL
  <2> DEFINE found == record[work[s].v]
  <2>1. found \in Release
    BY <1>1, <1>4 DEF Types
  <2>2. found.commit \in Commits /\ found.images \in [Roles -> Images]
    BY <2>1 DEF Release
  <2>3. work' = [work EXCEPT ![s] = [@ EXCEPT !.pc = "validate", !.commit = found.commit,
                                                !.images = found.images]]
    BY <1>4 DEF discover
  <2> HIDE DEF found
  <2>4. /\ work' \in [Slots -> WorkType] /\ OtherWork(s)
        /\ work'[s].pc = "validate" /\ work'[s].v = work[s].v /\ work'[s].n = work[s].n
        /\ work'[s].commit = found.commit /\ work'[s].images = found.images
        /\ work'[s].source = work[s].source
    BY <1>1, <2>2, <2>3 DEF Types, WorkType, OtherWork, Preparing
  <2>5. PrepareTrue(s)' /\ ReleaseTrue(s)' /\ ClusterTrue(s)'
    BY <1>1, <1>4, <2>4
       DEF PrepareTrue, ReleaseTrue, ClusterTrue, Deploying, Gated, Migrated, RolledOut,
           Complete, Resting, WorldKept, found
  <2>6. \A t \in Slots \ {s} : Exclusive(s, t)'
    BY <1>2, <2>4, ExclusiveGo DEF Deploying
  <2> QED
    BY <1>1, <2>4, <2>5, <2>6, WorkMoves DEF WorldKept, Types
<1> QED
  BY <1>3, <1>4

(* An image knows its version and its commit.                              *)
LEMMA ImageIs ==
    ASSUME NEW v \in Versions, NEW c \in Commits, NEW n \in 0..MaxAttempts
    PROVE  Image(v, c, n) \in Images /\ Image(v, c, n).version = v /\ Image(v, c, n).commit = c
BY DEF Image, Images

(* One tag is written, which the preflight has found free and which no     *)
(* other prepare job touches.                                              *)
LEMMA PushInv ==
    ASSUME ReleaseInv, NEW s \in Slots, Push(s) PROVE ReleaseInv'
<1> DEFINE v == work[s].v
           k == Len(work[s].images)
           role == RoleOrder[k + 1]
           image == Image(v, work[s].source, work[s].n)
           pushed == Append(work[s].images, image)
<1>1. /\ work[s].pc = "push" /\ registry' = [registry EXCEPT ![role][v] = image]
      /\ work' = [work EXCEPT ![s] =
               IF Len(pushed) < 3 THEN [@ EXCEPT !.images = pushed]
               ELSE [@ EXCEPT !.pc = "save", !.commit = work[s].source,
                              !.images = [r \in Roles |-> image]]]
      /\ UNCHANGED <<tag, record, live, helm, schema, jobs, boot, used>>
  BY RolesAre DEF Push, At, cluster
<1>2. /\ Types /\ PrepareTrue(s) /\ ReleaseTrue(s) /\ ClusterTrue(s)
      /\ work[s] \in WorkType /\ used \in UsedType /\ used.attempts \in Nat
  BY TypesNat DEF ReleaseInv, Types
<1>3. /\ work[s].images \in Seq(Images) /\ k < 3 /\ k \in Nat
      /\ \A i \in 1..3 : i > k => registry[RoleOrder[i]][v] = NULL
      /\ v \in Versions /\ work[s].source \in Commits /\ work[s].n \in 0..MaxAttempts
  <2>1. work[s].images \in Seq(Images) /\ k < 3
    BY <1>1, <1>2 DEF PrepareTrue
  <2>2. k \in Nat
    BY <2>1
  <2> QED
    BY <1>1, <1>2, <2>1, <2>2 DEF PrepareTrue, Resting, WorkType
<1>4. /\ image \in Images /\ image.version = v /\ image.commit = work[s].source
  BY <1>3, ImageIs
<1> HIDE DEF image
<1>5. pushed \in Seq(Images) /\ Len(pushed) = k + 1
  BY <1>3, <1>4, AppendProperties
<1>6. /\ role \in Roles
      /\ registry' \in [Roles -> [Versions -> Images \cup {NULL}]]
      /\ \A r \in Roles, u \in Versions : (r # role \/ u # v) => registry'[r][u] = registry[r][u]
  <2>1. role \in Roles
    BY <1>3, RolesAre
  <2> HIDE DEF role
  <2> QED
    BY <1>1, <1>2, <1>3, <1>4, <2>1 DEF Types
<1>7. Types' /\ OtherWork(s) /\ work'[s].v = v /\ work'[s].n = work[s].n
      /\ work'[s].source = work[s].source
      /\ \/ work'[s].pc = "push" /\ work'[s].images = pushed /\ k + 1 < 3
         \/ /\ work'[s].pc = "save" /\ work'[s].commit = work[s].source
            /\ work'[s].images = [r \in Roles |-> image]
  <2> HIDE DEF pushed
  <2>1. CASE Len(pushed) < 3
    <3>1. work' = [work EXCEPT ![s] = [@ EXCEPT !.images = pushed]]
      BY <1>1, <2>1
    <3>2. /\ work' \in [Slots -> WorkType] /\ OtherWork(s) /\ work'[s].v = v
          /\ work'[s].n = work[s].n /\ work'[s].source = work[s].source
          /\ work'[s].pc = work[s].pc /\ work'[s].images = pushed
      BY <1>2, <1>5, <3>1 DEF Types, WorkType, OtherWork
    <3> QED
      BY <1>1, <1>2, <1>5, <1>6, <2>1, <3>2 DEF Types
  <2>2. CASE ~(Len(pushed) < 3)
    <3> DEFINE all == [r \in Roles |-> image]
    <3>1. all \in [Roles -> Images]
      BY <1>4
    <3>2. work' = [work EXCEPT ![s] =
             [@ EXCEPT !.pc = "save", !.commit = work[s].source, !.images = all]]
      BY <1>1, <2>2
    <3> HIDE DEF all
    <3>3. /\ work' \in [Slots -> WorkType] /\ OtherWork(s) /\ work'[s].v = v
          /\ work'[s].n = work[s].n /\ work'[s].source = work[s].source
          /\ work'[s].pc = "save" /\ work'[s].commit = work[s].source
          /\ work'[s].images = all
      BY <1>2, <1>3, <3>1, <3>2 DEF Types, WorkType, OtherWork, Preparing
    <3> QED
      BY <1>1, <1>2, <1>6, <3>3 DEF Types, all
  <2> QED
    BY <2>1, <2>2
<1>8. PrepareTrue(s)'
  <2>1. CASE work'[s].pc = "push"
    <3>1. /\ k + 1 < 3 /\ Len(work'[s].images) = k + 1 /\ work'[s].images \in Seq(Images)
      BY <1>5, <1>7, <2>1
    <3>2. \A i \in 1..3 : i > k + 1 => registry'[RoleOrder[i]][v] = NULL
      BY <1>3, <1>6, RolesAre
    <3> QED
      BY <1>1, <1>2, <1>7, <2>1, <3>1, <3>2 DEF PrepareTrue, Resting
  <2>2. CASE work'[s].pc = "save"
    BY <1>1, <1>2, <1>3, <1>4, <1>7, <2>2 DEF PrepareTrue, Resting
  <2> QED
    BY <1>7, <2>1, <2>2
<1>9. ReleaseTrue(s)' /\ ClusterTrue(s)'
  BY <1>7 DEF ReleaseTrue, ClusterTrue, Deploying, Gated, Migrated, RolledOut, Complete
<1>10. AttemptsGrow /\ RecordsKept /\ SchemaGrows
  BY <1>1, <1>2, TypesNat DEF AttemptsGrow, RecordsKept, SchemaGrows
<1>11. ASSUME NEW t \in Slots \ {s}
       PROVE  PrepareTrue(t)' /\ ReleaseTrue(t)' /\ ClusterTrue(t)' /\ Exclusive(s, t)'
  <2>1. /\ work'[t] = work[t] /\ PrepareTrue(t) /\ ReleaseTrue(t) /\ ClusterTrue(t)
        /\ Exclusive(s, t) /\ work[t].v \in Nat
    BY <1>2, <1>7, TypesNat DEF OtherWork, ReleaseInv
  <2>2. ReleaseTrue(t)' /\ ClusterTrue(t)'
    BY <1>1, <1>10, <2>1, ReleaseKept, ClusterKept
  <2>3. Exclusive(s, t)'
    BY <1>1, <1>7, <2>1 DEF Exclusive, Preparing, Deploying, Resting
  <2>4. PrepareTrue(t)'
    <3>1. work[t].pc = "push" => work[t].v # v /\ work[t].v \in Versions
      BY <1>1, <2>1 DEF Exclusive, Preparing, PrepareTrue, Resting
    <3>2. work[t].pc = "push" =>
            \A i \in 1..3 : registry'[RoleOrder[i]][work[t].v] = registry[RoleOrder[i]][work[t].v]
      BY <1>6, <3>1, RolesAre
    <3> QED
      BY <1>1, <2>1, <3>2 DEF PrepareTrue
  <2> QED
    BY <2>2, <2>3, <2>4
<1>12. \A t, u \in Slots : t # u => Exclusive(t, u)'
  BY <1>7, <1>11, ExclusivePairs
<1>13. /\ \A u \in Versions : RecordTrue(u)'
       /\ (\A n \in DOMAIN jobs' : JobTrue(n)') /\ OneMigration'
       /\ LabelsTrue' /\ SchemaFirst'
  BY <1>1 DEF ReleaseInv, RecordTrue, JobTrue, OneMigration, LabelsTrue, SchemaFirst
<1>14. \A o \in Operators : BootTrue(o)'
  BY <1>1, <1>10, BootKept DEF ReleaseInv
<1> QED
  BY <1>7, <1>8, <1>9, <1>11, <1>12, <1>13, <1>14 DEF ReleaseInv

(* A record is written once, and says what was pushed.                     *)
LEMMA SaveRecordInv ==
    ASSUME ReleaseInv, NEW s \in Slots, SaveRecord(s) PROVE ReleaseInv'
<1> DEFINE v == work[s].v
           rec == [commit |-> work[s].commit, images |-> work[s].images]
<1>1. /\ work[s].pc = "save" /\ record[v] = NULL /\ record' = [record EXCEPT ![v] = rec]
      /\ Go(s, "validate")
      /\ UNCHANGED <<tag, registry, live, helm, schema, jobs, boot, used>>
  BY DEF SaveRecord, At, cluster
<1>2. /\ Types /\ PrepareTrue(s) /\ work[s] \in WorkType /\ used.attempts \in Nat
      /\ v \in Versions
  BY <1>1, TypesNat DEF ReleaseInv, PrepareTrue, Resting
<1>3. /\ work[s].images \in [Roles -> Images] /\ work[s].commit \in Commits
      /\ \A r \in Roles : /\ work[s].images[r].version = v
                          /\ work[s].images[r].commit = work[s].commit
  BY <1>1, <1>2 DEF PrepareTrue
<1>4. rec \in Release /\ rec # NULL
  BY <1>3, RecordsAreNotNull DEF Release
<1>5. rec.commit = work[s].commit /\ rec.images = work[s].images
  OBVIOUS
<1> HIDE DEF rec
<1>6. /\ record' \in [Versions -> Release \cup {NULL}] /\ record'[v] = rec
      /\ \A u \in Versions \ {v} : record'[u] = record[u]
  BY <1>1, <1>2, <1>4 DEF Types
<1>7. "validate" \in Preparing \cup Deploying \cup {"idle", "waiting", "done"}
  BY DEF Preparing
<1>8. /\ work' \in [Slots -> WorkType] /\ OtherWork(s)
      /\ work'[s].pc = "validate" /\ work'[s].v = v /\ work'[s].n = work[s].n
      /\ work'[s].commit = work[s].commit /\ work'[s].images = work[s].images
      /\ work'[s].source = work[s].source
  BY <1>1, <1>2, <1>7, GoMoves
<1>9. Types'
  BY <1>1, <1>2, <1>6, <1>8 DEF Types
<1>10. AttemptsGrow /\ RecordsKept /\ SchemaGrows
  BY <1>1, <1>2, <1>6, TypesNat DEF AttemptsGrow, RecordsKept, SchemaGrows
<1>11. PrepareTrue(s)' /\ ReleaseTrue(s)' /\ ClusterTrue(s)'
  BY <1>1, <1>2, <1>4, <1>5, <1>6, <1>8
     DEF PrepareTrue, ReleaseTrue, ClusterTrue, Deploying, Gated, Migrated, RolledOut,
         Complete, Resting
<1>12. ASSUME NEW t \in Slots \ {s}
       PROVE  PrepareTrue(t)' /\ ReleaseTrue(t)' /\ ClusterTrue(t)'
  <2>1. /\ work'[t] = work[t] /\ PrepareTrue(t) /\ ReleaseTrue(t) /\ ClusterTrue(t)
        /\ work[t].v \in Nat
    BY <1>2, <1>8, TypesNat DEF OtherWork, ReleaseInv
  <2> QED
    BY <1>1, <1>10, <2>1, PrepareKept, ReleaseKept, ClusterKept
<1>13. \A t \in Slots \ {s} : Exclusive(s, t)'
  BY <1>1, <1>8, ExclusiveGo DEF Resting, Preparing, Deploying
<1>14. \A t, u \in Slots : t # u => Exclusive(t, u)'
  BY <1>8, <1>13, ExclusivePairs
<1>15. \A u \in Versions : RecordTrue(u)'
  <2> SUFFICES ASSUME NEW u \in Versions PROVE RecordTrue(u)'
    OBVIOUS
  <2>1. CASE u = v
    BY <1>3, <1>5, <1>6, <2>1 DEF RecordTrue
  <2>2. CASE u # v
    BY <1>6, <2>2 DEF RecordTrue, ReleaseInv
  <2> QED
    BY <2>1, <2>2
<1>16. (\A n \in DOMAIN jobs' : JobTrue(n)') /\ OneMigration' /\ SchemaFirst'
  BY <1>1 DEF ReleaseInv, JobTrue, OneMigration, SchemaFirst
<1>17. LabelsTrue'
  <2> SUFFICES ASSUME NEW r \in Roles, live[r].version # 0
               PROVE  /\ record'[live[r].version] # NULL
                      /\ live[r].image = record'[live[r].version].images[r]
                      /\ live[r].commit = record'[live[r].version].commit
    BY <1>1 DEF LabelsTrue
  <2>1. live[r].version \in Versions
    BY <1>2, Bounds DEF Types, Deployment, Versions
  <2>2. record[live[r].version] # NULL
    BY DEF ReleaseInv, LabelsTrue
  <2>3. record'[live[r].version] = record[live[r].version]
    BY <1>10, <2>1, <2>2 DEF RecordsKept
  <2> QED
    BY <2>2, <2>3 DEF ReleaseInv, LabelsTrue
<1>18. \A o \in Operators : BootTrue(o)'
  BY <1>1, <1>10, BootKept DEF ReleaseInv
<1> QED
  BY <1>9, <1>11, <1>12, <1>14, <1>15, <1>16, <1>17, <1>18 DEF ReleaseInv

(* MoveTag keeps the invariant.                                            *)
LEMMA MoveTagInv ==
    ASSUME ReleaseInv, NEW v \in Versions, MoveTag(v) PROVE ReleaseInv'
<1>1. /\ \E c \in Commits : tag' = [tag EXCEPT ![v] = c]
      /\ used' = [used EXCEPT !.moves = @ + 1]
      /\ UNCHANGED <<registry, record, live, helm, schema, jobs, work, boot>>
  BY DEF MoveTag, cluster
<1>2. Types /\ used \in UsedType
  BY DEF ReleaseInv, Types
<1>3. used' \in UsedType /\ used'.attempts = used.attempts
  BY <1>1, <1>2 DEF UsedType
<1>4. tag' \in [Versions -> Commits]
  BY <1>1, <1>2 DEF Types
<1>5. Types'
  BY <1>1, <1>2, <1>3, <1>4 DEF Types
<1>6. \A s \in Slots : PrepareTrue(s)' /\ ReleaseTrue(s)' /\ ClusterTrue(s)'
  BY <1>1, <1>3 DEF ReleaseInv, PrepareTrue, ReleaseTrue, ClusterTrue
<1>7. \A s, t \in Slots : s # t => Exclusive(s, t)'
  BY <1>1 DEF ReleaseInv, Exclusive
<1>8. /\ \A u \in Versions : RecordTrue(u)'
      /\ (\A n \in DOMAIN jobs' : JobTrue(n)') /\ OneMigration'
      /\ LabelsTrue' /\ SchemaFirst'
  BY <1>1 DEF ReleaseInv, RecordTrue, JobTrue, OneMigration, LabelsTrue, SchemaFirst
<1>9. \A o \in Operators : BootTrue(o)'
  BY <1>1 DEF ReleaseInv, BootTrue, planned_annotations
<1> QED
  BY <1>5, <1>6, <1>7, <1>8, <1>9 DEF ReleaseInv

(* A workflow run outside of its deploy job claims nothing about the       *)
(* cluster.                                                                *)
LEMMA NotDeploying ==
    ASSUME NEW t, work'[t].pc \notin Deploying
    PROVE  ClusterTrue(t)'
BY DEF ClusterTrue, Deploying, Gated, Migrated, RolledOut, Complete

(* The concurrency group of the deploy jobs.                               *)
LEMMA OthersNotDeploying ==
    ASSUME ReleaseInv, NEW s \in Slots, work[s].pc \in Deploying, OtherWork(s)
    PROVE  \A t \in Slots \ {s} : work'[t] = work[t] /\ work'[t].pc \notin Deploying
BY DEF ReleaseInv, Exclusive, OtherWork

(* StartMigration keeps the invariant.                                     *)
LEMMA StartMigrationInv ==
    ASSUME ReleaseInv, NEW s \in Slots, StartMigration(s) PROVE ReleaseInv'
<1> DEFINE n == work[s].n
           job == [v |-> work[s].v, state |-> "running"]
<1>1. /\ work[s].pc = "migrate" /\ \A m \in DOMAIN jobs : jobs[m].state # "running"
      /\ jobs' = [jobs EXCEPT ![n] = job] /\ Go(s, "migrating")
      /\ UNCHANGED <<tag, registry, record, live, helm, schema, boot, used>>
  BY DEF StartMigration, At, github
<1>2. /\ Types /\ PrepareTrue(s) /\ ReleaseTrue(s) /\ ClusterTrue(s)
      /\ work[s] \in WorkType /\ used.attempts \in Nat /\ used \in UsedType
  BY TypesNat DEF ReleaseInv, Types
<1>3. job \in JobType /\ job.v = work[s].v /\ job.state = "running"
  BY <1>2 DEF JobType, WorkType
<1>4. n \in 1..MaxAttempts
  <2>1. n \in 1..used.attempts /\ used.attempts \in 0..MaxAttempts
    BY <1>1, <1>2 DEF PrepareTrue, Resting, UsedType
  <2> QED
    BY <2>1, Bounds
<1> HIDE DEF job
<1>5. /\ jobs' \in [1..MaxAttempts -> JobType] /\ jobs'[n] = job
      /\ \A m \in 1..MaxAttempts : m # n => jobs'[m] = jobs[m]
  BY <1>1, <1>2, <1>3, <1>4 DEF Types
<1>6. "migrating" \in Labels /\ "migrating" \in Deploying /\ work[s].pc \in Deploying
      /\ work[s].pc \in Gated /\ work[s].pc \notin Resting /\ "migrating" \notin Preparing
  BY <1>1 DEF Labels, Deploying, Gated, Resting, Preparing
<1>7. /\ work' \in [Slots -> WorkType] /\ OtherWork(s)
      /\ work'[s].pc = "migrating" /\ work'[s].v = work[s].v /\ work'[s].n = n
      /\ work'[s].commit = work[s].commit /\ work'[s].images = work[s].images
      /\ work'[s].source = work[s].source
  BY <1>1, <1>2, <1>6, GoMoves DEF Labels
<1>8. Types'
  BY <1>1, <1>2, <1>5, <1>7 DEF Types
<1>9. AttemptsGrow /\ RecordsKept
  BY <1>1, <1>2 DEF AttemptsGrow, RecordsKept
<1>10. PrepareTrue(s)' /\ ReleaseTrue(s)'
  BY <1>1, <1>2, <1>6, <1>7 DEF PrepareTrue, ReleaseTrue
<1>11. ClusterTrue(s)'
  BY <1>1, <1>2, <1>3, <1>5, <1>6, <1>7 DEF ClusterTrue, Migrated, RolledOut, Complete
<1>12. ASSUME NEW t \in Slots \ {s}
       PROVE  PrepareTrue(t)' /\ ReleaseTrue(t)' /\ ClusterTrue(t)'
  <2>1. work'[t] = work[t] /\ PrepareTrue(t) /\ ReleaseTrue(t)
    BY <1>7 DEF OtherWork, ReleaseInv
  <2>2. work'[t].pc \notin Deploying
    BY <1>6, <1>7, OthersNotDeploying
  <2> QED
    BY <1>1, <1>9, <2>1, <2>2, PrepareKept, ReleaseKept, NotDeploying
<1>13. \A t \in Slots \ {s} : Exclusive(s, t)'
  BY <1>6, <1>7, ExclusiveGo
<1>14. \A t, u \in Slots : t # u => Exclusive(t, u)'
  BY <1>7, <1>13, ExclusivePairs
<1>15. DOMAIN jobs' = 1..MaxAttempts /\ DOMAIN jobs = 1..MaxAttempts
  BY <1>2, <1>5 DEF Types
<1>16. \A m \in DOMAIN jobs' : JobTrue(m)'
  BY <1>1, <1>3, <1>5, <1>15 DEF ReleaseInv, JobTrue
<1>17. OneMigration'
  BY <1>1, <1>5, <1>15 DEF OneMigration
<1>18. (\A u \in Versions : RecordTrue(u)') /\ LabelsTrue' /\ SchemaFirst'
  BY <1>1 DEF ReleaseInv, RecordTrue, LabelsTrue, SchemaFirst
<1>19. \A o \in Operators : BootTrue(o)'
  BY <1>1, <1>9, BootKept DEF ReleaseInv
<1> QED
  BY <1>8, <1>10, <1>11, <1>12, <1>14, <1>16, <1>17, <1>18, <1>19 DEF ReleaseInv

(* The newer of two schemas.                                               *)
LEMMA MaxOfTwo ==
    ASSUME NEW i \in Nat, NEW j \in Nat
    PROVE  /\ Max({i, j}) \in {i, j} /\ Max({i, j}) >= i /\ Max({i, j}) >= j
BY DEF Max

(* The database only gains migrations.                                     *)
LEMMA MigrationEndsInv ==
    ASSUME ReleaseInv, NEW n \in DOMAIN jobs, MigrationEnds(n) PROVE ReleaseInv'
<1>1. Types /\ jobs[n] \in JobType /\ DOMAIN jobs = 1..MaxAttempts /\ schema \in Nat
  BY TypesNat DEF ReleaseInv, Types
<1>2. jobs[n].v \in 0..MaxVersion /\ jobs[n].v \in Nat
  BY <1>1, Bounds DEF JobType
<1>3. PICK state \in {"complete", "failed"} :
        /\ jobs' = [jobs EXCEPT ![n].state = state]
        /\ state = "complete" => jobs[n].v <= schema'
        /\ schema' \in Versions /\ schema' >= schema
  <2>1. CASE schema' = Max({schema, jobs[n].v}) /\ jobs' = [jobs EXCEPT ![n].state = "complete"]
    <3>1. /\ schema' \in {schema, jobs[n].v} /\ schema' >= schema /\ schema' >= jobs[n].v
      BY <1>1, <1>2, <2>1, MaxOfTwo
    <3>2. schema \in 1..MaxVersion
      BY <1>1 DEF Types, Versions
    <3>3. schema' \in Versions
      BY <1>2, <3>1, <3>2, Bounds DEF Versions
    <3> QED
      BY <1>1, <1>2, <2>1, <3>1, <3>3
  <2>2. CASE jobs' = [jobs EXCEPT ![n].state = "failed"] /\ schema' = schema
    BY <1>1, <2>2 DEF Types
  <2> QED
    BY <2>1, <2>2 DEF MigrationEnds
<1>4. UNCHANGED <<tag, registry, record, live, helm, work, boot, used>>
  BY DEF MigrationEnds, github
<1>5. /\ jobs' \in [1..MaxAttempts -> JobType]
      /\ jobs'[n].v = jobs[n].v /\ jobs'[n].state = state
      /\ \A m \in 1..MaxAttempts : m # n => jobs'[m] = jobs[m]
  BY <1>1, <1>3 DEF Types, JobType
<1>6. Types'
  BY <1>1, <1>3, <1>4, <1>5 DEF Types
<1>7. schema' \in Nat
  BY <1>3, Bounds DEF Versions
<1>8. ASSUME NEW t \in Slots
      PROVE  PrepareTrue(t)' /\ ReleaseTrue(t)' /\ ClusterTrue(t)'
  <2>1. PrepareTrue(t) /\ ReleaseTrue(t) /\ ClusterTrue(t) /\ work[t].v \in Nat
        /\ work[t].n \in 0..MaxAttempts /\ used.attempts \in 0..MaxAttempts
    BY <1>1, TypesNat DEF ReleaseInv, Types, WorkType, UsedType
  <2>2. work[t].pc = "migrating" => work[t].n \in 1..MaxAttempts
    BY <2>1, Bounds DEF PrepareTrue, Resting
  <2>3. work[t].pc = "migrating" => jobs'[work[t].n].v = jobs[work[t].n].v
    BY <1>5, <2>2
  <2>4. ClusterTrue(t)'
    BY <1>1, <1>3, <1>4, <1>7, <2>1, <2>3 DEF ClusterTrue
  <2> QED
    BY <1>4, <2>1, <2>4 DEF PrepareTrue, ReleaseTrue
<1>9. \A s, t \in Slots : s # t => Exclusive(s, t)'
  BY <1>4 DEF ReleaseInv, Exclusive
<1>10. \A m \in DOMAIN jobs' : JobTrue(m)'
  <2> SUFFICES ASSUME NEW m \in 1..MaxAttempts PROVE JobTrue(m)'
    BY <1>5
  <2>1. CASE m = n
    BY <1>3, <1>5, <2>1 DEF JobTrue
  <2>2. CASE m # n
    <3>1. JobTrue(m) /\ jobs'[m] = jobs[m] /\ jobs[m] \in JobType
      BY <1>1, <1>5, <2>2 DEF ReleaseInv, Types
    <3>2. jobs[m].v \in Nat
      BY <3>1, Bounds DEF JobType
    <3> QED
      BY <1>1, <1>3, <1>7, <3>1, <3>2 DEF JobTrue
  <2> QED
    BY <2>1, <2>2
<1>11. OneMigration'
  BY <1>1, <1>3, <1>5 DEF ReleaseInv, OneMigration
<1>12. (\A u \in Versions : RecordTrue(u)') /\ LabelsTrue'
  BY <1>4 DEF ReleaseInv, RecordTrue, LabelsTrue
<1>13. SchemaFirst'
  <2> SUFFICES ASSUME NEW r \in Roles PROVE live[r].image.version <= schema'
    BY <1>4 DEF SchemaFirst
  <2>1. live[r].image.version \in Nat /\ live[r].image.version <= schema
    BY <1>1, Bounds DEF Types, Deployment, Images, Versions, ReleaseInv, SchemaFirst
  <2> QED
    BY <1>1, <1>3, <1>7, <2>1
<1>14. \A o \in Operators : BootTrue(o)'
  BY <1>4 DEF ReleaseInv, BootTrue, planned_annotations
<1> QED
  BY <1>6, <1>8, <1>9, <1>10, <1>11, <1>12, <1>13, <1>14 DEF ReleaseInv

-----------------------------------------------------------------------------
(* Steps that change a Deployment                                          *)

(* What one Deployment becomes: true to a record and to the schema.        *)
DocTrue(role, doc) ==
    /\ doc.version # 0 => /\ record[doc.version] # NULL
                          /\ doc.image = record[doc.version].images[role]
                          /\ doc.commit = record[doc.version].commit
    /\ doc.image.version <= schema

(* A Deployment that is replaced by one with true labels, behind its       *)
(* schema, leaves the others alone.                                        *)
LEMMA LiveMoves ==
    ASSUME ReleaseInv, NEW role \in Roles, NEW doc \in Deployment, DocTrue(role, doc),
           live' = [live EXCEPT ![role] = doc], UNCHANGED <<record, jobs, schema>>
    PROVE  /\ live' \in [Roles -> Deployment] /\ live'[role] = doc
           /\ \A r \in Roles : r # role => live'[r] = live[r]
           /\ LabelsTrue' /\ SchemaFirst'
           /\ \A v \in Versions : RecordTrue(v)'
           /\ (\A n \in DOMAIN jobs' : JobTrue(n)') /\ OneMigration'
<1>1. /\ live' \in [Roles -> Deployment] /\ live'[role] = doc
      /\ \A r \in Roles : r # role => live'[r] = live[r]
  BY DEF ReleaseInv, Types
<1>2. LabelsTrue' /\ SchemaFirst'
  <2> SUFFICES ASSUME NEW r \in Roles
               PROVE  DocTrue(r, live'[r])
    BY DEF DocTrue, LabelsTrue, SchemaFirst
  <2>1. CASE r = role
    BY <1>1, <2>1
  <2>2. CASE r # role
    BY <1>1, <2>2 DEF DocTrue, ReleaseInv, LabelsTrue, SchemaFirst
  <2> QED
    BY <2>1, <2>2
<1>3. /\ \A v \in Versions : RecordTrue(v)'
      /\ (\A n \in DOMAIN jobs' : JobTrue(n)') /\ OneMigration'
  BY DEF ReleaseInv, RecordTrue, JobTrue, OneMigration
<1> QED
  BY <1>1, <1>2, <1>3

(* The release that a deploy job delivers after its migration.             *)
LEMMA DeliveredTrue ==
    ASSUME ReleaseInv, NEW s \in Slots, work[s].pc \in Migrated, NEW role \in Roles
    PROVE  /\ Delivered(s, role) \in Deployment /\ DocTrue(role, Delivered(s, role))
           /\ Delivered(s, role).image.version = work[s].v
           /\ work[s].v \in Versions
<1>1. /\ work[s].pc \in Deploying /\ work[s].pc \notin Resting
  BY DEF Migrated, Gated, Deploying, Resting
<1>2. /\ Types /\ PrepareTrue(s) /\ ReleaseTrue(s) /\ ClusterTrue(s)
  BY DEF ReleaseInv
<1>3. /\ work[s].v \in Versions /\ record[work[s].v] # NULL
      /\ work[s].images = record[work[s].v].images
      /\ work[s].commit = record[work[s].v].commit
      /\ work[s].v <= schema
  BY <1>1, <1>2 DEF PrepareTrue, ReleaseTrue, ClusterTrue
<1>4. record[work[s].v] \in Release /\ RecordTrue(work[s].v)
  BY <1>2, <1>3 DEF Types, ReleaseInv
<1>5. /\ work[s].images[role] \in Images /\ work[s].commit \in Commits
      /\ work[s].images[role].version = work[s].v
  BY <1>3, <1>4 DEF Release, RecordTrue
<1>6. /\ Delivered(s, role).image = work[s].images[role]
      /\ Delivered(s, role).version = work[s].v /\ Delivered(s, role).commit = work[s].commit
  BY DeliveredIs
<1>7. Delivered(s, role) \in Deployment
  BY <1>3, <1>5, Bounds DEF Delivered, Deployment
<1> QED
  BY <1>3, <1>5, <1>6, <1>7 DEF DocTrue

(* HelmApply keeps the invariant.                                          *)
LEMMA HelmApplyInv ==
    ASSUME ReleaseInv, NEW s \in Slots, NEW role \in Execution, HelmApply(s, role)
    PROVE  ReleaseInv'
<1> DEFINE doc == Delivered(s, role)
<1>1. /\ work[s].pc = "upgrading" /\ live' = [live EXCEPT ![role] = doc] /\ role \in Roles
      /\ UNCHANGED <<tag, registry, record, helm, schema, jobs, work, boot, used>>
  BY RolesAre DEF HelmApply, At, github
<1>2. /\ work[s].pc \in Migrated /\ work[s].pc \in Deploying /\ work[s].pc \in Gated
      /\ work[s].pc \notin RolledOut /\ work[s].pc \notin Complete
  BY <1>1 DEF Migrated, Gated, Deploying, RolledOut, Complete
<1>3. /\ doc \in Deployment /\ DocTrue(role, doc) /\ doc.version = work[s].v
      /\ work[s].v \in Versions
  BY <1>1, <1>2, DeliveredTrue, DeliveredIs
<1> HIDE DEF doc
<1>4. /\ live' \in [Roles -> Deployment] /\ live'[role] = doc
      /\ \A r \in Roles : r # role => live'[r] = live[r]
      /\ LabelsTrue' /\ SchemaFirst'
      /\ \A v \in Versions : RecordTrue(v)'
      /\ (\A n \in DOMAIN jobs' : JobTrue(n)') /\ OneMigration'
  BY <1>1, <1>3, LiveMoves
<1>5. Types'
  BY <1>1, <1>4 DEF ReleaseInv, Types
<1>6. ClusterTrue(s)'
  <2>1. ClusterTrue(s)
    BY DEF ReleaseInv
  <2>2. work[s].v # 0 /\ work[s].v <= work[s].v
    BY <1>3, Bounds DEF Versions
  <2> QED
    BY <1>1, <1>2, <1>3, <1>4, <2>1, <2>2 DEF ClusterTrue
<1>7. ASSUME NEW t \in Slots PROVE PrepareTrue(t)' /\ ReleaseTrue(t)' /\ ClusterTrue(t)'
  <2>1. t # s => ClusterTrue(t)'
    BY <1>1, <1>2, OthersNotDeploying, NotDeploying DEF OtherWork
  <2> QED
    BY <1>1, <1>6, <2>1 DEF ReleaseInv, PrepareTrue, ReleaseTrue
<1>8. \A t, u \in Slots : t # u => Exclusive(t, u)'
  BY <1>1 DEF ReleaseInv, Exclusive
<1>9. \A o \in Operators : BootTrue(o)'
  BY <1>1 DEF ReleaseInv, BootTrue, planned_annotations
<1> QED
  BY <1>4, <1>5, <1>7, <1>8, <1>9 DEF ReleaseInv

(* ApplyApi keeps the invariant.                                           *)
LEMMA ApplyApiInv ==
    ASSUME ReleaseInv, NEW s \in Slots, ApplyApi(s) PROVE ReleaseInv'
<1> DEFINE doc == Delivered(s, "api")
<1>1. /\ work[s].pc = "apply" /\ live' = [live EXCEPT !["api"] = doc] /\ "api" \in Roles
      /\ Go(s, "verification")
      /\ UNCHANGED <<tag, registry, record, helm, schema, jobs, boot, used>>
  BY RolesAre DEF ApplyApi, At, github
<1>2. /\ work[s].pc \in Migrated /\ work[s].pc \in Deploying /\ work[s].pc \in Gated
      /\ work[s].pc \in RolledOut /\ work[s].pc \notin Resting
      /\ "verification" \in Labels /\ "verification" \in Deploying /\ "verification" \notin Preparing
  BY <1>1 DEF Migrated, Gated, Deploying, RolledOut, Resting, Labels, Preparing
<1>3. /\ doc \in Deployment /\ DocTrue("api", doc) /\ doc.version = work[s].v
      /\ doc.image = work[s].images["api"] /\ work[s].v \in Versions
  BY <1>1, <1>2, DeliveredTrue, DeliveredIs
<1> HIDE DEF doc
<1>4. /\ live' \in [Roles -> Deployment] /\ live'["api"] = doc
      /\ \A r \in Roles : r # "api" => live'[r] = live[r]
      /\ LabelsTrue' /\ SchemaFirst'
      /\ \A v \in Versions : RecordTrue(v)'
      /\ (\A n \in DOMAIN jobs' : JobTrue(n)') /\ OneMigration'
  BY <1>1, <1>3, LiveMoves
<1>5. /\ Types /\ PrepareTrue(s) /\ ReleaseTrue(s) /\ ClusterTrue(s)
      /\ used.attempts \in Nat
  BY TypesNat DEF ReleaseInv
<1>6. /\ work' \in [Slots -> WorkType] /\ OtherWork(s)
      /\ work'[s].pc = "verification" /\ work'[s].v = work[s].v /\ work'[s].n = work[s].n
      /\ work'[s].commit = work[s].commit /\ work'[s].images = work[s].images
      /\ work'[s].source = work[s].source
  BY <1>1, <1>2, <1>5, GoMoves DEF Labels
<1>7. Types'
  BY <1>1, <1>4, <1>5, <1>6 DEF Types
<1>8. AttemptsGrow /\ RecordsKept
  BY <1>1, <1>5 DEF AttemptsGrow, RecordsKept
<1>9. PrepareTrue(s)' /\ ReleaseTrue(s)'
  BY <1>1, <1>2, <1>5, <1>6 DEF PrepareTrue, ReleaseTrue
<1>10. ClusterTrue(s)'
  <2>1. work[s].v # 0 /\ work[s].v <= work[s].v
    BY <1>3, Bounds DEF Versions
  <2>2. \A r \in Execution : r \in Roles /\ r # "api"
    BY RolesAre
  <2> QED
    BY <1>1, <1>2, <1>3, <1>4, <1>5, <1>6, <2>1, <2>2 DEF ClusterTrue
<1>11. ASSUME NEW t \in Slots \ {s}
       PROVE  PrepareTrue(t)' /\ ReleaseTrue(t)' /\ ClusterTrue(t)'
  <2>1. work'[t] = work[t] /\ PrepareTrue(t) /\ ReleaseTrue(t)
    BY <1>6 DEF OtherWork, ReleaseInv
  <2>2. work'[t].pc \notin Deploying
    BY <1>2, <1>6, OthersNotDeploying
  <2> QED
    BY <1>1, <1>8, <2>1, <2>2, PrepareKept, ReleaseKept, NotDeploying
<1>12. \A t \in Slots \ {s} : Exclusive(s, t)'
  BY <1>2, <1>6, ExclusiveGo
<1>13. \A t, u \in Slots : t # u => Exclusive(t, u)'
  BY <1>6, <1>12, ExclusivePairs
<1>14. \A o \in Operators : BootTrue(o)'
  BY <1>1, <1>8, BootKept DEF ReleaseInv
<1> QED
  BY <1>4, <1>7, <1>9, <1>10, <1>11, <1>13, <1>14 DEF ReleaseInv

-----------------------------------------------------------------------------
(* The bootstrap                                                           *)

(* It runs no other image and takes back no label.                         *)
Gentle == \A r \in Roles : /\ live'[r].image = live[r].image
                           /\ live[r].version # 0 => live'[r].version = live[r].version

(* Writing labels undoes nothing that a deploy job has done.               *)
LEMMA GentleKeepsCluster ==
    ASSUME NEW s, ClusterTrue(s), Gentle, UNCHANGED <<jobs, schema, work>>
    PROVE  ClusterTrue(s)'
<1>1. /\ work[s].pc \in RolledOut => work[s].pc \in Gated
      /\ work[s].pc \in Complete => work[s].pc \in Gated
      /\ \A r \in Execution : r \in Roles
      /\ "api" \in Roles
  BY RolesAre DEF RolledOut, Complete, Gated, Deploying
<1> QED
  BY <1>1 DEF ClusterTrue, Gentle

(* The frame of a bootstrap step: it is enough to show what becomes of     *)
(* its operator.                                                           *)
LEMMA BootMoves ==
    ASSUME ReleaseInv, NEW o \in Operators,
           UNCHANGED <<tag, registry, record, helm, schema, jobs, work>>,
           used' \in UsedType, used'.attempts = used.attempts,
           live' \in [Roles -> Deployment], Gentle, LabelsTrue',
           boot' \in [Operators -> BootType],
           \A p \in Operators \ {o} : boot'[p] = boot[p], BootTrue(o)'
    PROVE  ReleaseInv'
<1>1. Types'
  BY DEF ReleaseInv, Types
<1>2. \A s \in Slots : PrepareTrue(s)' /\ ReleaseTrue(s)' /\ ClusterTrue(s)'
  BY GentleKeepsCluster DEF ReleaseInv, PrepareTrue, ReleaseTrue
<1>3. \A t, u \in Slots : t # u => Exclusive(t, u)'
  BY DEF ReleaseInv, Exclusive
<1>4. /\ \A v \in Versions : RecordTrue(v)'
      /\ (\A n \in DOMAIN jobs' : JobTrue(n)') /\ OneMigration'
  BY DEF ReleaseInv, RecordTrue, JobTrue, OneMigration
<1>5. SchemaFirst'
  BY DEF ReleaseInv, SchemaFirst, Gentle
<1>6. \A p \in Operators : BootTrue(p)'
  BY BootKept DEF ReleaseInv, RecordsKept
<1> QED
  BY <1>1, <1>2, <1>3, <1>4, <1>5, <1>6 DEF ReleaseInv

(* An operator who does nothing is an operator.                            *)
LEMMA NoBootIsBoot ==
    /\ NoBoot \in BootType /\ NoBoot.pc = "idle"
    /\ <<>> \in Seq(Deployment) /\ Len(<<>>) = 0
<1>1. <<>> \in Seq(Deployment) /\ Len(<<>>) = 0
  OBVIOUS
<1> HIDE DEF Deployment
<1> QED
  BY <1>1, Bounds, RolesAre DEF NoBoot, BootType

(* Steps that change nothing but the bootstrap itself.                     *)
LEMMA LiveStays ==
    ASSUME ReleaseInv, UNCHANGED <<live, record, used>>
    PROVE  /\ live' \in [Roles -> Deployment] /\ Gentle /\ LabelsTrue'
           /\ used' \in UsedType /\ used'.attempts = used.attempts
BY DEF ReleaseInv, Types, Gentle, LabelsTrue

(* BootStop keeps the invariant.                                           *)
LEMMA BootStopInv ==
    ASSUME ReleaseInv, NEW o \in Operators, BootStop(o) PROVE ReleaseInv'
<1>1. /\ boot' = [boot EXCEPT ![o] = NoBoot]
      /\ UNCHANGED <<tag, registry, record, live, helm, schema, jobs, work, used>>
  BY DEF BootStop, github, cluster
<1>2. /\ boot' \in [Operators -> BootType] /\ boot'[o] = NoBoot
      /\ \A p \in Operators \ {o} : boot'[p] = boot[p]
  BY <1>1, NoBootIsBoot DEF ReleaseInv, Types
<1>3. BootTrue(o)'
  BY <1>2, NoBootIsBoot DEF BootTrue
<1> QED
  BY <1>1, <1>2, <1>3, LiveStays, BootMoves

(* BootStart keeps the invariant.                                          *)
LEMMA BootStartInv ==
    ASSUME ReleaseInv, NEW o \in Operators, NEW v \in Versions, NEW repair \in BOOLEAN,
           BootStart(o, v, repair)
    PROVE  ReleaseInv'
<1> DEFINE new == [pc |-> "read", v |-> v, repair |-> repair, seen |-> <<>>,
                   role |-> "publisher"]
<1>1. /\ record[v] # NULL /\ used' = [used EXCEPT !.boots = @ + 1]
      /\ boot' = [boot EXCEPT ![o] = new]
      /\ UNCHANGED <<tag, registry, record, live, helm, schema, jobs, work>>
  BY DEF BootStart, github, cluster
<1>2. new \in BootType
  BY NoBootIsBoot, Bounds, RolesAre DEF BootType
<1>3. /\ boot' \in [Operators -> BootType] /\ boot'[o] = new
      /\ \A p \in Operators \ {o} : boot'[p] = boot[p]
  BY <1>1, <1>2 DEF ReleaseInv, Types
<1>4. BootTrue(o)'
  BY <1>1, <1>3, NoBootIsBoot DEF BootTrue
<1>5. used' \in UsedType /\ used'.attempts = used.attempts
  BY <1>1 DEF ReleaseInv, Types, UsedType
<1>6. live' \in [Roles -> Deployment] /\ Gentle /\ LabelsTrue'
  BY <1>1 DEF ReleaseInv, Types, Gentle, LabelsTrue
<1> QED
  BY <1>1, <1>3, <1>4, <1>5, <1>6, BootMoves

(* BootRead keeps the invariant.                                           *)
LEMMA BootReadInv ==
    ASSUME ReleaseInv, NEW o \in Operators, BootRead(o) PROVE ReleaseInv'
<1> DEFINE k == Len(boot[o].seen)
           role == RoleOrder[k + 1]
           seen == Append(boot[o].seen, live[role])
           pc == IF role = "worker" THEN "annotate" ELSE boot[o].pc
<1>1. /\ boot[o].pc = "read" /\ planned_annotations(o, role, live[role])
      /\ boot' = [boot EXCEPT ![o].seen = seen, ![o].pc = pc]
      /\ UNCHANGED <<tag, registry, record, live, helm, schema, jobs, work, used>>
  BY DEF BootRead, github, cluster
<1>2. /\ Types /\ BootTrue(o) /\ boot[o] \in BootType
      /\ boot[o].seen \in Seq(Deployment) /\ k \in Nat /\ k < 3
  BY <1>1 DEF ReleaseInv, Types, BootType, BootTrue
<1>3. role \in Roles /\ (role = "worker" <=> k = 2)
  <2> HIDE DEF k
  <2>1. k \in Nat /\ k < 3
    BY <1>2
  <2>2. k = 0 \/ k = 1 \/ k = 2
    BY <2>1
  <2>3. CASE k = 0
    BY <2>3, RolesAre
  <2>4. CASE k = 1
    BY <2>4, RolesAre
  <2>5. CASE k = 2
    BY <2>5, RolesAre
  <2> QED
    BY <2>2, <2>3, <2>4, <2>5
<1>4. live[role] \in Deployment
  BY <1>2, <1>3 DEF Types
<1>5. /\ seen \in Seq(Deployment) /\ Len(seen) = k + 1 /\ seen[k + 1] = live[role]
      /\ \A i \in 1..k : seen[i] = boot[o].seen[i]
  <2> HIDE DEF role, Deployment
  <2> QED
    BY <1>2, <1>4, AppendProperties
<1>6. pc \in {"read", "annotate"} /\ (pc = "annotate" <=> k = 2)
  BY <1>1, <1>3
<1> HIDE DEF seen, pc, Deployment
<1>7. /\ boot' \in [Operators -> BootType]
      /\ boot'[o].pc = pc /\ boot'[o].seen = seen /\ boot'[o].v = boot[o].v
      /\ \A p \in Operators \ {o} : boot'[p] = boot[p]
  BY <1>1, <1>2, <1>5, <1>6 DEF Types, BootType
<1>8. BootTrue(o)'
  <2>1. boot[o].v \in Versions /\ record[boot[o].v] # NULL
    BY <1>1, <1>2 DEF BootTrue
  <2>2. ASSUME NEW i \in 1..k + 1 PROVE planned_annotations(o, RoleOrder[i], seen[i])
    BY <1>1, <1>2, <1>5 DEF BootTrue
  <2>3. ASSUME NEW i \in 1..k + 1
        PROVE  planned_annotations(o, RoleOrder[i], boot[o].seen[i])'
    BY <1>1, <1>7, <2>2 DEF planned_annotations, RoleOrder
  <2>4. Len(boot'[o].seen) = k + 1
    BY <1>5, <1>7
  <2>5. k \in Nat /\ k < 3
    BY <1>2
  <2> HIDE DEF k
  <2>6. k + 1 = 3 <=> pc = "annotate"
    BY <1>6, <2>5
  <2>7. /\ boot'[o].pc = "read" => Len(boot'[o].seen) < 3
        /\ boot'[o].pc \in {"annotate", "release"} => Len(boot'[o].seen) = 3
    BY <1>6, <1>7, <2>4, <2>5, <2>6
  <2>8. \A i \in 1..Len(boot'[o].seen) : planned_annotations(o, RoleOrder[i], boot[o].seen[i])'
    BY <2>3, <2>4
  <2> QED
    BY <1>1, <1>7, <2>1, <2>7, <2>8 DEF BootTrue
<1> QED
  BY <1>1, <1>7, <1>8, LiveStays, BootMoves

(* What the bootstrap writes: the image it saw, with the labels of the     *)
(* record it compares with.                                                *)
LEMMA LabelledIs ==
    ASSUME NEW o, NEW doc \in Deployment
    PROVE  [Labelled(o, doc) EXCEPT !.owner = "bootstrap"] =
             [image |-> doc.image, version |-> boot[o].v,
              commit |-> record[boot[o].v].commit, owner |-> "bootstrap"]
<1> DEFINE v == boot[o].v
           c == record[boot[o].v].commit
<1>1. [doc EXCEPT !.version = v] =
        [image |-> doc.image, version |-> v, commit |-> doc.commit, owner |-> doc.owner]
  BY DEF Deployment
<1> HIDE DEF v, c
<1>2. [[image |-> doc.image, version |-> v, commit |-> doc.commit, owner |-> doc.owner]
         EXCEPT !.commit = c] =
        [image |-> doc.image, version |-> v, commit |-> c, owner |-> doc.owner]
  OBVIOUS
<1>3. [[image |-> doc.image, version |-> v, commit |-> c, owner |-> doc.owner]
         EXCEPT !.owner = "bootstrap"] =
        [image |-> doc.image, version |-> v, commit |-> c, owner |-> "bootstrap"]
  OBVIOUS
<1>4. Labelled(o, doc) = [image |-> doc.image, version |-> v, commit |-> c, owner |-> doc.owner]
  BY <1>1, <1>2, Zenon DEF Labelled, v, c
<1> QED
  BY <1>3, <1>4, Zenon DEF v, c

(* Only the Deployment that was compared with the record is labelled.      *)
LEMMA AnnotateInv ==
    ASSUME ReleaseInv, NEW o \in Operators, NEW role \in Execution, Annotate(o, role)
    PROVE  ReleaseInv' /\ Gentle
<1> DEFINE v == boot[o].v
           doc == boot[o].seen[Position(role)]
           new == [image |-> doc.image, version |-> v, commit |-> record[v].commit,
                   owner |-> "bootstrap"]
<1>1. /\ boot[o].pc = "annotate" /\ boot' = [boot EXCEPT ![o].pc = "release"]
      /\ \/ UNCHANGED live
         \/ /\ live[role] = doc
            /\ live' = [live EXCEPT ![role] = [Labelled(o, doc) EXCEPT !.owner = "bootstrap"]]
      /\ UNCHANGED <<tag, registry, record, helm, schema, jobs, work, used>>
  BY DEF Annotate, github
<1>2. /\ Types /\ BootTrue(o) /\ boot[o] \in BootType /\ LabelsTrue /\ SchemaFirst
  BY DEF ReleaseInv, Types
<1>3. /\ v \in Versions /\ record[v] # NULL /\ boot[o].seen \in Seq(Deployment)
      /\ Len(boot[o].seen) = 3
      /\ \A i \in 1..3 : planned_annotations(o, RoleOrder[i], boot[o].seen[i])
  BY <1>1, <1>2 DEF BootTrue, BootType
<1>4. /\ Position(role) \in 1..3 /\ RoleOrder[Position(role)] = role /\ role \in Roles
  BY RolesAre DEF Position
<1>5. /\ doc.image = record[v].images[role] /\ doc.version \in {0, v}
  <2>1. planned_annotations(o, role, doc)
    BY <1>3, <1>4
  <2> QED
    BY <2>1 DEF planned_annotations
<1>6. /\ boot' \in [Operators -> BootType]
      /\ boot'[o].pc = "release" /\ boot'[o].seen = boot[o].seen /\ boot'[o].v = v
      /\ \A p \in Operators \ {o} : boot'[p] = boot[p]
  <2>1. boot \in [Operators -> BootType]
    BY <1>2 DEF Types
  <2>2. boot' = [boot EXCEPT ![o].pc = "release"]
    BY <1>1
  <2> QED
    BY <2>1, <2>2 DEF BootType
<1>7. BootTrue(o)'
  <2>1. record' = record
    BY <1>1
  <2>2. \A i \in 1..3 : planned_annotations(o, RoleOrder[i], boot[o].seen[i])'
    BY <1>3, <1>6, <2>1 DEF planned_annotations
  <2> QED
    BY <1>3, <1>6, <2>1, <2>2 DEF BootTrue
<1>8. CASE UNCHANGED live
  BY <1>1, <1>6, <1>7, <1>8, LiveStays, BootMoves
<1>9. CASE /\ live[role] = doc
           /\ live' = [live EXCEPT ![role] = [Labelled(o, doc) EXCEPT !.owner = "bootstrap"]]
  <2>1. doc \in Deployment
    BY <1>2, <1>4, <1>9 DEF Types
  <2>2. [Labelled(o, doc) EXCEPT !.owner = "bootstrap"] = new
    <3> HIDE DEF doc
    <3> QED
      BY <2>1, LabelledIs
  <2>3. live' = [live EXCEPT ![role] = new]
    BY <1>9, <2>2, Zenon
  <2>4. record[v] \in Release
    BY <1>2, <1>3 DEF Types
  <2>5. record[v].commit \in Commits /\ doc.image \in Images
    BY <2>1, <2>4 DEF Release, Deployment
  <2>6. /\ new.image = doc.image /\ new.version = v /\ new.commit = record[v].commit
    OBVIOUS
  <2>7. new \in Deployment
    <3> HIDE DEF doc
    <3> QED
      BY <1>3, <2>5, Bounds DEF Deployment
  <2> HIDE DEF new
  <2>8. doc.image.version <= schema
    BY <1>2, <1>4, <1>9 DEF SchemaFirst
  <2>9. DocTrue(role, new)
    BY <1>3, <1>5, <2>6, <2>8 DEF DocTrue
  <2>10. /\ live' \in [Roles -> Deployment] /\ live'[role] = new
         /\ \A r \in Roles : r # role => live'[r] = live[r]
         /\ LabelsTrue'
    BY <1>1, <1>4, <2>3, <2>7, <2>9, LiveMoves
  <2>11. Gentle
    BY <1>5, <1>9, <2>6, <2>10 DEF Gentle
  <2>12. used' \in UsedType /\ used'.attempts = used.attempts
    BY <1>1, <1>2 DEF Types
  <2> QED
    BY <1>1, <1>6, <1>7, <2>10, <2>11, <2>12, BootMoves
<1> QED
  BY <1>1, <1>8, <1>9

(* Giving the labels back to Helm keeps the invariant and changes no       *)
(* image.                                                                  *)
LEMMA ReleaseOwnershipInv ==
    ASSUME ReleaseInv, NEW o \in Operators, NEW role \in Execution, ReleaseOwnership(o, role)
    PROVE  ReleaseInv' /\ Gentle
<1>1. /\ boot[o].pc = "release" /\ live' = [live EXCEPT ![role].owner = "helm"]
      /\ boot' = [boot EXCEPT ![o] = IF role = "worker" THEN NoBoot
                                     ELSE [@ EXCEPT !.pc = "annotate", !.role = "worker"]]
      /\ role \in Roles
      /\ UNCHANGED <<tag, registry, record, helm, schema, jobs, work, used>>
  BY RolesAre DEF ReleaseOwnership, github
<1>2. /\ Types /\ BootTrue(o) /\ LabelsTrue
  BY DEF ReleaseInv
<1>3. /\ live' \in [Roles -> Deployment]
      /\ \A r \in Roles : /\ live'[r].image = live[r].image
                          /\ live'[r].version = live[r].version
                          /\ live'[r].commit = live[r].commit
  <2>1. \A r \in Roles : live[r] \in Deployment
    BY <1>2 DEF Types
  <2> QED
    BY <1>1, <1>2 DEF Types, Deployment
<1>4. Gentle /\ LabelsTrue'
  BY <1>1, <1>2, <1>3 DEF Gentle, LabelsTrue
<1>5. used' \in UsedType /\ used'.attempts = used.attempts
  BY <1>1, <1>2 DEF Types
<1>6. CASE role = "worker"
  <2>1. boot' = [boot EXCEPT ![o] = NoBoot]
    BY <1>1, <1>6
  <2>2. /\ boot' \in [Operators -> BootType] /\ boot'[o] = NoBoot
        /\ \A p \in Operators \ {o} : boot'[p] = boot[p]
    BY <1>2, <2>1, NoBootIsBoot DEF Types
  <2>3. BootTrue(o)'
    BY <2>2, NoBootIsBoot DEF BootTrue
  <2> QED
    BY <1>1, <1>3, <1>4, <1>5, <2>2, <2>3, BootMoves
<1>7. CASE role # "worker"
  <2>1. boot' = [boot EXCEPT ![o] = [@ EXCEPT !.pc = "annotate", !.role = "worker"]]
    BY <1>1, <1>7
  <2>2. /\ boot' \in [Operators -> BootType]
        /\ boot'[o].pc = "annotate" /\ boot'[o].seen = boot[o].seen /\ boot'[o].v = boot[o].v
        /\ \A p \in Operators \ {o} : boot'[p] = boot[p]
    BY <1>2, <2>1, RolesAre DEF Types, BootType
  <2>3. BootTrue(o)'
    BY <1>1, <1>2, <2>2 DEF BootTrue, planned_annotations
  <2> QED
    BY <1>1, <1>3, <1>4, <1>5, <2>2, <2>3, BootMoves
<1> QED
  BY <1>6, <1>7

-----------------------------------------------------------------------------
(* The invariant                                                           *)

(* The invariant holds before the first workflow run.                      *)
LEMMA InitReleaseInv == Init => ReleaseInv
<1> SUFFICES ASSUME Init PROVE ReleaseInv
  OBVIOUS
<1> DEFINE first == Image(1, FirstCommit, 0)
           rec == [commit |-> FirstCommit, images |-> [r \in Roles |-> first]]
<1>1. /\ first \in Images /\ first.version = 1 /\ first.commit = FirstCommit
  BY Bounds, ImageIs
<1>2. /\ registry = [r \in Roles |-> [v \in Versions |-> IF v = 1 THEN first ELSE NULL]]
      /\ record = [v \in Versions |-> IF v > 1 THEN NULL ELSE rec]
      /\ tag = [v \in Versions |-> FirstCommit] /\ helm = "deployed" /\ schema = 1
      /\ jobs = [n \in 1..MaxAttempts |-> [v |-> 0, state |-> "none"]]
      /\ work = [s \in Slots |-> NoWork] /\ boot = [o \in Operators |-> NoBoot]
      /\ used = [attempts |-> 0, moves |-> 0, boots |-> 0]
  BY DEF Init
<1>3. PICK labelled \in BOOLEAN, owned \in BOOLEAN :
        live = [r \in Roles |->
            [image |-> first,
             version |-> IF r = "api" \/ labelled THEN 1 ELSE 0,
             commit |-> IF r = "api" \/ labelled THEN FirstCommit ELSE NULL,
             owner |-> IF r = "api" \/ ~labelled \/ owned THEN "helm" ELSE "bootstrap"]]
  BY DEF Init
<1> HIDE DEF first
<1>4. /\ rec \in Release /\ rec # NULL /\ rec.commit = FirstCommit
      /\ \A r \in Roles : rec.images[r] = first
  BY <1>1, Bounds, RecordsAreNotNull DEF Release
<1> HIDE DEF rec
<1>5. record \in [Versions -> Release \cup {NULL}] /\ record[1] = rec
      /\ \A v \in Versions : record[v] # NULL => record[v] = rec /\ v = 1
  BY <1>2, <1>4, Bounds DEF Versions
<1>6. ASSUME NEW r \in Roles
      PROVE  /\ live[r] \in Deployment /\ live[r].image = first
             /\ live[r].version \in {0, 1}
             /\ live[r].version # 0 => live[r].version = 1 /\ live[r].commit = FirstCommit
  <2> DEFINE ver == IF r = "api" \/ labelled THEN 1 ELSE 0
             com == IF r = "api" \/ labelled THEN FirstCommit ELSE NULL
             own == IF r = "api" \/ ~labelled \/ owned THEN "helm" ELSE "bootstrap"
  <2>1. live[r] = [image |-> first, version |-> ver, commit |-> com, owner |-> own]
    BY <1>3
  <2>2. /\ ver \in {0, 1} /\ com \in Commits \cup {NULL} /\ own \in {"helm", "bootstrap"}
        /\ ver # 0 => ver = 1 /\ com = FirstCommit
    BY Bounds
  <2> HIDE DEF ver, com, own
  <2> QED
    BY <1>1, <2>1, <2>2, Bounds DEF Deployment, Versions
<1>7. live \in [Roles -> Deployment]
  <2>1. live = [r \in Roles |-> live[r]]
    BY <1>3
  <2> QED
    BY <1>6, <2>1
<1>8. jobs \in [1..MaxAttempts -> JobType] /\ \A n \in DOMAIN jobs : jobs[n].state = "none"
  BY <1>2, Bounds DEF JobType
<1>9. Types
  <2>1. registry \in [Roles -> [Versions -> Images \cup {NULL}]]
    BY <1>1, <1>2
  <2>2. used \in UsedType /\ tag \in [Versions -> Commits] /\ schema \in Versions
    BY <1>2, Bounds DEF UsedType
  <2> QED
    BY <1>2, <1>5, <1>7, <1>8, <2>1, <2>2, NoWorkIsWork, NoBootIsBoot DEF Types
<1>10. \A v \in Versions : RecordTrue(v)
  BY <1>1, <1>4, <1>5 DEF RecordTrue
<1>11. ASSUME NEW s \in Slots PROVE PrepareTrue(s) /\ ReleaseTrue(s) /\ ClusterTrue(s)
  <2>1. work[s].pc = "idle"
    BY <1>2, NoWorkIsWork
  <2> QED
    BY <2>1 DEF PrepareTrue, ReleaseTrue, ClusterTrue, Resting, Deploying, Gated, Migrated,
                RolledOut, Complete
<1>12. ASSUME NEW s \in Slots, NEW t \in Slots PROVE Exclusive(s, t)
  <2>1. work[s].pc = "idle"
    BY <1>2, NoWorkIsWork
  <2> QED
    BY <2>1 DEF Exclusive, Resting, Preparing, Deploying
<1>13. (\A n \in DOMAIN jobs : JobTrue(n)) /\ OneMigration
  BY <1>8 DEF JobTrue, OneMigration
<1>14. \A o \in Operators : BootTrue(o)
  BY <1>2, NoBootIsBoot DEF BootTrue
<1>15. LabelsTrue /\ SchemaFirst
  BY <1>1, <1>2, <1>4, <1>5, <1>6 DEF LabelsTrue, SchemaFirst
<1> QED
  BY <1>9, <1>10, <1>11, <1>12, <1>13, <1>14, <1>15 DEF ReleaseInv

(* A step that leaves registry, cluster and actors alone keeps the         *)
(* invariant.                                                              *)
LEMMA StutterReleaseInv ==
    ASSUME ReleaseInv, UNCHANGED <<github, cluster, work, boot, used>>
    PROVE  ReleaseInv'
<1>1. Types'
  BY DEF ReleaseInv, Types, github, cluster
<1>2. \A s \in Slots : PrepareTrue(s)' /\ ReleaseTrue(s)' /\ ClusterTrue(s)'
  BY DEF ReleaseInv, PrepareTrue, ReleaseTrue, ClusterTrue, github, cluster
<1>3. \A t, u \in Slots : t # u => Exclusive(t, u)'
  BY DEF ReleaseInv, Exclusive
<1>4. /\ \A v \in Versions : RecordTrue(v)'
      /\ (\A n \in DOMAIN jobs' : JobTrue(n)') /\ OneMigration'
      /\ LabelsTrue' /\ SchemaFirst'
  BY DEF ReleaseInv, RecordTrue, JobTrue, OneMigration, LabelsTrue, SchemaFirst, github, cluster
<1>5. \A o \in Operators : BootTrue(o)'
  BY DEF ReleaseInv, BootTrue, planned_annotations, github
<1> QED
  BY <1>1, <1>2, <1>3, <1>4, <1>5 DEF ReleaseInv

(* Every step of a workflow run keeps the invariant.                       *)
LEMMA WorkflowInv ==
    ASSUME ReleaseInv, NEW s \in Slots, Workflow(s) PROVE ReleaseInv'
BY CheckoutInv, DiscoverInv, PreflightStepInv, PushInv, SaveRecordInv, ValidateInv,
   StartDeployInv, RejectOlderInv, GateInv, StartMigrationInv, AwaitMigrationInv,
   HelmUpgradeInv, HelmApplyInv, HelmReportsInv, VerifyInv, ApplyApiInv,
   CreateVerificationInv, AwaitVerificationInv, StopInv, Zenon
   DEF Workflow

(* Every step of a bootstrap keeps the invariant.                          *)
LEMMA BootstrapInv ==
    ASSUME ReleaseInv, NEW o \in Operators, Bootstrap(o) PROVE ReleaseInv'
BY BootStartInv, BootReadInv, AnnotateInv, ReleaseOwnershipInv, BootStopInv, Zenon
   DEF Bootstrap

(* Every step keeps the invariant.                                         *)
LEMMA NextReleaseInv ==
    ASSUME ReleaseInv, [Next]_vars PROVE ReleaseInv'
<1>1. CASE Next
  BY <1>1, MoveTagInv, WorkflowInv, MigrationEndsInv, BootstrapInv, StutterReleaseInv, Zenon
     DEF Next
<1>2. CASE UNCHANGED vars
  BY <1>2, StutterReleaseInv DEF vars
<1> QED
  BY <1>1, <1>2

(* The check is started by one step, forgotten by two, and otherwise moves *)
(* alone or stays.                                                         *)
LEMMA NextCheckInv ==
    ASSUME CheckInv, [Next]_vars PROVE CheckInv'
<1> SUFFICES CheckNext \/ StartCheck \/ ForgetCheck \/ UNCHANGED checkVars
  BY CheckStepInv
<1>1. CASE Next
  <2>1. ASSUME NEW v \in Versions, MoveTag(v) PROVE UNCHANGED checkVars
    BY <2>1 DEF MoveTag
  <2>2. ASSUME NEW s \in Slots, Workflow(s)
        PROVE  StartCheck \/ ForgetCheck \/ UNCHANGED checkVars
    BY <2>2, Zenon DEF Workflow, Checkout, discover, PreflightStep, Push, SaveRecord, Validate,
       StartDeploy, RejectOlder, Gate, StartMigration, AwaitMigration, HelmUpgrade, HelmApply,
       HelmReports, Verify, ApplyApi, CreateVerification, AwaitVerification, Stop
  <2>3. ASSUME NEW n \in DOMAIN jobs, MigrationEnds(n) PROVE UNCHANGED checkVars
    BY <2>3 DEF MigrationEnds
  <2>4. ASSUME NEW o \in Operators, Bootstrap(o) PROVE UNCHANGED checkVars
    BY <2>4, Zenon DEF Bootstrap, BootStart, BootRead, Annotate, ReleaseOwnership, BootStop
  <2> QED
    BY <1>1, <2>1, <2>2, <2>3, <2>4 DEF Next
<1>2. CASE UNCHANGED vars
  BY <1>2 DEF vars
<1> QED
  BY <1>1, <1>2

(* The inductive invariant of workflow runs, deliveries and bootstraps     *)
(* (publish-image.yml and the scripts it runs).                            *)
THEOREM ReleaseInvariant == Spec => [](ReleaseInv /\ CheckInv)
<1>1. Init => ReleaseInv /\ CheckInv
  BY InitReleaseInv, InitCheckInv DEF Init
<1>2. (ReleaseInv /\ CheckInv) /\ [Next]_vars => (ReleaseInv /\ CheckInv)'
  BY NextReleaseInv, NextCheckInv
<1> QED
  BY <1>1, <1>2, PTL DEF Spec

(* The verdict of deployment_check.py is the truth about its run, although *)
(* the run moves between the statements of show.                           *)
THEOREM VerdictIsTrue == Spec => []VerdictTrue
<1>1. CheckInv => VerdictTrue
  BY DEF CheckInv
<1> QED
  BY <1>1, ReleaseInvariant, PTL

-----------------------------------------------------------------------------
(* What is live, and where deliveries go                                   *)

(* One migration at a time, as a count.                                    *)
LEMMA OneJobCounted ==
    ASSUME OneMigration
    PROVE  Cardinality({n \in DOMAIN jobs : jobs[n].state = "running"}) <= 1
<1> DEFINE running == {n \in DOMAIN jobs : jobs[n].state = "running"}
<1>1. CASE running = {}
  BY <1>1, FS_EmptySet
<1>2. CASE running # {}
  <2>1. PICK n : n \in running
    BY <1>2
  <2>2. running = {n}
    BY <2>1 DEF OneMigration
  <2> HIDE DEF running
  <2> QED
    BY <2>2, FS_Singleton DEF running
<1> QED
  BY <1>1, <1>2

(* The invariant includes the types.                                       *)
LEMMA InvTypes == ReleaseInv /\ CheckInv => TypeOK
<1> SUFFICES ASSUME ReleaseInv, CheckInv PROVE TypeOK
  OBVIOUS
<1>1. CheckTypeOK
  <2>1. check.read \in 0..Len(ShowOrder) - 1
    BY ShowOrderIs DEF CheckInv
  <2>2. check.seen \in [status : Lifecycle!Phases, artifacts : 0..1,
                        published : SUBSET {"run.requested", "run.succeeded", "run.failed"}]
    BY DEF CheckInv, EventTypes
  <2> QED
    BY <2>1, <2>2 DEF CheckInv, CheckTypeOK
<1>2. Cardinality({n \in DOMAIN jobs : jobs[n].state = "running"}) <= 1
  BY OneJobCounted DEF ReleaseInv
<1>3. \A s \in Slots : /\ work[s].v \in 0..MaxVersion /\ work[s].n \in 0..MaxAttempts
                       /\ work[s].pc \in Preparing \cup Deploying \cup {"idle", "waiting", "done"}
  BY TypesNat DEF ReleaseInv, WorkType
<1> QED
  BY <1>1, <1>2, <1>3 DEF TypeOK, ReleaseInv, Types

(* What is live was built from what was checked out.                       *)
LEMMA InvSource == ReleaseInv => DeploysCheckedOutSource
<1> SUFFICES ASSUME ReleaseInv, NEW s \in Slots, work[s].pc \in Deploying, NEW r \in Roles
             PROVE  work[s].images[r].commit = work[s].source
  BY DEF DeploysCheckedOutSource
<1>1. work[s].v \in Versions /\ ReleaseTrue(s)
  BY DEF ReleaseInv, PrepareTrue, Deploying, Resting
<1>2. RecordTrue(work[s].v)
  BY <1>1 DEF ReleaseInv
<1> QED
  BY <1>1, <1>2 DEF ReleaseTrue, RecordTrue

(* What is live is what was meant, whichever workflow runs and bootstraps  *)
(* meet in the cluster and wherever they die: labels that tell the truth,  *)
(* migrations before the code that needs them, and one at a time           *)
(* (publish-image.yml, execution_delivery.py).                             *)
THEOREM LiveStaysTrue == Spec => []LiveIsTrue
<1>1. ReleaseInv /\ CheckInv => LiveIsTrue
  BY InvTypes, InvSource DEF LiveIsTrue, ReleaseInv
<1> QED
  BY <1>1, ReleaseInvariant, PTL

(* Only a push writes to the registry, and only where nothing is.          *)
LEMMA PushedOnce ==
    ASSUME ReleaseInv, NEW s \in Slots, Push(s) PROVE TagsImmutable
<1> DEFINE k == Len(work[s].images)
           v == work[s].v
           image == Image(v, work[s].source, work[s].n)
<1>1. /\ work[s].pc = "push"
      /\ registry' = [registry EXCEPT ![RoleOrder[k + 1]][v] = image]
  BY DEF Push, At
<1>2. /\ k \in Nat /\ k < 3 /\ registry[RoleOrder[k + 1]][v] = NULL
      /\ registry \in [Roles -> [Versions -> Images \cup {NULL}]]
  <2>1. PrepareTrue(s) /\ Types
    BY DEF ReleaseInv
  <2>2. k \in Nat /\ k < 3
    BY <1>1, <2>1 DEF PrepareTrue
  <2> QED
    BY <1>1, <2>1, <2>2 DEF PrepareTrue, Types
<1> HIDE DEF k, v, image
<1> SUFFICES ASSUME NEW r \in Roles, NEW w \in Versions, registry[r][w] # NULL
             PROVE  registry'[r][w] = registry[r][w]
  BY DEF TagsImmutable
<1> QED
  BY <1>1, <1>2

(* A Deployment that has passed the gate of a release runs an older image, *)
(* or the same.                                                            *)
LEMMA GatedIsOlder ==
    ASSUME ReleaseInv, NEW s \in Slots, work[s].pc \in Gated, NEW r \in Roles
    PROVE  /\ live[r].version \in Nat /\ live[r].image.version = live[r].version
           /\ live[r].version <= work[s].v
           /\ Delivered(s, r).image.version = work[s].v /\ Delivered(s, r).version = work[s].v
<1>1. ClusterTrue(s) /\ ReleaseTrue(s) /\ PrepareTrue(s) /\ LabelsTrue /\ Types
  BY DEF ReleaseInv
<1>2. /\ live[r].version # 0 /\ live[r].version <= work[s].v
      /\ live[r].version \in 0..MaxVersion
  BY <1>1 DEF ClusterTrue, Types, Deployment
<1>3. live[r].version \in Versions
  BY <1>2, Bounds DEF Versions
<1>4. RecordTrue(live[r].version)
  BY <1>3 DEF ReleaseInv
<1>5. live[r].image.version = live[r].version
  BY <1>1, <1>2, <1>4 DEF LabelsTrue, RecordTrue
<1>6. work[s].pc \in Deploying /\ work[s].pc \notin Resting
  BY DEF Gated, Deploying, Resting
<1>7. RecordTrue(work[s].v)
  BY <1>1, <1>6 DEF ReleaseInv, PrepareTrue
<1>8. work[s].images[r].version = work[s].v
  BY <1>1, <1>6, <1>7 DEF ReleaseTrue, RecordTrue
<1> QED
  BY <1>2, <1>5, <1>8, Bounds, DeliveredIs

(* Gate and migration let a release only go forward; the bootstrap changes *)
(* no image and no label that is there.                                    *)
LEMMA DeliveredForward ==
    ASSUME ReleaseInv, NEW s \in Slots, work[s].pc \in Gated, NEW role \in Roles,
           live' = [live EXCEPT ![role] = Delivered(s, role)]
    PROVE  NoDowngrade
<1>1. live \in [Roles -> Deployment]
  BY DEF ReleaseInv, Types
<1>2. \A r \in Roles : /\ live[r].image.version \in Nat /\ live[r].version \in Nat
  BY GatedIsOlder
<1>3. live'[role] = Delivered(s, role) /\ \A r \in Roles : r # role => live'[r] = live[r]
  BY <1>1
<1> SUFFICES ASSUME NEW r \in Roles
             PROVE  /\ live'[r].image.version >= live[r].image.version
                    /\ live'[r].version >= live[r].version
  BY DEF NoDowngrade
<1>4. CASE r = role
  BY <1>3, <1>4, GatedIsOlder
<1>5. CASE r # role
  BY <1>2, <1>3, <1>5
<1> QED
  BY <1>4, <1>5

(* Writing labels takes no service back.                                   *)
LEMMA GentleForward ==
    ASSUME ReleaseInv, ReleaseInv', Gentle PROVE NoDowngrade
<1> SUFFICES ASSUME NEW r \in Roles
             PROVE  /\ live'[r].image.version >= live[r].image.version
                    /\ live'[r].version >= live[r].version
  BY DEF NoDowngrade
<1>1. /\ live[r] \in Deployment /\ live'[r] \in Deployment
  BY DEF ReleaseInv, Types
<1>2. /\ live[r].image.version \in Nat /\ live[r].version \in Nat /\ live'[r].version \in Nat
  BY <1>1, Bounds DEF Deployment, Images, Versions
<1> QED
  BY <1>2 DEF Gentle

(* Nor does a step that leaves the Deployments alone.                      *)
LEMMA NothingDelivered ==
    ASSUME ReleaseInv, UNCHANGED live PROVE NoDowngrade
<1> SUFFICES ASSUME NEW r \in Roles
             PROVE  /\ live'[r].image.version >= live[r].image.version
                    /\ live'[r].version >= live[r].version
  BY DEF NoDowngrade
<1>1. live[r] \in Deployment
  BY DEF ReleaseInv, Types
<1> QED
  BY <1>1, Bounds DEF Deployment, Images, Versions

(* A step that leaves the registry alone moves no tag.                     *)
LEMMA NothingPushed ==
    ASSUME UNCHANGED registry PROVE TagsImmutable
BY DEF TagsImmutable

(* No step of a workflow run rewrites a tag or takes a service back.       *)
LEMMA WorkflowForward ==
    ASSUME ReleaseInv, NEW s \in Slots, Workflow(s) PROVE TagsImmutable /\ NoDowngrade
<1>1. CASE Push(s)
  BY <1>1, PushedOnce, NothingDelivered DEF Push, cluster
<1>2. ASSUME NEW r \in Execution, HelmApply(s, r) PROVE TagsImmutable /\ NoDowngrade
  <2>1. work[s].pc \in Gated /\ r \in Roles
    BY <1>2, RolesAre DEF HelmApply, At, Gated, Deploying
  <2> QED
    BY <1>2, <2>1, DeliveredForward, NothingPushed DEF HelmApply, github
<1>3. CASE ApplyApi(s)
  <2>1. work[s].pc \in Gated /\ "api" \in Roles
    BY <1>3, RolesAre DEF ApplyApi, At, Gated, Deploying
  <2> QED
    BY <1>3, <2>1, DeliveredForward, NothingPushed DEF ApplyApi, github
<1>4. CASE UNCHANGED registry /\ UNCHANGED live
  BY <1>4, NothingDelivered, NothingPushed
<1> QED
  BY <1>1, <1>2, <1>3, <1>4, Zenon
     DEF Workflow, Checkout, discover, PreflightStep, SaveRecord, Validate, StartDeploy,
         RejectOlder, Gate, StartMigration, AwaitMigration, HelmUpgrade, HelmReports, Verify,
         CreateVerification, AwaitVerification, Stop, github, cluster

(* No step of a bootstrap does.                                            *)
LEMMA BootstrapForward ==
    ASSUME ReleaseInv, NEW o \in Operators, Bootstrap(o) PROVE TagsImmutable /\ NoDowngrade
<1>1. ASSUME NEW r \in Execution, Annotate(o, r) \/ ReleaseOwnership(o, r)
      PROVE  TagsImmutable /\ NoDowngrade
  <2>1. UNCHANGED registry
    BY <1>1 DEF Annotate, ReleaseOwnership, github
  <2> QED
    BY <1>1, <2>1, AnnotateInv, ReleaseOwnershipInv, GentleForward, NothingPushed
<1>2. CASE UNCHANGED registry /\ UNCHANGED live
  BY <1>2, NothingDelivered, NothingPushed
<1> QED
  BY <1>1, <1>2, Zenon DEF Bootstrap, BootStart, BootRead, BootStop, github, cluster

(* Success is reported only after the check, which only runs after the     *)
(* rollout of all three services.                                          *)
LEMMA DoneAfterCheck ==
    ASSUME ReleaseInv, NEW s \in Slots, Workflow(s)
    PROVE  /\ OtherWork(s)
           /\ work'[s].pc = "done" => work[s].pc \in {"checking", "done"}
<1>1. Types /\ work \in [Slots -> WorkType]
  BY DEF ReleaseInv, Types
<1>2. ASSUME NEW pc \in Labels \ {"done"}, Go(s, pc)
      PROVE  OtherWork(s) /\ work'[s].pc # "done"
  BY <1>1, <1>2, GoMoves DEF Labels
<1>3. /\ {"publish", "push", "validate", "waiting"} \subseteq Labels \ {"done"}
      /\ Deploying \subseteq Labels \ {"done"}
  BY DEF Labels, Preparing, Deploying
<1>4. ASSUME NEW w, w.pc # "done", work' = [work EXCEPT ![s] = w]
      PROVE  OtherWork(s) /\ work'[s].pc # "done"
  BY <1>1, <1>4 DEF OtherWork
<1>5. CASE \/ PreflightStep(s) \/ SaveRecord(s) \/ Validate(s) \/ StartDeploy(s)
           \/ RejectOlder(s) \/ Gate(s) \/ StartMigration(s) \/ AwaitMigration(s)
           \/ HelmUpgrade(s) \/ Verify(s) \/ ApplyApi(s) \/ CreateVerification(s)
  <2>1. \E pc \in {"publish", "push", "validate", "waiting"} \cup Deploying : Go(s, pc)
    BY <1>5 DEF PreflightStep, SaveRecord, Validate, StartDeploy, RejectOlder, Gate,
       StartMigration, AwaitMigration, HelmUpgrade, Verify, ApplyApi, CreateVerification, Deploying
  <2> QED
    BY <1>2, <1>3, <2>1
<1>6. CASE HelmReports(s) \/ Stop(s)
  <2>1. Go(s, "verify") \/ work' = [work EXCEPT ![s] = NoWork]
    BY <1>6 DEF HelmReports, Stop
  <2>2. "verify" \in Deploying
    BY DEF Deploying
  <2> QED
    BY <1>2, <1>3, <1>4, <2>1, <2>2, NoWorkIsWork
<1>7. CASE AwaitVerification(s)
  BY <1>1, <1>7 DEF AwaitVerification, At, OtherWork
<1>8. ASSUME NEW r \in Execution, HelmApply(s, r)
      PROVE  OtherWork(s) /\ work'[s].pc = "upgrading"
  BY <1>8 DEF HelmApply, At, OtherWork
<1>9. CASE discover(s)
  <2> DEFINE found == record[work[s].v]
  <2>1. work' = [work EXCEPT ![s] =
           IF found = NULL THEN [@ EXCEPT !.pc = "preflight"]
           ELSE [@ EXCEPT !.pc = "validate", !.commit = found.commit, !.images = found.images]]
    BY <1>9 DEF discover
  <2> HIDE DEF found
  <2> QED
    BY <1>1, <2>1 DEF OtherWork, WorkType
<1>10. CASE Push(s)
  <2> DEFINE image == Image(work[s].v, work[s].source, work[s].n)
             pushed == Append(work[s].images, image)
  <2>1. /\ work[s].pc = "push"
        /\ work' = [work EXCEPT ![s] =
               IF Len(pushed) < Len(RoleOrder) THEN [@ EXCEPT !.images = pushed]
               ELSE [@ EXCEPT !.pc = "save", !.commit = work[s].source,
                              !.images = [r \in Roles |-> image]]]
    BY <1>10 DEF Push, At
  <2> HIDE DEF image, pushed
  <2> QED
    BY <1>1, <2>1 DEF OtherWork, WorkType
<1>11. ASSUME NEW v \in Versions, Checkout(s, v)
       PROVE  OtherWork(s) /\ work'[s].pc = "discover"
  <2> DEFINE n == used.attempts + 1
  <2>1. work' = [work EXCEPT ![s] =
          [NoWork EXCEPT !.pc = "discover", !.v = v, !.n = n, !.source = tag[v]]]
    BY <1>11 DEF Checkout
  <2> HIDE DEF n
  <2>2. [NoWork EXCEPT !.pc = "discover", !.v = v, !.n = n, !.source = tag[v]].pc = "discover"
    BY DEF NoWork
  <2> QED
    BY <1>1, <2>1, <2>2 DEF OtherWork
<1> QED
  BY <1>5, <1>6, <1>7, <1>8, <1>9, <1>10, <1>11, "upgrading" # "done", "discover" # "done", Zenon
     DEF Workflow

(* A workflow run succeeds only with everything of its release live.       *)
LEMMA WorkflowCompletes ==
    ASSUME ReleaseInv, NEW s \in Slots, Workflow(s) PROVE SuccessIsComplete
<1> SUFFICES ASSUME NEW t \in Slots, work[t].pc # "done", work'[t].pc = "done", NEW r \in Roles
             PROVE  /\ live[r].image = work[t].images[r]
                    /\ live[r].version = work[t].v
  BY DEF SuccessIsComplete
<1>1. t = s /\ work[t].pc = "checking"
  BY DoneAfterCheck DEF OtherWork
<1>2. ClusterTrue(t) /\ work[t].pc \in RolledOut /\ work[t].pc \in Complete
  BY <1>1 DEF ReleaseInv, RolledOut, Complete
<1> QED
  BY <1>2, RolesAre DEF ClusterTrue

(* Without a workflow step nobody succeeds.                                *)
LEMMA NobodyCompletes ==
    ASSUME UNCHANGED work PROVE SuccessIsComplete
BY DEF SuccessIsComplete

(* Deliveries only go forward: a published image tag is never written      *)
(* again (release_record.preflight and publish), no service goes back to   *)
(* an older image or label (check_deployment, the bootstrap's comparison), *)
(* and a workflow run that reports success has moved all three services.   *)
THEOREM DeliveriesGoForward == Spec => OnlyForward
<1> DEFINE Forward == TagsImmutable /\ NoDowngrade /\ SuccessIsComplete
<1>1. ASSUME ReleaseInv, [Next]_vars PROVE [Forward]_vars
  <2> SUFFICES ASSUME Next PROVE Forward
    BY <1>1
  <2>1. ASSUME NEW s \in Slots, Workflow(s) PROVE Forward
    BY <1>1, <2>1, WorkflowForward, WorkflowCompletes
  <2>2. ASSUME NEW o \in Operators, Bootstrap(o) PROVE Forward
    <3>1. UNCHANGED work
      BY <2>2, Zenon DEF Bootstrap, BootStart, BootRead, Annotate, ReleaseOwnership, BootStop
    <3> QED
      BY <1>1, <2>2, <3>1, BootstrapForward, NobodyCompletes
  <2>3. ASSUME UNCHANGED <<registry, live, work>> PROVE Forward
    BY <1>1, <2>3, NothingPushed, NothingDelivered, NobodyCompletes
  <2> QED
    BY <2>1, <2>2, <2>3, Zenon DEF Next, MoveTag, MigrationEnds, github, cluster
<1>2. ReleaseInv /\ [Next]_vars => [Forward]_vars
  BY <1>1
<1> HIDE DEF Forward
<1>3. Spec => [][Forward]_vars
  BY <1>2, ReleaseInvariant, PTL DEF Spec
<1> QED
  BY <1>3 DEF OnlyForward, Forward
=============================================================================
