-------------------------- MODULE DeploymentCheck --------------------------
(***************************************************************************)
(* The end-to-end check that runs inside the cluster after a delivery:     *)
(* scripts/deployment_check.py submits one diagnostic run and polls it     *)
(* with SqlAlchemyRunInspection.show until it has succeeded and its events *)
(* are published.  show reads the run, its artifacts and its events with   *)
(* three statements; at READ COMMITTED each sees what is committed then.   *)
(*                                                                         *)
(* The run itself lives as RunLifecycle promises; the transaction that     *)
(* ends it stores its artifact, and publishers mark its events.            *)
(***************************************************************************)
EXTENDS Naturals, Sequences, FiniteSets, SequencesExt

VARIABLES
    phase,    \* of the diagnostic run, see RunLifecycle
    events,   \* its outbox events
    marked,   \* the event types whose published_at is set
    check     \* the script: where it is and what the current show has read

checkVars == <<phase, events, marked, check>>

Diagnostic == "diagnostic"
Lifecycle == INSTANCE RunLifecycle WITH Runs <- {Diagnostic}, Capacity <- 1

Unread == [status |-> "none", artifacts |-> 0, published |-> {}]
Script(pc) == [pc |-> pc, read |-> 0, seen |-> Unread]

CheckInit ==
    /\ Lifecycle!LifecycleInit
    /\ marked = {}
    /\ check = Script("off")

(* A new Job with a new run.                                               *)
StartCheck ==
    /\ check' = Script("submit")
    /\ UNCHANGED <<phase, events, marked>>

(* A Job and its run are retained; nobody looks at them any more.          *)
ForgetCheck ==
    /\ phase' = [phase EXCEPT ![Diagnostic] = "none"]
    /\ events' = [events EXCEPT ![Diagnostic] = <<>>]
    /\ marked' = {}
    /\ check' = Script("off")

(* RegisterRelease and SubmitRun, see RunStore.                            *)
register_and_submit ==
    /\ check.pc = "submit"
    /\ Lifecycle!Submit(Diagnostic)
    /\ check' = Script("run")
    /\ UNCHANGED marked

Looking == check.pc \in {"run", "show"}

(* Workers and publishers go on while the script looks; what they do after *)
(* it has ended is of no interest here.                                    *)
RunAdvances ==
    /\ Looking
    /\ \/ Lifecycle!Accept(Diagnostic) \/ Lifecycle!Start(Diagnostic)
       \/ \E outcome \in Lifecycle!Finished : Lifecycle!Conclude(Diagnostic, outcome)
    /\ UNCHANGED <<marked, check>>

EventPublished ==
    /\ Looking
    /\ \E e \in ToSet(events[Diagnostic]) \ marked : marked' = marked \cup {e}
    /\ UNCHANGED <<phase, events, check>>

(* What a statement of show finds.                                         *)
Committed ==
    [status |-> phase[Diagnostic],
     artifacts |-> IF phase[Diagnostic] = "succeeded" THEN 1 ELSE 0,
     published |-> marked]

(* Faulty variant: the artifacts are read before the run.                  *)
ShowOrder_ArtifactsFirst == <<"artifacts", "status", "published">>

(* The statements of show: the run, its artifacts, its events.             *)
ShowOrder == <<"status", "artifacts", "published">>

(* Terminal defects fail closed; "run" means look again after a pause.     *)
verify_result(seen) ==
    CASE seen.status = "failed" -> "failed"
      [] seen.status \notin {"failed", "succeeded"} -> "run"
      [] seen.status = "succeeded" /\ seen.artifacts # 1 -> "defect"
      [] seen.status = "succeeded" /\ seen.artifacts = 1 ->
           IF {"run.requested", "run.succeeded"} \subseteq seen.published
           THEN "passed" ELSE "run"

(* The last statement completes the answer, which is judged at once.       *)
show ==
    /\ Looking
    /\ LET field == ShowOrder[check.read + 1]
           seen == [check.seen EXCEPT ![field] = Committed[field]]
       IN check' = IF check.read + 1 < Len(ShowOrder)
                   THEN [pc |-> "show", read |-> check.read + 1, seen |-> seen]
                   ELSE Script(verify_result(seen))
    /\ UNCHANGED <<phase, events, marked>>

(* wait_for_run looks at the clock before each show.  Any other exception, *)
(* such as an unreachable database, ends the script like the timeout.      *)
wait_for_run_ends ==
    /\ check.pc = "submit" \/ Looking
    /\ check' = Script("timeout")
    /\ UNCHANGED <<phase, events, marked>>

CheckNext ==
    \/ register_and_submit \/ RunAdvances \/ EventPublished
    \/ show \/ wait_for_run_ends

CheckTypeOK ==
    /\ phase \in [{Diagnostic} -> Lifecycle!Phases]
    /\ marked \subseteq ToSet(events[Diagnostic])
    /\ check.pc \in {"off", "submit", "run", "show", "passed",
                     "failed", "defect", "timeout"}
    /\ check.read \in 0..Len(ShowOrder) - 1
    /\ check.seen \in [status : Lifecycle!Phases, artifacts : 0..1,
                       published : SUBSET {"run.requested", "run.succeeded", "run.failed"}]

(* The script's verdict is the truth about its run although the run        *)
(* changes between the statements of show: it never takes a run that is    *)
(* just ending for a defective one, and it passes or fails a run only when *)
(* the run is over, with both events published if it passes (verify_result *)
(* and the order of the statements in show).                               *)
VerdictTrue ==
    /\ check.pc # "defect"
    /\ check.pc = "failed" => phase[Diagnostic] = "failed"
    /\ check.pc = "passed" =>
         /\ phase[Diagnostic] = "succeeded"
         /\ marked = {"run.requested", "run.succeeded"}
=============================================================================
