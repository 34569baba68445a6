---------------------------- MODULE RunLifecycle ----------------------------
(***************************************************************************)
(* What MIC3 promises about the life of a scientific run, independently of *)
(* the transactions, messages and Jobs that make it happen.  A run is      *)
(* submitted, accepted or rejected, started and finished.  At most         *)
(* Capacity runs execute at a time, an accepted run fails only after it    *)
(* was started, a finished run never changes again, and the event that     *)
(* announces an outcome is stored in the very step that decides it.        *)
(*                                                                         *)
(* RunStore and RunExecution are shown to implement this specification.    *)
(***************************************************************************)
EXTENDS Integers, Sequences, FiniteSets

CONSTANTS Runs,      \* identifiers of all runs that may ever be submitted
          Capacity   \* execution_capacity: simultaneously running runs

VARIABLES phase,     \* phase[r]: how far run r has come
          events     \* events[r]: outbox events stored for r, oldest first

lifecycleVars == <<phase, events>>

Phases == {"none", "queued", "accepted", "running", "succeeded", "failed"}
Finished == {"succeeded", "failed"}

(* The outbox event type that announces an outcome.                        *)
TerminalEvent(outcome) ==
    IF outcome = "succeeded" THEN "run.succeeded" ELSE "run.failed"

LifecycleInit ==
    /\ phase = [r \in Runs |-> "none"]
    /\ events = [r \in Runs |-> <<>>]

(* A run and its request event are stored together.                        *)
Submit(r) ==
    /\ phase[r] = "none"
    /\ phase' = [phase EXCEPT ![r] = "queued"]
    /\ events' = [events EXCEPT ![r] = <<"run.requested">>]

Accept(r) ==
    /\ phase[r] = "queued"
    /\ phase' = [phase EXCEPT ![r] = "accepted"]
    /\ UNCHANGED events

Start(r) ==
    /\ phase[r] = "accepted"
    /\ Cardinality({q \in Runs : phase[q] = "running"}) < Capacity
    /\ phase' = [phase EXCEPT ![r] = "running"]
    /\ UNCHANGED events

(* Only a run that waits for acceptance can be rejected, and only a        *)
(* running one can end.                                                    *)
Conclude(r, outcome) ==
    /\ \/ phase[r] = "queued" /\ outcome = "failed"
       \/ phase[r] = "running"
    /\ phase' = [phase EXCEPT ![r] = outcome]
    /\ events' = [events EXCEPT ![r] = Append(@, TerminalEvent(outcome))]

LifecycleNext ==
    \E r \in Runs :
        \/ Submit(r)
        \/ Accept(r)
        \/ Start(r)
        \/ \E outcome \in Finished : Conclude(r, outcome)

LifecycleSpec == LifecycleInit /\ [][LifecycleNext]_lifecycleVars
=============================================================================
