----------------------------- MODULE EventFlow -----------------------------
(***************************************************************************)
(* What MIC3 promises about the events of its runs, whatever publishers,   *)
(* batches, topics, partitions and offsets are between the outbox and the  *)
(* decision.  An event is stored in the very step that changes its run,    *)
(* only stored events reach Kafka, an event is confirmed only once Kafka   *)
(* has it, and a run is decided once, on a request that came through       *)
(* Kafka.                                                                  *)
(*                                                                         *)
(* Delivery is shown to implement this specification.                      *)
(***************************************************************************)
CONSTANT Runs

VARIABLES phase,      \* phase[r]: "none", "queued", "accepted", "finished"
          stored,     \* events in the outbox
          arrived,    \* events Kafka has
          confirmed   \* events marked as published

flowVars == <<phase, stored, arrived, confirmed>>

FlowEvent(r, kind) == [run |-> r, type |-> kind]

FlowInit ==
    /\ phase = [r \in Runs |-> "none"]
    /\ stored = {} /\ arrived = {} /\ confirmed = {}

(* A run enters a phase together with the event that tells of it.          *)
Enter(r, next, kind) ==
    /\ phase' = [phase EXCEPT ![r] = next]
    /\ stored' = stored \cup {FlowEvent(r, kind)}
    /\ UNCHANGED <<arrived, confirmed>>

Submit(r) == phase[r] = "none" /\ Enter(r, "queued", "run.requested")

Finish(r) == phase[r] = "accepted" /\ Enter(r, "finished", "outcome")

(* The request of a waiting run is taken from Kafka.                       *)
Decide(r) ==
    /\ phase[r] = "queued"
    /\ FlowEvent(r, "run.requested") \in arrived
    /\ \/ /\ phase' = [phase EXCEPT ![r] = "accepted"]
          /\ UNCHANGED <<stored, arrived, confirmed>>
       \/ Enter(r, "finished", "outcome")

(* Kafka gets an event, for the first time or once more.                   *)
Arrive(e) ==
    /\ e \in stored
    /\ arrived' = arrived \cup {e}
    /\ UNCHANGED <<phase, stored, confirmed>>

(* A batch of events is marked.                                            *)
Confirm(batch) ==
    /\ confirmed' = confirmed \cup batch
    /\ UNCHANGED <<phase, stored, arrived>>

FlowNext ==
    \/ \E r \in Runs : Submit(r) \/ Finish(r) \/ Decide(r)
    \/ \E e \in stored : Arrive(e)
    \/ \E batch \in SUBSET arrived : Confirm(batch)

FlowSpec == FlowInit /\ [][FlowNext]_flowVars
=============================================================================
