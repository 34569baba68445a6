---------------------------- MODULE RunExecution ----------------------------
(***************************************************************************)
(* The execution loop of the worker: ReconcileExecutions over PostgreSQL,  *)
(* the Kubernetes API and the artifact bucket.  Each worker repeats ticks: *)
(* it reconciles every running run, then claims one more and reconciles    *)
(* that.  A reconciliation holds a session lock in PostgreSQL while it     *)
(* talks to the cluster, so a crash, a lost connection, an outage or a     *)
(* second worker can fall between any two of its calls.                    *)
(*                                                                         *)
(* The transactions inside RunStore's claim and finish are single steps    *)
(* here, and runs start out accepted.  The cluster and the bucket are      *)
(* external; they are modelled by what the code relies on.                 *)
(***************************************************************************)
EXTENDS Integers, Sequences, FiniteSets

CONSTANTS Workers,        \* execution threads, one per worker process
          MaxRuns,        \* bound: number of accepted runs
          Capacity,       \* execution_capacity
          Files,          \* names of output files
          RequiredFiles,  \* required_outputs of the runs' invocation
          MaxCrashes,     \* bound: worker processes that die
          MaxDisconnects, \* bound: database sessions lost by live workers
          MaxOutages,     \* bound: failed calls to the cluster or the bucket
          MaxDeletes,     \* bound: Jobs deleted by someone else
          MaxStrangers,   \* bound: runs whose Job name was taken beforehand
          NULL

Runs == 1..MaxRuns
Statuses == {"accepted", "running", "succeeded", "failed"}
TERMINAL_STATUSES == {"succeeded", "failed"}
FailureCodes == {"job_failed", "job_lost", "job_identity_conflict",
                 "required_outputs_missing", "outputs_empty"}
EventTypes == {"run.requested", "run.succeeded", "run.failed"}
JobStates == {"active", "succeeded", "failed"}

(* A Job carries the uid the cluster gave it and whether its labels,       *)
(* annotations and spec contain what the renderer expects.  Uid 0 is a     *)
(* Job somebody else made under the same name.                             *)
Uids == 0..(1 + MaxDeletes)
Jobs == [uid : Uids, state : JobStates, contract : BOOLEAN]

Labels == {"idle", "next", "load", "get", "create", "reget", "verify",
           "save", "collect", "finish", "unlock"}

(* The result of a reconciliation: a failure code or NULL, and artifacts.  *)
Outcomes == [code : FailureCodes \cup {NULL}, artifacts : SUBSET Files]

ASSUME ExecutionAssumption ==
    /\ MaxRuns \in Nat /\ Capacity \in Nat \ {0}
    /\ RequiredFiles \subseteq Files
    /\ {MaxCrashes, MaxDisconnects, MaxOutages, MaxDeletes, MaxStrangers}
         \subseteq Nat
    /\ NULL \notin Workers \cup Runs \cup Uids \cup Jobs \cup FailureCodes
                   \cup Outcomes

VARIABLES
    status, jobUid, failure, artifacts, events,  \* the runs table and outbox
    lock,       \* lock[r]: worker whose session holds r's advisory lock
    job,        \* job[r]: the Job named mic3-run-<r>, or NULL
    objects,    \* objects[r]: nonempty objects under r's output prefix
    created,    \* created[r]: Jobs the workers made for r
    completed,  \* completed[r]: uids of r's Jobs that ended Complete
    deleted,    \* deleted[r]: Jobs of r that somebody deleted
    pc,         \* pc[w]: next call of the worker
    todo,       \* todo[w]: running_ids still to be reconciled in this tick
    last,       \* last[w]: the tick has claimed and ends after this run
    current,    \* current[w]: the run being reconciled
    work,       \* work[w]: job_uid as load() read it
    seen,       \* seen[w]: the Job as the cluster returned it
    outcome,    \* outcome[w]: what finish() will store
    session,    \* session[w]: the session that took the lock still lives
    faults      \* how many faults of each kind have happened

table == <<status, jobUid, failure, artifacts, events>>
cluster == <<job, objects, created, completed, deleted>>
locals == <<pc, todo, last, current, work, seen, outcome, session>>
vars == <<table, lock, cluster, locals, faults>>

FaultKinds == {"crash", "disconnect", "outage", "delete"}
Budget(kind) == CASE kind = "crash" -> MaxCrashes
                  [] kind = "disconnect" -> MaxDisconnects
                  [] kind = "outage" -> MaxOutages
                  [] kind = "delete" -> MaxDeletes
Fault(kind) ==
    /\ faults[kind] < Budget(kind)
    /\ faults' = [faults EXCEPT ![kind] = @ + 1]

RunningRuns == {r \in Runs : status[r] = "running"}
Waiting == {r \in Runs : status[r] = "accepted"}
Oldest(r, S) == r \in S /\ \A q \in S : r <= q

Stranger == [uid |-> 0, state |-> "active", contract |-> FALSE]

-----------------------------------------------------------------------------
Init ==
    /\ status = [r \in Runs |-> "accepted"]
    /\ jobUid = [r \in Runs |-> NULL]
    /\ failure = [r \in Runs |-> NULL]
    /\ artifacts = [r \in Runs |-> {}]
    /\ events = [r \in Runs |-> <<"run.requested">>]
    /\ lock = [r \in Runs |-> NULL]
    /\ \E taken \in SUBSET Runs :
        /\ Cardinality(taken) <= MaxStrangers
        /\ job = [r \in Runs |-> IF r \in taken THEN Stranger ELSE NULL]
    /\ objects = [r \in Runs |-> {}]
    /\ created = [r \in Runs |-> 0]
    /\ completed = [r \in Runs |-> {}]
    /\ deleted = [r \in Runs |-> 0]
    /\ pc = [w \in Workers |-> "idle"]
    /\ todo = [w \in Workers |-> {}]
    /\ last = [w \in Workers |-> FALSE]
    /\ current = [w \in Workers |-> NULL]
    /\ work = [w \in Workers |-> NULL]
    /\ seen = [w \in Workers |-> NULL]
    /\ outcome = [w \in Workers |-> NULL]
    /\ session = [w \in Workers |-> TRUE]
    /\ faults = [kind \in FaultKinds |-> 0]

(* The worker leaves its reconciliation: locals of that run are gone.      *)
Leave(w, label) ==
    /\ pc' = [pc EXCEPT ![w] = label]
    /\ current' = [current EXCEPT ![w] = NULL]
    /\ work' = [work EXCEPT ![w] = NULL]
    /\ seen' = [seen EXCEPT ![w] = NULL]
    /\ outcome' = [outcome EXCEPT ![w] = NULL]
    /\ session' = [session EXCEPT ![w] = TRUE]
    /\ lock' = [r \in Runs |-> IF lock[r] = w THEN NULL ELSE lock[r]]

(* Faulty variant: an exception leaves the reconciliation lock held.       *)
AbandonTick_KeepsLock(w) ==
    /\ pc' = [pc EXCEPT ![w] = "idle"]
    /\ current' = [current EXCEPT ![w] = NULL]
    /\ work' = [work EXCEPT ![w] = NULL]
    /\ seen' = [seen EXCEPT ![w] = NULL]
    /\ outcome' = [outcome EXCEPT ![w] = NULL]
    /\ todo' = [todo EXCEPT ![w] = {}]
    /\ last' = [last EXCEPT ![w] = FALSE]
    /\ UNCHANGED <<session, lock>>

(* An exception leaves the tick; the loop catches it and starts over.      *)
AbandonTick(w) ==
    /\ Leave(w, "idle")
    /\ todo' = [todo EXCEPT ![w] = {}]
    /\ last' = [last EXCEPT ![w] = FALSE]

Goto(w, label) == pc' = [pc EXCEPT ![w] = label]

-----------------------------------------------------------------------------
(* One tick                                                                *)

(* running_ids                                                             *)
StartTick(w) ==
    /\ pc[w] = "idle"
    /\ todo' = [todo EXCEPT ![w] = RunningRuns]
    /\ Goto(w, "next")
    /\ UNCHANGED <<table, lock, cluster, last, current, work, seen, outcome,
                   session, faults>>

(* Faulty variant: reconciles the next run without locking it.             *)
TryLock_NoLock(w) ==
    /\ pc[w] = "next"
    /\ \E r \in todo[w] :
       /\ Oldest(r, todo[w])
       /\ todo' = [todo EXCEPT ![w] = @ \ {r}]
       /\ current' = [current EXCEPT ![w] = r]
    /\ Goto(w, "load")
    /\ UNCHANGED <<table, lock, cluster, last, work, seen, outcome, session,
                   faults>>

(* locked(): pg_try_advisory_lock on the next run.  A run another session  *)
(* reconciles is skipped.                                                  *)
TryLock(w) ==
    /\ pc[w] = "next"
    /\ \E r \in todo[w] :
       /\ Oldest(r, todo[w])
       /\ todo' = [todo EXCEPT ![w] = @ \ {r}]
       /\ \/ /\ lock[r] = NULL
             /\ lock' = [lock EXCEPT ![r] = w]
             /\ current' = [current EXCEPT ![w] = r]
             /\ Goto(w, "load")
          \/ /\ lock[r] # NULL
             /\ UNCHANGED <<lock, current, pc>>
    /\ UNCHANGED <<table, cluster, last, work, seen, outcome, session, faults>>

(* Faulty variant: claims without counting the running runs.               *)
Claim_NoCapacity(w) ==
    /\ pc[w] = "next" /\ todo[w] = {} /\ ~last[w]
    /\ \E r \in Waiting :
       /\ Oldest(r, Waiting)
       /\ status' = [status EXCEPT ![r] = "running"]
       /\ todo' = [todo EXCEPT ![w] = {r}]
    /\ last' = [last EXCEPT ![w] = TRUE]
    /\ UNCHANGED <<jobUid, failure, artifacts, events, lock, cluster, pc,
                   current, work, seen, outcome, session, faults>>

(* claim_next: the oldest accepted run, if the capacity allows.  The       *)
(* definition of an accepted run still matches (RunStore), so it starts.   *)
Claim(w) ==
    /\ pc[w] = "next" /\ todo[w] = {} /\ ~last[w]
    /\ Cardinality(RunningRuns) < Capacity
    /\ \E r \in Waiting :
       /\ Oldest(r, Waiting)
       /\ status' = [status EXCEPT ![r] = "running"]
       /\ todo' = [todo EXCEPT ![w] = {r}]
    /\ last' = [last EXCEPT ![w] = TRUE]
    /\ UNCHANGED <<jobUid, failure, artifacts, events, lock, cluster, pc,
                   current, work, seen, outcome, session, faults>>

(* Nothing to claim, or the claimed run has been reconciled.               *)
EndTick(w) ==
    /\ pc[w] = "next" /\ todo[w] = {}
    /\ \/ last[w]
       \/ Cardinality(RunningRuns) >= Capacity
       \/ Waiting = {}
    /\ AbandonTick(w)
    /\ UNCHANGED <<table, cluster, faults>>

-----------------------------------------------------------------------------
(* One reconciliation                                                      *)

Load(w) ==
    /\ pc[w] = "load" /\ session[w]
    /\ LET r == current[w] IN
       \/ /\ status[r] = "running"
          /\ work' = [work EXCEPT ![w] = jobUid[r]]
          /\ Goto(w, "get")
       \/ /\ status[r] # "running"
          /\ Goto(w, "unlock")
          /\ UNCHANGED work
    /\ UNCHANGED <<table, lock, cluster, todo, last, current, seen, outcome,
                   session, faults>>

Decide(w, code, files) ==
    /\ outcome' = [outcome EXCEPT ![w] = [code |-> code, artifacts |-> files]]
    /\ Goto(w, "finish")

(* Faulty variant: a Job that is not there is lost, recorded or not.       *)
GetJob_AlwaysLost(w) ==
    LET r == current[w] IN
    /\ pc[w] = "get"
    /\ \/ /\ job[r] # NULL
          /\ seen' = [seen EXCEPT ![w] = job[r]]
          /\ Goto(w, "verify")
          /\ UNCHANGED outcome
       \/ /\ job[r] = NULL
          /\ Decide(w, "job_lost", {})
          /\ UNCHANGED seen
    /\ UNCHANGED <<table, lock, cluster, todo, last, current, work, session,
                   faults>>

(* _find_or_create: a Job that was recorded and is gone is lost; one that  *)
(* was never recorded is created.                                          *)
GetJob(w) ==
    LET r == current[w] IN
    /\ pc[w] = "get"
    /\ \/ /\ job[r] # NULL
          /\ seen' = [seen EXCEPT ![w] = job[r]]
          /\ Goto(w, "verify")
          /\ UNCHANGED outcome
       \/ /\ job[r] = NULL /\ work[w] # NULL
          /\ Decide(w, "job_lost", {})
          /\ UNCHANGED seen
       \/ /\ job[r] = NULL /\ work[w] = NULL
          /\ Goto(w, "create")
          /\ UNCHANGED <<seen, outcome>>
    /\ UNCHANGED <<table, lock, cluster, todo, last, current, work, session,
                   faults>>

(* The API server creates the Job under its deterministic name.            *)
NewJob(r) ==
    [uid |-> created[r] + 1, state |-> "active", contract |-> TRUE]
MakeJob(r) ==
    /\ job' = [job EXCEPT ![r] = NewJob(r)]
    /\ created' = [created EXCEPT ![r] = @ + 1]
    /\ UNCHANGED <<objects, completed, deleted>>

CreateJob(w) ==
    LET r == current[w] IN
    /\ pc[w] = "create"
    /\ \/ /\ job[r] = NULL
          /\ MakeJob(r)
          /\ seen' = [seen EXCEPT ![w] = NewJob(r)]
          /\ Goto(w, "verify")
       \/ /\ job[r] # NULL      \* 409: look it up under the same name
          /\ Goto(w, "reget")
          /\ UNCHANGED <<cluster, seen>>
    /\ UNCHANGED <<table, lock, todo, last, current, work, outcome, session,
                   faults>>

(* The create fails at the worker; it may have taken effect all the same.  *)
CreateFails(w) ==
    LET r == current[w] IN
    /\ pc[w] = "create"
    /\ Fault("outage")
    /\ \/ job[r] = NULL /\ MakeJob(r)
       \/ UNCHANGED cluster
    /\ Goto(w, "reget")
    /\ UNCHANGED <<table, lock, todo, last, current, work, seen, outcome,
                   session>>

(* The lookup after a failed create.  Nothing there: unconfirmed, retry in *)
(* a later tick.                                                           *)
GetAgain(w) ==
    LET r == current[w] IN
    /\ pc[w] = "reget"
    /\ \/ /\ job[r] # NULL
          /\ seen' = [seen EXCEPT ![w] = job[r]]
          /\ Goto(w, "verify")
          /\ UNCHANGED <<lock, todo, last, current, work, outcome, session>>
       \/ /\ job[r] = NULL
          /\ AbandonTick(w)
    /\ UNCHANGED <<table, cluster, faults>>

(* _verify_contract: the recorded identity and the rendered contract.      *)
VerifyContract(w) ==
    /\ pc[w] = "verify"
    /\ \/ /\ \/ work[w] # NULL /\ seen[w].uid # work[w]
             \/ ~seen[w].contract
          /\ Decide(w, "job_identity_conflict", {})
       \/ /\ work[w] \in {NULL, seen[w].uid} /\ seen[w].contract
          /\ Goto(w, "save")
          /\ UNCHANGED outcome
    /\ UNCHANGED <<table, lock, cluster, todo, last, current, work, seen,
                   session, faults>>

(* Faulty variant: a Job that has not succeeded is taken for a failed one. *)
SaveUid_ActiveFails(w) ==
    LET r == current[w] IN
    /\ pc[w] = "save" /\ session[w]
    /\ jobUid' = [jobUid EXCEPT ![r] = seen[w].uid]
    /\ IF seen[w].state = "succeeded"
       THEN Goto(w, "collect") /\ UNCHANGED outcome
       ELSE Decide(w, "job_failed", {})
    /\ UNCHANGED <<status, failure, artifacts, events, lock, cluster, todo,
                   last, current, work, seen, session, faults>>

(* save_job_uid, then act on the state the Job had when it was read.       *)
SaveUid(w) ==
    LET r == current[w] IN
    /\ pc[w] = "save" /\ session[w]
    /\ \/ /\ jobUid[r] \notin {NULL, seen[w].uid}
          /\ Decide(w, "job_identity_conflict", {})
          /\ UNCHANGED jobUid
       \/ /\ jobUid[r] \in {NULL, seen[w].uid}
          /\ jobUid' = IF status[r] = "running"
                       THEN [jobUid EXCEPT ![r] = seen[w].uid] ELSE jobUid
          /\ CASE seen[w].state = "failed" -> Decide(w, "job_failed", {})
               [] seen[w].state = "succeeded" ->
                    Goto(w, "collect") /\ UNCHANGED outcome
               [] OTHER -> Goto(w, "unlock") /\ UNCHANGED outcome
    /\ UNCHANGED <<status, failure, artifacts, events, lock, cluster, todo,
                   last, current, work, seen, session, faults>>

(* Faulty variant: any object will do.                                     *)
CollectCode_AnyFile(files) == IF files = {} THEN "outputs_empty" ELSE NULL

(* VerifyOutputs.collect                                                   *)
CollectCode(files) ==
    CASE ~(RequiredFiles \subseteq files) -> "required_outputs_missing"
      [] RequiredFiles \subseteq files /\ files = {} -> "outputs_empty"
      [] OTHER -> NULL

Collect(w) ==
    LET files == objects[current[w]] IN
    /\ pc[w] = "collect"
    /\ Decide(w, CollectCode(files), files)
    /\ UNCHANGED <<table, lock, cluster, todo, last, current, work, seen,
                   session, faults>>

TerminalEvent(result) ==
    IF result = "succeeded" THEN "run.succeeded" ELSE "run.failed"

(* finish: finish_row in a transaction of its own.                         *)
Finish(w) ==
    LET r == current[w]
        result == IF outcome[w].code = NULL THEN "succeeded" ELSE "failed" IN
    /\ pc[w] = "finish" /\ session[w]
    /\ IF status[r] \in TERMINAL_STATUSES
       THEN UNCHANGED table
       ELSE /\ status' = [status EXCEPT ![r] = result]
            /\ failure' = [failure EXCEPT ![r] = outcome[w].code]
            /\ artifacts' = [artifacts EXCEPT ![r] = outcome[w].artifacts]
            /\ events' = [events EXCEPT ![r] = Append(@, TerminalEvent(result))]
            /\ UNCHANGED jobUid
    /\ Goto(w, "unlock")
    /\ UNCHANGED <<lock, cluster, todo, last, current, work, seen, outcome,
                   session, faults>>

Unlock(w) ==
    /\ pc[w] = "unlock" /\ session[w]
    /\ Leave(w, "next")
    /\ UNCHANGED <<table, cluster, todo, last, faults>>

(* A statement on a lost session raises; the pool discards the connection. *)
SessionGone(w) ==
    /\ pc[w] \in {"load", "save", "finish", "unlock"} /\ ~session[w]
    /\ AbandonTick(w)
    /\ UNCHANGED <<table, cluster, faults>>

-----------------------------------------------------------------------------
(* What can go wrong around the worker                                     *)

(* InfrastructureUnavailable from rendering, a read of the cluster (the    *)
(* pods of a failed Job included) or the bucket listing.                   *)
Unavailable(w) ==
    /\ pc[w] \in {"get", "reget", "verify", "collect"}
    /\ Fault("outage")
    /\ AbandonTick(w)
    /\ UNCHANGED <<table, cluster>>

(* The process dies; PostgreSQL ends its session.  A new one starts over.  *)
Crash(w) ==
    /\ pc[w] # "idle"
    /\ Fault("crash")
    /\ AbandonTick(w)
    /\ UNCHANGED <<table, cluster>>

(* The session that holds the lock ends while the worker lives on: the     *)
(* lock is free, and the worker notices at its next statement.             *)
LoseSession(w) ==
    /\ current[w] # NULL /\ session[w]
    /\ Fault("disconnect")
    /\ session' = [session EXCEPT ![w] = FALSE]
    /\ lock' = [lock EXCEPT ![current[w]] = NULL]
    /\ UNCHANGED <<table, cluster, pc, todo, last, current, work, seen, outcome>>

(* The model container computes and the copy container uploads.  A Job     *)
(* that fails may have uploaded some files.                                *)
JobEnds(r, result) ==
    /\ job[r] # NULL /\ job[r].contract /\ job[r].state = "active"
    /\ \E files \in SUBSET Files : objects' = [objects EXCEPT ![r] = @ \cup files]
    /\ job' = [job EXCEPT ![r].state = result]
    /\ completed' = IF result = "succeeded"
                    THEN [completed EXCEPT ![r] = @ \cup {job[r].uid}]
                    ELSE completed
    /\ UNCHANGED <<table, lock, created, deleted, locals, faults>>

DeleteJob(r) ==
    /\ job[r] # NULL /\ job[r].contract
    /\ Fault("delete")
    /\ job' = [job EXCEPT ![r] = NULL]
    /\ deleted' = [deleted EXCEPT ![r] = @ + 1]
    /\ UNCHANGED <<table, lock, objects, created, completed, locals>>

-----------------------------------------------------------------------------
WorkerStep(w) ==
    \/ StartTick(w) \/ TryLock(w) \/ Claim(w) \/ EndTick(w)
    \/ Load(w) \/ GetJob(w) \/ CreateJob(w) \/ GetAgain(w)
    \/ VerifyContract(w) \/ SaveUid(w) \/ Collect(w) \/ Finish(w)
    \/ Unlock(w) \/ SessionGone(w)

WorkerFault(w) ==
    CreateFails(w) \/ Unavailable(w) \/ Crash(w) \/ LoseSession(w)

JobProgress(r) == \E result \in {"succeeded", "failed"} : JobEnds(r, result)

Next ==
    \/ \E w \in Workers : WorkerStep(w) \/ WorkerFault(w)
    \/ \E r \in Runs : JobProgress(r) \/ DeleteJob(r)

Spec == Init /\ [][Next]_vars

(* The loop keeps ticking, and activeDeadlineSeconds ends every Job.       *)
Fairness ==
    /\ \A w \in Workers : WF_vars(WorkerStep(w))
    /\ \A r \in Runs : WF_vars(JobProgress(r))

FairSpec == Spec /\ Fairness

-----------------------------------------------------------------------------
(* Properties                                                              *)

(* Every variable keeps its type, and no run collects more events than its *)
(* request and one outcome.                                                *)
TypeOK ==
    /\ status \in [Runs -> Statuses]
    /\ jobUid \in [Runs -> Uids \cup {NULL}]
    /\ failure \in [Runs -> FailureCodes \cup {NULL}]
    /\ artifacts \in [Runs -> SUBSET Files]
    /\ events \in [Runs -> Seq(EventTypes)]
    /\ \A r \in Runs : Len(events[r]) \in 1..2
    /\ lock \in [Runs -> Workers \cup {NULL}]
    /\ job \in [Runs -> Jobs \cup {NULL}]
    /\ objects \in [Runs -> SUBSET Files]
    /\ created \in [Runs -> Nat] /\ deleted \in [Runs -> Nat]
    /\ completed \in [Runs -> SUBSET Uids]
    /\ pc \in [Workers -> Labels]
    /\ todo \in [Workers -> SUBSET Runs]
    /\ last \in [Workers -> BOOLEAN]
    /\ current \in [Workers -> Runs \cup {NULL}]
    /\ work \in [Workers -> Uids \cup {NULL}]
    /\ seen \in [Workers -> Jobs \cup {NULL}]
    /\ outcome \in [Workers -> Outcomes \cup {NULL}]
    /\ session \in [Workers -> BOOLEAN]
    /\ faults \in [FaultKinds -> Nat]

(* A run is reported as succeeded only on evidence: the very Job whose uid *)
(* is recorded ended Complete, and the artifacts stored with the run are   *)
(* there in the bucket, nonempty and with every required file.  Stale      *)
(* reads, adopted Jobs and lost sessions do not change that.               *)
SuccessHasEvidence ==
    \A r \in Runs : status[r] = "succeeded" =>
        /\ jobUid[r] \in completed[r]
        /\ artifacts[r] # {} /\ RequiredFiles \subseteq artifacts[r]
        /\ artifacts[r] \subseteq objects[r]

(* No run is failed for a reason that did not happen: a Job is lost or has *)
(* changed its identity only if somebody deleted or occupied it, so        *)
(* crashes, outages, lost sessions and second workers alone never fail a   *)
(* run, not even between the creation of a Job and the recording of its    *)
(* uid.                                                                    *)
FailuresAreReal ==
    \A r \in Runs :
        /\ failure[r] = "job_lost" => deleted[r] > 0
        /\ failure[r] = "job_failed" =>
              deleted[r] > 0 \/ (job[r] # NULL /\ job[r].state = "failed")
        /\ failure[r] = "job_identity_conflict" =>
              deleted[r] > 0 \/ (job[r] # NULL /\ job[r].uid = 0)
        /\ failure[r] \in {"required_outputs_missing", "outputs_empty"} =>
              completed[r] # {}

(* The cluster runs a Job of ours only for a run that holds one of the     *)
(* capacity slots: intent is stored before the Job exists, and a slot is   *)
(* given up only when the Job has ended.  So Jobs respect the capacity.    *)
ActiveJobHoldsSlot ==
    \A r \in Runs :
        job[r] # NULL /\ job[r].contract /\ job[r].state = "active" =>
            status[r] = "running"

(* Tables and cluster agree: failures have their cause in the cluster, and *)
(* the Jobs of the cluster are those of runs that hold a slot              *)
(* (ReconcileExecutions.reconcile, KubernetesJobs.observe_or_create).      *)
ClusterAgrees == TypeOK /\ FailuresAreReal /\ ActiveJobHoldsSlot

(* A run whose Job was recorded never gets another one: "A missing         *)
(* recorded Job is a failure, never an automatic scientific rerun."        *)
RecordedJobNeverRecreated ==
    [][\A r \in Runs : created'[r] > created[r] => jobUid[r] = NULL]_vars

(* The worker follows the life of a run that RunLifecycle promises.        *)
Lifecycle == INSTANCE RunLifecycle WITH phase <- status

FollowsLifecycle == [][Lifecycle!LifecycleNext]_<<status, events>>

(* Every accepted run is eventually finished, whatever finite number of    *)
(* crashes, outages and lost sessions happens on the way.                  *)
EveryRunFinishes ==
    \A r \in Runs : status[r] = "accepted" ~> status[r] \in TERMINAL_STATUSES
=============================================================================
