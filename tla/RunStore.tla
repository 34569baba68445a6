------------------------------ MODULE RunStore ------------------------------
(***************************************************************************)
(* The PostgreSQL transactions that create, accept, start and finish runs, *)
(* and the catalog registrations that race them.  Every transaction is     *)
(* split at the points where it waits for a lock: an advisory lock, a row  *)
(* locked with SELECT ... FOR UPDATE, or the key share lock a foreign key  *)
(* takes.  PostgreSQL runs them at READ COMMITTED, so a statement sees     *)
(* what is committed when it starts; writes become visible at the commit,  *)
(* which is the last step of each transaction here.                        *)
(*                                                                         *)
(* One model is modelled; its releases are the images registered for it.   *)
(* Transactions of different models share nothing but the two advisory     *)
(* locks, which are global here too.                                       *)
(***************************************************************************)
EXTENDS Integers, Sequences, FiniteSets

CONSTANTS Users,        \* MIC3 users who may request a run
          Releases,     \* model_releases rows: one per image of the model
          Modes,        \* names a catalog entry may give to its modes
          Computations, \* what an invocation computes: arguments, directories
          Requirements, \* required_outputs of an invocation
          Proposals,    \* execution definitions an operator may register
          MaxRuns,      \* bound: number of runs rows
          PerUser,      \* RunAdmissionLimits.per_user
          GlobalTotal,  \* RunAdmissionLimits.global_total
          Capacity,     \* execution_capacity
          Clients,      \* API requests in flight that submit a run
          Operators,    \* command lines that submit runs or register releases
          Acceptors,    \* acceptance threads of worker processes
          Executors,    \* execution threads of worker processes
          NULL          \* no value, no holder

Runs == 1..MaxRuns
Procs == Clients \cup Operators \cup Acceptors \cup Executors

Invocations == [computation : Computations, required : Requirements]

(* An execution definition maps the modes it offers, at least one, to      *)
(* invocations.                                                            *)
Definitions == UNION {[M -> Invocations] : M \in (SUBSET Modes) \ {{}}}

Statuses == {"none", "queued", "running", "succeeded", "failed"}
ACTIVE_STATUSES == {"queued", "running"}
TERMINAL_STATUSES == {"succeeded", "failed"}

(* "job_failed" stands for every failure code the execution side reports;  *)
(* what produces each one is the subject of RunExecution.                  *)
ExecutionFailures == {"job_failed"}
FailureCodes == ExecutionFailures \cup {"execution_definition_changed"}
Verdicts == FailureCodes \cup {"unchanged", "compatible", "succeeded"}

EventTypes == {"run.requested", "run.succeeded", "run.failed"}

(* Columns of a run that are written once, by its insertion.               *)
Requests == [release : Releases, mode : Modes, fingerprint : Computations,
             user : Users \cup {NULL}, limited : BOOLEAN]

Labels == {"idle", "prepared", "admitted",
           "registering", "registerLocked", "registerChecked",
           "accepting", "deciding",
           "claimSelected", "claimLocked", "claiming",
           "observed", "finishing"}

ASSUME StoreAssumption ==
    /\ MaxRuns \in Nat /\ PerUser \in Nat \ {0} /\ GlobalTotal \in Nat \ {0}
    /\ Capacity \in Nat \ {0}
    /\ Proposals \subseteq Definitions
    /\ IsFiniteSet(Procs)
    /\ (Clients \cup Operators) \cap (Acceptors \cup Executors) = {}
    /\ Clients \cap Operators = {} /\ Acceptors \cap Executors = {}
    /\ NULL \notin Procs /\ NULL \notin Users /\ NULL \notin Releases
    /\ NULL \notin Definitions /\ NULL \notin Requests
    /\ NULL \notin Runs /\ NULL \notin Verdicts

VARIABLES
    catalog,       \* catalog[l]: execution_definition of release l, or NULL
    request,       \* request[r]: immutable columns of run r, or NULL
    status,        \* status[r]; "none" while the row does not exist
    accepted,      \* accepted[r]: accepted_at is set
    failure,       \* failure[r]: failure_code
    outbox,        \* outbox[r]: event types stored for run r
    admissionLock, \* holder of pg_advisory_xact_lock(ADMISSION_LOCK)
    capacityLock,  \* holder of pg_advisory_xact_lock(CAPACITY_LOCK)
    modelLock,     \* holder of the row lock on the model
    releaseLock,   \* releaseLock[l]: holder of the row lock on release l
    runLock,       \* runLock[r]: holder of the row lock on run r
    pc,            \* pc[p]: where transaction p waits
    run,           \* run[p]: the run the transaction of p is about
    release,       \* release[p]: the release it locked or is about to lock
    seen,          \* seen[p]: the execution definition it read or proposes
    draft,         \* draft[p]: the row a submission is going to insert
    verdict        \* verdict[p]: what it decided to write

table == <<catalog, request, status, accepted, failure, outbox>>
locks == <<admissionLock, capacityLock, modelLock, releaseLock, runLock>>
locals == <<pc, run, release, seen, draft, verdict>>
vars == <<table, locks, locals>>

-----------------------------------------------------------------------------
(* Definitions, fingerprints and counts                                    *)

(* The fingerprint of a run hashes model, image, invocation and mode.      *)
(* Model and image of a release never change, and required outputs are not *)
(* hashed, so for one run only the computation of its mode can differ.     *)
(* A mode the definition no longer offers matches nothing.                 *)
matches_fingerprint(definition, row) ==
    /\ row.mode \in DOMAIN definition
    /\ definition[row.mode].computation = row.fingerprint

Active(r) == status[r] \in ACTIVE_STATUSES
ActiveRuns == {r \in Runs : Active(r)}

OwnedRuns(u) == {r \in ActiveRuns : request[r].user = u}
RunningRuns == {r \in Runs : status[r] = "running"}

(* Faulty variant: only running runs protect their modes.                  *)
ActiveModes_RunningOnly(l) ==
    {request[r].mode : r \in {q \in RunningRuns : request[q].release = l}}

(* Modes of release l that accepted, unfinished runs use.                  *)
ActiveModes(l) ==
    {request[r].mode : r \in {q \in ActiveRuns :
                                accepted[q] /\ request[q].release = l}}

(* Faulty variant: compares what the fingerprint covers and nothing else.  *)
SameInvocation_ComputationOnly(current, proposed, m) ==
    /\ m \in DOMAIN current <=> m \in DOMAIN proposed
    /\ m \in DOMAIN current =>
          current[m].computation = proposed[m].computation

(* No mode in use is dropped, added or given another invocation.           *)
SameInvocation(current, proposed, m) ==
    /\ m \in DOMAIN current <=> m \in DOMAIN proposed
    /\ m \in DOMAIN current => current[m] = proposed[m]

ensure_active_modes_unchanged(current, proposed, modes) ==
    \A m \in modes : SameInvocation(current, proposed, m)

(* Oldest first; a run's number is its rank in (created_at, id).           *)
Claimable(r) == status[r] = "queued" /\ accepted[r]
OldestClaimable(r) ==
    Claimable(r) /\ \A q \in Runs : Claimable(q) => r <= q

TerminalEvent(outcome) ==
    IF outcome = "succeeded" THEN "run.succeeded" ELSE "run.failed"

-----------------------------------------------------------------------------
Init ==
    /\ catalog = [l \in Releases |-> NULL]
    /\ request = [r \in Runs |-> NULL]
    /\ status = [r \in Runs |-> "none"]
    /\ accepted = [r \in Runs |-> FALSE]
    /\ failure = [r \in Runs |-> NULL]
    /\ outbox = [r \in Runs |-> <<>>]
    /\ admissionLock = NULL /\ capacityLock = NULL /\ modelLock = NULL
    /\ releaseLock = [l \in Releases |-> NULL]
    /\ runLock = [r \in Runs |-> NULL]
    /\ pc = [p \in Procs |-> "idle"]
    /\ run = [p \in Procs |-> NULL]
    /\ release = [p \in Procs |-> NULL]
    /\ seen = [p \in Procs |-> NULL]
    /\ draft = [p \in Procs |-> NULL]
    /\ verdict = [p \in Procs |-> NULL]

(* Commit, rollback, a lost connection and a crashed process all end a     *)
(* transaction the same way: PostgreSQL drops its locks.                   *)
FreedBy(holder, p) == IF holder = p THEN NULL ELSE holder

EndTransaction(p) ==
    /\ admissionLock' = FreedBy(admissionLock, p)
    /\ capacityLock' = FreedBy(capacityLock, p)
    /\ modelLock' = FreedBy(modelLock, p)
    /\ releaseLock' = [l \in Releases |-> FreedBy(releaseLock[l], p)]
    /\ runLock' = [r \in Runs |-> FreedBy(runLock[r], p)]
    /\ pc' = [pc EXCEPT ![p] = "idle"]
    /\ run' = [run EXCEPT ![p] = NULL]
    /\ release' = [release EXCEPT ![p] = NULL]
    /\ seen' = [seen EXCEPT ![p] = NULL]
    /\ draft' = [draft EXCEPT ![p] = NULL]
    /\ verdict' = [verdict EXCEPT ![p] = NULL]

-----------------------------------------------------------------------------
(* Submission: SubmitRun.execute                                           *)

(* First transaction: read the release, prepare the parameters and compute *)
(* the fingerprint.  A release or a mode that does not exist is an error   *)
(* that leaves no trace.  API requests carry their user; the command line  *)
(* may leave it out.                                                       *)
SubmitPrepare(p) ==
    /\ pc[p] = "idle"
    /\ \E l \in Releases, m \in Modes, u \in Users \cup {NULL} :
        /\ catalog[l] # NULL
        /\ m \in DOMAIN catalog[l]
        /\ p \in Clients => u # NULL
        /\ draft' = [draft EXCEPT ![p] =
               [release |-> l, mode |-> m,
                fingerprint |-> catalog[l][m].computation,
                user |-> u, limited |-> p \in Clients]]
    /\ pc' = [pc EXCEPT ![p] = "prepared"]
    /\ UNCHANGED <<table, locks, run, release, seen, verdict>>

(* Faulty variant: counts the queued runs only, so that a run which starts *)
(* frees its place in the total.                                           *)
SubmitAdmit_QueuedOnly(p) ==
    /\ pc[p] = "prepared" /\ draft[p].limited
    /\ admissionLock = NULL
    /\ Cardinality(OwnedRuns(draft[p].user)) < PerUser
    /\ Cardinality(ActiveRuns \ RunningRuns) < GlobalTotal
    /\ admissionLock' = p
    /\ pc' = [pc EXCEPT ![p] = "admitted"]
    /\ UNCHANGED <<table, capacityLock, modelLock, releaseLock, runLock,
                   run, release, seen, draft, verdict>>

(* Faulty variant: counts without holding the admission lock.              *)
SubmitAdmit_NoLock(p) ==
    /\ pc[p] = "prepared" /\ draft[p].limited
    /\ Cardinality(OwnedRuns(draft[p].user)) < PerUser
    /\ Cardinality(ActiveRuns) < GlobalTotal
    /\ pc' = [pc EXCEPT ![p] = "admitted"]
    /\ UNCHANGED <<table, locks, run, release, seen, draft, verdict>>

(* Second transaction, only with limits: wait for the admission lock and   *)
(* count.  The code counts the total before the user's own runs; a run the *)
(* command line inserts in between is not subject to the limits.           *)
SubmitAdmit(p) ==
    /\ pc[p] = "prepared" /\ draft[p].limited
    /\ admissionLock = NULL
    /\ Cardinality(OwnedRuns(draft[p].user)) < PerUser
    /\ Cardinality(ActiveRuns) < GlobalTotal
    /\ admissionLock' = p
    /\ pc' = [pc EXCEPT ![p] = "admitted"]
    /\ UNCHANGED <<table, capacityLock, modelLock, releaseLock, runLock,
                   run, release, seen, draft, verdict>>

(* RunAdmissionExceeded rolls the transaction back.                        *)
SubmitRefuse(p) ==
    /\ pc[p] = "prepared" /\ draft[p].limited
    /\ admissionLock = NULL
    /\ \/ Cardinality(OwnedRuns(draft[p].user)) >= PerUser
       \/ Cardinality(ActiveRuns) >= GlobalTotal
    /\ EndTransaction(p)
    /\ UNCHANGED table

(* Insert the run and its event and commit.  The foreign key to the        *)
(* release waits for whoever holds that row FOR UPDATE.  created_at is the *)
(* time the transaction began, not the order of commits, so the new run    *)
(* may take any free rank.                                                 *)
SubmitInsert(p) ==
    /\ pc[p] = IF p \in Clients THEN "admitted" ELSE "prepared"
    /\ releaseLock[draft[p].release] = NULL
    /\ \E r \in Runs :
        /\ status[r] = "none"
        /\ request' = [request EXCEPT ![r] = draft[p]]
        /\ status' = [status EXCEPT ![r] = "queued"]
        /\ outbox' = [outbox EXCEPT ![r] = <<"run.requested">>]
    /\ EndTransaction(p)
    /\ UNCHANGED <<catalog, accepted, failure>>

-----------------------------------------------------------------------------
(* Registration: SqlAlchemyModelCatalog.register                           *)

(* Insert the model unless it exists, then lock its row: registrations of  *)
(* one model run one after the other.                                      *)
RegisterLockModel(p) ==
    /\ pc[p] = "idle"
    /\ modelLock = NULL
    /\ modelLock' = p
    /\ \E l \in Releases, d \in Proposals :
        /\ release' = [release EXCEPT ![p] = l]
        /\ seen' = [seen EXCEPT ![p] = d]
    /\ pc' = [pc EXCEPT ![p] = "registering"]
    /\ UNCHANGED <<table, admissionLock, capacityLock, releaseLock, runLock,
                   run, draft, verdict>>

(* No row for this image yet: insert one and commit.                       *)
RegisterInsert(p) ==
    /\ pc[p] = "registering"
    /\ catalog[release[p]] = NULL
    /\ catalog' = [catalog EXCEPT ![release[p]] = seen[p]]
    /\ EndTransaction(p)
    /\ UNCHANGED <<request, status, accepted, failure, outbox>>

(* Faulty variant: reads the release without FOR UPDATE.                   *)
RegisterLockRelease_NoLock(p) ==
    /\ pc[p] = "registering"
    /\ catalog[release[p]] # NULL
    /\ pc' = [pc EXCEPT ![p] = "registerLocked"]
    /\ UNCHANGED <<table, locks, run, release, seen, draft, verdict>>

(* The row exists: wait for its lock.                                      *)
RegisterLockRelease(p) ==
    /\ pc[p] = "registering"
    /\ catalog[release[p]] # NULL
    /\ releaseLock[release[p]] = NULL
    /\ releaseLock' = [releaseLock EXCEPT ![release[p]] = p]
    /\ pc' = [pc EXCEPT ![p] = "registerLocked"]
    /\ UNCHANGED <<table, admissionLock, capacityLock, modelLock, runLock,
                   run, release, seen, draft, verdict>>

(* Read the modes in use and refuse to change them.                        *)
RegisterCheck(p) ==
    /\ pc[p] = "registerLocked"
    /\ ensure_active_modes_unchanged(catalog[release[p]], seen[p],
                                     ActiveModes(release[p]))
    /\ pc' = [pc EXCEPT ![p] = "registerChecked"]
    /\ UNCHANGED <<table, locks, run, release, seen, draft, verdict>>

RegisterRefuse(p) ==
    /\ pc[p] = "registerLocked"
    /\ ~ensure_active_modes_unchanged(catalog[release[p]], seen[p],
                                      ActiveModes(release[p]))
    /\ EndTransaction(p)
    /\ UNCHANGED table

(* Overwrite the definition and commit.                                    *)
RegisterCommit(p) ==
    /\ pc[p] = "registerChecked"
    /\ catalog' = [catalog EXCEPT ![release[p]] = seen[p]]
    /\ EndTransaction(p)
    /\ UNCHANGED <<request, status, accepted, failure, outbox>>

-----------------------------------------------------------------------------
(* Acceptance: AcceptRun.execute_with_outcome                              *)

(* Find the run's release and lock that row, reading its definition.       *)
AcceptLockRelease(p, r) ==
    /\ pc[p] = "idle"
    /\ status[r] # "none"
    /\ releaseLock[request[r].release] = NULL
    /\ releaseLock' = [releaseLock EXCEPT ![request[r].release] = p]
    /\ run' = [run EXCEPT ![p] = r]
    /\ release' = [release EXCEPT ![p] = request[r].release]
    /\ seen' = [seen EXCEPT ![p] = catalog[request[r].release]]
    /\ pc' = [pc EXCEPT ![p] = "accepting"]
    /\ UNCHANGED <<table, admissionLock, capacityLock, modelLock, runLock,
                   draft, verdict>>

(* Lock the run's row and decide.                                          *)
AcceptLockRun(p) ==
    LET r == run[p] IN
    /\ pc[p] = "accepting"
    /\ runLock[r] = NULL
    /\ runLock' = [runLock EXCEPT ![r] = p]
    /\ verdict' = [verdict EXCEPT ![p] =
           IF accepted[r] \/ status[r] # "queued" THEN "unchanged"
           ELSE IF matches_fingerprint(seen[p], request[r]) THEN "compatible"
           ELSE "execution_definition_changed"]
    /\ pc' = [pc EXCEPT ![p] = "deciding"]
    /\ UNCHANGED <<table, admissionLock, capacityLock, modelLock, releaseLock,
                   run, release, seen, draft>>

(* Faulty variant: finishes a run that is already terminal once more.      *)
finish_row_Again(r, code) ==
    LET outcome == IF code = NULL THEN "succeeded" ELSE "failed" IN
    /\ status' = [status EXCEPT ![r] = outcome]
    /\ failure' = [failure EXCEPT ![r] = code]
    /\ outbox' = [outbox EXCEPT ![r] = Append(@, TerminalEvent(outcome))]

(* finish_row: the terminal columns and the event of a run that is not     *)
(* terminal yet; a terminal run is left alone.                             *)
finish_row(r, code) ==
    IF status[r] \in TERMINAL_STATUSES
    THEN UNCHANGED <<status, failure, outbox>>
    ELSE LET outcome == IF code = NULL THEN "succeeded" ELSE "failed" IN
         /\ status' = [status EXCEPT ![r] = outcome]
         /\ failure' = [failure EXCEPT ![r] = code]
         /\ outbox' = [outbox EXCEPT ![r] = Append(@, TerminalEvent(outcome))]

(* save_outcome, or nothing for a run that was decided before; commit.     *)
AcceptCommit(p) ==
    LET r == run[p] IN
    /\ pc[p] = "deciding"
    /\ \/ /\ verdict[p] = "unchanged"
          /\ UNCHANGED <<status, accepted, failure, outbox>>
       \/ /\ verdict[p] = "compatible"
          /\ accepted' = [accepted EXCEPT ![r] = TRUE]
          /\ UNCHANGED <<status, failure, outbox>>
       \/ /\ verdict[p] = "execution_definition_changed"
          /\ finish_row(r, "execution_definition_changed")
          /\ UNCHANGED accepted
    /\ EndTransaction(p)
    /\ UNCHANGED <<catalog, request>>

-----------------------------------------------------------------------------
(* Claim: SqlAlchemyExecutions.claim and ReconcileExecutions.claim_next    *)

(* Faulty variant: counts running runs without the capacity lock.          *)
ClaimSelect_NoLock(p, r) ==
    /\ pc[p] = "idle"
    /\ Cardinality(RunningRuns) < Capacity
    /\ OldestClaimable(r)
    /\ run' = [run EXCEPT ![p] = r]
    /\ release' = [release EXCEPT ![p] = request[r].release]
    /\ pc' = [pc EXCEPT ![p] = "claimSelected"]
    /\ UNCHANGED <<table, locks, seen, draft, verdict>>

(* Faulty variant: locks the candidate's row before its release.           *)
ClaimSelect_RunFirst(p, r) ==
    /\ pc[p] = "idle"
    /\ capacityLock = NULL /\ runLock[r] = NULL
    /\ Cardinality(RunningRuns) < Capacity
    /\ OldestClaimable(r)
    /\ capacityLock' = p
    /\ runLock' = [runLock EXCEPT ![r] = p]
    /\ run' = [run EXCEPT ![p] = r]
    /\ release' = [release EXCEPT ![p] = request[r].release]
    /\ pc' = [pc EXCEPT ![p] = "claimSelected"]
    /\ UNCHANGED <<table, admissionLock, modelLock, releaseLock, seen, draft,
                   verdict>>

(* Wait for the capacity lock, count running runs, select the oldest       *)
(* accepted run.  At capacity, or with nothing to claim, the transaction   *)
(* ends without an effect, which is a stuttering step.  Nobody else starts *)
(* runs meanwhile, so a count below the capacity stays below it.           *)
ClaimSelect(p, r) ==
    /\ pc[p] = "idle"
    /\ capacityLock = NULL
    /\ Cardinality(RunningRuns) < Capacity
    /\ OldestClaimable(r)
    /\ capacityLock' = p
    /\ run' = [run EXCEPT ![p] = r]
    /\ release' = [release EXCEPT ![p] = request[r].release]
    /\ pc' = [pc EXCEPT ![p] = "claimSelected"]
    /\ UNCHANGED <<table, admissionLock, modelLock, releaseLock, runLock,
                   seen, draft, verdict>>

ClaimLockRelease(p) ==
    /\ pc[p] = "claimSelected"
    /\ releaseLock[release[p]] = NULL
    /\ releaseLock' = [releaseLock EXCEPT ![release[p]] = p]
    /\ seen' = [seen EXCEPT ![p] = catalog[release[p]]]
    /\ pc' = [pc EXCEPT ![p] = "claimLocked"]
    /\ UNCHANGED <<table, admissionLock, capacityLock, modelLock, runLock,
                   run, release, draft, verdict>>

(* Lock the run's row and look at it again before using it.  Only a claim  *)
(* takes a run out of Claimable, so the recheck never refuses; the code's  *)
(* early return would end the transaction.                                 *)
ClaimLockRun(p) ==
    LET r == run[p] IN
    /\ pc[p] = "claimLocked"
    /\ runLock[r] = NULL
    /\ IF Claimable(r)
       THEN /\ runLock' = [runLock EXCEPT ![r] = p]
            /\ verdict' = [verdict EXCEPT ![p] =
                   IF matches_fingerprint(seen[p], request[r])
                   THEN "compatible" ELSE "execution_definition_changed"]
            /\ pc' = [pc EXCEPT ![p] = "claiming"]
            /\ UNCHANGED <<admissionLock, capacityLock, modelLock, releaseLock,
                           run, release, seen, draft>>
       ELSE EndTransaction(p)
    /\ UNCHANGED table

(* start, or fail when the release changed; commit.                        *)
ClaimCommit(p) ==
    LET r == run[p] IN
    /\ pc[p] = "claiming"
    /\ IF verdict[p] = "compatible"
       THEN /\ status' = [status EXCEPT ![r] = "running"]
            /\ UNCHANGED <<failure, outbox>>
       ELSE finish_row(r, verdict[p])
    /\ EndTransaction(p)
    /\ UNCHANGED <<catalog, request, accepted>>

-----------------------------------------------------------------------------
(* Reconciliation, as far as the runs table sees it                        *)

(* load() finds the run running.  What the Job and the bucket then say is  *)
(* any outcome; a definition that does not match decides by itself.  The   *)
(* lock on reconciliation is left out here: it can be lost with its        *)
(* connection, and the table must be right without it.                     *)
ReconcileLoad(p, r) ==
    /\ pc[p] = "idle"
    /\ status[r] = "running"
    /\ run' = [run EXCEPT ![p] = r]
    /\ \E v \in ExecutionFailures \cup {"succeeded"} :
        verdict' = [verdict EXCEPT ![p] =
            IF matches_fingerprint(catalog[request[r].release], request[r])
            THEN v ELSE "execution_definition_changed"]
    /\ pc' = [pc EXCEPT ![p] = "observed"]
    /\ UNCHANGED <<table, locks, release, seen, draft>>

FinishLock(p) ==
    /\ pc[p] = "observed"
    /\ runLock[run[p]] = NULL
    /\ runLock' = [runLock EXCEPT ![run[p]] = p]
    /\ pc' = [pc EXCEPT ![p] = "finishing"]
    /\ UNCHANGED <<table, admissionLock, capacityLock, modelLock, releaseLock,
                   run, release, seen, draft, verdict>>

(* Faulty variant: stores the word for success as a failure code.          *)
FinishCommit_CodeOnSuccess(p) ==
    /\ pc[p] = "finishing"
    /\ finish_row(run[p], verdict[p])
    /\ EndTransaction(p)
    /\ UNCHANGED <<catalog, request, accepted>>

FinishCommit(p) ==
    /\ pc[p] = "finishing"
    /\ finish_row(run[p], IF verdict[p] = "succeeded" THEN NULL ELSE verdict[p])
    /\ EndTransaction(p)
    /\ UNCHANGED <<catalog, request, accepted>>

-----------------------------------------------------------------------------
(* A process crashes, loses its connection, or gives up on a lock or a     *)
(* statement timeout, in the middle of a transaction: it rolls back.       *)
Abort(p) ==
    /\ pc[p] # "idle"
    /\ EndTransaction(p)
    /\ UNCHANGED table

Submission(p) ==
    SubmitPrepare(p) \/ SubmitAdmit(p) \/ SubmitRefuse(p) \/ SubmitInsert(p)

Registration(p) ==
    \/ RegisterLockModel(p) \/ RegisterInsert(p) \/ RegisterLockRelease(p)
    \/ RegisterCheck(p) \/ RegisterRefuse(p) \/ RegisterCommit(p)

Acceptance(p) ==
    \/ \E r \in Runs : AcceptLockRelease(p, r)
    \/ AcceptLockRun(p) \/ AcceptCommit(p)

Execution(p) ==
    \/ \E r \in Runs : ClaimSelect(p, r) \/ ReconcileLoad(p, r)
    \/ ClaimLockRelease(p) \/ ClaimLockRun(p) \/ ClaimCommit(p)
    \/ FinishLock(p) \/ FinishCommit(p)

Next ==
    \/ \E p \in Clients \cup Operators : Submission(p)
    \/ \E p \in Operators : Registration(p)
    \/ \E p \in Acceptors : Acceptance(p)
    \/ \E p \in Executors : Execution(p)
    \/ \E p \in Procs : Abort(p)

Spec == Init /\ [][Next]_vars

-----------------------------------------------------------------------------
(* Properties                                                              *)

(* Every variable keeps its type: the columns of the tables, the locks and *)
(* the locals of the transactions.                                         *)
TablesOK ==
    /\ catalog \in [Releases -> Definitions \cup {NULL}]
    /\ request \in [Runs -> Requests \cup {NULL}]
    /\ status \in [Runs -> Statuses]
    /\ accepted \in [Runs -> BOOLEAN]
    /\ failure \in [Runs -> FailureCodes \cup {NULL}]
    /\ outbox \in [Runs -> Seq(EventTypes)]

SessionsOK ==
    /\ admissionLock \in Procs \cup {NULL}
    /\ capacityLock \in Procs \cup {NULL}
    /\ modelLock \in Procs \cup {NULL}
    /\ releaseLock \in [Releases -> Procs \cup {NULL}]
    /\ runLock \in [Runs -> Procs \cup {NULL}]
    /\ pc \in [Procs -> Labels]
    /\ run \in [Procs -> Runs \cup {NULL}]
    /\ release \in [Procs -> Releases \cup {NULL}]
    /\ seen \in [Procs -> Definitions \cup {NULL}]
    /\ draft \in [Procs -> Requests \cup {NULL}]
    /\ verdict \in [Procs -> Verdicts \cup {NULL}]

TypeOK == TablesOK /\ SessionsOK

(* Between its acceptance and its end, a run still describes the           *)
(* computation its release offers, however registrations, acceptances and  *)
(* claims interleave: what will be executed is what was requested.         *)
AcceptedRunsMatchCatalog ==
    \A r \in Runs : accepted[r] /\ Active(r) =>
        /\ catalog[request[r].release] # NULL
        /\ matches_fingerprint(catalog[request[r].release], request[r])

(* No step changes the invocation of an accepted unfinished run, required  *)
(* outputs included, although the fingerprint does not cover those:        *)
(* registration holds the release row while it checks the modes in use.    *)
InvocationFrozen ==
    [][\A r \in Runs : accepted[r] /\ Active(r) =>
         catalog'[request[r].release][request[r].mode]
           = catalog[request[r].release][request[r].mode]]_vars

(* However many workers claim at once, no more than Capacity runs are      *)
(* running.                                                                *)
CapacityBound == Cardinality(RunningRuns) <= Capacity

(* Unfinished runs that API requests submitted stay within the limits, per *)
(* user and in total, even when requests race and the command line, which  *)
(* has no limits, adds runs of its own.                                    *)
AdmissionBound ==
    LET limited == {r \in ActiveRuns : request[r].limited} IN
    /\ Cardinality(limited) <= GlobalTotal
    /\ \A u \in Users :
        Cardinality({r \in limited : request[r].user = u}) <= PerUser

(* The outbox tells the story of the table: a request event for every run, *)
(* and exactly one terminal event, of the right kind, once it is finished. *)
OutboxMatchesStatus ==
    \A r \in Runs :
        outbox[r] = CASE status[r] = "none" -> <<>>
                      [] status[r] \in ACTIVE_STATUSES -> <<"run.requested">>
                      [] OTHER -> Append(<<"run.requested">>,
                                         TerminalEvent(status[r]))

(* The holder of the lock a transaction is waiting for, or NULL.           *)
Blocker(p) ==
    CASE pc[p] = "prepared" /\ p \in Clients -> admissionLock
      [] pc[p] = "admitted" \/ (pc[p] = "prepared" /\ p \in Operators)
           -> releaseLock[draft[p].release]
      [] pc[p] \in {"registering", "claimSelected"} -> releaseLock[release[p]]
      [] pc[p] \in {"accepting", "claimLocked", "observed"} -> runLock[run[p]]
      [] OTHER -> NULL

(* Transactions never wait for each other in a circle, so PostgreSQL never *)
(* has to kill one to break a deadlock: every set of transactions has one  *)
(* that waits for nobody in it.                                            *)
NoWaitCycle ==
    \A waiting \in (SUBSET Procs) \ {{}} :
        \E p \in waiting : Blocker(p) \notin waiting

(* The transactions implement the abstract life of a run: a run is decided *)
(* once, starts only within the capacity, an accepted run fails only after *)
(* it was started, and each outcome is stored together with its event.     *)
Phase(r) == IF status[r] = "queued" /\ accepted[r] THEN "accepted" ELSE status[r]

Lifecycle == INSTANCE RunLifecycle
                 WITH phase <- [r \in Runs |-> Phase(r)], events <- outbox

ImplementsLifecycle == Lifecycle!LifecycleSpec
=============================================================================
