------------------------- MODULE RunExecutionProofs -------------------------
(***************************************************************************)
(* Proofs about RunExecution for any number of workers, runs and files and *)
(* any number of faults: outcomes have evidence, failures have a cause,    *)
(* and the workers follow RunLifecycle.  Where the reconciliation lock can *)
(* be trusted, or where nobody deletes Jobs, the cluster works only for    *)
(* runs that hold a slot; where it can be trusted, no recorded Job is made *)
(* again.                                                                  *)
(***************************************************************************)
EXTENDS RunExecution, TLAPS

(* Labels inside a reconciliation, and those after load() found the run    *)
(* running.                                                                *)
Reconciling == Labels \ {"idle", "next"}
Loaded == Reconciling \ {"load", "unlock"}

(* A worker has a run exactly while it reconciles; its live session holds  *)
(* that run's lock, and nobody else's does.  A session dies only by a      *)
(* disconnect.                                                             *)
LockOf(w) ==
    /\ pc[w] \in Reconciling => current[w] \in Runs
    /\ pc[w] \notin Reconciling => current[w] = NULL /\ session[w]
    /\ pc[w] \in Reconciling /\ session[w] => lock[current[w]] = w
    /\ \A r \in Runs : lock[r] = w => current[w] = r /\ session[w]
    /\ session[w] \/ faults["disconnect"] > 0

LocksHeld ==
    (\A w \in Workers : LockOf(w)) /\ faults["disconnect"] <= MaxDisconnects

(* Every Job a worker made is there or was deleted, and uids count them.   *)
(* A stranger's Job under the run's name keeps the workers from making     *)
(* any.                                                                    *)
Counted(r) ==
    /\ job[r] = NULL => created[r] = deleted[r]
    /\ job[r] # NULL /\ job[r].contract =>
         job[r].uid = created[r] /\ created[r] = deleted[r] + 1
    /\ job[r] # NULL /\ ~job[r].contract =>
         job[r].uid = 0 /\ created[r] = 0 /\ deleted[r] = 0
    /\ deleted[r] <= faults["delete"]
    /\ \A u \in completed[r] : 1 <= u /\ u <= created[r]
    /\ job[r] # NULL =>
         (job[r].uid \in completed[r] <=> job[r].state = "succeeded")

JobsCounted ==
    (\A r \in Runs : Counted(r)) /\ faults["delete"] <= MaxDeletes

(* The columns that go with a status.                                      *)
RowsComplete ==
    \A r \in Runs :
        /\ status[r] = "accepted" => created[r] = 0 /\ jobUid[r] = NULL
        /\ status[r] = "failed" <=> failure[r] # NULL
        /\ jobUid[r] # NULL => 1 <= jobUid[r] /\ jobUid[r] <= created[r]
        /\ Len(events[r]) = IF status[r] \in TERMINAL_STATUSES THEN 2 ELSE 1

(* What must have happened before a run of r may end with this code.       *)
Cause(r, code) ==
    /\ code = "job_lost" => deleted[r] > 0
    /\ code = "job_failed" =>
          deleted[r] > 0 \/ (job[r] # NULL /\ job[r].state = "failed")
    /\ code = "job_identity_conflict" =>
          deleted[r] > 0 \/ (job[r] # NULL /\ job[r].uid = 0)
    /\ code \in {"required_outputs_missing", "outputs_empty"} =>
          completed[r] # {}

(* What a worker remembers of a Job of r that it once read.                *)
SeenOnce(r, j) ==
    /\ j.contract => 1 <= j.uid /\ j.uid <= created[r]
    /\ ~j.contract => j.uid = 0 /\ job[r] # NULL /\ job[r].uid = 0
    /\ j.state = "succeeded" => j.uid \in completed[r]
    /\ j.state = "failed" =>
         deleted[r] > 0 \/ (job[r] # NULL /\ job[r].state = "failed")
    /\ j.state # "active" /\ job[r] # NULL /\ job[r].uid = j.uid =>
         job[r].state = j.state

(* The stored artifacts of a success.                                      *)
Evidence(r, files) ==
    files # {} /\ RequiredFiles \subseteq files /\ files \subseteq objects[r]

(* What a worker holds in its hands.  While its session lives, the row has *)
(* not moved on since load() and save_job_uid().                           *)
Hands(w) ==
    /\ \A r \in todo[w] : status[r] # "accepted"
    /\ pc[w] \in Reconciling => status[current[w]] # "accepted"
    /\ pc[w] \in Loaded /\ session[w] => status[current[w]] = "running"
    /\ pc[w] \in Loaded /\ work[w] # NULL =>
         1 <= work[w] /\ work[w] <= created[current[w]]
    /\ pc[w] \in Loaded /\ session[w] /\ work[w] # NULL =>
         jobUid[current[w]] = work[w]
    /\ pc[w] = "create" => work[w] = NULL
    /\ pc[w] \in {"verify", "save", "collect"} =>
         seen[w] \in Jobs /\ SeenOnce(current[w], seen[w])
    /\ pc[w] \in {"save", "collect"} => seen[w].contract
    /\ pc[w] = "collect" => seen[w].state = "succeeded"
    /\ pc[w] = "collect" /\ session[w] => jobUid[current[w]] = seen[w].uid
    /\ pc[w] = "finish" =>
         /\ outcome[w] \in Outcomes
         /\ Cause(current[w], outcome[w].code)
    /\ pc[w] = "finish" /\ outcome[w].code = NULL =>
         /\ Evidence(current[w], outcome[w].artifacts)
         /\ completed[current[w]] # {}
         /\ session[w] => jobUid[current[w]] \in completed[current[w]]

HandsTrue == \A w \in Workers : Hands(w)

ExecutionInv ==
    /\ TypeOK
    /\ LocksHeld
    /\ JobsCounted
    /\ RowsComplete
    /\ HandsTrue
    /\ FailuresAreReal
    /\ SuccessHasEvidence

(* While sessions cannot be lost, only one worker at a time deals with a   *)
(* run: a recorded Job is the last one made, and so is a Job in a worker's *)
(* hands.                                                                  *)
LastJob ==
    /\ \A r \in Runs : jobUid[r] # NULL => jobUid[r] = created[r]
    /\ \A w \in Workers :
        /\ pc[w] = "get" => jobUid[current[w]] = work[w]
        /\ pc[w] = "create" => jobUid[current[w]] = NULL
        /\ pc[w] \in {"verify", "save", "collect"} /\ seen[w].contract =>
             seen[w].uid = created[current[w]]

ActiveJob(r) == job[r] # NULL /\ job[r].contract /\ job[r].state = "active"

(* The verdict on a run is final for its Job.                              *)
VerdictFinal ==
    \A w \in Workers :
        pc[w] = "finish" => ~ActiveJob(current[w])

Serial == LastJob /\ VerdictFinal /\ ActiveJobHoldsSlot

-----------------------------------------------------------------------------
(* Types                                                                   *)

(* NULL is told apart from all that it stands in for.                      *)
LEMMA NullIsNoValue ==
    /\ \A r \in Runs : r # NULL
    /\ \A w \in Workers : w # NULL
    /\ \A j \in Jobs : j # NULL
    /\ \A u \in Uids : u # NULL
    /\ \A o \in Outcomes : o # NULL
    /\ \A c \in FailureCodes : c # NULL
BY ExecutionAssumption

(* The invariant holds before the first tick.                              *)
LEMMA InitInv == Init => ExecutionInv
<1> SUFFICES ASSUME Init PROVE ExecutionInv
  OBVIOUS
<1>1. TypeOK
  BY ExecutionAssumption DEF Init, TypeOK, Statuses, Uids, Jobs, JobStates,
     Stranger, Labels, EventTypes, FaultKinds
<1>2. LocksHeld
  BY ExecutionAssumption DEF Init, LocksHeld, LockOf, Reconciling, Labels, FaultKinds
<1>3. JobsCounted
  BY ExecutionAssumption DEF Init, JobsCounted, Counted, Stranger, FaultKinds
<1>4. RowsComplete
  BY DEF Init, RowsComplete, TERMINAL_STATUSES
<1>5. HandsTrue
  BY DEF Init, HandsTrue, Hands, Reconciling, Loaded, Labels
<1>6. FailuresAreReal /\ SuccessHasEvidence
  BY NullIsNoValue DEF Init, FailuresAreReal, SuccessHasEvidence, FailureCodes
<1> QED
  BY <1>1, <1>2, <1>3, <1>4, <1>5, <1>6 DEF ExecutionInv

(* Leaving a reconciliation keeps the types of the worker's locals.        *)
LEMMA LeaveTypes ==
    ASSUME TypeOK, NEW w \in Workers, NEW label \in Labels, Leave(w, label)
    PROVE  /\ pc' \in [Workers -> Labels]
           /\ current' \in [Workers -> Runs \cup {NULL}]
           /\ work' \in [Workers -> Uids \cup {NULL}]
           /\ seen' \in [Workers -> Jobs \cup {NULL}]
           /\ outcome' \in [Workers -> Outcomes \cup {NULL}]
           /\ session' \in [Workers -> BOOLEAN]
           /\ lock' \in [Runs -> Workers \cup {NULL}]
BY DEF Leave, TypeOK

(* A tick that is given up keeps the types.                                *)
LEMMA AbandonTypes ==
    ASSUME TypeOK, NEW w \in Workers, AbandonTick(w),
           UNCHANGED <<table, cluster>>, faults' \in [FaultKinds -> Nat]
    PROVE  TypeOK'
<1>1. "idle" \in Labels
  BY DEF Labels
<1>2. /\ todo' \in [Workers -> SUBSET Runs]
      /\ last' \in [Workers -> BOOLEAN]
  BY DEF AbandonTick, TypeOK
<1> QED
  BY <1>1, <1>2, LeaveTypes DEF AbandonTick, TypeOK, table, cluster

(* A fault is counted and keeps the types.                                 *)
LEMMA FaultTypes ==
    ASSUME TypeOK, NEW kind \in FaultKinds, Fault(kind)
    PROVE  faults' \in [FaultKinds -> Nat]
BY DEF Fault, TypeOK

(* A new Job of r has the next uid, which is in range.                     *)
LEMMA NewJobTypes ==
    ASSUME TypeOK, JobsCounted, NEW r \in Runs, job[r] = NULL, MakeJob(r)
    PROVE  /\ NewJob(r) \in Jobs
           /\ job' \in [Runs -> Jobs \cup {NULL}]
           /\ created' \in [Runs -> Nat]
<1>1. created[r] \in Nat /\ created[r] <= MaxDeletes
  BY ExecutionAssumption DEF TypeOK, JobsCounted, Counted, FaultKinds
<1>2. NewJob(r) \in Jobs
  BY <1>1, ExecutionAssumption DEF NewJob, Jobs, Uids, JobStates
<1> QED
  BY <1>1, <1>2 DEF MakeJob, TypeOK

(* A decision keeps the types.                                             *)
LEMMA DecideTypes ==
    ASSUME TypeOK, NEW w \in Workers, NEW code \in FailureCodes \cup {NULL},
           NEW files \in SUBSET Files, Decide(w, code, files)
    PROVE  /\ outcome' \in [Workers -> Outcomes \cup {NULL}]
           /\ pc' \in [Workers -> Labels]
BY DEF Decide, Goto, TypeOK, Outcomes, Labels

(* A worker inside a reconciliation has a run.                             *)
LEMMA HasRun ==
    ASSUME LocksHeld, NEW w \in Workers, pc[w] \in Labels,
           pc[w] \notin {"idle", "next"}
    PROVE  current[w] \in Runs
BY DEF LocksHeld, LockOf, Reconciling

(* Every step of a worker keeps the types.                                 *)
LEMMA WorkerTypes ==
    ASSUME ExecutionInv, NEW w \in Workers, WorkerStep(w)
    PROVE  TypeOK'
<1> USE DEF ExecutionInv
<1>1. ASSUME StartTick(w) PROVE TypeOK'
  BY <1>1 DEF StartTick, Goto, TypeOK, table, cluster, RunningRuns, Labels
<1>2. ASSUME TryLock(w) PROVE TypeOK'
  <2>1. PICK r \in todo[w] :
          /\ todo' = [todo EXCEPT ![w] = @ \ {r}]
          /\ \/ /\ lock' = [lock EXCEPT ![r] = w]
                /\ current' = [current EXCEPT ![w] = r]
                /\ pc' = [pc EXCEPT ![w] = "load"]
             \/ UNCHANGED <<lock, current, pc>>
    BY <1>2 DEF TryLock, Goto
  <2>2. r \in Runs
    BY <2>1 DEF TypeOK
  <2>3. /\ todo' \in [Workers -> SUBSET Runs]
        /\ lock' \in [Runs -> Workers \cup {NULL}]
        /\ current' \in [Workers -> Runs \cup {NULL}]
        /\ pc' \in [Workers -> Labels]
    <3>1. /\ "load" \in Labels /\ todo \in [Workers -> SUBSET Runs]
          /\ lock \in [Runs -> Workers \cup {NULL}]
          /\ current \in [Workers -> Runs \cup {NULL}]
          /\ pc \in [Workers -> Labels]
      BY DEF TypeOK, Labels
    <3> QED
      BY <2>1, <2>2, <3>1
  <2> QED
    BY <1>2, <2>3 DEF TryLock, TypeOK, table, cluster
<1>3. ASSUME Claim(w) PROVE TypeOK'
  BY <1>3 DEF Claim, TypeOK, cluster, Waiting, Statuses
<1>4. ASSUME EndTick(w) PROVE TypeOK'
  BY <1>4, AbandonTypes DEF EndTick, TypeOK
<1>5. ASSUME Load(w) PROVE TypeOK'
  <2>1. current[w] \in Runs
    BY <1>5, HasRun DEF Load, TypeOK
  <2>2. work' \in [Workers -> Uids \cup {NULL}] /\ pc' \in [Workers -> Labels]
    <3>1. /\ {"get", "unlock"} \subseteq Labels /\ pc \in [Workers -> Labels]
          /\ work \in [Workers -> Uids \cup {NULL}]
          /\ jobUid[current[w]] \in Uids \cup {NULL}
      BY <2>1 DEF TypeOK, Labels
    <3> QED
      BY <1>5, <3>1 DEF Load, Goto
  <2> QED
    BY <1>5, <2>2 DEF Load, TypeOK, table, cluster
<1>6. ASSUME GetJob(w) PROVE TypeOK'
  <2>1. "job_lost" \in FailureCodes /\ {} \in SUBSET Files
    BY DEF FailureCodes
  <2>2. outcome' \in [Workers -> Outcomes \cup {NULL}] /\ pc' \in [Workers -> Labels]
    BY <1>6, <2>1, DecideTypes DEF GetJob, Goto, TypeOK, Labels
  <2>3. seen' \in [Workers -> Jobs \cup {NULL}]
    BY <1>6, HasRun DEF GetJob, TypeOK
  <2> QED
    BY <1>6, <2>2, <2>3 DEF GetJob, TypeOK, table, cluster
<1>7. ASSUME CreateJob(w) PROVE TypeOK'
  <2> DEFINE r == current[w]
  <2>1. r \in Runs
    BY <1>7 DEF CreateJob, LocksHeld, LockOf, Reconciling, Labels
  <2>2. pc' \in [Workers -> Labels]
    BY <1>7 DEF CreateJob, Goto, TypeOK, Labels
  <2>3. CASE job[r] = NULL /\ MakeJob(r) /\ seen' = [seen EXCEPT ![w] = NewJob(r)]
    BY <1>7, <2>1, <2>2, <2>3, NewJobTypes DEF CreateJob, MakeJob, TypeOK, table
  <2>4. CASE UNCHANGED <<cluster, seen>>
    BY <1>7, <2>2, <2>4 DEF CreateJob, TypeOK, table, cluster
  <2> QED
    BY <1>7, <2>3, <2>4 DEF CreateJob
<1>8. ASSUME GetAgain(w) PROVE TypeOK'
  <2>1. CASE job[current[w]] # NULL
    <3>1. job[current[w]] \in Jobs
      BY <1>8, <2>1, HasRun DEF GetAgain, TypeOK
    <3>2. seen' \in [Workers -> Jobs \cup {NULL}] /\ pc' \in [Workers -> Labels]
      BY <1>8, <2>1, <3>1 DEF GetAgain, Goto, TypeOK, Labels
    <3> QED
      BY <1>8, <2>1, <3>2 DEF GetAgain, TypeOK, table, cluster
  <2>2. CASE job[current[w]] = NULL
    BY <1>8, <2>2, AbandonTypes DEF GetAgain, TypeOK
  <2> QED
    BY <2>1, <2>2
<1>9. ASSUME VerifyContract(w) PROVE TypeOK'
  <2>1. "job_identity_conflict" \in FailureCodes /\ {} \in SUBSET Files
    BY DEF FailureCodes
  <2>2. outcome' \in [Workers -> Outcomes \cup {NULL}] /\ pc' \in [Workers -> Labels]
    BY <1>9, <2>1, DecideTypes DEF VerifyContract, Goto, TypeOK, Labels
  <2> QED
    BY <1>9, <2>2 DEF VerifyContract, TypeOK, table, cluster
<1>10. ASSUME SaveUid(w) PROVE TypeOK'
  <2>1. /\ {"job_identity_conflict", "job_failed"} \subseteq FailureCodes
        /\ {} \in SUBSET Files
    BY DEF FailureCodes
  <2>2. outcome' \in [Workers -> Outcomes \cup {NULL}] /\ pc' \in [Workers -> Labels]
    BY <1>10, <2>1, DecideTypes DEF SaveUid, Goto, TypeOK, Labels
  <2>3. seen[w].uid \in Uids /\ current[w] \in Runs
    BY <1>10 DEF SaveUid, HandsTrue, Hands, LocksHeld, LockOf, Jobs, Reconciling, Labels
  <2>4. jobUid' \in [Runs -> Uids \cup {NULL}]
    <3>1. \/ UNCHANGED jobUid
          \/ jobUid' = [jobUid EXCEPT ![current[w]] = seen[w].uid]
      BY <1>10 DEF SaveUid
    <3> QED
      BY <2>3, <3>1 DEF TypeOK
  <2> QED
    BY <1>10, <2>2, <2>4 DEF SaveUid, TypeOK, cluster
<1>11. ASSUME Collect(w) PROVE TypeOK'
  <2>1. objects[current[w]] \in SUBSET Files
    BY <1>11 DEF Collect, TypeOK, LocksHeld, LockOf, Reconciling, Labels
  <2>2. CollectCode(objects[current[w]]) \in FailureCodes \cup {NULL}
    BY DEF CollectCode, FailureCodes
  <2>3. outcome' \in [Workers -> Outcomes \cup {NULL}] /\ pc' \in [Workers -> Labels]
    BY <1>11, <2>1, <2>2, DecideTypes DEF Collect
  <2> QED
    BY <1>11, <2>3 DEF Collect, TypeOK, table, cluster
<1>12. ASSUME Finish(w) PROVE TypeOK'
  <2> DEFINE r == current[w]
             result == IF outcome[w].code = NULL THEN "succeeded" ELSE "failed"
  <2>1. r \in Runs /\ outcome[w] \in Outcomes
    BY <1>12 DEF Finish, HandsTrue, Hands, LocksHeld, LockOf, Reconciling, Labels
  <2>2. pc' \in [Workers -> Labels]
    BY <1>12 DEF Finish, Goto, TypeOK, Labels
  <2>3. CASE status[r] \in TERMINAL_STATUSES
    BY <1>12, <2>2, <2>3 DEF Finish, TypeOK, table, cluster
  <2>4. CASE status[r] \notin TERMINAL_STATUSES
    <3>1. events[r] \in Seq(EventTypes) /\ Len(events[r]) = 1
      BY <2>1, <2>4 DEF RowsComplete, TypeOK
    <3>2. TerminalEvent(result) \in EventTypes
      BY DEF TerminalEvent, EventTypes
    <3> DEFINE more == Append(events[r], TerminalEvent(result))
    <3>3. more \in Seq(EventTypes) /\ Len(more) = 2
      <4>1. \A s \in Seq(EventTypes), e \in EventTypes :
              Append(s, e) \in Seq(EventTypes) /\ Len(Append(s, e)) = Len(s) + 1
        OBVIOUS
      <4>2. more \in Seq(EventTypes) /\ Len(more) = Len(events[r]) + 1
        BY <3>1, <3>2, <4>1, Zenon
      <4> QED
        BY <3>1, <4>2
    <3> HIDE DEF more
    <3>4. events' = [events EXCEPT ![r] = more]
      BY <1>12, <2>4 DEF Finish, more
    <3>5. /\ events' \in [Runs -> Seq(EventTypes)]
          /\ \A q \in Runs : Len(events'[q]) \in 1..2
      BY <2>1, <3>3, <3>4 DEF TypeOK
    <3>6. /\ status' \in [Runs -> Statuses]
          /\ failure' \in [Runs -> FailureCodes \cup {NULL}]
          /\ artifacts' \in [Runs -> SUBSET Files]
      BY <1>12, <2>1, <2>4 DEF Finish, TypeOK, Outcomes, Statuses
    <3> QED
      BY <1>12, <2>2, <2>4, <3>5, <3>6 DEF Finish, TypeOK, cluster
  <2> QED
    BY <2>3, <2>4
<1>13. ASSUME Unlock(w) PROVE TypeOK'
  <2>1. "next" \in Labels
    BY DEF Labels
  <2> QED
    BY <1>13, <2>1, LeaveTypes DEF Unlock, TypeOK, table, cluster
<1>14. ASSUME SessionGone(w) PROVE TypeOK'
  BY <1>14, AbandonTypes DEF SessionGone, TypeOK
<1> QED
  BY <1>1, <1>2, <1>3, <1>4, <1>5, <1>6, <1>7, <1>8, <1>9, <1>10, <1>11,
     <1>12, <1>13, <1>14 DEF WorkerStep

(* Faults and the cluster keep the types as well.                          *)
LEMMA NextTypes ==
    ASSUME ExecutionInv, Next
    PROVE  TypeOK'
<1> USE DEF ExecutionInv
<1>1. ASSUME NEW w \in Workers, CreateFails(w) PROVE TypeOK'
  <2>1. current[w] \in Runs
    BY <1>1 DEF CreateFails, LocksHeld, LockOf, Reconciling, Labels
  <2>2. faults' \in [FaultKinds -> Nat] /\ pc' \in [Workers -> Labels]
    BY <1>1, FaultTypes DEF CreateFails, Goto, TypeOK, Labels, FaultKinds
  <2>3. CASE job[current[w]] = NULL /\ MakeJob(current[w])
    BY <1>1, <2>1, <2>2, <2>3, NewJobTypes
       DEF CreateFails, MakeJob, TypeOK, table
  <2>4. CASE UNCHANGED cluster
    BY <1>1, <2>2, <2>4 DEF CreateFails, TypeOK, table, cluster
  <2> QED
    BY <1>1, <2>3, <2>4 DEF CreateFails
<1>2. ASSUME NEW w \in Workers, Unavailable(w) \/ Crash(w) PROVE TypeOK'
  BY <1>2, AbandonTypes, FaultTypes DEF Unavailable, Crash, FaultKinds
<1>3. ASSUME NEW w \in Workers, LoseSession(w) PROVE TypeOK'
  <2>1. faults' \in [FaultKinds -> Nat]
    BY <1>3, FaultTypes DEF LoseSession, FaultKinds
  <2> QED
    BY <1>3, <2>1 DEF LoseSession, TypeOK, table, cluster
<1>4. ASSUME NEW r \in Runs, NEW result \in {"succeeded", "failed"},
             JobEnds(r, result)
      PROVE  TypeOK'
  <2>1. job' \in [Runs -> Jobs \cup {NULL}]
    <3>1. job[r] \in Jobs
      BY <1>4 DEF JobEnds, TypeOK
    <3>2. [job[r] EXCEPT !.state = result] \in Jobs
      BY <3>1 DEF Jobs, JobStates
    <3> QED
      BY <1>4, <3>2 DEF JobEnds, TypeOK
  <2>2. objects' \in [Runs -> SUBSET Files] /\ completed' \in [Runs -> SUBSET Uids]
    BY <1>4, NullIsNoValue DEF JobEnds, TypeOK, Jobs
  <2> QED
    BY <1>4, <2>1, <2>2 DEF JobEnds, TypeOK, table, locals
<1>5. ASSUME NEW r \in Runs, DeleteJob(r) PROVE TypeOK'
  <2>1. faults' \in [FaultKinds -> Nat]
    BY <1>5, FaultTypes DEF DeleteJob, FaultKinds
  <2> QED
    BY <1>5, <2>1 DEF DeleteJob, TypeOK, table, locals
<1> QED
  BY <1>1, <1>2, <1>3, <1>4, <1>5, WorkerTypes
     DEF Next, WorkerFault, JobProgress

-----------------------------------------------------------------------------
(* Locks                                                                   *)

(* What a step of w leaves alone: the locals of all other workers, and the *)
(* locks that are neither free nor its own.                                *)
FaultsGrow ==
    \A kind \in FaultKinds :
        faults'[kind] \in Nat /\ faults[kind] <= faults'[kind]

OnlyOwn(w) ==
    /\ \A v \in Workers \ {w} :
        /\ pc'[v] = pc[v] /\ todo'[v] = todo[v] /\ current'[v] = current[v]
        /\ work'[v] = work[v] /\ seen'[v] = seen[v] /\ outcome'[v] = outcome[v]
        /\ session'[v] = session[v]
    /\ \A r \in Runs : lock'[r] = lock[r] \/ lock[r] \in {NULL, w}
    /\ \A r \in Runs : lock'[r] = lock[r] \/ lock'[r] \in {NULL, w}
    /\ FaultsGrow

(* The counts of faults never go down.                                     *)
LEMMA FaultGrows ==
    ASSUME TypeOK, faults' = faults \/ \E kind \in FaultKinds : Fault(kind)
    PROVE  FaultsGrow
<1>1. CASE faults' = faults
  BY <1>1 DEF TypeOK, FaultsGrow
<1>2. ASSUME NEW kind \in FaultKinds, Fault(kind)
      PROVE  FaultsGrow
  <2>1. faults \in [FaultKinds -> Nat] /\ faults' = [faults EXCEPT ![kind] = @ + 1]
    BY <1>2 DEF Fault, TypeOK
  <2> QED
    BY <2>1 DEF FaultsGrow
<1> QED
  BY <1>1, <1>2

(* Faults respect their budget.                                            *)
LEMMA FaultBounds ==
    ASSUME TypeOK, faults' = faults \/ \E kind \in FaultKinds : Fault(kind),
           NEW k \in FaultKinds, faults[k] <= Budget(k)
    PROVE  faults'[k] <= Budget(k)
<1>1. Budget(k) \in Nat
  BY ExecutionAssumption DEF Budget, FaultKinds
<1> HIDE DEF Budget
<1>2. ASSUME NEW kind \in FaultKinds, Fault(kind)
      PROVE  faults'[k] <= Budget(k)
  <2>1. /\ faults \in [FaultKinds -> Nat] /\ faults[kind] < Budget(kind)
        /\ faults' = [faults EXCEPT ![kind] = @ + 1]
    BY <1>2 DEF Fault, TypeOK
  <2>2. CASE k = kind
    BY <1>1, <2>1, <2>2
  <2>3. CASE k # kind
    BY <1>1, <2>1, <2>3
  <2> QED
    BY <2>2, <2>3
<1> QED
  BY <1>2

(* A step has at most one fault.                                           *)
LEMMA NextFaults ==
    ASSUME Next
    PROVE  faults' = faults \/ \E kind \in FaultKinds : Fault(kind)
<1>1. ASSUME NEW w \in Workers, WorkerStep(w)
      PROVE  faults' = faults
  BY <1>1 DEF WorkerStep, StartTick, TryLock, Claim, EndTick, Load, GetJob,
     CreateJob, GetAgain, VerifyContract, SaveUid, Collect, Finish, Unlock,
     SessionGone
<1>2. ASSUME NEW w \in Workers, WorkerFault(w)
      PROVE  \E kind \in FaultKinds : Fault(kind)
  BY <1>2 DEF WorkerFault, CreateFails, Unavailable, Crash, LoseSession,
     FaultKinds
<1>3. ASSUME NEW r \in Runs, JobProgress(r) \/ DeleteJob(r)
      PROVE  faults' = faults \/ \E kind \in FaultKinds : Fault(kind)
  BY <1>3 DEF JobProgress, JobEnds, DeleteJob, FaultKinds
<1> QED
  BY <1>1, <1>2, <1>3 DEF Next

(* A worker's step leaves the private state of the others alone.           *)
LEMMA StepIsOwn ==
    ASSUME ExecutionInv, NEW w \in Workers, WorkerStep(w) \/ WorkerFault(w)
    PROVE  OnlyOwn(w)
<1> USE DEF ExecutionInv
<1>0. FaultsGrow
  BY NextFaults, FaultGrows DEF Next
<1>1. CASE StartTick(w) \/ Claim(w)
  BY <1>0, <1>1 DEF StartTick, Claim, Goto, TypeOK, OnlyOwn
<1>2. CASE TryLock(w)
  BY <1>0, <1>2 DEF TryLock, Goto, TypeOK, OnlyOwn
<1>3. CASE Load(w) \/ GetJob(w) \/ CreateJob(w)
  BY <1>0, <1>3 DEF Load, GetJob, CreateJob, Decide, Goto, TypeOK, OnlyOwn
<1>4. CASE VerifyContract(w) \/ SaveUid(w) \/ Collect(w) \/ Finish(w)
  BY <1>0, <1>4 DEF VerifyContract, SaveUid, Collect, Finish, Decide, Goto,
     TypeOK, OnlyOwn
<1>5. CASE CreateFails(w)
  BY <1>0, <1>5 DEF CreateFails, Goto, TypeOK, OnlyOwn
<1>6. CASE LoseSession(w)
  <2>1. lock[current[w]] = w
    BY <1>6 DEF LoseSession, LocksHeld, LockOf
  <2> QED
    BY <1>0, <1>6, <2>1 DEF LoseSession, TypeOK, OnlyOwn
<1>7. CASE GetAgain(w) /\ job[current[w]] # NULL
  BY <1>0, <1>7 DEF GetAgain, Goto, TypeOK, OnlyOwn
<1>8. CASE Unlock(w)
  BY <1>0, <1>8 DEF Unlock, Leave, TypeOK, OnlyOwn
<1>9. CASE AbandonTick(w)
  BY <1>0, <1>9 DEF AbandonTick, Leave, TypeOK, OnlyOwn
<1> QED
  BY <1>1, <1>2, <1>3, <1>4, <1>5, <1>6, <1>7, <1>8, <1>9
     DEF WorkerStep, WorkerFault, EndTick, SessionGone, Unavailable, Crash,
         GetAgain

(* A step of w keeps the locks of all other workers in order.              *)
LEMMA OtherLocks ==
    ASSUME ExecutionInv, NEW w \in Workers, OnlyOwn(w),
           NEW v \in Workers \ {w}
    PROVE  LockOf(v)'
<1>1. /\ pc'[v] = pc[v] /\ current'[v] = current[v] /\ session'[v] = session[v]
      /\ v # NULL /\ v # w /\ v \in Workers
  BY NullIsNoValue DEF OnlyOwn
<1>2. \A r \in Runs : lock'[r] = v <=> lock[r] = v
  BY <1>1 DEF OnlyOwn
<1>3. faults["disconnect"] > 0 => faults'["disconnect"] > 0
  BY DEF OnlyOwn, FaultsGrow, FaultKinds, ExecutionInv, TypeOK
<1>4. LockOf(v)
  BY DEF ExecutionInv, LocksHeld
<1> QED
  BY <1>1, <1>2, <1>3, <1>4 DEF LockOf

(* A worker that leaves a reconciliation holds no lock.                    *)
LEMMA AbandonLocks ==
    ASSUME ExecutionInv, NEW w \in Workers, NEW label \in {"idle", "next"},
           Leave(w, label)
    PROVE  LockOf(w)'
BY NullIsNoValue DEF ExecutionInv, LocksHeld, LockOf, Leave, TypeOK, Reconciling,
   Labels

(* A worker's own step keeps the account of its lock.                      *)
LEMMA OwnLocks ==
    ASSUME ExecutionInv, NEW w \in Workers, WorkerStep(w) \/ WorkerFault(w)
    PROVE  LockOf(w)'
<1> USE DEF ExecutionInv
<1>0. faults["disconnect"] > 0 => faults'["disconnect"] > 0
  BY NextFaults, FaultGrows DEF Next, FaultsGrow, FaultKinds, TypeOK
<1>1. CASE StartTick(w) \/ Claim(w)
  BY <1>1 DEF StartTick, Claim, Goto, TypeOK, LocksHeld, LockOf, Reconciling,
     Labels
<1>2. CASE TryLock(w)
  <2>1. PICK r \in todo[w] :
          \/ /\ lock[r] = NULL /\ lock' = [lock EXCEPT ![r] = w]
             /\ current' = [current EXCEPT ![w] = r]
             /\ pc' = [pc EXCEPT ![w] = "load"]
          \/ UNCHANGED <<lock, current, pc>>
    BY <1>2 DEF TryLock, Goto
  <2>2. /\ r \in Runs /\ current[w] = NULL /\ session[w]
        /\ pc[w] = "next" /\ UNCHANGED <<session, faults>>
    BY <1>2 DEF TryLock, TypeOK, LocksHeld, LockOf, Reconciling
  <2>3. \A q \in Runs : lock[q] # w
    BY <2>2, NullIsNoValue DEF LocksHeld, LockOf
  <2> QED
    <3>1. CASE UNCHANGED <<lock, current, pc>>
      BY <2>2, <3>1 DEF LocksHeld, LockOf
    <3>2. CASE /\ lock' = [lock EXCEPT ![r] = w]
               /\ current' = [current EXCEPT ![w] = r]
               /\ pc' = [pc EXCEPT ![w] = "load"]
      <4>1. current'[w] = r /\ pc'[w] = "load" /\ session'[w]
        BY <2>2, <3>2 DEF TypeOK
      <4>2. \A q \in Runs : lock'[q] = IF q = r THEN w ELSE lock[q]
        BY <2>2, <3>2 DEF TypeOK
      <4> QED
        BY <2>2, <2>3, <4>1, <4>2 DEF LockOf, Reconciling, Labels
    <3> QED
      BY <2>1, <3>1, <3>2
<1>3. CASE Load(w) \/ GetJob(w) \/ CreateJob(w) \/ CreateFails(w)
  <2>1. pc[w] \in Reconciling /\ pc'[w] \in Reconciling
    <3>1. CASE Load(w)
      BY <3>1 DEF Load, Goto, TypeOK, Reconciling, Labels
    <3>2. CASE GetJob(w)
      BY <3>2 DEF GetJob, Decide, Goto, TypeOK, Reconciling, Labels
    <3>3. CASE CreateJob(w) \/ CreateFails(w)
      BY <3>3 DEF CreateJob, CreateFails, Goto, TypeOK, Reconciling, Labels
    <3> QED
      BY <1>3, <3>1, <3>2, <3>3
  <2>2. UNCHANGED <<lock, session, current>>
    BY <1>3 DEF Load, GetJob, CreateJob, CreateFails
  <2> QED
    BY <1>0, <2>1, <2>2 DEF LocksHeld, LockOf
<1>4. CASE VerifyContract(w) \/ SaveUid(w)
  BY <1>4 DEF VerifyContract, SaveUid, Decide, Goto, TypeOK, LocksHeld, LockOf,
     Reconciling, Labels
<1>5. CASE Collect(w) \/ Finish(w)
  BY <1>5 DEF Collect, Finish, Decide, Goto, TypeOK, LocksHeld, LockOf,
     Reconciling, Labels
<1>6. CASE GetAgain(w) /\ job[current[w]] # NULL
  <2>1. pc[w] \in Reconciling /\ pc'[w] \in Reconciling
    BY <1>6 DEF GetAgain, Goto, TypeOK, Reconciling, Labels
  <2>2. UNCHANGED <<lock, session, current>>
    BY <1>6 DEF GetAgain
  <2> QED
    BY <1>0, <2>1, <2>2 DEF LocksHeld, LockOf
<1>7. CASE LoseSession(w)
  <2>1. faults'["disconnect"] > 0
    <3>1. faults \in [FaultKinds -> Nat] /\ "disconnect" \in FaultKinds
      BY DEF TypeOK, FaultKinds
    <3> QED
      BY <1>7, <3>1 DEF LoseSession, Fault
  <2>2. /\ current[w] \in Runs /\ pc'[w] = pc[w] /\ current'[w] = current[w]
        /\ ~session'[w] /\ pc[w] \in Reconciling
    BY <1>7 DEF LoseSession, TypeOK, LocksHeld, LockOf
  <2>3. \A q \in Runs : lock'[q] # w
    BY <1>7, <2>2, NullIsNoValue DEF LoseSession, TypeOK, LocksHeld, LockOf
  <2> QED
    BY <2>1, <2>2, <2>3 DEF LockOf
<1>8. CASE Unlock(w) \/ EndTick(w) \/ SessionGone(w) \/ Unavailable(w)
             \/ Crash(w) \/ (GetAgain(w) /\ job[current[w]] = NULL)
  BY <1>8, AbandonLocks
     DEF Unlock, EndTick, SessionGone, Unavailable, Crash, GetAgain, AbandonTick
<1> QED
  BY <1>1, <1>2, <1>3, <1>4, <1>5, <1>6, <1>7, <1>8
     DEF WorkerStep, WorkerFault

(* Every step keeps the account of the session locks.                      *)
LEMMA NextLocks ==
    ASSUME ExecutionInv, Next
    PROVE  LocksHeld'
<1>1. ASSUME NEW w \in Workers, WorkerStep(w) \/ WorkerFault(w)
      PROVE  \A v \in Workers : LockOf(v)'
  BY <1>1, StepIsOwn, OtherLocks, OwnLocks
<1>2. ASSUME NEW r \in Runs, JobProgress(r) \/ DeleteJob(r)
      PROVE  \A v \in Workers : LockOf(v)'
  <2>1. UNCHANGED <<lock, session, current, pc>>
    BY <1>2 DEF JobProgress, JobEnds, DeleteJob, locals
  <2>2. faults["disconnect"] > 0 => faults'["disconnect"] > 0
    BY NextFaults, FaultGrows DEF FaultsGrow, FaultKinds, ExecutionInv, TypeOK
  <2> QED
    BY <2>1, <2>2 DEF ExecutionInv, LocksHeld, LockOf
<1>3. faults'["disconnect"] <= MaxDisconnects
  BY NextFaults, FaultBounds DEF ExecutionInv, LocksHeld, FaultKinds, Budget
<1> QED
  BY <1>1, <1>2, <1>3 DEF Next, LocksHeld

-----------------------------------------------------------------------------
(* The cluster                                                             *)

(* What one step may do to the Job of a run.                               *)
JobKept(r) ==
    /\ job'[r] = job[r] /\ objects'[r] = objects[r]
    /\ created'[r] = created[r] /\ completed'[r] = completed[r]
    /\ deleted'[r] = deleted[r]
JobMade(r) ==
    /\ job[r] = NULL /\ status[r] # "accepted"
    /\ job'[r] = NewJob(r) /\ created'[r] = created[r] + 1
    /\ objects'[r] = objects[r] /\ completed'[r] = completed[r]
    /\ deleted'[r] = deleted[r]
JobEnded(r, result) ==
    /\ job[r] # NULL /\ job[r].contract /\ job[r].state = "active"
    /\ job'[r] = [job[r] EXCEPT !.state = result]
    /\ objects[r] \subseteq objects'[r]
    /\ completed'[r] = IF result = "succeeded"
                       THEN completed[r] \cup {job[r].uid} ELSE completed[r]
    /\ created'[r] = created[r] /\ deleted'[r] = deleted[r]
JobDeleted(r) ==
    /\ job[r] # NULL /\ job[r].contract /\ job'[r] = NULL
    /\ deleted'[r] = deleted[r] + 1
    /\ faults'["delete"] = faults["delete"] + 1
    /\ objects'[r] = objects[r] /\ created'[r] = created[r]
    /\ completed'[r] = completed[r]

JobMoves(r) ==
    \/ JobKept(r) \/ JobMade(r) \/ JobDeleted(r)
    \/ \E result \in {"succeeded", "failed"} : JobEnded(r, result)

(* A Job that a worker makes is the next of its run and nobody else's.     *)
LEMMA JobMadeByWorker ==
    ASSUME TypeOK, NEW q \in Runs, job[q] = NULL, status[q] # "accepted",
           MakeJob(q), NEW r \in Runs
    PROVE  JobKept(r) \/ JobMade(r)
<1>1. CASE r = q
  BY <1>1 DEF TypeOK, MakeJob, JobMade
<1>2. CASE r # q
  BY <1>2 DEF TypeOK, MakeJob, JobKept
<1> QED
  BY <1>1, <1>2

(* What a step may do to the Job of a run.                                 *)
LEMMA NextJobMoves ==
    ASSUME ExecutionInv, Next, NEW r \in Runs
    PROVE  JobMoves(r)
<1> USE DEF ExecutionInv
<1>1. CASE UNCHANGED cluster
  BY <1>1 DEF cluster, JobMoves, JobKept
<1>2. ASSUME NEW w \in Workers, CreateJob(w) \/ CreateFails(w), ~UNCHANGED cluster
      PROVE  JobMoves(r)
  <2>1. /\ current[w] \in Runs /\ job[current[w]] = NULL /\ MakeJob(current[w])
        /\ status[current[w]] # "accepted"
    BY <1>2 DEF CreateJob, CreateFails, LocksHeld, LockOf, HandsTrue, Hands,
       Reconciling, Labels
  <2> QED
    BY <2>1, JobMadeByWorker DEF JobMoves
<1>3. ASSUME NEW q \in Runs, NEW result \in {"succeeded", "failed"},
             JobEnds(q, result)
      PROVE  JobMoves(r)
  <2>1. CASE r = q
    <3>1. job'[r] = [job[r] EXCEPT !.state = result]
      BY <1>3, <2>1 DEF JobEnds, TypeOK
    <3>2. objects[r] \subseteq objects'[r]
      BY <1>3, <2>1 DEF JobEnds, TypeOK
    <3>3. completed'[r] = IF result = "succeeded"
                          THEN completed[r] \cup {job[r].uid} ELSE completed[r]
      BY <1>3, <2>1 DEF JobEnds, TypeOK
    <3> QED
      BY <1>3, <2>1, <3>1, <3>2, <3>3 DEF JobEnds, JobMoves, JobEnded
  <2>2. CASE r # q
    BY <1>3, <2>2 DEF JobEnds, TypeOK, JobMoves, JobKept
  <2> QED
    BY <2>1, <2>2
<1>4. ASSUME NEW q \in Runs, DeleteJob(q)
      PROVE  JobMoves(r)
  <2>1. faults'["delete"] = faults["delete"] + 1
    BY <1>4 DEF DeleteJob, Fault, TypeOK, FaultKinds
  <2>2. CASE r = q
    BY <1>4, <2>1, <2>2 DEF DeleteJob, TypeOK, JobMoves, JobDeleted
  <2>3. CASE r # q
    BY <1>4, <2>3 DEF DeleteJob, TypeOK, JobMoves, JobKept
  <2> QED
    BY <2>2, <2>3
<1>5. ASSUME NEW w \in Workers, WorkerStep(w), ~CreateJob(w)
      PROVE  UNCHANGED cluster
  BY <1>5 DEF WorkerStep, StartTick, TryLock, Claim, EndTick, Load, GetJob,
     GetAgain, VerifyContract, SaveUid, Collect, Finish, Unlock, SessionGone
<1>6. ASSUME NEW w \in Workers, WorkerFault(w), ~CreateFails(w)
      PROVE  UNCHANGED cluster
  BY <1>6 DEF WorkerFault, Unavailable, Crash, LoseSession
<1> QED
  BY <1>1, <1>2, <1>3, <1>4, <1>5, <1>6 DEF Next, JobProgress

(* Jobs stay counted.                                                      *)
LEMMA NextJobs ==
    ASSUME ExecutionInv, Next
    PROVE  JobsCounted'
<1> USE DEF ExecutionInv
<1>1. /\ faults["delete"] \in Nat /\ faults'["delete"] \in Nat
      /\ faults["delete"] <= faults'["delete"]
  BY NextFaults, FaultGrows DEF FaultsGrow, FaultKinds, TypeOK
<1>2. faults'["delete"] <= MaxDeletes
  BY NextFaults, FaultBounds DEF JobsCounted, FaultKinds, Budget
<1>3. ASSUME NEW r \in Runs
      PROVE  Counted(r)'
  <2>1. /\ created[r] \in Nat /\ deleted[r] \in Nat
        /\ completed[r] \subseteq Int /\ Counted(r)
    BY DEF TypeOK, Uids, JobsCounted
  <2>2. CASE JobKept(r)
    BY <1>1, <2>1, <2>2 DEF JobKept, Counted
  <2>3. CASE JobMade(r)
    <3>1. /\ job'[r] # NULL /\ job'[r].contract /\ job'[r].uid = created[r] + 1
          /\ job'[r].state = "active"
      <4>1. NewJob(r) \in Jobs
        <5>1. created[r] \in Nat /\ created[r] <= MaxDeletes
          BY <1>1, <2>1, <2>3, ExecutionAssumption DEF JobMade, Counted, JobsCounted
        <5> QED
          BY <5>1, ExecutionAssumption DEF NewJob, Jobs, Uids, JobStates
      <4>2. job'[r] = NewJob(r) /\ NewJob(r) # NULL
        BY <2>3, <4>1, NullIsNoValue DEF JobMade
      <4> QED
        BY <4>2 DEF NewJob
    <3> QED
      BY <1>1, <2>1, <2>3, <3>1 DEF JobMade, Counted
  <2>4. CASE JobDeleted(r)
    BY <1>1, <2>1, <2>4 DEF JobDeleted, Counted
  <2>5. ASSUME NEW result \in {"succeeded", "failed"}, JobEnded(r, result)
        PROVE  Counted(r)'
    <3>1. job[r] \in Jobs
      BY <2>5 DEF JobEnded, TypeOK
    <3>2. /\ job'[r].uid = job[r].uid /\ job'[r].contract
          /\ job'[r].state = result /\ job'[r] # NULL
      BY <2>5, <3>1, NullIsNoValue DEF JobEnded, Jobs, JobStates
    <3> QED
      BY <1>1, <2>1, <2>5, <3>1, <3>2 DEF JobEnded, Counted
  <2> QED
    BY <2>2, <2>3, <2>4, <2>5, NextJobMoves DEF JobMoves
<1> QED
  BY <1>2, <1>3 DEF JobsCounted

(* The cluster only moves forward: what a worker once read stays true, or  *)
(* somebody deleted the Job.                                               *)
Forward(r) ==
    /\ created[r] \in Nat /\ created'[r] \in Nat /\ created[r] <= created'[r]
    /\ deleted[r] > 0 => deleted'[r] > 0
    /\ completed[r] \subseteq completed'[r] /\ objects[r] \subseteq objects'[r]
    /\ job[r] # NULL /\ job[r].uid = 0 => job'[r] = job[r]
    /\ job[r] # NULL /\ job[r].state # "active" =>
         job'[r] = job[r] \/ deleted'[r] > 0
    /\ job'[r] # NULL /\ job'[r].uid <= created[r] =>
         /\ job[r] # NULL /\ job[r].uid = job'[r].uid
         /\ job[r].state # "active" => job'[r].state = job[r].state

(* History only goes forward: Jobs are counted, ends and deletions         *)
(* remembered.                                                             *)
LEMMA NextForward ==
    ASSUME ExecutionInv, Next, NEW r \in Runs
    PROVE  Forward(r)
<1> USE DEF ExecutionInv
<1>1. /\ created[r] \in Nat /\ deleted[r] \in Nat /\ Counted(r)
      /\ job[r] # NULL => job[r] \in Jobs
  BY DEF TypeOK, JobsCounted
<1>2. CASE JobKept(r)
  BY <1>1, <1>2 DEF JobKept, Forward
<1>3. CASE JobMade(r)
  BY <1>1, <1>3 DEF JobMade, NewJob, Forward
<1>4. CASE JobDeleted(r)
  BY <1>1, <1>4 DEF JobDeleted, Counted, Forward
<1>5. ASSUME NEW result \in {"succeeded", "failed"}, JobEnded(r, result)
      PROVE  Forward(r)
  <2>1. /\ job[r].uid # 0 /\ job'[r].uid = job[r].uid
        /\ job[r].state = "active" /\ job[r] # NULL
    BY <1>1, <1>5 DEF JobEnded, Counted, Jobs
  <2> QED
    BY <1>1, <1>5, <2>1 DEF JobEnded, Forward
<1> QED
  BY <1>2, <1>3, <1>4, <1>5, NextJobMoves DEF JobMoves

(* The cause of a failure does not go away.                                *)
LEMMA CauseStays ==
    ASSUME NEW r \in Runs, NEW code, Forward(r), Cause(r, code)
    PROVE  /\ code = "job_lost" => deleted'[r] > 0
           /\ code = "job_failed" =>
                deleted'[r] > 0 \/ (job'[r] # NULL /\ job'[r].state = "failed")
           /\ code = "job_identity_conflict" =>
                deleted'[r] > 0 \/ (job'[r] # NULL /\ job'[r].uid = 0)
           /\ code \in {"required_outputs_missing", "outputs_empty"} =>
                completed'[r] # {}
BY DEF Forward, Cause

(* What a worker saw of a Job remains true of its history.                 *)
LEMMA SeenStays ==
    ASSUME NEW r \in Runs, NEW j \in Jobs, Forward(r), SeenOnce(r, j)
    PROVE  /\ j.contract => 1 <= j.uid /\ j.uid <= created'[r]
           /\ ~j.contract => j.uid = 0 /\ job'[r] # NULL /\ job'[r].uid = 0
           /\ j.state = "succeeded" => j.uid \in completed'[r]
           /\ j.state = "failed" =>
                deleted'[r] > 0 \/ (job'[r] # NULL /\ job'[r].state = "failed")
           /\ j.state # "active" /\ job'[r] # NULL /\ job'[r].uid = j.uid =>
                job'[r].state = j.state
<1>1. j.uid \in Int /\ j.contract \in BOOLEAN
  BY DEF Jobs, Uids
<1> QED
  BY <1>1 DEF Forward, SeenOnce

-----------------------------------------------------------------------------
(* The table                                                               *)

(* What one step may do to the row of a run.                               *)
RowKept(r) ==
    /\ status'[r] = status[r] /\ jobUid'[r] = jobUid[r]
    /\ failure'[r] = failure[r] /\ artifacts'[r] = artifacts[r]
    /\ events'[r] = events[r]
RowClaimed(r) ==
    /\ status[r] = "accepted" /\ status'[r] = "running"
    /\ jobUid'[r] = jobUid[r] /\ failure'[r] = failure[r]
    /\ artifacts'[r] = artifacts[r] /\ events'[r] = events[r]
RowRecorded(w, r) ==
    /\ pc[w] = "save" /\ session[w] /\ current[w] = r
    /\ jobUid[r] \in {NULL, seen[w].uid} /\ jobUid'[r] = seen[w].uid
    /\ status[r] = "running" /\ status'[r] = status[r]
    /\ failure'[r] = failure[r] /\ artifacts'[r] = artifacts[r]
    /\ events'[r] = events[r]
RowFinished(w, r) ==
    /\ pc[w] = "finish" /\ session[w] /\ current[w] = r
    /\ status[r] \notin TERMINAL_STATUSES
    /\ status'[r] = IF outcome[w].code = NULL THEN "succeeded" ELSE "failed"
    /\ failure'[r] = outcome[w].code
    /\ artifacts'[r] = outcome[w].artifacts
    /\ events'[r] = Append(events[r], TerminalEvent(status'[r]))
    /\ jobUid'[r] = jobUid[r]

RowMoves(w, r) ==
    RowKept(r) \/ RowClaimed(r) \/ RowRecorded(w, r) \/ RowFinished(w, r)

(* What a worker's step may do to the row of a run.                        *)
LEMMA WorkerRowMoves ==
    ASSUME ExecutionInv, NEW w \in Workers, WorkerStep(w) \/ WorkerFault(w),
           NEW r \in Runs
    PROVE  RowMoves(w, r)
<1> USE DEF ExecutionInv
<1>1. CASE UNCHANGED table
  BY <1>1 DEF table, RowMoves, RowKept
<1>2. CASE Claim(w)
  <2>1. PICK q \in Waiting : status' = [status EXCEPT ![q] = "running"]
    BY <1>2 DEF Claim
  <2>2. UNCHANGED <<jobUid, failure, artifacts, events>>
    BY <1>2 DEF Claim
  <2> QED
    BY <2>1, <2>2 DEF Waiting, TypeOK, RowMoves, RowKept, RowClaimed
<1>3. CASE SaveUid(w)
  <2>1. /\ UNCHANGED <<status, failure, artifacts, events>>
        /\ pc[w] = "save" /\ session[w] /\ current[w] \in Runs
        /\ \/ UNCHANGED jobUid
           \/ /\ jobUid[current[w]] \in {NULL, seen[w].uid}
              /\ status[current[w]] = "running"
              /\ jobUid' = [jobUid EXCEPT ![current[w]] = seen[w].uid]
    BY <1>3, HasRun DEF SaveUid, TypeOK
  <2> QED
    BY <2>1 DEF TypeOK, RowMoves, RowKept, RowRecorded
<1>4. CASE Finish(w)
  <2>1. current[w] \in Runs /\ pc[w] = "finish" /\ session[w]
    BY <1>4, HasRun DEF Finish, TypeOK
  <2>2. CASE status[current[w]] \in TERMINAL_STATUSES
    BY <1>1, <1>4, <2>2 DEF Finish
  <2>3. CASE status[current[w]] \notin TERMINAL_STATUSES /\ r # current[w]
    BY <1>4, <2>1, <2>3 DEF Finish, TypeOK, RowMoves, RowKept
  <2>4. CASE status[current[w]] \notin TERMINAL_STATUSES /\ r = current[w]
    <3>1. /\ status'[r] = IF outcome[w].code = NULL THEN "succeeded" ELSE "failed"
          /\ failure'[r] = outcome[w].code /\ artifacts'[r] = outcome[w].artifacts
          /\ jobUid'[r] = jobUid[r]
      BY <1>4, <2>1, <2>4 DEF Finish, TypeOK
    <3>2. events'[r] = Append(events[r], TerminalEvent(status'[r]))
      BY <1>4, <2>1, <2>4, <3>1 DEF Finish, TypeOK
    <3> QED
      BY <2>1, <2>4, <3>1, <3>2 DEF RowMoves, RowFinished
  <2> QED
    BY <2>2, <2>3, <2>4
<1>5. CASE WorkerStep(w) /\ ~Claim(w) /\ ~SaveUid(w) /\ ~Finish(w)
  <2>1. UNCHANGED table
    BY <1>5 DEF WorkerStep, StartTick, TryLock, EndTick, Load, GetJob,
       CreateJob, GetAgain, VerifyContract, Collect, Unlock, SessionGone
  <2> QED
    BY <1>1, <2>1
<1>6. CASE WorkerFault(w)
  <2>1. UNCHANGED table
    BY <1>6 DEF WorkerFault, CreateFails, Unavailable, Crash, LoseSession
  <2> QED
    BY <1>1, <2>1
<1> QED
  BY <1>2, <1>3, <1>4, <1>5, <1>6

(* A step of the cluster writes no row.                                    *)
LEMMA ClusterKeepsRows ==
    ASSUME NEW q \in Runs, JobProgress(q) \/ DeleteJob(q)
    PROVE  UNCHANGED <<table, lock, locals>>
BY DEF JobProgress, JobEnds, DeleteJob

(* A finished row: what the worker had in its hands.                       *)
LEMMA FinishedFacts ==
    ASSUME ExecutionInv, NEW w \in Workers, NEW r \in Runs, RowFinished(w, r)
    PROVE  /\ outcome[w] \in Outcomes /\ Cause(r, outcome[w].code)
           /\ status[r] = "running" /\ failure[r] = NULL
           /\ outcome[w].code = NULL =>
                Evidence(r, outcome[w].artifacts) /\ jobUid[r] \in completed[r]
<1>1. /\ Hands(w) /\ pc[w] = "finish" /\ pc[w] \in Loaded
      /\ session[w] /\ current[w] = r
  BY DEF ExecutionInv, HandsTrue, RowFinished, Loaded, Reconciling, Labels
<1>2. /\ outcome[w] \in Outcomes /\ Cause(r, outcome[w].code)
      /\ status[r] = "running"
      /\ outcome[w].code = NULL =>
           Evidence(r, outcome[w].artifacts) /\ jobUid[r] \in completed[r]
  BY <1>1 DEF Hands
<1>3. failure[r] = NULL
  BY <1>2 DEF ExecutionInv, RowsComplete
<1> QED
  BY <1>2, <1>3

RowTrue(r) ==
    /\ status[r] = "accepted" => created[r] = 0 /\ jobUid[r] = NULL
    /\ status[r] = "failed" <=> failure[r] # NULL
    /\ jobUid[r] # NULL => 1 <= jobUid[r] /\ jobUid[r] <= created[r]
    /\ Len(events[r]) = IF status[r] \in TERMINAL_STATUSES THEN 2 ELSE 1
    /\ Cause(r, failure[r])
    /\ status[r] = "succeeded" =>
         jobUid[r] \in completed[r] /\ Evidence(r, artifacts[r])

(* Rows stay complete, failures real and successes proven.                 *)
LEMMA NextRows ==
    ASSUME ExecutionInv, Next
    PROVE  RowsComplete' /\ FailuresAreReal' /\ SuccessHasEvidence'
<1> USE DEF ExecutionInv
<1> SUFFICES ASSUME NEW r \in Runs PROVE RowTrue(r)'
  BY DEF RowsComplete, FailuresAreReal, SuccessHasEvidence, Cause, Evidence, RowTrue
<1>1. Forward(r)
  BY NextForward
<1>2. /\ created[r] \in Nat /\ status[r] \in Statuses
      /\ events[r] \in Seq(EventTypes)
      /\ jobUid[r] # NULL => jobUid[r] \in Int
  BY DEF TypeOK, Uids
<1>3. /\ status[r] = "accepted" => created[r] = 0 /\ jobUid[r] = NULL
      /\ status[r] = "failed" <=> failure[r] # NULL
      /\ jobUid[r] # NULL => 1 <= jobUid[r] /\ jobUid[r] <= created[r]
      /\ Len(events[r]) = IF status[r] \in TERMINAL_STATUSES THEN 2 ELSE 1
      /\ Cause(r, failure[r])
      /\ status[r] = "succeeded" =>
           jobUid[r] \in completed[r] /\ Evidence(r, artifacts[r])
  BY DEF RowsComplete, FailuresAreReal, SuccessHasEvidence, Cause, Evidence
<1>4. Cause(r, failure[r])' \/ failure'[r] # failure[r]
  BY <1>1, <1>3, CauseStays DEF Cause
<1>5. status[r] = "accepted" => created'[r] = created[r]
  BY NextJobMoves DEF JobMoves, JobKept, JobMade, JobEnded, JobDeleted
<1>6. CASE RowKept(r)
  <2>1. Cause(r, failure[r])'
    BY <1>4, <1>6 DEF RowKept
  <2>2. status'[r] = "succeeded" =>
          jobUid'[r] \in completed'[r] /\ Evidence(r, artifacts[r])'
    BY <1>1, <1>3, <1>6 DEF RowKept, Forward, Evidence
  <2>3. jobUid'[r] # NULL => 1 <= jobUid'[r] /\ jobUid'[r] <= created'[r]
    BY <1>1, <1>2, <1>3, <1>6 DEF RowKept, Forward
  <2> QED
    BY <1>3, <1>5, <1>6, <2>1, <2>2, <2>3 DEF RowKept, RowTrue
<1>7. CASE RowClaimed(r)
  BY <1>3, <1>4, <1>7 DEF RowClaimed, RowTrue, TERMINAL_STATUSES
<1>8. ASSUME NEW w \in Workers, RowRecorded(w, r)
      PROVE  status'[r] = "running" /\ 1 <= jobUid'[r] /\ jobUid'[r] <= created'[r]
  <2>1. /\ seen[w] \in Jobs /\ SeenOnce(r, seen[w]) /\ seen[w].contract
    BY <1>8 DEF RowRecorded, HandsTrue, Hands
  <2> QED
    BY <1>1, <1>8, <2>1 DEF RowRecorded, SeenOnce, Forward, Jobs, Uids
<1>9. ASSUME NEW w \in Workers, RowFinished(w, r)
      PROVE  /\ Cause(r, failure[r])'
             /\ status'[r] \in TERMINAL_STATUSES /\ Len(events'[r]) = 2
             /\ status'[r] = "failed" <=> failure'[r] # NULL
             /\ status'[r] = "succeeded" =>
                  jobUid'[r] \in completed'[r] /\ Evidence(r, artifacts[r])'
             /\ jobUid'[r] # NULL => 1 <= jobUid'[r] /\ jobUid'[r] <= created'[r]
  <2>1. /\ outcome[w] \in Outcomes /\ Cause(r, outcome[w].code)
        /\ status[r] = "running" /\ failure[r] = NULL
        /\ outcome[w].code = NULL =>
             Evidence(r, outcome[w].artifacts) /\ jobUid[r] \in completed[r]
    BY <1>9, FinishedFacts
  <2>2. Cause(r, failure[r])'
    BY <1>1, <1>9, <2>1, CauseStays DEF RowFinished, Cause
  <2>3. status'[r] \in TERMINAL_STATUSES /\ (status'[r] = "failed" <=> failure'[r] # NULL)
    BY <1>9 DEF RowFinished, TERMINAL_STATUSES
  <2>4. Len(events'[r]) = 2
    <3>1. TerminalEvent(status'[r]) \in EventTypes
      BY DEF TerminalEvent, EventTypes
    <3>2. Len(events[r]) = 1
      BY <1>3, <2>1 DEF TERMINAL_STATUSES
    <3>3. \A s \in Seq(EventTypes), e \in EventTypes : Len(Append(s, e)) = Len(s) + 1
      OBVIOUS
    <3>4. Len(events'[r]) = Len(events[r]) + 1
      BY <1>2, <1>9, <3>1, <3>3, Zenon DEF RowFinished
    <3> QED
      BY <3>2, <3>4
  <2>5. status'[r] = "succeeded" =>
          jobUid'[r] \in completed'[r] /\ Evidence(r, artifacts[r])'
    BY <1>1, <1>9, <2>1 DEF RowFinished, Forward, Evidence
  <2>6. jobUid'[r] # NULL => 1 <= jobUid'[r] /\ jobUid'[r] <= created'[r]
    BY <1>1, <1>2, <1>3, <1>9 DEF RowFinished, Forward
  <2> QED
    BY <2>2, <2>3, <2>4, <2>5, <2>6
<1>10. ASSUME NEW w \in Workers, RowRecorded(w, r)
       PROVE  Cause(r, failure[r])'
  BY <1>4, <1>10 DEF RowRecorded
<1>11. ASSUME NEW w \in Workers, RowMoves(w, r)
       PROVE  RowTrue(r)'
  BY <1>3, <1>6, <1>7, <1>8, <1>9, <1>10, <1>11
     DEF RowMoves, RowRecorded, RowTrue, TERMINAL_STATUSES
<1> QED
  BY <1>6, <1>11, WorkerRowMoves, ClusterKeepsRows DEF Next, RowKept, table

-----------------------------------------------------------------------------
(* What the workers hold in their hands                                    *)

LocalsKept(v) ==
    /\ pc'[v] = pc[v] /\ todo'[v] = todo[v] /\ current'[v] = current[v]
    /\ work'[v] = work[v] /\ seen'[v] = seen[v] /\ outcome'[v] = outcome[v]
    /\ session'[v] = session[v]

(* Nobody writes the row of a run that v has locked.                       *)
RowIsMine(v) ==
    pc[v] \in Reconciling /\ session[v] =>
        /\ status'[current[v]] = status[current[v]]
        /\ jobUid'[current[v]] = jobUid[current[v]]

StatusStays ==
    \A r \in Runs : status[r] # "accepted" => status'[r] # "accepted"

(* A run that is not waiting for a worker never waits for one again.       *)
LEMMA NextStatus ==
    ASSUME ExecutionInv, Next
    PROVE  StatusStays
<1>1. ASSUME NEW w \in Workers, NEW r \in Runs, RowMoves(w, r),
             status[r] # "accepted"
      PROVE  status'[r] # "accepted"
  BY <1>1 DEF RowMoves, RowKept, RowClaimed, RowRecorded, RowFinished
<1> QED
  BY <1>1, WorkerRowMoves, ClusterKeepsRows DEF Next, StatusStays, table

(* The row that another worker holds the lock of is not changed.           *)
LEMMA OthersRow ==
    ASSUME ExecutionInv, NEW w \in Workers, WorkerStep(w) \/ WorkerFault(w),
           NEW v \in Workers \ {w}
    PROVE  RowIsMine(v)
<1> SUFFICES ASSUME pc[v] \in Reconciling, session[v]
             PROVE  /\ status'[current[v]] = status[current[v]]
                    /\ jobUid'[current[v]] = jobUid[current[v]]
  BY DEF RowIsMine
<1> DEFINE r == current[v]
<1>1. r \in Runs /\ lock[r] = v /\ status[r] # "accepted"
  BY DEF ExecutionInv, LocksHeld, LockOf, HandsTrue, Hands
<1>2. ~(pc[w] \in Reconciling /\ session[w] /\ current[w] = r)
  BY <1>1 DEF ExecutionInv, LocksHeld, LockOf
<1>3. RowMoves(w, r)
  BY <1>1, WorkerRowMoves
<1> QED
  BY <1>1, <1>2, <1>3
     DEF RowMoves, RowKept, RowClaimed, RowRecorded, RowFinished, Reconciling, Labels

(* A worker whose locals are left alone keeps true ones.                   *)
LEMMA KeepHands ==
    ASSUME ExecutionInv, NEW v \in Workers, LocalsKept(v), RowIsMine(v),
           StatusStays, \A r \in Runs : Forward(r)
    PROVE  Hands(v)'
<1>1. Hands(v) /\ todo[v] \subseteq Runs /\ pc[v] \in Labels
  BY DEF ExecutionInv, HandsTrue, TypeOK
<1>2. pc[v] \in Reconciling => current[v] \in Runs
  BY DEF ExecutionInv, LocksHeld, LockOf
<1>3. \A r \in todo'[v] : status'[r] # "accepted"
  BY <1>1 DEF Hands, LocalsKept, StatusStays
<1>4. CASE pc[v] \notin Reconciling
  BY <1>3, <1>4 DEF Hands, LocalsKept, Loaded, Reconciling, Labels
<1>5. CASE pc[v] \in Reconciling
  <2> DEFINE r == current[v]
  <2>1. r \in Runs /\ Forward(r) /\ current'[v] = r
    BY <1>2, <1>5 DEF LocalsKept
  <2>2. /\ status'[r] # "accepted"
        /\ pc[v] \in Loaded /\ session[v] => status'[r] = "running"
    BY <1>1, <1>5, <2>1 DEF Hands, StatusStays, RowIsMine
  <2>3. /\ pc[v] \in Loaded /\ work[v] # NULL => 1 <= work[v] /\ work[v] <= created'[r]
        /\ pc[v] \in Loaded /\ session[v] /\ work[v] # NULL => jobUid'[r] = work[v]
    <3>1. work[v] # NULL => work[v] \in Int
      BY DEF ExecutionInv, TypeOK, Uids
    <3> QED
      BY <1>1, <1>5, <2>1, <3>1 DEF Hands, Forward, RowIsMine
  <2>4. pc[v] \in {"verify", "save", "collect"} =>
          seen[v] \in Jobs /\ SeenOnce(r, seen[v])'
    BY <1>1, <2>1, SeenStays DEF Hands, SeenOnce, LocalsKept
  <2>5. pc[v] = "finish" => outcome[v] \in Outcomes /\ Cause(r, outcome[v].code)'
    BY <1>1, <2>1, CauseStays DEF Hands, Cause, LocalsKept
  <2>6. pc[v] = "finish" /\ outcome[v].code = NULL =>
          /\ Evidence(r, outcome[v].artifacts)'
          /\ completed'[r] # {}
          /\ session[v] => jobUid'[r] \in completed'[r]
    BY <1>1, <1>5, <2>1 DEF Hands, Evidence, Forward, RowIsMine, LocalsKept
  <2>7. pc[v] = "collect" /\ session[v] => jobUid'[r] = seen[v].uid
    BY <1>1, <1>5 DEF Hands, RowIsMine
  <2> QED
    BY <1>1, <1>3, <2>1, <2>2, <2>3, <2>4, <2>5, <2>6, <2>7 DEF Hands, LocalsKept
<1> QED
  BY <1>4, <1>5

(* A worker outside a reconciliation holds nothing but its list.           *)
LEMMA FreeHands ==
    ASSUME NEW w \in Workers, pc'[w] \in {"idle", "next"},
           \A r \in todo'[w] : status'[r] # "accepted"
    PROVE  Hands(w)'
BY DEF Hands, Loaded, Reconciling

(* Starting a reconciliation: what the worker has in hand was just read.   *)
LEMMA OwnHandsTick ==
    ASSUME ExecutionInv, NEW w \in Workers, TypeOK', StatusStays,
           StartTick(w) \/ TryLock(w) \/ Claim(w) \/ Load(w)
    PROVE  Hands(w)'
<1> USE DEF ExecutionInv
<1>0. Hands(w) /\ todo[w] \subseteq Runs
  BY DEF HandsTrue, TypeOK
<1>1. CASE StartTick(w)
  <2>1. pc'[w] = "next" /\ todo'[w] = RunningRuns
    BY <1>1 DEF StartTick, Goto, TypeOK
  <2>2. \A r \in RunningRuns : status'[r] # "accepted"
    BY DEF RunningRuns, StatusStays
  <2> QED
    BY <2>1, <2>2, FreeHands
<1>2. CASE TryLock(w)
  <2>1. PICK r \in todo[w] :
          /\ todo' = [todo EXCEPT ![w] = @ \ {r}]
          /\ \/ /\ current' = [current EXCEPT ![w] = r]
                /\ pc' = [pc EXCEPT ![w] = "load"]
             \/ UNCHANGED pc
    BY <1>2 DEF TryLock, Goto
  <2>2. \A q \in todo[w] : status'[q] # "accepted"
    BY <1>0 DEF Hands, StatusStays
  <2>3. todo'[w] = todo[w] \ {r} /\ pc[w] = "next"
    BY <1>2, <2>1 DEF TryLock, TypeOK
  <2>4. CASE UNCHANGED pc
    BY <2>2, <2>3, <2>4, FreeHands
  <2>5. CASE /\ current' = [current EXCEPT ![w] = r]
             /\ pc' = [pc EXCEPT ![w] = "load"]
    <3>1. current'[w] = r /\ pc'[w] = "load"
      BY <2>5 DEF TypeOK
    <3> QED
      BY <2>1, <2>2, <2>3, <3>1 DEF Hands, Loaded
  <2> QED
    BY <2>1, <2>4, <2>5
<1>3. CASE Claim(w)
  <2>1. PICK r \in Waiting :
          /\ status' = [status EXCEPT ![r] = "running"]
          /\ todo' = [todo EXCEPT ![w] = {r}]
    BY <1>3 DEF Claim
  <2>2. r \in Runs /\ status'[r] = "running" /\ todo'[w] = {r} /\ pc'[w] = "next"
    BY <1>3, <2>1 DEF Claim, Waiting, TypeOK
  <2> QED
    BY <2>2, FreeHands
<1>4. CASE Load(w)
  <2> DEFINE r == current[w]
  <2>1. /\ r \in Runs /\ UNCHANGED <<table, cluster, todo, current, session>>
        /\ pc[w] = "load" /\ pc[w] \in Reconciling
    BY <1>4, HasRun DEF Load, TypeOK, Reconciling, Labels
  <2>2. CASE status[r] = "running"
    <3>1. pc'[w] = "get" /\ work'[w] = jobUid[r]
      BY <1>4, <2>2 DEF Load, Goto, TypeOK
    <3> QED
      BY <1>0, <2>1, <2>2, <3>1 DEF Hands, RowsComplete, table, cluster
  <2>3. CASE status[r] # "running"
    <3>1. pc'[w] = "unlock"
      BY <1>4, <2>3 DEF Load, Goto, TypeOK
    <3> QED
      BY <1>0, <2>1, <3>1 DEF Hands, table, Loaded
  <2> QED
    BY <2>2, <2>3
<1> QED
  BY <1>1, <1>2, <1>3, <1>4

(* A Job just read, or just made.                                          *)
LEMMA SeenNow ==
    ASSUME ExecutionInv, NEW r \in Runs, job[r] # NULL
    PROVE  job[r] \in Jobs /\ SeenOnce(r, job[r])
<1>1. job[r] \in Jobs /\ Counted(r) /\ created[r] \in Nat /\ deleted[r] \in Nat
  BY DEF ExecutionInv, TypeOK, JobsCounted
<1>2. job[r].uid \in Int /\ job[r].contract \in BOOLEAN
  BY <1>1 DEF Jobs, Uids
<1> QED
  BY <1>1, <1>2 DEF Counted, SeenOnce

(* Looking at the cluster: what it has in hand was seen there.             *)
LEMMA OwnHandsCluster ==
    ASSUME ExecutionInv, NEW w \in Workers, TypeOK',
           GetJob(w) \/ (GetAgain(w) /\ job[current[w]] # NULL) \/ VerifyContract(w)
    PROVE  Hands(w)'
<1> USE DEF ExecutionInv
<1> DEFINE r == current[w]
<1>0. /\ Hands(w) /\ r \in Runs /\ pc[w] \in Loaded
      /\ UNCHANGED <<table, cluster, todo, current, work, session>>
  BY HasRun DEF HandsTrue, TypeOK, GetJob, GetAgain, VerifyContract, Loaded,
     Reconciling, Labels
<1>1. /\ status[r] # "accepted" /\ (session[w] => status[r] = "running")
      /\ work[w] # NULL => 1 <= work[w] /\ work[w] <= created[r]
      /\ session[w] /\ work[w] # NULL => jobUid[r] = work[w]
      /\ \A q \in todo[w] : status[q] # "accepted"
  BY <1>0 DEF Hands, Loaded
<1>2. ASSUME seen'[w] = job[r], job[r] # NULL, pc'[w] = "verify"
      PROVE  Hands(w)'
  <2>1. job[r] \in Jobs /\ SeenOnce(r, job[r])
    BY <1>0, <1>2, SeenNow
  <2>2. seen'[w] \in Jobs /\ SeenOnce(r, seen[w])'
    BY <1>0, <1>2, <2>1 DEF SeenOnce, cluster
  <2> QED
    BY <1>0, <1>1, <1>2, <2>2 DEF Hands, table, cluster
<1>3. CASE GetJob(w)
  <2>1. CASE job[r] # NULL
    BY <1>2, <1>3, <2>1 DEF GetJob, Goto, TypeOK
  <2>2. CASE job[r] = NULL /\ work[w] # NULL
    <3>1. pc'[w] = "finish" /\ outcome'[w] = [code |-> "job_lost", artifacts |-> {}]
      BY <1>3, <2>2 DEF GetJob, Decide, Goto, TypeOK
    <3>2. deleted[r] > 0
      <4>1. work[w] \in Int /\ created[r] = deleted[r] /\ deleted[r] \in Nat
        BY <1>0, <2>2 DEF TypeOK, JobsCounted, Counted, Uids
      <4> QED
        BY <1>1, <2>2, <4>1
    <3>3. outcome'[w] \in Outcomes /\ Cause(r, outcome[w].code)'
      BY <1>0, <3>1, <3>2 DEF Outcomes, FailureCodes, Cause, cluster
    <3>4. outcome'[w].code # NULL
      BY <3>1, NullIsNoValue DEF FailureCodes
    <3> QED
      BY <1>0, <1>1, <3>1, <3>3, <3>4 DEF Hands, table, cluster
  <2>3. CASE job[r] = NULL /\ work[w] = NULL
    <3>1. pc'[w] = "create"
      BY <1>3, <2>3 DEF GetJob, Goto, TypeOK
    <3> QED
      BY <1>0, <1>1, <2>3, <3>1 DEF Hands, table, cluster
  <2> QED
    BY <2>1, <2>2, <2>3
<1>4. CASE GetAgain(w) /\ job[r] # NULL
  BY <1>2, <1>4 DEF GetAgain, Goto, TypeOK
<1>5. CASE VerifyContract(w)
  <2>1. seen[w] \in Jobs /\ SeenOnce(r, seen[w]) /\ seen'[w] = seen[w]
    BY <1>5, <1>0 DEF VerifyContract, Hands
  <2>2. seen'[w] \in Jobs /\ SeenOnce(r, seen[w])'
    BY <1>0, <2>1 DEF SeenOnce, cluster
  <2>3. CASE pc' = [pc EXCEPT ![w] = "save"] /\ seen[w].contract
    <3>1. pc'[w] = "save"
      BY <2>3 DEF TypeOK
    <3> QED
      BY <1>0, <1>1, <2>1, <2>2, <2>3, <3>1 DEF Hands, table, cluster
  <2>4. CASE /\ \/ work[w] # NULL /\ seen[w].uid # work[w]
                \/ ~seen[w].contract
             /\ Decide(w, "job_identity_conflict", {})
    <3>1. /\ pc'[w] = "finish"
          /\ outcome'[w] = [code |-> "job_identity_conflict", artifacts |-> {}]
      BY <2>4 DEF Decide, Goto, TypeOK
    <3>2. deleted[r] > 0 \/ (job[r] # NULL /\ job[r].uid = 0)
      <4>1. CASE ~seen[w].contract
        BY <2>1, <4>1 DEF SeenOnce
      <4>2. CASE seen[w].contract /\ work[w] # NULL /\ seen[w].uid # work[w]
        <5>1. /\ seen[w].uid \in Int /\ work[w] \in Int
              /\ created[r] \in Nat /\ deleted[r] \in Nat /\ Counted(r)
          BY <1>0, <2>1, <4>2 DEF TypeOK, JobsCounted, Jobs, Uids
        <5>2. created[r] >= 2
          BY <1>1, <2>1, <4>2, <5>1 DEF SeenOnce
        <5> QED
          BY <1>0, <5>1, <5>2 DEF Counted
      <4> QED
        BY <2>4, <4>1, <4>2
    <3>3. outcome'[w] \in Outcomes /\ Cause(r, outcome[w].code)'
      BY <1>0, <3>1, <3>2 DEF Outcomes, FailureCodes, Cause, cluster
    <3>4. outcome'[w].code # NULL
      BY <3>1, NullIsNoValue DEF FailureCodes
    <3> QED
      BY <1>0, <1>1, <3>1, <3>3, <3>4 DEF Hands, table, cluster
  <2> QED
    BY <1>5, <2>3, <2>4 DEF VerifyContract, Goto
<1> QED
  BY <1>3, <1>4, <1>5

(* Creating the Job, with or without learning of it.                       *)
LEMMA OwnHandsCreate ==
    ASSUME ExecutionInv, NEW w \in Workers, TypeOK',
           CreateJob(w) \/ CreateFails(w), \A q \in Runs : Forward(q)
    PROVE  Hands(w)'
<1> USE DEF ExecutionInv
<1> DEFINE r == current[w]
<1>0. /\ Hands(w) /\ r \in Runs /\ Forward(r) /\ pc[w] = "create"
      /\ UNCHANGED <<table, todo, current, work, session>>
  BY HasRun DEF HandsTrue, TypeOK, CreateJob, CreateFails
<1>1. /\ status[r] # "accepted" /\ (session[w] => status[r] = "running")
      /\ work[w] = NULL /\ \A q \in todo[w] : status[q] # "accepted"
  BY <1>0 DEF Hands, Loaded, Reconciling, Labels
<1>2. CASE pc'[w] = "reget"
  BY <1>0, <1>1, <1>2 DEF Hands, table
<1>3. CASE /\ job[r] = NULL /\ MakeJob(r) /\ CreateJob(w)
           /\ seen' = [seen EXCEPT ![w] = NewJob(r)]
           /\ pc' = [pc EXCEPT ![w] = "verify"]
  <2>1. seen'[w] = NewJob(r) /\ pc'[w] = "verify"
    BY <1>3 DEF TypeOK
  <2>2. NewJob(r) \in Jobs
    BY <1>0, <1>3, NewJobTypes
  <2>3. seen'[w] \in Jobs /\ SeenOnce(r, seen[w])'
    <3>1. /\ NewJob(r).contract /\ NewJob(r).state = "active"
          /\ NewJob(r).uid = created[r] + 1
      BY DEF NewJob
    <3>2. created'[r] = created[r] + 1 /\ created[r] \in Nat
      BY <1>0, <1>3 DEF MakeJob, TypeOK
    <3> QED
      BY <1>0, <2>1, <2>2, <3>1, <3>2 DEF SeenOnce
  <2> QED
    BY <1>0, <1>1, <2>1, <2>3 DEF Hands, table
<1> QED
  BY <1>2, <1>3 DEF CreateJob, CreateFails, Goto, TypeOK

(* Recording the uid under the lock.                                       *)
LEMMA OwnHandsSave ==
    ASSUME ExecutionInv, NEW w \in Workers, TypeOK', SaveUid(w)
    PROVE  Hands(w)'
<1> USE DEF ExecutionInv
<1> DEFINE r == current[w]
<1>0. /\ Hands(w) /\ r \in Runs /\ pc[w] = "save" /\ session[w]
      /\ UNCHANGED <<status, cluster, todo, current, work, seen, session>>
  BY HasRun DEF HandsTrue, TypeOK, SaveUid
<1>1. /\ status[r] = "running"
      /\ work[w] # NULL => 1 <= work[w] /\ work[w] <= created[r]
      /\ work[w] # NULL => jobUid[r] = work[w]
      /\ \A q \in todo[w] : status[q] # "accepted"
      /\ seen[w] \in Jobs /\ SeenOnce(r, seen[w]) /\ seen[w].contract
  BY <1>0 DEF Hands, Loaded, Reconciling, Labels
<1>2. seen'[w] \in Jobs /\ SeenOnce(r, seen[w])'
  BY <1>0, <1>1 DEF SeenOnce, cluster
<1>3. ASSUME NEW code \in {"job_identity_conflict", "job_failed"},
             Decide(w, code, {}), Cause(r, code), work[w] # NULL => jobUid'[r] = work[w]
      PROVE  Hands(w)'
  <2>1. pc'[w] = "finish" /\ outcome'[w] = [code |-> code, artifacts |-> {}]
    BY <1>3 DEF Decide, Goto, TypeOK
  <2>2. outcome'[w] \in Outcomes /\ Cause(r, outcome[w].code)'
    BY <1>0, <1>3, <2>1 DEF Outcomes, FailureCodes, Cause, cluster
  <2>3. outcome'[w].code # NULL
    BY <2>1, NullIsNoValue DEF FailureCodes
  <2> QED
    BY <1>0, <1>1, <1>3, <2>1, <2>2, <2>3 DEF Hands, cluster
<1>4. CASE jobUid[r] \notin {NULL, seen[w].uid}
  <2>1. Decide(w, "job_identity_conflict", {}) /\ UNCHANGED jobUid
    BY <1>4 DEF SaveUid
  <2>2. deleted[r] > 0
    <3>1. /\ seen[w].uid \in Int /\ jobUid[r] \in Int
          /\ created[r] \in Nat /\ deleted[r] \in Nat /\ Counted(r)
          /\ 1 <= jobUid[r] /\ jobUid[r] <= created[r]
      BY <1>0, <1>1, <1>4 DEF TypeOK, JobsCounted, RowsComplete, Jobs, Uids
    <3>2. created[r] >= 2
      BY <1>1, <1>4, <3>1 DEF SeenOnce
    <3> QED
      BY <1>0, <3>1, <3>2 DEF Counted
  <2>3. Cause(r, "job_identity_conflict")
    BY <2>2 DEF Cause
  <2> QED
    BY <1>1, <1>3, <2>1, <2>3
<1>5. CASE jobUid[r] \in {NULL, seen[w].uid}
  <2>1. /\ jobUid'[r] = seen[w].uid
        /\ CASE seen[w].state = "failed" -> Decide(w, "job_failed", {})
             [] seen[w].state = "succeeded" -> Goto(w, "collect")
             [] OTHER -> Goto(w, "unlock")
    BY <1>0, <1>1, <1>5 DEF SaveUid, TypeOK
  <2>2. work[w] # NULL => jobUid'[r] = work[w]
    BY <1>1, <1>5, <2>1
  <2>3. CASE seen[w].state = "failed"
    <3>1. Decide(w, "job_failed", {})
      BY <2>1, <2>3
    <3>2. Cause(r, "job_failed")
      BY <1>1, <2>3 DEF Cause, SeenOnce
    <3> QED
      BY <1>3, <2>2, <3>1, <3>2
  <2>4. CASE seen[w].state = "succeeded"
    <3>1. pc'[w] = "collect"
      BY <2>1, <2>4 DEF Goto, TypeOK
    <3> QED
      BY <1>0, <1>1, <1>2, <2>1, <2>2, <2>4, <3>1 DEF Hands, cluster
  <2>5. CASE seen[w].state \notin {"failed", "succeeded"}
    <3>1. pc'[w] = "unlock"
      BY <2>1, <2>5 DEF Goto, TypeOK
    <3> QED
      BY <1>0, <1>1, <3>1 DEF Hands, Loaded
  <2> QED
    BY <2>3, <2>4, <2>5
<1> QED
  BY <1>4, <1>5

(* Collecting, finishing, or losing the session on the way.                *)
LEMMA OwnHandsEnd ==
    ASSUME ExecutionInv, NEW w \in Workers, TypeOK', StatusStays,
           Collect(w) \/ Finish(w) \/ LoseSession(w)
    PROVE  Hands(w)'
<1> USE DEF ExecutionInv
<1> DEFINE r == current[w]
<1>0. Hands(w) /\ todo[w] \subseteq Runs /\ UNCHANGED <<todo, current, work, seen>>
  BY DEF HandsTrue, TypeOK, Collect, Finish, LoseSession
<1>1. CASE Collect(w)
  <2> DEFINE files == objects[r]
  <2>1. /\ r \in Runs /\ pc[w] = "collect" /\ UNCHANGED <<table, cluster, session>>
        /\ pc'[w] = "finish"
        /\ outcome'[w] = [code |-> CollectCode(files), artifacts |-> files]
    BY <1>1, HasRun DEF Collect, Decide, Goto, TypeOK
  <2>2. /\ status[r] # "accepted" /\ (session[w] => status[r] = "running")
        /\ work[w] # NULL => 1 <= work[w] /\ work[w] <= created[r]
        /\ session[w] /\ work[w] # NULL => jobUid[r] = work[w]
        /\ \A q \in todo[w] : status[q] # "accepted"
        /\ seen[w].uid \in completed[r] /\ (session[w] => jobUid[r] = seen[w].uid)
    BY <1>0, <2>1 DEF Hands, SeenOnce, Loaded, Reconciling, Labels
  <2>3. CollectCode(files) \in {"required_outputs_missing", "outputs_empty", NULL}
    BY DEF CollectCode
  <2>4. CollectCode(files) = NULL => files # {} /\ RequiredFiles \subseteq files
    BY NullIsNoValue DEF CollectCode, FailureCodes
  <2>5. outcome'[w] \in Outcomes
    <3>1. files \in SUBSET Files
      BY <2>1 DEF TypeOK
    <3> QED
      BY <2>1, <2>3, <3>1 DEF Outcomes, FailureCodes
  <2>6. Cause(r, outcome[w].code)'
    <3>1. {"required_outputs_missing", "outputs_empty"} \subseteq FailureCodes
      BY DEF FailureCodes
    <3>2. outcome'[w].code \in {"required_outputs_missing", "outputs_empty", NULL}
      BY <2>1, <2>3
    <3>3. NULL \notin {"job_lost", "job_failed", "job_identity_conflict"}
      BY NullIsNoValue DEF FailureCodes
    <3> QED
      BY <1>0, <2>1, <2>2, <3>2, <3>3 DEF Cause, cluster
  <2>7. outcome'[w].code = NULL => Evidence(r, outcome[w].artifacts)'
    BY <1>0, <2>1, <2>4 DEF Evidence, cluster
  <2> QED
    BY <1>0, <2>1, <2>2, <2>5, <2>6, <2>7 DEF Hands, table, cluster
<1>2. CASE Finish(w)
  <2>1. r \in Runs /\ pc'[w] = "unlock" /\ status[r] # "accepted"
    BY <1>0, <1>2, HasRun
       DEF Finish, Goto, TypeOK, Hands, Reconciling, Labels
  <2>2. \A q \in todo[w] : status'[q] # "accepted"
    BY <1>0 DEF Hands, StatusStays
  <2> QED
    BY <1>0, <2>1, <2>2 DEF Hands, Loaded, StatusStays
<1>3. CASE LoseSession(w)
  <2>1. /\ UNCHANGED <<table, cluster, pc, outcome>> /\ session[w]
        /\ ~session'[w]
    BY <1>3 DEF LoseSession, TypeOK
  <2>2. pc[w] \in {"verify", "save", "collect"} => SeenOnce(r, seen[w])'
    BY <1>0, <2>1 DEF Hands, SeenOnce, cluster
  <2>3. pc[w] = "finish" => Cause(r, outcome[w].code)'
    BY <1>0, <2>1 DEF Hands, Cause, cluster
  <2>4. pc[w] = "finish" /\ outcome[w].code = NULL =>
          Evidence(r, outcome[w].artifacts)'
    BY <1>0, <2>1 DEF Hands, Evidence, cluster
  <2> QED
    BY <1>0, <2>1, <2>2, <2>3, <2>4 DEF Hands, table, cluster
<1> QED
  BY <1>1, <1>2, <1>3

(* A worker that leaves has nothing in hand.                               *)
LEMMA OwnHandsLeave ==
    ASSUME ExecutionInv, NEW w \in Workers, NEW label \in {"idle", "next"},
           Leave(w, label), StatusStays, todo'[w] \in {{}, todo[w]}
    PROVE  Hands(w)'
<1>1. pc'[w] = label
  BY DEF ExecutionInv, TypeOK, Leave
<1>2. \A r \in todo'[w] : status'[r] # "accepted"
  BY DEF ExecutionInv, TypeOK, HandsTrue, Hands, StatusStays
<1> QED
  BY <1>1, <1>2, FreeHands

(* Whatever the others do, what a worker has in hand stays true.           *)
LEMMA NextHands ==
    ASSUME ExecutionInv, Next, TypeOK'
    PROVE  HandsTrue'
<1>1. StatusStays /\ \A r \in Runs : Forward(r)
  BY NextStatus, NextForward
<1>2. ASSUME NEW w \in Workers, WorkerStep(w) \/ WorkerFault(w)
      PROVE  HandsTrue'
  <2>1. ASSUME NEW v \in Workers \ {w}
        PROVE  Hands(v)'
    BY <1>1, <1>2, <2>1, StepIsOwn, OthersRow, KeepHands DEF OnlyOwn, LocalsKept
  <2>2. ASSUME AbandonTick(w) PROVE Hands(w)'
    <3>1. todo'[w] = {}
      BY <2>2 DEF AbandonTick, ExecutionInv, TypeOK
    <3> QED
      BY <1>1, <2>2, <3>1, OwnHandsLeave DEF AbandonTick
  <2>3. ASSUME Unlock(w) PROVE Hands(w)'
    BY <1>1, <2>3, OwnHandsLeave DEF Unlock
  <2>4. Hands(w)'
    <3>1. CASE WorkerStep(w)
      BY <1>1, <2>2, <2>3, <3>1, OwnHandsTick, OwnHandsCluster, OwnHandsCreate,
         OwnHandsSave, OwnHandsEnd
         DEF WorkerStep, EndTick, SessionGone, GetAgain
    <3>2. CASE WorkerFault(w)
      BY <1>1, <2>2, <3>2, OwnHandsCreate, OwnHandsEnd
         DEF WorkerFault, Unavailable, Crash
    <3> QED
      BY <1>2, <3>1, <3>2
  <2> QED
    BY <2>1, <2>4 DEF HandsTrue
<1>3. ASSUME NEW q \in Runs, JobProgress(q) \/ DeleteJob(q)
      PROVE  HandsTrue'
  <2>1. UNCHANGED <<table, lock, locals>>
    BY <1>3, ClusterKeepsRows
  <2>2. \A v \in Workers : LocalsKept(v) /\ RowIsMine(v)
    BY <2>1 DEF LocalsKept, RowIsMine, table, locals
  <2> QED
    BY <1>1, <2>2, KeepHands DEF HandsTrue
<1> QED
  BY <1>2, <1>3 DEF Next

-----------------------------------------------------------------------------
(* The inductive invariant                                                 *)

(* Every step keeps the invariant.                                         *)
LEMMA NextInv == ExecutionInv /\ [Next]_vars => ExecutionInv'
<1> SUFFICES ASSUME ExecutionInv, [Next]_vars PROVE ExecutionInv'
  OBVIOUS
<1>1. CASE Next
  BY <1>1, NextTypes, NextLocks, NextJobs, NextRows, NextHands DEF ExecutionInv
<1>2. CASE UNCHANGED vars
  <2> USE <1>2 DEF vars, table, cluster, locals
  <2>1. TypeOK' /\ LocksHeld' /\ JobsCounted'
    BY DEF ExecutionInv, TypeOK, LocksHeld, LockOf, JobsCounted, Counted
  <2>2. RowsComplete' /\ FailuresAreReal' /\ SuccessHasEvidence'
    BY DEF ExecutionInv, RowsComplete, FailuresAreReal, SuccessHasEvidence
  <2>3. HandsTrue'
    BY DEF ExecutionInv, HandsTrue, Hands, SeenOnce, Cause, Evidence
  <2> QED
    BY <2>1, <2>2, <2>3 DEF ExecutionInv
<1> QED
  BY <1>1, <1>2

(* The invariant of the execution loop, whatever crashes, outages, lost    *)
(* sessions, deletions and foreign Jobs happen and however the workers     *)
(* interleave (ReconcileExecutions.tick and everything it calls).          *)
THEOREM ExecutionInvariant == Spec => []ExecutionInv
<1>1. Init => ExecutionInv
  BY InitInv
<1>2. ExecutionInv /\ [Next]_vars => ExecutionInv'
  BY NextInv
<1> QED
  BY <1>1, <1>2, PTL DEF Spec

(* A success rests on evidence: finish() stores "succeeded" only for the   *)
(* Job whose uid save_job_uid() recorded, which completed, and only with   *)
(* artifacts that are in the bucket and contain every required file.       *)
THEOREM EvidenceForSuccess == Spec => []SuccessHasEvidence
<1>1. ExecutionInv => SuccessHasEvidence
  BY DEF ExecutionInv
<1> QED
  BY <1>1, ExecutionInvariant, PTL

(* No run fails for a reason that did not happen: ReconcileExecutions      *)
(* finds a Job lost or changed only where somebody deleted or occupied it. *)
THEOREM CauseForFailure == Spec => [](TypeOK /\ FailuresAreReal)
<1>1. ExecutionInv => TypeOK /\ FailuresAreReal
  BY DEF ExecutionInv
<1> QED
  BY <1>1, ExecutionInvariant, PTL

-----------------------------------------------------------------------------
(* Jobs and slots, when no session is lost                                 *)

(* Only a worker at its create call makes a Job, and then nothing else     *)
(* happens.                                                                *)
LEMMA MadeByWorker ==
    ASSUME ExecutionInv, Next, NEW r \in Runs, created'[r] # created[r]
    PROVE  \E w \in Workers :
              /\ CreateJob(w) \/ CreateFails(w)
              /\ pc[w] = "create" /\ current[w] = r
              /\ job[r] = NULL /\ MakeJob(r) /\ UNCHANGED table
<1> USE DEF ExecutionInv
<1>1. PICK w \in Workers : CreateJob(w) \/ CreateFails(w)
  <2>1. ASSUME NEW w \in Workers, WorkerStep(w), ~CreateJob(w)
        PROVE  UNCHANGED created
    BY <2>1 DEF WorkerStep, StartTick, TryLock, Claim, EndTick, Load, GetJob,
       GetAgain, VerifyContract, SaveUid, Collect, Finish, Unlock, SessionGone,
       cluster
  <2>2. ASSUME NEW w \in Workers, WorkerFault(w), ~CreateFails(w)
        PROVE  UNCHANGED created
    BY <2>2 DEF WorkerFault, Unavailable, Crash, LoseSession, cluster
  <2>3. ASSUME NEW q \in Runs, JobProgress(q) \/ DeleteJob(q)
        PROVE  UNCHANGED created
    BY <2>3 DEF JobProgress, JobEnds, DeleteJob
  <2> QED
    BY <2>1, <2>2, <2>3 DEF Next
<1>2. /\ pc[w] = "create" /\ current[w] \in Runs /\ UNCHANGED table
      /\ job[current[w]] = NULL /\ MakeJob(current[w])
  BY <1>1, HasRun DEF CreateJob, CreateFails, cluster, TypeOK
<1>3. current[w] = r
  BY <1>2 DEF MakeJob, TypeOK
<1> QED
  BY <1>1, <1>2, <1>3

(* Two workers with live sessions never deal with the same run.            *)
LEMMA OneWorkerPerRun ==
    ASSUME ExecutionInv, MaxDisconnects = 0,
           NEW v \in Workers, NEW w \in Workers,
           pc[v] \in Reconciling, pc[w] \in Reconciling,
           current[v] = current[w]
    PROVE  v = w
<1>1. session[v] /\ session[w]
  BY DEF ExecutionInv, LocksHeld, LockOf, TypeOK, FaultKinds
<1> QED
  BY <1>1 DEF ExecutionInv, LocksHeld, LockOf

(* Without disconnects every session lives.                                *)
LEMMA SessionsLive ==
    ASSUME ExecutionInv, MaxDisconnects = 0
    PROVE  \A w \in Workers : session[w]
BY DEF ExecutionInv, LocksHeld, LockOf, TypeOK, FaultKinds

(* A worker that leaves its locals alone keeps what LastJob and            *)
(* VerdictFinal say of it.                                                 *)
LEMMA OthersSerial ==
    ASSUME ExecutionInv, Serial, MaxDisconnects = 0, Next,
           NEW v \in Workers, LocalsKept(v), RowIsMine(v), \A r \in Runs : Forward(r),
           pc[v] \in Reconciling, \A r \in Runs : JobMoves(r),
           created'[current[v]] = created[current[v]]
    PROVE  /\ pc'[v] = "get" => jobUid'[current'[v]] = work'[v]
           /\ pc'[v] = "create" => jobUid'[current'[v]] = NULL
           /\ pc'[v] \in {"verify", "save", "collect"} /\ seen'[v].contract =>
                seen'[v].uid = created'[current'[v]]
           /\ pc'[v] = "finish" => ~ActiveJob(current[v])'
<1> DEFINE r == current[v]
<1>1. r \in Runs /\ session[v] /\ JobMoves(r)
  BY SessionsLive DEF ExecutionInv, LocksHeld, LockOf
<1>2. /\ jobUid'[r] = jobUid[r] /\ pc'[v] = pc[v] /\ current'[v] = r
      /\ work'[v] = work[v] /\ seen'[v] = seen[v]
  BY <1>1 DEF RowIsMine, LocalsKept
<1>3. ~ActiveJob(r) => ~ActiveJob(r)'
  <2>1. CASE JobKept(r) \/ JobDeleted(r)
    BY <1>2, <2>1 DEF JobKept, JobDeleted, ActiveJob
  <2>2. CASE JobMade(r)
    BY <1>1, <2>2 DEF JobMade, ExecutionInv, TypeOK
  <2>3. CASE \E result \in {"succeeded", "failed"} : JobEnded(r, result)
    BY <2>3 DEF JobEnded, ActiveJob
  <2> QED
    BY <1>1, <2>1, <2>2, <2>3 DEF JobMoves
<1> QED
  BY <1>1, <1>2, <1>3 DEF Serial, LastJob, VerdictFinal

(* What a worker's own step leaves in its hands.                           *)
OwnSerial(w) ==
    /\ pc[w] = "get" => jobUid[current[w]] = work[w]
    /\ pc[w] = "create" => jobUid[current[w]] = NULL
    /\ pc[w] \in {"verify", "save", "collect"} /\ seen[w].contract =>
         seen[w].uid = created[current[w]]
    /\ pc[w] = "finish" => ~ActiveJob(current[w])

(* With live sessions a worker's step keeps the account of the last Job.   *)
LEMMA OwnSerialStep ==
    ASSUME ExecutionInv, Serial, MaxDisconnects = 0, NEW w \in Workers,
           TypeOK', WorkerStep(w) \/ WorkerFault(w)
    PROVE  OwnSerial(w)'
<1> USE DEF ExecutionInv
<1> DEFINE r == current[w]
<1>0. /\ Hands(w) /\ session[w] /\ OwnSerial(w)
      /\ \A q \in Runs : jobUid[q] # NULL => jobUid[q] = created[q]
      /\ \A q \in Runs : Counted(q) /\ created[q] \in Nat /\ deleted[q] \in Nat
  BY SessionsLive
     DEF HandsTrue, JobsCounted, TypeOK, Serial, LastJob, VerdictFinal, OwnSerial
<1>1. CASE pc'[w] \in {"idle", "next", "load", "reget", "unlock"}
  BY <1>1 DEF OwnSerial
<1>2. ASSUME pc'[w] = "verify", UNCHANGED <<current, created>>, r \in Runs,
             job[r] # NULL, seen'[w] = job[r]
      PROVE  OwnSerial(w)'
  BY <1>0, <1>2 DEF OwnSerial, Counted
<1>3. ASSUME pc'[w] = "finish", ~ActiveJob(r), UNCHANGED <<job, current>>
      PROVE  OwnSerial(w)'
  BY <1>3 DEF OwnSerial, ActiveJob
<1>4. CASE Load(w)
  <2>1. r \in Runs /\ UNCHANGED <<jobUid, current>>
    BY <1>4, HasRun DEF Load, TypeOK, table
  <2>2. CASE work' = [work EXCEPT ![w] = jobUid[r]] /\ Goto(w, "get")
    <3>1. pc'[w] = "get" /\ work'[w] = jobUid[r]
      BY <2>2 DEF Goto, TypeOK
    <3> QED
      BY <2>1, <3>1 DEF OwnSerial
  <2>3. CASE Goto(w, "unlock")
    BY <1>1, <2>3 DEF Goto, TypeOK
  <2> QED
    BY <1>4, <2>2, <2>3 DEF Load
<1>5. CASE GetJob(w)
  <2>1. r \in Runs /\ pc[w] = "get" /\ UNCHANGED <<jobUid, current, created, job>>
    BY <1>5, HasRun DEF GetJob, TypeOK, table, cluster
  <2>2. CASE job[r] # NULL
    BY <1>2, <1>5, <2>1, <2>2 DEF GetJob, Goto, TypeOK
  <2>3. CASE job[r] = NULL /\ work[w] # NULL
    BY <1>3, <1>5, <2>1, <2>3 DEF GetJob, Decide, Goto, TypeOK, ActiveJob
  <2>4. CASE job[r] = NULL /\ work[w] = NULL
    <3>1. pc'[w] = "create"
      BY <1>5, <2>4 DEF GetJob, Goto, TypeOK
    <3> QED
      BY <1>0, <2>1, <2>4, <3>1 DEF OwnSerial
  <2> QED
    BY <2>2, <2>3, <2>4
<1>6. CASE CreateJob(w)
  <2>1. r \in Runs /\ UNCHANGED current
    BY <1>6, HasRun DEF CreateJob, TypeOK
  <2>2. CASE MakeJob(r) /\ seen' = [seen EXCEPT ![w] = NewJob(r)] /\ Goto(w, "verify")
    <3>1. /\ pc'[w] = "verify" /\ seen'[w] = NewJob(r)
          /\ created'[r] = created[r] + 1
      BY <2>1, <2>2 DEF MakeJob, Goto, TypeOK
    <3> QED
      BY <2>1, <3>1 DEF OwnSerial, NewJob
  <2>3. CASE Goto(w, "reget")
    BY <1>1, <2>3 DEF Goto, TypeOK
  <2> QED
    BY <1>6, <2>2, <2>3 DEF CreateJob
<1>7. CASE GetAgain(w) /\ job[r] # NULL
  <2>1. r \in Runs /\ UNCHANGED <<current, created>>
    BY <1>7, HasRun DEF GetAgain, TypeOK, cluster
  <2> QED
    BY <1>2, <1>7, <2>1 DEF GetAgain, Goto, TypeOK
<1>8. CASE VerifyContract(w)
  <2>1. /\ r \in Runs /\ pc[w] = "verify" /\ pc[w] \in Loaded
        /\ UNCHANGED <<jobUid, current, created, job, seen>>
    BY <1>8, HasRun DEF VerifyContract, TypeOK, table, cluster, Loaded,
       Reconciling, Labels
  <2>2. CASE Goto(w, "save")
    <3>1. pc'[w] = "save"
      BY <2>2 DEF Goto, TypeOK
    <3> QED
      BY <1>0, <2>1, <3>1 DEF OwnSerial
  <2>3. CASE /\ \/ work[w] # NULL /\ seen[w].uid # work[w]
                \/ ~seen[w].contract
             /\ Decide(w, "job_identity_conflict", {})
    <3>1. ~seen[w].contract
      BY <1>0, <2>1, <2>3 DEF OwnSerial, Hands
    <3>2. job[r] # NULL /\ job[r].uid = 0
      BY <1>0, <2>1, <3>1 DEF Hands, SeenOnce
    <3>3. ~ActiveJob(r)
      BY <1>0, <2>1, <3>2 DEF ActiveJob, Counted
    <3> QED
      BY <1>3, <2>1, <2>3, <3>3 DEF Decide, Goto, TypeOK
  <2> QED
    BY <1>8, <2>2, <2>3 DEF VerifyContract
<1>9. CASE SaveUid(w)
  <2>1. /\ r \in Runs /\ pc[w] = "save" /\ UNCHANGED <<current, created, job, seen>>
        /\ status[r] = "running" /\ seen[w] \in Jobs /\ SeenOnce(r, seen[w])
        /\ seen[w].contract /\ seen[w].uid = created[r]
    BY <1>0, <1>9, HasRun
       DEF SaveUid, TypeOK, cluster, Hands, OwnSerial, Loaded, Reconciling, Labels
  <2>2. jobUid[r] \in {NULL, seen[w].uid}
    BY <1>0, <2>1
  <2>3. CASE seen[w].state = "failed"
    <3>1. ~ActiveJob(r)
      BY <1>0, <2>1, <2>3 DEF ActiveJob, Counted, SeenOnce
    <3>2. Decide(w, "job_failed", {})
      BY <1>9, <2>2, <2>3 DEF SaveUid
    <3> QED
      BY <1>3, <2>1, <3>1, <3>2 DEF Decide, Goto, TypeOK
  <2>4. CASE seen[w].state # "failed"
    <3>1. pc'[w] \in {"collect", "unlock"}
      BY <1>9, <2>2, <2>4 DEF SaveUid, Goto, TypeOK
    <3> QED
      BY <2>1, <3>1 DEF OwnSerial
  <2> QED
    BY <2>3, <2>4
<1>10. CASE Collect(w)
  <2>1. /\ r \in Runs /\ pc[w] = "collect" /\ UNCHANGED <<current, job>>
        /\ pc'[w] = "finish" /\ seen[w] \in Jobs /\ SeenOnce(r, seen[w])
        /\ seen[w].contract /\ seen[w].uid = created[r]
        /\ seen[w].state = "succeeded"
    BY <1>0, <1>10, HasRun
       DEF Collect, Decide, Goto, TypeOK, cluster, Hands, OwnSerial
  <2>2. ~ActiveJob(r)
    BY <1>0, <2>1 DEF ActiveJob, Counted, SeenOnce
  <2> QED
    BY <1>3, <2>1, <2>2
<1>11. CASE \/ StartTick(w) \/ TryLock(w) \/ Claim(w) \/ Finish(w) \/ CreateFails(w)
            \/ Unlock(w) \/ AbandonTick(w)
  <2>1. CASE StartTick(w) \/ Finish(w) \/ CreateFails(w)
    BY <1>1, <2>1 DEF StartTick, Finish, CreateFails, Goto, TypeOK
  <2>2. CASE TryLock(w) \/ Claim(w)
    BY <1>1, <2>2 DEF TryLock, Claim, Goto, TypeOK
  <2>3. CASE Unlock(w) \/ AbandonTick(w)
    BY <1>1, <2>3 DEF Unlock, AbandonTick, Leave, TypeOK
  <2> QED
    BY <1>11, <2>1, <2>2, <2>3
<1>12. CASE LoseSession(w)
  BY <1>12 DEF LoseSession, Fault, Budget, TypeOK, LocksHeld, FaultKinds
<1> QED
  BY <1>4, <1>5, <1>6, <1>7, <1>8, <1>9, <1>10, <1>11, <1>12
     DEF WorkerStep, WorkerFault, EndTick, SessionGone, GetAgain, Unavailable, Crash

(* And so does every step.                                                 *)
LEMMA NextSerial ==
    ASSUME ExecutionInv, Serial, MaxDisconnects = 0, Next, TypeOK'
    PROVE  Serial'
<1> USE DEF ExecutionInv
<1>0. /\ \A r \in Runs : Forward(r) /\ JobMoves(r)
      /\ \A r \in Runs : jobUid[r] # NULL => jobUid[r] = created[r]
      /\ \A w \in Workers : OwnSerial(w)
  BY NextForward, NextJobMoves DEF Serial, LastJob, VerdictFinal, OwnSerial
<1>1. ASSUME NEW r \in Runs, created'[r] # created[r]
      PROVE  jobUid'[r] = NULL /\ status'[r] = "running"
  <2>1. PICK w \in Workers : /\ pc[w] = "create" /\ current[w] = r
                             /\ UNCHANGED table
    BY <1>1, MadeByWorker
  <2>2. jobUid[r] = NULL
    BY <1>0, <2>1 DEF OwnSerial
  <2>3. status[r] = "running"
    BY <2>1, SessionsLive DEF HandsTrue, Hands, Loaded, Reconciling, Labels
  <2> QED
    BY <2>1, <2>2, <2>3 DEF table
<1>2. ASSUME NEW r \in Runs, NEW w \in Workers, RowRecorded(w, r)
      PROVE  jobUid'[r] = created[r]
  <2>1. seen[w].contract
    BY <1>2 DEF RowRecorded, HandsTrue, Hands
  <2> QED
    BY <1>0, <1>2, <2>1 DEF RowRecorded, OwnSerial
<1>3. ASSUME NEW r \in Runs
      PROVE  jobUid'[r] # NULL => jobUid'[r] = created'[r]
  <2>1. CASE created'[r] # created[r]
    BY <1>1, <2>1
  <2>2. CASE created'[r] = created[r] /\ RowKept(r)
    BY <1>0, <2>2 DEF RowKept
  <2>3. ASSUME NEW w \in Workers, RowMoves(w, r), created'[r] = created[r]
        PROVE  jobUid'[r] # NULL => jobUid'[r] = created'[r]
    BY <1>0, <1>2, <2>3 DEF RowMoves, RowKept, RowClaimed, RowFinished
  <2> QED
    BY <2>1, <2>2, <2>3, WorkerRowMoves, ClusterKeepsRows DEF Next, RowKept, table
<1>4. ASSUME NEW r \in Runs, ActiveJob(r)'
      PROVE  status'[r] = "running"
  <2>1. CASE created'[r] # created[r]
    BY <1>1, <2>1
  <2>2. CASE created'[r] = created[r]
    <3>1. ActiveJob(r)
      <4>1. CASE JobKept(r)
        BY <1>4, <4>1 DEF JobKept, ActiveJob
      <4>2. CASE JobMade(r)
        BY <2>2, <4>2 DEF JobMade, TypeOK
      <4>3. CASE \E result \in {"succeeded", "failed"} : JobEnded(r, result)
        BY <4>3 DEF JobEnded, ActiveJob
      <4>4. CASE JobDeleted(r)
        BY <1>4, <4>4 DEF JobDeleted, ActiveJob
      <4> QED
        BY <1>0, <4>1, <4>2, <4>3, <4>4 DEF JobMoves
    <3>2. status[r] = "running"
      BY <3>1 DEF Serial, ActiveJobHoldsSlot, ActiveJob
    <3>3. ASSUME NEW w \in Workers, RowMoves(w, r)
          PROVE  status'[r] = "running"
      BY <1>0, <3>1, <3>2, <3>3
         DEF RowMoves, RowKept, RowClaimed, RowRecorded, RowFinished, OwnSerial
    <3> QED
      BY <3>2, <3>3, WorkerRowMoves, ClusterKeepsRows DEF Next, table
  <2> QED
    BY <2>1, <2>2
<1>5. ASSUME NEW v \in Workers
      PROVE  OwnSerial(v)'
  <2>1. CASE WorkerStep(v) \/ WorkerFault(v)
    BY <1>5, <2>1, OwnSerialStep
  <2>2. ASSUME LocalsKept(v), RowIsMine(v),
               ~(WorkerStep(v) \/ WorkerFault(v))
        PROVE  OwnSerial(v)'
    <3>1. CASE pc[v] \in Reconciling
      <4>1. created'[current[v]] = created[current[v]]
        <5>1. SUFFICES ASSUME created'[current[v]] # created[current[v]]
                       PROVE  FALSE
          OBVIOUS
        <5>2. current[v] \in Runs
          BY <3>1 DEF LocksHeld, LockOf
        <5>3. PICK w \in Workers : /\ CreateJob(w) \/ CreateFails(w)
                                   /\ pc[w] = "create" /\ current[w] = current[v]
          BY <5>1, <5>2, MadeByWorker
        <5>4. v = w
          BY <3>1, <5>3, OneWorkerPerRun DEF Reconciling, Labels
        <5> QED
          BY <2>2, <5>3, <5>4 DEF WorkerStep, WorkerFault
      <4> QED
        BY <1>0, <2>2, <3>1, <4>1, OthersSerial DEF OwnSerial
    <3>2. CASE pc[v] \notin Reconciling
      BY <2>2, <3>2 DEF LocalsKept, OwnSerial, Reconciling, Labels
    <3> QED
      BY <3>1, <3>2
  <2>3. ASSUME NEW w \in Workers \ {v}, WorkerStep(w) \/ WorkerFault(w)
        PROVE  LocalsKept(v) /\ RowIsMine(v)
    BY <2>3, StepIsOwn, OthersRow DEF OnlyOwn, LocalsKept
  <2>4. ASSUME NEW q \in Runs, JobProgress(q) \/ DeleteJob(q)
        PROVE  LocalsKept(v) /\ RowIsMine(v)
    BY <2>4, ClusterKeepsRows DEF LocalsKept, RowIsMine, table, locals
  <2> QED
    BY <2>1, <2>2, <2>3, <2>4 DEF Next
<1>6. LastJob'
  BY <1>3, <1>5 DEF LastJob, OwnSerial
<1>7. VerdictFinal'
  BY <1>5 DEF VerdictFinal, OwnSerial
<1>8. ActiveJobHoldsSlot'
  BY <1>4 DEF ActiveJobHoldsSlot, ActiveJob
<1> QED
  BY <1>6, <1>7, <1>8 DEF Serial

(* There are no Jobs in the beginning.                                     *)
LEMMA InitSerial == Init => Serial
BY DEF Init, Serial, LastJob, VerdictFinal, ActiveJobHoldsSlot, Stranger

(* A stuttering step changes nothing.                                      *)
LEMMA StutterSerial == Serial /\ UNCHANGED vars => Serial'
BY DEF Serial, LastJob, VerdictFinal, ActiveJobHoldsSlot, ActiveJob, vars, table,
   cluster, locals

(* Without lost sessions the reconciliations of a run are serial.          *)
LEMMA SerialInvariant ==
    ASSUME MaxDisconnects = 0
    PROVE  Spec => []Serial
<1>1. ExecutionInv /\ Serial /\ [Next]_vars => Serial'
  BY NextSerial, NextTypes, StutterSerial
<1> QED
  BY <1>1, InitSerial, ExecutionInvariant, PTL DEF Spec

-----------------------------------------------------------------------------
(* Jobs and slots, when nobody deletes Jobs                                *)

(* Without deletions a run has one Job at most.                            *)
LEMMA NothingDeleted ==
    ASSUME ExecutionInv, MaxDeletes = 0, NEW r \in Runs
    PROVE  deleted[r] = 0 /\ created[r] \in Nat /\ created[r] <= 1 /\ Counted(r)
<1>1. deleted[r] \in Nat /\ created[r] \in Nat /\ Counted(r)
  BY DEF ExecutionInv, TypeOK, JobsCounted
<1>2. faults["delete"] \in Nat /\ faults["delete"] <= 0
  BY DEF ExecutionInv, TypeOK, JobsCounted, FaultKinds
<1> QED
  BY <1>1, <1>2 DEF Counted

(* A Job that completed or failed is the only one and is still there.      *)
LEMMA EndedForGood ==
    ASSUME ExecutionInv, MaxDeletes = 0, NEW r \in Runs,
           \/ completed[r] # {}
           \/ \E code \in FailureCodes : Cause(r, code)
    PROVE  job[r] # NULL /\ ~ActiveJob(r)
<1>1. deleted[r] = 0 /\ created[r] \in Nat /\ created[r] <= 1 /\ Counted(r)
  BY NothingDeleted
<1>2. CASE completed[r] # {}
  <2>1. PICK u \in completed[r] : TRUE
    BY <1>2
  <2>2. u \in Int
    BY <2>1 DEF ExecutionInv, TypeOK, Uids
  <2> QED
    BY <1>1, <2>1, <2>2 DEF Counted, ActiveJob
<1>3. CASE job[r] # NULL /\ (job[r].state = "failed" \/ job[r].uid = 0)
  BY <1>1, <1>3 DEF Counted, ActiveJob
<1> QED
  BY <1>1, <1>2, <1>3 DEF Cause, FailureCodes

(* Then a Job at work belongs to a running run, lost sessions or not.      *)
LEMMA NextSlots ==
    ASSUME ExecutionInv, ActiveJobHoldsSlot, MaxDeletes = 0, Next
    PROVE  ActiveJobHoldsSlot'
<1> USE DEF ExecutionInv
<1> SUFFICES ASSUME NEW r \in Runs, ActiveJob(r)'
             PROVE  status'[r] = "running"
  BY DEF ActiveJobHoldsSlot, ActiveJob
<1>0. JobMoves(r)
  BY NextJobMoves
<1>1. CASE created'[r] # created[r]
  <2>1. PICK w \in Workers : /\ pc[w] = "create" /\ current[w] = r
                             /\ job[r] = NULL /\ UNCHANGED table
    BY <1>1, MadeByWorker
  <2>2. status[r] \in Statuses /\ failure[r] \in FailureCodes \cup {NULL}
    BY DEF TypeOK
  <2>3. status[r] # "accepted"
    BY <2>1 DEF HandsTrue, Hands, Reconciling, Labels
  <2>4. status[r] # "succeeded"
    BY <2>1, EndedForGood DEF SuccessHasEvidence
  <2>5. status[r] # "failed"
    <3>1. SUFFICES ASSUME failure[r] \in FailureCodes
                   PROVE  FALSE
      BY <2>2 DEF RowsComplete
    <3>2. Cause(r, failure[r])
      BY DEF FailuresAreReal, Cause
    <3> QED
      BY <2>1, <3>1, <3>2, EndedForGood
  <2> QED
    BY <2>1, <2>2, <2>3, <2>4, <2>5 DEF Statuses, table
<1>2. CASE created'[r] = created[r]
  <2>1. ActiveJob(r)
    <3>1. CASE JobKept(r)
      BY <3>1 DEF JobKept, ActiveJob
    <3>2. CASE JobMade(r)
      BY <1>2, <3>2 DEF JobMade, TypeOK
    <3>3. CASE \E result \in {"succeeded", "failed"} : JobEnded(r, result)
      BY <3>3 DEF JobEnded, ActiveJob
    <3>4. CASE JobDeleted(r)
      BY <3>4 DEF JobDeleted, ActiveJob
    <3> QED
      BY <1>0, <3>1, <3>2, <3>3, <3>4 DEF JobMoves
  <2>2. status[r] = "running"
    BY <2>1 DEF ActiveJobHoldsSlot, ActiveJob
  <2>3. ASSUME NEW w \in Workers, RowMoves(w, r)
        PROVE  status'[r] = "running"
    <3>1. ~RowFinished(w, r)
      <4>1. SUFFICES ASSUME RowFinished(w, r) PROVE FALSE
        OBVIOUS
      <4>2. /\ outcome[w] \in Outcomes /\ Cause(r, outcome[w].code)
            /\ outcome[w].code = NULL => jobUid[r] \in completed[r]
        BY <4>1, FinishedFacts
      <4>3. outcome[w].code \in FailureCodes \cup {NULL}
        BY <4>2 DEF Outcomes
      <4> QED
        BY <2>1, <4>2, <4>3, EndedForGood
    <3> QED
      BY <2>2, <2>3, <3>1 DEF RowMoves, RowKept, RowClaimed, RowRecorded
  <2> QED
    BY <2>2, <2>3, WorkerRowMoves, ClusterKeepsRows DEF Next, table
<1> QED
  BY <1>1, <1>2

(* Without deletions the capacity bounds the cluster.                      *)
LEMMA SlotsInvariant ==
    ASSUME MaxDeletes = 0
    PROVE  Spec => []ActiveJobHoldsSlot
<1>1. ExecutionInv /\ ActiveJobHoldsSlot /\ [Next]_vars => ActiveJobHoldsSlot'
  BY NextSlots DEF ActiveJobHoldsSlot, vars, table, cluster
<1>2. Init => ActiveJobHoldsSlot
  BY InitSerial DEF Serial
<1> QED
  BY <1>1, <1>2, ExecutionInvariant, PTL DEF Spec

-----------------------------------------------------------------------------
(* What the reader should know                                             *)

(* Tables and cluster agree: unless sessions are lost and Jobs deleted in  *)
(* one and the same behaviour, the cluster works only for runs that hold a *)
(* slot, because claim_next stores the intent before create() and finish() *)
(* frees the slot only when the Job has ended.                             *)
THEOREM TablesMatchCluster ==
    ASSUME MaxDisconnects = 0 \/ MaxDeletes = 0
    PROVE  Spec => []ClusterAgrees
<1>1. CASE MaxDisconnects = 0
  <2>1. ExecutionInv /\ Serial => ClusterAgrees
    BY DEF ExecutionInv, Serial, ClusterAgrees
  <2> QED
    BY <1>1, <2>1, ExecutionInvariant, SerialInvariant, PTL
<1>2. CASE MaxDeletes = 0
  <2>1. ExecutionInv /\ ActiveJobHoldsSlot => ClusterAgrees
    BY DEF ExecutionInv, ClusterAgrees
  <2> QED
    BY <1>2, <2>1, ExecutionInvariant, SlotsInvariant, PTL
<1> QED
  BY <1>1, <1>2

(* A run whose Job was recorded never gets another one, under the same     *)
(* assumption: _find_or_create reports a missing recorded Job as lost, and *)
(* no worker that has not seen the record is about to create one.          *)
THEOREM NoScientificRerun ==
    ASSUME MaxDisconnects = 0 \/ MaxDeletes = 0
    PROVE  Spec => RecordedJobNeverRecreated
<1> DEFINE Fresh == [\A r \in Runs : created'[r] > created[r] => jobUid[r] = NULL]_vars
<1>1. ASSUME ExecutionInv, Next, NEW r \in Runs, created'[r] > created[r]
      PROVE  /\ job[r] = NULL
             /\ \E w \in Workers : pc[w] = "create" /\ current[w] = r
  <2>1. created[r] \in Nat
    BY <1>1 DEF ExecutionInv, TypeOK
  <2>2. created'[r] # created[r]
    BY <1>1, <2>1
  <2> QED
    BY <1>1, <2>2, MadeByWorker
<1>2. CASE MaxDisconnects = 0
  <2>1. ExecutionInv /\ Serial /\ [Next]_vars => Fresh
    BY <1>1 DEF Serial, LastJob
  <2> QED
    BY <1>2, <2>1, ExecutionInvariant, SerialInvariant, PTL
       DEF Spec, RecordedJobNeverRecreated
<1>3. CASE MaxDeletes = 0
  <2>1. ASSUME ExecutionInv, NEW r \in Runs, job[r] = NULL
        PROVE  jobUid[r] = NULL
    <3>1. created[r] = 0
      BY <1>3, <2>1, NothingDeleted DEF Counted
    <3>2. jobUid[r] # NULL => jobUid[r] \in Int
      BY <2>1 DEF ExecutionInv, TypeOK, Uids
    <3> QED
      BY <2>1, <3>1, <3>2 DEF ExecutionInv, RowsComplete
  <2>2. ExecutionInv /\ [Next]_vars => Fresh
    BY <1>1, <2>1
  <2> QED
    BY <2>2, ExecutionInvariant, PTL DEF Spec, RecordedJobNeverRecreated
<1> QED
  BY <1>2, <1>3

-----------------------------------------------------------------------------
(* The life of a run                                                       *)

(* The instance of RunLifecycle brings its own copy of FiniteSets.         *)
LEMMA SameCardinality ==
    ASSUME NEW S
    PROVE  Lifecycle!Cardinality(S) = Cardinality(S)
BY DEF Lifecycle!Cardinality, Cardinality

(* Every step is a step of the lifecycle or leaves it alone.               *)
LEMMA LifecycleStep ==
    ASSUME ExecutionInv, Next
    PROVE  [Lifecycle!LifecycleNext]_<<status, events>>
<1> USE DEF ExecutionInv
<1>1. CASE UNCHANGED <<status, events>>
  BY <1>1
<1>2. ASSUME NEW w \in Workers, Claim(w)
      PROVE  Lifecycle!LifecycleNext
  <2>1. PICK r \in Waiting : status' = [status EXCEPT ![r] = "running"]
    BY <1>2 DEF Claim
  <2>2. /\ r \in Runs /\ status[r] = "accepted" /\ UNCHANGED events
        /\ Cardinality(RunningRuns) < Capacity
    BY <1>2, <2>1 DEF Claim, Waiting
  <2>3. Lifecycle!Cardinality({q \in Runs : status[q] = "running"}) < Capacity
    BY <2>2, SameCardinality DEF RunningRuns
  <2>4. Lifecycle!Start(r)
    BY <2>1, <2>2, <2>3 DEF Lifecycle!Start
  <2> QED
    BY <2>2, <2>4 DEF Lifecycle!LifecycleNext
<1>3. ASSUME NEW w \in Workers, Finish(w), status[current[w]] \notin TERMINAL_STATUSES
      PROVE  Lifecycle!LifecycleNext
  <2> DEFINE r == current[w]
             result == IF outcome[w].code = NULL THEN "succeeded" ELSE "failed"
  <2>1. r \in Runs /\ status[r] = "running"
    BY <1>3, HasRun DEF Finish, TypeOK, HandsTrue, Hands, Loaded, Reconciling, Labels
  <2>2. /\ status' = [status EXCEPT ![r] = result]
        /\ events' = [events EXCEPT ![r] = Append(@, TerminalEvent(result))]
    BY <1>3 DEF Finish
  <2>3. result \in Lifecycle!Finished
    BY DEF Lifecycle!Finished
  <2>4. Lifecycle!TerminalEvent(result) = TerminalEvent(result)
    BY DEF Lifecycle!TerminalEvent, TerminalEvent
  <2> HIDE DEF result
  <2>5. Lifecycle!Conclude(r, result)
    BY <2>1, <2>2, <2>4 DEF Lifecycle!Conclude
  <2> QED
    BY <2>1, <2>3, <2>5 DEF Lifecycle!LifecycleNext
<1>4. ASSUME NEW w \in Workers, WorkerStep(w), ~Claim(w),
             ~(Finish(w) /\ status[current[w]] \notin TERMINAL_STATUSES)
      PROVE  UNCHANGED <<status, events>>
  BY <1>4 DEF WorkerStep, StartTick, TryLock, EndTick, Load, GetJob, CreateJob,
     GetAgain, VerifyContract, SaveUid, Collect, Finish, Unlock, SessionGone, table
<1>5. ASSUME NEW w \in Workers, WorkerFault(w)
      PROVE  UNCHANGED <<status, events>>
  BY <1>5 DEF WorkerFault, CreateFails, Unavailable, Crash, LoseSession, table
<1>6. ASSUME NEW q \in Runs, JobProgress(q) \/ DeleteJob(q)
      PROVE  UNCHANGED <<status, events>>
  BY <1>6, ClusterKeepsRows DEF table
<1> QED
  BY <1>1, <1>2, <1>3, <1>4, <1>5, <1>6 DEF Next

(* The workers follow the life of a run: claim_next starts a run only      *)
(* below the capacity, only a running run is finished, once, and the event *)
(* that announces the outcome is stored with it.                           *)
THEOREM WorkersFollowLifecycle == Spec => FollowsLifecycle
<1>1. ExecutionInv /\ [Next]_vars => [Lifecycle!LifecycleNext]_<<status, events>>
  BY LifecycleStep DEF vars, table
<1> QED
  BY <1>1, ExecutionInvariant, PTL DEF Spec, FollowsLifecycle
=============================================================================
