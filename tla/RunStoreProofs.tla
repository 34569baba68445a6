--------------------------- MODULE RunStoreProofs ---------------------------
(***************************************************************************)
(* Theorems about RunStore for every number of runs, users, releases and   *)
(* processes.  The inductive invariant says, for each place where a        *)
(* transaction can wait, which locks it holds and which of the values it   *)
(* read are still true because of them.  From it follow the bounds on      *)
(* capacity and admission, that invocations in use never change, that the  *)
(* outbox tells the outcome of every run, that no transactions wait for    *)
(* each other in a circle, and that RunStore implements RunLifecycle.      *)
(***************************************************************************)
EXTENDS RunStore, FiniteSetTheorems, TLAPS

(* Transactions by what they hold.                                         *)
HoldsRelease == {"registerLocked", "registerChecked", "accepting", "deciding",
                 "claimLocked", "claiming"}
HoldsRun == {"deciding", "claiming", "finishing"}
HoldsCapacity == {"claimSelected", "claimLocked", "claiming"}
HasRun == {"accepting", "deciding", "claimSelected", "claimLocked", "claiming",
           "observed", "finishing"}
HasRelease == HoldsRelease \cup {"registering", "claimSelected"}
ReadsRelease == {"accepting", "deciding", "claimLocked", "claiming"}

(* A transaction past a lock statement holds that lock.                    *)
LocksHeld ==
    \A p \in Procs :
        /\ pc[p] \in HasRelease => release[p] \in Releases
        /\ pc[p] \in HoldsRelease => releaseLock[release[p]] = p
        /\ pc[p] \in HasRun => run[p] \in Runs /\ status[run[p]] # "none"
        /\ pc[p] \in HoldsRun => runLock[run[p]] = p
        /\ pc[p] \in HoldsCapacity => capacityLock = p

(* An existing row has a request for a registered release; a row that does *)
(* not exist is not accepted and a running one is.                         *)
RowsComplete ==
    \A r \in Runs :
        /\ status[r] # "none" => request[r] \in Requests
        /\ status[r] # "none" => catalog[request[r].release] # NULL
        /\ status[r] = "none" => ~accepted[r]
        /\ status[r] = "running" => accepted[r]

(* What submissions and registrations carry from step to step.             *)
DraftsValid ==
    \A p \in Procs :
        /\ pc[p] \in {"prepared", "admitted"} =>
              draft[p] \in Requests /\ catalog[draft[p].release] # NULL
        /\ pc[p] \in {"registering", "registerLocked", "registerChecked"} =>
              seen[p] \in Definitions
        /\ pc[p] \in {"registerLocked", "registerChecked"} =>
              catalog[release[p]] # NULL

(* A definition read under the release lock is still the stored one.       *)
SeenIsStored ==
    \A p \in Procs : pc[p] \in ReadsRelease =>
        /\ request[run[p]].release = release[p]
        /\ seen[p] = catalog[release[p]]

(* A registration that passed its check would still pass it.               *)
CheckStillHolds ==
    \A p \in Procs : pc[p] = "registerChecked" =>
        \A r \in Runs :
            accepted[r] /\ Active(r) /\ request[r].release = release[p] =>
                SameInvocation(catalog[release[p]], seen[p], request[r].mode)

(* A decision taken under the run lock is still the right one, and neither *)
(* a claim nor a reconciliation ever finds the definition changed.         *)
VerdictsValid ==
    \A p \in Procs :
        /\ pc[p] = "deciding" =>
              verdict[p] \in {"unchanged", "compatible",
                              "execution_definition_changed"}
        /\ pc[p] = "deciding" /\ verdict[p] = "compatible" =>
              /\ status[run[p]] = "queued" /\ ~accepted[run[p]]
              /\ matches_fingerprint(seen[p], request[run[p]])
        /\ pc[p] = "deciding" /\ verdict[p] = "execution_definition_changed" =>
              status[run[p]] = "queued" /\ ~accepted[run[p]]
        /\ pc[p] = "claimSelected" => request[run[p]].release = release[p]
        /\ pc[p] = "claiming" =>
              Claimable(run[p]) /\ verdict[p] = "compatible"
        /\ pc[p] \in {"observed", "finishing"} =>
              /\ verdict[p] \in ExecutionFailures \cup {"succeeded"}
              /\ status[run[p]] \in {"running"} \cup TERMINAL_STATUSES

StoreInv ==
    /\ LocksHeld
    /\ RowsComplete
    /\ DraftsValid
    /\ SeenIsStored
    /\ CheckStillHolds
    /\ VerdictsValid
    /\ AcceptedRunsMatchCatalog

-----------------------------------------------------------------------------
(* A mode of a definition is a mode and computes something.                *)
LEMMA DefinitionType ==
    ASSUME NEW d \in Definitions, NEW m \in DOMAIN d
    PROVE  m \in Modes /\ d[m].computation \in Computations
BY DEF Definitions, Invocations

(* What finish_row writes: one row at most, and only a live one.           *)
LEMMA FinishRow ==
    ASSUME TypeOK, NEW r \in Runs, NEW code \in FailureCodes \cup {NULL},
           finish_row(r, code)
    PROVE  /\ status' \in [Runs -> Statuses]
           /\ failure' \in [Runs -> FailureCodes \cup {NULL}]
           /\ outbox' \in [Runs -> Seq(EventTypes)]
           /\ \A q \in Runs : q # r => /\ status'[q] = status[q]
                                      /\ outbox'[q] = outbox[q]
           /\ status[r] \in TERMINAL_STATUSES =>
                 status'[r] = status[r] /\ outbox'[r] = outbox[r]
           /\ status[r] \notin TERMINAL_STATUSES =>
                 /\ status'[r] \in TERMINAL_STATUSES
                 /\ outbox'[r] = Append(outbox[r], TerminalEvent(status'[r]))
<1>1. CASE status[r] \in TERMINAL_STATUSES
  BY <1>1 DEF TypeOK, TablesOK, finish_row
<1>2. CASE status[r] \notin TERMINAL_STATUSES
  <2> DEFINE outcome == IF code = NULL THEN "succeeded" ELSE "failed"
  <2>1. /\ status' = [status EXCEPT ![r] = outcome]
        /\ failure' = [failure EXCEPT ![r] = code]
        /\ outbox' = [outbox EXCEPT ![r] =
                         Append(outbox[r], TerminalEvent(outcome))]
    BY <1>2 DEF finish_row
  <2>2. outcome \in TERMINAL_STATUSES
    BY DEF TERMINAL_STATUSES
  <2>3. Append(outbox[r], TerminalEvent(outcome)) \in Seq(EventTypes)
    BY DEF TypeOK, TablesOK, TerminalEvent, EventTypes
  <2> HIDE DEF outcome
  <2> QED
    BY <1>2, <2>1, <2>2, <2>3 DEF TypeOK, TablesOK, Statuses, TERMINAL_STATUSES
<1> QED
  BY <1>1, <1>2

(* Every end of a transaction leaves the other transactions alone.         *)
LEMMA TransactionEnds ==
    ASSUME TypeOK, NEW p \in Procs, EndTransaction(p)
    PROVE  /\ SessionsOK'
           /\ pc'[p] = "idle"
           /\ \A q \in Procs \ {p} :
                 /\ pc'[q] = pc[q] /\ run'[q] = run[q]
                 /\ release'[q] = release[q] /\ seen'[q] = seen[q]
                 /\ draft'[q] = draft[q] /\ verdict'[q] = verdict[q]
                 /\ capacityLock = q => capacityLock' = q
                 /\ \A l \in Releases :
                       releaseLock[l] = q => releaseLock'[l] = q
                 /\ \A r \in Runs : runLock[r] = q => runLock'[r] = q
<1>1. SessionsOK'
  BY DEF TypeOK, SessionsOK, EndTransaction, FreedBy, Labels
<1> QED
  BY <1>1 DEF TypeOK, SessionsOK, EndTransaction, FreedBy

(* The end of a transaction leaves the locks of the others in place.       *)
LEMMA EndKeepsLocks ==
    ASSUME TypeOK, StoreInv, NEW p \in Procs, EndTransaction(p),
           \A r \in Runs : status[r] # "none" => status'[r] # "none"
    PROVE  LocksHeld'
BY TransactionEnds DEF StoreInv, LocksHeld, HasRelease, HoldsRelease, HasRun,
   HoldsRun, HoldsCapacity

(* A transaction that only ends, or only writes the status of run r,       *)
(* leaves what the others know intact.                                     *)
LEMMA EndKeepsReads ==
    ASSUME TypeOK, StoreInv, NEW p \in Procs, EndTransaction(p),
           UNCHANGED <<catalog, request>>
    PROVE  DraftsValid' /\ SeenIsStored'
BY TransactionEnds DEF StoreInv, DraftsValid, SeenIsStored, ReadsRelease

(* A check of the modes in use is a check of every run that uses them.     *)
LEMMA CheckCoversRuns ==
    ASSUME NEW l, NEW current, NEW proposed,
           ensure_active_modes_unchanged(current, proposed, ActiveModes(l)),
           NEW r \in Runs, accepted[r], Active(r), request[r].release = l
    PROVE  SameInvocation(current, proposed, request[r].mode)
<1>1. request[r].mode \in ActiveModes(l)
  BY DEF ActiveModes, ActiveRuns
<1> QED
  BY <1>1 DEF ensure_active_modes_unchanged

(* Writing the status of a run whose row p holds does not touch what the   *)
(* other transactions decided under their own row locks.                   *)
LEMMA OthersKeepVerdicts ==
    ASSUME TypeOK, StoreInv, NEW p \in Procs, EndTransaction(p),
           UNCHANGED <<request, accepted>>,
           NEW r \in Runs, runLock[r] = p,
           \A q \in Runs \ {r} : status'[q] = status[q],
           status[r] \in {"running"} \cup TERMINAL_STATUSES =>
               status'[r] \in {"running"} \cup TERMINAL_STATUSES
    PROVE  VerdictsValid'
<1> SUFFICES ASSUME NEW q \in Procs \ {p}
             PROVE  VerdictsValid!(q)'
  BY TransactionEnds DEF VerdictsValid
<1>1. pc[q] \in HoldsRun => run[q] # r
  BY DEF StoreInv, LocksHeld
<1>2. pc[q] \in HasRun => run[q] \in Runs
  BY DEF StoreInv, LocksHeld
<1> QED
  BY <1>1, <1>2, TransactionEnds
     DEF StoreInv, VerdictsValid, HoldsRun, HasRun, Claimable

(* A transaction that ends without a write keeps the invariant.            *)
LEMMA TableUntouched ==
    ASSUME TypeOK, StoreInv, NEW p \in Procs, EndTransaction(p),
           UNCHANGED table
    PROVE  TypeOK' /\ StoreInv'
<1> USE DEF StoreInv, table
<1>1. TypeOK'
  BY TransactionEnds DEF TypeOK, TablesOK
<1>2. LocksHeld' /\ DraftsValid' /\ SeenIsStored'
  BY EndKeepsLocks, EndKeepsReads
<1>3. RowsComplete' /\ AcceptedRunsMatchCatalog'
  BY DEF RowsComplete, AcceptedRunsMatchCatalog, Active
<1>4. CheckStillHolds'
  BY TransactionEnds DEF CheckStillHolds, Active
<1>5. VerdictsValid'
  BY TransactionEnds DEF VerdictsValid, Claimable
<1> QED
  BY <1>1, <1>2, <1>3, <1>4, <1>5

(* So does one that finishes the run whose row it holds.                   *)
LEMMA FinishStep ==
    ASSUME TypeOK, StoreInv, NEW p \in Procs, EndTransaction(p),
           UNCHANGED <<catalog, request, accepted>>,
           NEW r \in Runs, runLock[r] = p, status[r] # "none",
           NEW code \in FailureCodes \cup {NULL}, finish_row(r, code)
    PROVE  TypeOK' /\ StoreInv'
<1> USE DEF StoreInv
<1>1. /\ TablesOK' /\ status'[r] \in TERMINAL_STATUSES
      /\ \A q \in Runs \ {r} : status'[q] = status[q]
  BY FinishRow DEF TypeOK, TablesOK
<1>2. TypeOK'
  BY <1>1, TransactionEnds DEF TypeOK
<1>3. LocksHeld' /\ DraftsValid' /\ SeenIsStored'
  BY <1>1, EndKeepsLocks, EndKeepsReads DEF TERMINAL_STATUSES
<1>4. RowsComplete'
  BY <1>1 DEF RowsComplete, TERMINAL_STATUSES
<1>5. CheckStillHolds'
  BY <1>1, TransactionEnds
     DEF CheckStillHolds, Active, ACTIVE_STATUSES, TERMINAL_STATUSES
<1>6. VerdictsValid'
  BY <1>1, OthersKeepVerdicts DEF TERMINAL_STATUSES
<1>7. AcceptedRunsMatchCatalog'
  BY <1>1 DEF AcceptedRunsMatchCatalog, Active, ACTIVE_STATUSES,
     TERMINAL_STATUSES
<1> QED
  BY <1>2, <1>3, <1>4, <1>5, <1>6, <1>7

(* Preparing a submission touches its own draft only.                      *)
LEMMA SubmitPrepareStep ==
    ASSUME TypeOK, StoreInv, NEW p \in Procs, SubmitPrepare(p)
    PROVE  TypeOK' /\ StoreInv'
<1> USE DEF TypeOK, TablesOK, SessionsOK, StoreInv, SubmitPrepare, table, locks
<1>1. TypeOK'
  <2>1. draft' \in [Procs -> Requests \cup {NULL}]
    BY DefinitionType DEF Requests
  <2> QED
    BY <2>1 DEF Labels
<1>2. LocksHeld'
  BY DEF LocksHeld, HasRelease, HoldsRelease, HasRun, HoldsRun, HoldsCapacity
<1>3. RowsComplete'
  BY DEF RowsComplete
<1>4. DraftsValid'
  <2>1. draft'[p] \in Requests /\ catalog[draft'[p].release] # NULL
    BY DefinitionType DEF Requests
  <2> QED
    BY <2>1 DEF DraftsValid
<1>5. SeenIsStored'
  BY DEF SeenIsStored, ReadsRelease
<1>6. CheckStillHolds'
  BY DEF CheckStillHolds, Active
<1>7. VerdictsValid'
  BY DEF VerdictsValid, Claimable
<1>8. AcceptedRunsMatchCatalog'
  BY DEF AcceptedRunsMatchCatalog, Active
<1> QED
  BY <1>1, <1>2, <1>3, <1>4, <1>5, <1>6, <1>7, <1>8

(* Admission takes the admission lock and writes no row.                   *)
LEMMA SubmitAdmitStep ==
    ASSUME TypeOK, StoreInv, NEW p \in Procs, SubmitAdmit(p)
    PROVE  TypeOK' /\ StoreInv'
<1> USE DEF TypeOK, TablesOK, SessionsOK, StoreInv, SubmitAdmit, table
<1>1. TypeOK'
  BY DEF Labels
<1>2. LocksHeld'
  BY DEF LocksHeld, HasRelease, HoldsRelease, HasRun, HoldsRun, HoldsCapacity
<1>3. RowsComplete'
  BY DEF RowsComplete
<1>4. DraftsValid'
  BY DEF DraftsValid
<1>5. SeenIsStored'
  BY DEF SeenIsStored, ReadsRelease
<1>6. CheckStillHolds'
  BY DEF CheckStillHolds, Active
<1>7. VerdictsValid'
  BY DEF VerdictsValid, Claimable
<1>8. AcceptedRunsMatchCatalog'
  BY DEF AcceptedRunsMatchCatalog, Active
<1> QED
  BY <1>1, <1>2, <1>3, <1>4, <1>5, <1>6, <1>7, <1>8

(* A refused submission ends without a trace.                              *)
LEMMA SubmitRefuseStep ==
    ASSUME TypeOK, StoreInv, NEW p \in Procs, SubmitRefuse(p)
    PROVE  TypeOK' /\ StoreInv'
BY TableUntouched DEF SubmitRefuse

(* The inserted run names a registered release and is not accepted.        *)
LEMMA SubmitInsertStep ==
    ASSUME TypeOK, StoreInv, NEW p \in Procs, SubmitInsert(p)
    PROVE  TypeOK' /\ StoreInv'
<1> USE DEF TypeOK, TablesOK, SessionsOK, StoreInv, SubmitInsert, EndTransaction, FreedBy
<1>1. TypeOK'
  BY DEF Labels, Statuses, EventTypes
<1>2. LocksHeld'
  BY DEF LocksHeld, HasRelease, HoldsRelease, HasRun, HoldsRun, HoldsCapacity
<1>3. RowsComplete'
  BY DEF RowsComplete, DraftsValid
<1>4. DraftsValid'
  BY DEF DraftsValid
<1>5. SeenIsStored'
  BY DEF SeenIsStored, ReadsRelease, LocksHeld, HasRun
<1>6. CheckStillHolds'
  BY DEF CheckStillHolds, Active, RowsComplete
<1>7. VerdictsValid'
  BY DEF VerdictsValid, Claimable, LocksHeld, HasRun
<1>8. AcceptedRunsMatchCatalog'
  BY DEF AcceptedRunsMatchCatalog, Active, RowsComplete
<1> QED
  BY <1>1, <1>2, <1>3, <1>4, <1>5, <1>6, <1>7, <1>8

(* A registration starts with a well-formed proposal.                      *)
LEMMA RegisterLockModelStep ==
    ASSUME TypeOK, StoreInv, NEW p \in Procs, RegisterLockModel(p)
    PROVE  TypeOK' /\ StoreInv'
<1> USE DEF TypeOK, TablesOK, SessionsOK, StoreInv, RegisterLockModel, table
<1>1. TypeOK'
  BY StoreAssumption DEF Labels
<1>2. LocksHeld'
  BY DEF LocksHeld, HasRelease, HoldsRelease, HasRun, HoldsRun, HoldsCapacity
<1>3. RowsComplete'
  BY DEF RowsComplete
<1>4. DraftsValid'
  BY StoreAssumption DEF DraftsValid
<1>5. SeenIsStored'
  BY DEF SeenIsStored, ReadsRelease
<1>6. CheckStillHolds'
  BY DEF CheckStillHolds, Active
<1>7. VerdictsValid'
  BY DEF VerdictsValid, Claimable
<1>8. AcceptedRunsMatchCatalog'
  BY DEF AcceptedRunsMatchCatalog, Active
<1> QED
  BY <1>1, <1>2, <1>3, <1>4, <1>5, <1>6, <1>7, <1>8

(* A first registration changes no release that any run refers to.         *)
LEMMA RegisterInsertStep ==
    ASSUME TypeOK, StoreInv, NEW p \in Procs, RegisterInsert(p)
    PROVE  TypeOK' /\ StoreInv'
<1> USE DEF TypeOK, TablesOK, SessionsOK, StoreInv, RegisterInsert, EndTransaction, FreedBy
<1>1. TypeOK'
  BY DEF Labels
<1>2. LocksHeld'
  BY DEF LocksHeld, HasRelease, HoldsRelease, HasRun, HoldsRun, HoldsCapacity
<1>3. RowsComplete'
  BY StoreAssumption DEF RowsComplete, DraftsValid
<1>4. DraftsValid'
  BY DEF DraftsValid
<1>5. SeenIsStored'
  BY DEF SeenIsStored, ReadsRelease, LocksHeld, HasRun, RowsComplete
<1>6. CheckStillHolds'
  BY DEF CheckStillHolds, Active, DraftsValid
<1>7. VerdictsValid'
  BY DEF VerdictsValid, Claimable
<1>8. AcceptedRunsMatchCatalog'
  BY DEF AcceptedRunsMatchCatalog, Active
<1> QED
  BY <1>1, <1>2, <1>3, <1>4, <1>5, <1>6, <1>7, <1>8

(* A registration gets hold of a release that exists.                      *)
LEMMA RegisterLockReleaseStep ==
    ASSUME TypeOK, StoreInv, NEW p \in Procs, RegisterLockRelease(p)
    PROVE  TypeOK' /\ StoreInv'
<1> USE DEF TypeOK, TablesOK, SessionsOK, StoreInv, RegisterLockRelease, table
<1>1. TypeOK'
  BY DEF Labels
<1>2. LocksHeld'
  BY StoreAssumption DEF LocksHeld, HasRelease, HoldsRelease, HasRun,
      HoldsRun, HoldsCapacity
<1>3. RowsComplete'
  BY DEF RowsComplete
<1>4. DraftsValid'
  BY DEF DraftsValid
<1>5. SeenIsStored'
  BY DEF SeenIsStored, ReadsRelease
<1>6. CheckStillHolds'
  BY DEF CheckStillHolds, Active
<1>7. VerdictsValid'
  BY DEF VerdictsValid, Claimable
<1>8. AcceptedRunsMatchCatalog'
  BY DEF AcceptedRunsMatchCatalog, Active
<1> QED
  BY <1>1, <1>2, <1>3, <1>4, <1>5, <1>6, <1>7, <1>8

(* The check establishes CheckStillHolds under the release lock.           *)
LEMMA RegisterCheckStep ==
    ASSUME TypeOK, StoreInv, NEW p \in Procs, RegisterCheck(p)
    PROVE  TypeOK' /\ StoreInv'
<1> USE DEF TypeOK, TablesOK, SessionsOK, StoreInv, RegisterCheck, table, locks
<1>1. TypeOK'
  BY DEF Labels
<1>2. LocksHeld'
  BY DEF LocksHeld, HasRelease, HoldsRelease, HasRun, HoldsRun, HoldsCapacity
<1>3. RowsComplete'
  BY DEF RowsComplete
<1>4. DraftsValid'
  BY DEF DraftsValid
<1>5. SeenIsStored'
  BY DEF SeenIsStored, ReadsRelease
<1>6. CheckStillHolds'
  BY CheckCoversRuns DEF CheckStillHolds, Active
<1>7. VerdictsValid'
  BY DEF VerdictsValid, Claimable
<1>8. AcceptedRunsMatchCatalog'
  BY DEF AcceptedRunsMatchCatalog, Active
<1> QED
  BY <1>1, <1>2, <1>3, <1>4, <1>5, <1>6, <1>7, <1>8

(* A refused registration ends without a trace.                            *)
LEMMA RegisterRefuseStep ==
    ASSUME TypeOK, StoreInv, NEW p \in Procs, RegisterRefuse(p)
    PROVE  TypeOK' /\ StoreInv'
BY TableUntouched DEF RegisterRefuse

(* The overwritten definition still offers what accepted runs need.        *)
LEMMA RegisterCommitStep ==
    ASSUME TypeOK, StoreInv, NEW p \in Procs, RegisterCommit(p)
    PROVE  TypeOK' /\ StoreInv'
<1> USE DEF TypeOK, TablesOK, SessionsOK, StoreInv, RegisterCommit, EndTransaction, FreedBy
<1>1. TypeOK'
  BY DEF Labels
<1>2. LocksHeld'
  BY DEF LocksHeld, HasRelease, HoldsRelease, HasRun, HoldsRun, HoldsCapacity
<1>3. RowsComplete'
  BY StoreAssumption DEF RowsComplete, DraftsValid
<1>4. DraftsValid'
  BY StoreAssumption DEF DraftsValid
<1>5. SeenIsStored'
  BY DEF SeenIsStored, ReadsRelease, LocksHeld, HasRelease,
      HoldsRelease, HasRun, HoldsRun
<1>6. CheckStillHolds'
  BY DEF CheckStillHolds, Active, LocksHeld, HasRelease, HoldsRelease,
      HasRun, HoldsRun
<1>7. VerdictsValid'
  BY DEF VerdictsValid, Claimable
<1>8. AcceptedRunsMatchCatalog'
  BY StoreAssumption DEF AcceptedRunsMatchCatalog, Active,
      CheckStillHolds, SameInvocation, matches_fingerprint,
      RowsComplete, ACTIVE_STATUSES, DraftsValid
<1> QED
  BY <1>1, <1>2, <1>3, <1>4, <1>5, <1>6, <1>7, <1>8

(* Acceptance reads the definition under the release lock.                 *)
LEMMA AcceptLockReleaseStep ==
    ASSUME TypeOK, StoreInv, NEW p \in Procs, NEW r \in Runs, AcceptLockRelease(p, r)
    PROVE  TypeOK' /\ StoreInv'
<1> USE DEF TypeOK, TablesOK, SessionsOK, StoreInv, AcceptLockRelease, table
<1>1. TypeOK'
  BY DEF Labels, RowsComplete, Requests
<1>2. LocksHeld'
  BY StoreAssumption DEF RowsComplete, Requests, HoldsCapacity,
      LocksHeld, HasRelease, HoldsRelease, HasRun, HoldsRun
<1>3. RowsComplete'
  BY DEF RowsComplete
<1>4. DraftsValid'
  BY DEF DraftsValid
<1>5. SeenIsStored'
  BY DEF SeenIsStored, ReadsRelease
<1>6. CheckStillHolds'
  BY DEF CheckStillHolds, Active
<1>7. VerdictsValid'
  BY DEF VerdictsValid, Claimable
<1>8. AcceptedRunsMatchCatalog'
  BY DEF AcceptedRunsMatchCatalog, Active
<1> QED
  BY <1>1, <1>2, <1>3, <1>4, <1>5, <1>6, <1>7, <1>8

(* Acceptance decides a waiting run under both locks.                      *)
LEMMA AcceptLockRunStep ==
    ASSUME TypeOK, StoreInv, NEW p \in Procs, AcceptLockRun(p)
    PROVE  TypeOK' /\ StoreInv'
<1> USE DEF TypeOK, TablesOK, SessionsOK, StoreInv, AcceptLockRun, table
<1>1. TypeOK'
  BY DEF Labels, Verdicts, FailureCodes, ExecutionFailures
<1>2. LocksHeld'
  BY StoreAssumption DEF HoldsCapacity, LocksHeld, HasRelease,
      HoldsRelease, HasRun, HoldsRun
<1>3. RowsComplete'
  BY DEF RowsComplete
<1>4. DraftsValid'
  BY DEF DraftsValid
<1>5. SeenIsStored'
  BY DEF SeenIsStored, ReadsRelease
<1>6. CheckStillHolds'
  BY DEF CheckStillHolds, Active
<1>7. VerdictsValid'
  BY DEF VerdictsValid, Claimable
<1>8. AcceptedRunsMatchCatalog'
  BY DEF AcceptedRunsMatchCatalog, Active
<1> QED
  BY <1>1, <1>2, <1>3, <1>4, <1>5, <1>6, <1>7, <1>8

(* An accepted run matches the definition its transaction holds.           *)
LEMMA AcceptCommitStep ==
    ASSUME TypeOK, StoreInv, NEW p \in Procs, AcceptCommit(p)
    PROVE  TypeOK' /\ StoreInv'
<1> DEFINE r == run[p]
<1>1. /\ pc[p] = "deciding" /\ EndTransaction(p)
      /\ UNCHANGED <<catalog, request>>
  BY DEF AcceptCommit
<1>2. /\ r \in Runs /\ status[r] # "none" /\ request[r] \in Requests
      /\ runLock[r] = p /\ request[r].release = release[p]
      /\ releaseLock[release[p]] = p /\ seen[p] = catalog[release[p]]
      /\ catalog[release[p]] # NULL /\ release[p] \in Releases
  BY <1>1 DEF StoreInv, LocksHeld, RowsComplete, SeenIsStored, HasRun,
      HoldsRun, HoldsRelease, HasRelease, ReadsRelease
<1> HIDE DEF r
<1>3. CASE verdict[p] = "unchanged"
  <2>1. UNCHANGED table
    BY <1>1, <1>3 DEF AcceptCommit, table
  <2> QED
    BY <1>1, <2>1, TableUntouched
<1>4. CASE verdict[p] = "compatible"
  <2>1. /\ accepted' = [accepted EXCEPT ![r] = TRUE]
        /\ UNCHANGED <<status, failure, outbox>>
    BY <1>1, <1>4 DEF AcceptCommit, r
  <2>2. /\ status[r] = "queued"
        /\ matches_fingerprint(catalog[release[p]], request[r])
    BY <1>1, <1>2, <1>4 DEF StoreInv, VerdictsValid, r
  <2>3. TypeOK'
    BY <1>1, <2>1, TransactionEnds DEF TypeOK, TablesOK
  <2>4. LocksHeld' /\ DraftsValid' /\ SeenIsStored'
    BY <1>1, <2>1, EndKeepsLocks, EndKeepsReads
  <2>5. RowsComplete'
    BY <1>1, <1>2, <2>1, <2>2 DEF StoreInv, RowsComplete, TypeOK, TablesOK
  <2>6. CheckStillHolds'
    <3> SUFFICES ASSUME NEW q \in Procs \ {p}, pc[q] = "registerChecked",
                        NEW x \in Runs, accepted'[x], Active(x),
                        request[x].release = release[q]
                 PROVE  SameInvocation(catalog[release[q]], seen[q],
                                       request[x].mode)
      BY <1>1, <2>1, TransactionEnds DEF CheckStillHolds, Active
    <3>1. releaseLock[release[q]] = q
      BY DEF StoreInv, LocksHeld, HoldsRelease
    <3>2. x # r
      BY <1>2, <3>1
    <3> QED
      BY <2>1, <3>2 DEF StoreInv, CheckStillHolds, TypeOK, TablesOK
  <2>7. VerdictsValid'
    <3> SUFFICES ASSUME NEW q \in Procs \ {p}
                 PROVE  VerdictsValid!(q)'
      BY <1>1, TransactionEnds DEF VerdictsValid
    <3>1. pc[q] \in HoldsRun => run[q] # r
      BY <1>2 DEF StoreInv, LocksHeld
    <3> QED
      BY <1>1, <2>1, <3>1, TransactionEnds
         DEF StoreInv, VerdictsValid, HoldsRun, Claimable, TypeOK, TablesOK
  <2>8. AcceptedRunsMatchCatalog'
    BY <1>1, <1>2, <2>1, <2>2
       DEF StoreInv, AcceptedRunsMatchCatalog, Active, TypeOK, TablesOK
  <2> QED
    BY <2>3, <2>4, <2>5, <2>6, <2>7, <2>8 DEF StoreInv
<1>5. CASE verdict[p] = "execution_definition_changed"
  <2>1. /\ finish_row(r, "execution_definition_changed")
        /\ UNCHANGED accepted
    BY <1>1, <1>5 DEF AcceptCommit, r
  <2> QED
    BY <1>1, <1>2, <2>1, FinishStep DEF FailureCodes
<1> QED
  BY <1>1, <1>3, <1>4, <1>5 DEF StoreInv, VerdictsValid

(* A claim takes the capacity lock and remembers its candidate.            *)
LEMMA ClaimSelectStep ==
    ASSUME TypeOK, StoreInv, NEW p \in Procs, NEW r \in Runs, ClaimSelect(p, r)
    PROVE  TypeOK' /\ StoreInv'
<1> USE DEF TypeOK, TablesOK, SessionsOK, StoreInv, ClaimSelect, table
<1>1. TypeOK'
  BY DEF Labels, RowsComplete, Requests, OldestClaimable, Claimable
<1>2. LocksHeld'
  BY StoreAssumption DEF RowsComplete, Requests, OldestClaimable,
      Claimable, HoldsCapacity, LocksHeld, HasRelease, HoldsRelease,
      HasRun, HoldsRun
<1>3. RowsComplete'
  BY DEF RowsComplete
<1>4. DraftsValid'
  BY DEF DraftsValid
<1>5. SeenIsStored'
  BY DEF SeenIsStored, ReadsRelease
<1>6. CheckStillHolds'
  BY DEF CheckStillHolds, Active
<1>7. VerdictsValid'
  BY DEF VerdictsValid, Claimable
<1>8. AcceptedRunsMatchCatalog'
  BY DEF AcceptedRunsMatchCatalog, Active
<1> QED
  BY <1>1, <1>2, <1>3, <1>4, <1>5, <1>6, <1>7, <1>8

(* A claim reads the definition under the release lock.                    *)
LEMMA ClaimLockReleaseStep ==
    ASSUME TypeOK, StoreInv, NEW p \in Procs, ClaimLockRelease(p)
    PROVE  TypeOK' /\ StoreInv'
<1> USE DEF TypeOK, TablesOK, SessionsOK, StoreInv, ClaimLockRelease, table
<1>1. TypeOK'
  BY DEF Labels, LocksHeld, HasRelease
<1>2. LocksHeld'
  BY StoreAssumption DEF HoldsCapacity, LocksHeld, HasRelease,
      HoldsRelease, HasRun, HoldsRun
<1>3. RowsComplete'
  BY DEF RowsComplete
<1>4. DraftsValid'
  BY DEF DraftsValid
<1>5. SeenIsStored'
  BY DEF SeenIsStored, ReadsRelease, VerdictsValid
<1>6. CheckStillHolds'
  BY DEF CheckStillHolds, Active
<1>7. VerdictsValid'
  BY DEF VerdictsValid, Claimable
<1>8. AcceptedRunsMatchCatalog'
  BY DEF AcceptedRunsMatchCatalog, Active
<1> QED
  BY <1>1, <1>2, <1>3, <1>4, <1>5, <1>6, <1>7, <1>8

(* A claim finds its candidate as it was, under both locks.                *)
LEMMA ClaimLockRunStep ==
    ASSUME TypeOK, StoreInv, NEW p \in Procs, ClaimLockRun(p)
    PROVE  TypeOK' /\ StoreInv'
<1> DEFINE r == run[p]
<1>1. pc[p] = "claimLocked" /\ runLock[r] = NULL /\ UNCHANGED table
  BY DEF ClaimLockRun
<1>2. CASE ~Claimable(r)
  BY <1>1, <1>2, TableUntouched DEF ClaimLockRun
<1>3. CASE Claimable(r)
  <2>1. /\ runLock' = [runLock EXCEPT ![r] = p]
        /\ verdict' = [verdict EXCEPT ![p] =
               IF matches_fingerprint(seen[p], request[r])
               THEN "compatible" ELSE "execution_definition_changed"]
        /\ pc' = [pc EXCEPT ![p] = "claiming"]
        /\ UNCHANGED <<admissionLock, capacityLock, modelLock, releaseLock,
                       run, release, seen, draft>>
    BY <1>3 DEF ClaimLockRun
  <2>2. /\ r \in Runs /\ seen[p] = catalog[release[p]]
        /\ request[r].release = release[p] /\ status[r] = "queued"
        /\ accepted[r]
    BY <1>1, <1>3 DEF StoreInv, LocksHeld, SeenIsStored, HasRun, ReadsRelease,
       Claimable
  <2>3. matches_fingerprint(seen[p], request[r])
    BY <2>2 DEF StoreInv, AcceptedRunsMatchCatalog, Active, ACTIVE_STATUSES
  <2>4. verdict' = [verdict EXCEPT ![p] = "compatible"]
    BY <2>1, <2>3
  <2> HIDE DEF r
  <2> USE DEF StoreInv, table
  <2>5. TypeOK'
    BY <1>1, <2>1, <2>2, <2>4
       DEF TypeOK, TablesOK, SessionsOK, Labels, Verdicts
  <2>6. LocksHeld'
    <3> USE <1>1, <2>1, StoreAssumption DEF TypeOK, SessionsOK, r
    <3> QED
      BY DEF LocksHeld, HasRelease, HoldsRelease, HasRun, HoldsRun,
         HoldsCapacity
  <2>7. RowsComplete' /\ AcceptedRunsMatchCatalog'
    BY <1>1 DEF RowsComplete, AcceptedRunsMatchCatalog, Active
  <2>8. DraftsValid' /\ SeenIsStored'
    BY <1>1, <2>1 DEF TypeOK, SessionsOK, DraftsValid, SeenIsStored,
       ReadsRelease
  <2>9. CheckStillHolds'
    BY <1>1, <2>1 DEF TypeOK, SessionsOK, CheckStillHolds, Active
  <2>10. VerdictsValid'
    BY <1>1, <1>3, <2>1, <2>4 DEF TypeOK, SessionsOK, VerdictsValid, Claimable,
       r
  <2> QED
    BY <2>5, <2>6, <2>7, <2>8, <2>9, <2>10
<1> QED
  BY <1>2, <1>3

(* A started run was accepted and still matches its release.               *)
LEMMA ClaimCommitStep ==
    ASSUME TypeOK, StoreInv, NEW p \in Procs, ClaimCommit(p)
    PROVE  TypeOK' /\ StoreInv'
<1> DEFINE r == run[p]
<1>1. /\ pc[p] = "claiming" /\ EndTransaction(p)
      /\ UNCHANGED <<catalog, request, accepted>>
  BY DEF ClaimCommit
<1>2. /\ r \in Runs /\ request[r] \in Requests /\ runLock[r] = p
      /\ status[r] = "queued" /\ accepted[r] /\ verdict[p] = "compatible"
  BY <1>1 DEF StoreInv, LocksHeld, RowsComplete, VerdictsValid, Claimable,
      HasRun, HoldsRun
<1>3. status' = [status EXCEPT ![r] = "running"] /\ UNCHANGED <<failure, outbox>>
  BY <1>2 DEF ClaimCommit
<1> HIDE DEF r
<1>4. TypeOK'
  BY <1>1, <1>2, <1>3, TransactionEnds DEF TypeOK, TablesOK, Statuses
<1>5. LocksHeld' /\ DraftsValid' /\ SeenIsStored'
  BY <1>1, <1>2, <1>3, EndKeepsLocks, EndKeepsReads DEF TypeOK, TablesOK
<1>6. RowsComplete'
  BY <1>1, <1>2, <1>3 DEF StoreInv, RowsComplete, TypeOK, TablesOK
<1>7. CheckStillHolds'
  <2>1. \A x \in Runs : Active(x)' <=> Active(x)
    BY <1>2, <1>3 DEF Active, ACTIVE_STATUSES, TypeOK, TablesOK
  <2> QED
    BY <1>1, <2>1, TransactionEnds DEF StoreInv, CheckStillHolds
<1>8. VerdictsValid'
  BY <1>1, <1>2, <1>3, OthersKeepVerdicts
<1>9. AcceptedRunsMatchCatalog'
  BY <1>1, <1>2, <1>3 DEF StoreInv, AcceptedRunsMatchCatalog, Active,
     ACTIVE_STATUSES, TypeOK, TablesOK
<1> QED
  BY <1>4, <1>5, <1>6, <1>7, <1>8, <1>9 DEF StoreInv

(* A reconciliation finds the definition of a running run unchanged.       *)
LEMMA ReconcileLoadStep ==
    ASSUME TypeOK, StoreInv, NEW p \in Procs, NEW r \in Runs, ReconcileLoad(p, r)
    PROVE  TypeOK' /\ StoreInv'
<1> USE DEF TypeOK, TablesOK, SessionsOK, StoreInv, ReconcileLoad, table, locks
<1>1. TypeOK'
  BY DEF Labels, Verdicts, FailureCodes, ExecutionFailures
<1>2. LocksHeld'
  BY DEF LocksHeld, HasRelease, HoldsRelease, HasRun, HoldsRun, HoldsCapacity
<1>3. RowsComplete'
  BY DEF RowsComplete
<1>4. DraftsValid'
  BY DEF DraftsValid
<1>5. SeenIsStored'
  BY DEF SeenIsStored, ReadsRelease
<1>6. CheckStillHolds'
  BY DEF CheckStillHolds, Active
<1>7. VerdictsValid'
  <2>1. matches_fingerprint(catalog[request[r].release], request[r])
    BY DEF RowsComplete, AcceptedRunsMatchCatalog, Active, ACTIVE_STATUSES
  <2>2. verdict'[p] \in ExecutionFailures \cup {"succeeded"}
    BY <2>1
  <2> QED
    BY <2>2 DEF VerdictsValid, Claimable, TERMINAL_STATUSES
<1>8. AcceptedRunsMatchCatalog'
  BY DEF AcceptedRunsMatchCatalog, Active
<1> QED
  BY <1>1, <1>2, <1>3, <1>4, <1>5, <1>6, <1>7, <1>8

(* Finishing locks the run; no other lock is involved.                     *)
LEMMA FinishLockStep ==
    ASSUME TypeOK, StoreInv, NEW p \in Procs, FinishLock(p)
    PROVE  TypeOK' /\ StoreInv'
<1> USE DEF TypeOK, TablesOK, SessionsOK, StoreInv, FinishLock, table
<1>1. TypeOK'
  BY DEF Labels
<1>2. LocksHeld'
  BY StoreAssumption DEF HoldsCapacity, LocksHeld, HasRelease,
      HoldsRelease, HasRun, HoldsRun
<1>3. RowsComplete'
  BY DEF RowsComplete
<1>4. DraftsValid'
  BY DEF DraftsValid
<1>5. SeenIsStored'
  BY DEF SeenIsStored, ReadsRelease
<1>6. CheckStillHolds'
  BY DEF CheckStillHolds, Active
<1>7. VerdictsValid'
  BY DEF VerdictsValid, Claimable
<1>8. AcceptedRunsMatchCatalog'
  BY DEF AcceptedRunsMatchCatalog, Active
<1> QED
  BY <1>1, <1>2, <1>3, <1>4, <1>5, <1>6, <1>7, <1>8

(* Finishing a run keeps what is known of the others.                      *)
LEMMA FinishCommitStep ==
    ASSUME TypeOK, StoreInv, NEW p \in Procs, FinishCommit(p)
    PROVE  TypeOK' /\ StoreInv'
<1>1. /\ pc[p] = "finishing" /\ EndTransaction(p)
      /\ UNCHANGED <<catalog, request, accepted>>
  BY DEF FinishCommit
<1>2. \E code \in FailureCodes \cup {NULL} : finish_row(run[p], code)
  BY <1>1 DEF FinishCommit, StoreInv, VerdictsValid, FailureCodes
<1>3. run[p] \in Runs /\ status[run[p]] # "none" /\ runLock[run[p]] = p
  BY <1>1 DEF StoreInv, LocksHeld, HasRun, HoldsRun
<1> QED
  BY <1>1, <1>2, <1>3, FinishStep

(* A transaction that is rolled back leaves the tables alone.              *)
LEMMA AbortStep ==
    ASSUME TypeOK, StoreInv, NEW p \in Procs, Abort(p)
    PROVE  TypeOK' /\ StoreInv'
BY TableUntouched DEF Abort

-----------------------------------------------------------------------------
(* The initial state satisfies the invariant.                              *)
LEMMA StoreInit == Init => TypeOK /\ StoreInv
<1> SUFFICES ASSUME Init PROVE TypeOK /\ StoreInv
  OBVIOUS
<1> USE DEF Init
<1>1. TypeOK
  BY DEF TypeOK, TablesOK, SessionsOK, Statuses, Labels
<1>2. LocksHeld /\ SeenIsStored /\ CheckStillHolds
  BY DEF LocksHeld, SeenIsStored, CheckStillHolds, HasRelease, HoldsRelease,
     HasRun, HoldsRun, HoldsCapacity, ReadsRelease
<1>3. RowsComplete /\ DraftsValid /\ VerdictsValid /\ AcceptedRunsMatchCatalog
  BY DEF RowsComplete, DraftsValid, VerdictsValid, AcceptedRunsMatchCatalog
<1> QED
  BY <1>1, <1>2, <1>3 DEF StoreInv

(* A stuttering step keeps the invariant.                                  *)
LEMMA StutterStep ==
    ASSUME TypeOK, StoreInv, UNCHANGED vars
    PROVE  TypeOK' /\ StoreInv'
<1> USE DEF vars, table, locks, locals
<1>1. TypeOK'
  BY DEF TypeOK, TablesOK, SessionsOK
<1>2. LocksHeld' /\ SeenIsStored' /\ RowsComplete' /\ DraftsValid'
  BY DEF StoreInv, LocksHeld, SeenIsStored, RowsComplete, DraftsValid
<1>3. CheckStillHolds' /\ AcceptedRunsMatchCatalog'
  BY DEF StoreInv, CheckStillHolds, AcceptedRunsMatchCatalog, Active
<1>4. VerdictsValid'
  BY DEF StoreInv, VerdictsValid, Claimable
<1> QED
  BY <1>1, <1>2, <1>3, <1>4 DEF StoreInv

(* One step of the specification keeps types and the inductive invariant.  *)
LEMMA StoreStep ==
    ASSUME TypeOK, StoreInv, [Next]_vars
    PROVE  TypeOK' /\ StoreInv'
<1>1. ASSUME NEW p \in Clients \cup Operators, Submission(p)
      PROVE  TypeOK' /\ StoreInv'
  BY <1>1, SubmitPrepareStep, SubmitAdmitStep, SubmitRefuseStep,
     SubmitInsertStep DEF Submission, Procs
<1>2. ASSUME NEW p \in Operators, Registration(p)
      PROVE  TypeOK' /\ StoreInv'
  BY <1>2, RegisterLockModelStep, RegisterInsertStep, RegisterLockReleaseStep,
     RegisterCheckStep, RegisterRefuseStep, RegisterCommitStep
     DEF Registration, Procs
<1>3. ASSUME NEW p \in Acceptors, Acceptance(p)
      PROVE  TypeOK' /\ StoreInv'
  BY <1>3, AcceptLockReleaseStep, AcceptLockRunStep, AcceptCommitStep
     DEF Acceptance, Procs
<1>4. ASSUME NEW p \in Executors, Execution(p)
      PROVE  TypeOK' /\ StoreInv'
  BY <1>4, ClaimSelectStep, ClaimLockReleaseStep, ClaimLockRunStep,
     ClaimCommitStep, ReconcileLoadStep, FinishLockStep, FinishCommitStep
     DEF Execution, Procs
<1>5. ASSUME NEW p \in Procs, Abort(p)
      PROVE  TypeOK' /\ StoreInv'
  BY <1>5, AbortStep
<1>6. CASE UNCHANGED vars
  BY <1>6, StutterStep
<1> QED
  BY <1>1, <1>2, <1>3, <1>4, <1>5, <1>6 DEF Next

(* StoreInv is an invariant of the specification.                          *)
LEMMA StoreInvariant == Spec => [](TypeOK /\ StoreInv)
<1>1. Init => TypeOK /\ StoreInv
  BY StoreInit
<1>2. TypeOK /\ StoreInv /\ [Next]_vars => (TypeOK /\ StoreInv)'
  BY StoreStep
<1> QED
  BY <1>1, <1>2, PTL DEF Spec

(* Rows, locks and transaction locals keep their types, whatever the       *)
(* number of users, releases, runs and processes.                          *)
THEOREM TypeCorrect == Spec => []TypeOK
BY StoreInvariant, PTL

(* The definition of an accepted unfinished run keeps matching the run:    *)
(* acceptance, claim and registration all hold the release row while they  *)
(* compare and write.                                                      *)
THEOREM AcceptedRunsStayValid == Spec => []AcceptedRunsMatchCatalog
<1>1. TypeOK /\ StoreInv => AcceptedRunsMatchCatalog
  BY DEF StoreInv
<1> QED
  BY <1>1, StoreInvariant, PTL
-----------------------------------------------------------------------------
(* What the invariant implies                                              *)

(* While a claim holds the capacity lock, the slot it counted stays free.  *)
SlotReserved ==
    \A p \in Procs : pc[p] \in HoldsCapacity =>
        Cardinality(RunningRuns) < Capacity

(* What one step can do to the tables.  Each alternative is one of the     *)
(* writing transactions; every other step leaves status, accepted and      *)
(* outbox alone.                                                           *)
Inserted(r) ==
    /\ status[r] = "none" /\ ~accepted[r]
    /\ status' = [status EXCEPT ![r] = "queued"]
    /\ outbox' = [outbox EXCEPT ![r] = <<"run.requested">>]
    /\ UNCHANGED <<accepted, catalog>>

AcceptedNow(r) ==
    /\ status[r] = "queued" /\ ~accepted[r]
    /\ accepted' = [accepted EXCEPT ![r] = TRUE]
    /\ UNCHANGED <<status, outbox, catalog>>

Started(r) ==
    /\ \E p \in Procs : pc[p] = "claiming" /\ EndTransaction(p)
    /\ status[r] = "queued" /\ accepted[r]
    /\ Cardinality(RunningRuns) < Capacity
    /\ status' = [status EXCEPT ![r] = "running"]
    /\ UNCHANGED <<accepted, outbox, catalog>>

Concluded(r, outcome) ==
    /\ \/ status[r] = "queued" /\ ~accepted[r] /\ outcome = "failed"
       \/ status[r] = "running"
    /\ status' = [status EXCEPT ![r] = outcome]
    /\ outbox' = [outbox EXCEPT ![r] = Append(@, TerminalEvent(outcome))]
    /\ UNCHANGED <<accepted, catalog>>

Effect ==
    \/ \E r \in Runs :
        \/ Inserted(r) \/ AcceptedNow(r) \/ Started(r)
        \/ \E outcome \in TERMINAL_STATUSES : Concluded(r, outcome)
    \/ UNCHANGED <<status, accepted, outbox>>

-----------------------------------------------------------------------------
(* finish_row concludes a live run and leaves a finished one alone.        *)
LEMMA FinishRowEffect ==
    ASSUME TypeOK, NEW r \in Runs, NEW code \in FailureCodes \cup {NULL},
           finish_row(r, code), UNCHANGED <<accepted, catalog>>,
           \/ status[r] = "queued" /\ ~accepted[r] /\ code # NULL
           \/ status[r] = "running"
           \/ status[r] \in TERMINAL_STATUSES
    PROVE  Effect
<1>1. CASE status[r] \in TERMINAL_STATUSES
  BY <1>1 DEF finish_row, Effect
<1>2. CASE status[r] \notin TERMINAL_STATUSES
  <2> DEFINE outcome == IF code = NULL THEN "succeeded" ELSE "failed"
  <2>1. /\ status' = [status EXCEPT ![r] = outcome]
        /\ outbox' = [outbox EXCEPT ![r] = Append(@, TerminalEvent(outcome))]
    BY <1>2 DEF finish_row
  <2>2. outcome \in TERMINAL_STATUSES
    BY DEF TERMINAL_STATUSES
  <2>3. Concluded(r, outcome)
    BY <1>2, <2>1 DEF Concluded
  <2> QED
    BY <2>2, <2>3 DEF Effect
<1> QED
  BY <1>1, <1>2

(* A submission inserts a run or has no effect on the tables.              *)
LEMMA SubmissionEffect ==
    ASSUME StoreInv, NEW p \in Procs, Submission(p)
    PROVE  Effect
<1>1. CASE SubmitInsert(p)
  BY <1>1 DEF SubmitInsert, Effect, Inserted, StoreInv, RowsComplete
<1>2. CASE SubmitPrepare(p) \/ SubmitAdmit(p) \/ SubmitRefuse(p)
  BY <1>2 DEF SubmitPrepare, SubmitAdmit, SubmitRefuse, table, Effect
<1> QED
  BY <1>1, <1>2 DEF Submission

(* A registration changes no run.                                          *)
LEMMA RegistrationEffect ==
    ASSUME NEW p \in Procs, Registration(p)
    PROVE  UNCHANGED <<status, accepted, outbox>>
BY DEF Registration, RegisterLockModel, RegisterInsert, RegisterLockRelease,
   RegisterCheck, RegisterRefuse, RegisterCommit, table

(* An acceptance accepts or concludes a waiting run, or nothing.           *)
LEMMA AcceptanceEffect ==
    ASSUME TypeOK, StoreInv, NEW p \in Procs, Acceptance(p)
    PROVE  Effect
<1>1. CASE AcceptCommit(p)
  <2>1. pc[p] = "deciding" /\ run[p] \in Runs
    BY <1>1 DEF AcceptCommit, StoreInv, LocksHeld, HasRun
  <2>2. CASE verdict[p] = "unchanged"
    BY <1>1, <2>2 DEF AcceptCommit, Effect
  <2>3. CASE verdict[p] = "compatible"
    <3>1. AcceptedNow(run[p])
      BY <1>1, <2>1, <2>3 DEF AcceptCommit, AcceptedNow, StoreInv,
         VerdictsValid
    <3> QED
      BY <2>1, <3>1 DEF Effect
  <2>4. CASE verdict[p] = "execution_definition_changed"
    <3>1. /\ finish_row(run[p], "execution_definition_changed")
          /\ UNCHANGED <<accepted, catalog>>
      BY <1>1, <2>4 DEF AcceptCommit
    <3>2. status[run[p]] = "queued" /\ ~accepted[run[p]]
      BY <2>1, <2>4 DEF StoreInv, VerdictsValid
    <3>3. "execution_definition_changed" \in FailureCodes \ {NULL}
      BY StoreAssumption DEF FailureCodes, Verdicts
    <3> QED
      BY <2>1, <3>1, <3>2, <3>3, FinishRowEffect
  <2> QED
    BY <2>1, <2>2, <2>3, <2>4 DEF StoreInv, VerdictsValid
<1>2. CASE AcceptLockRun(p) \/ \E r \in Runs : AcceptLockRelease(p, r)
  BY <1>2 DEF AcceptLockRun, AcceptLockRelease, table, Effect
<1> QED
  BY <1>1, <1>2 DEF Acceptance

(* An execution thread starts or concludes a run, or nothing.              *)
LEMMA ExecutionEffect ==
    ASSUME TypeOK, StoreInv, SlotReserved, NEW p \in Procs, Execution(p)
    PROVE  Effect
<1>1. CASE ClaimCommit(p)
  <2>1. /\ pc[p] = "claiming" /\ run[p] \in Runs
        /\ status[run[p]] = "queued" /\ accepted[run[p]]
        /\ verdict[p] = "compatible"
    BY <1>1 DEF ClaimCommit, StoreInv, LocksHeld, HasRun, VerdictsValid,
       Claimable
  <2>2. Started(run[p])
    BY <1>1, <2>1 DEF ClaimCommit, Started, SlotReserved, HoldsCapacity
  <2> QED
    BY <2>1, <2>2 DEF Effect
<1>2. CASE FinishCommit(p)
  <2>1. /\ pc[p] = "finishing" /\ run[p] \in Runs
        /\ status[run[p]] \in {"running"} \cup TERMINAL_STATUSES
    BY <1>2 DEF FinishCommit, StoreInv, LocksHeld, HasRun, VerdictsValid
  <2>2. \E code \in FailureCodes \cup {NULL} : finish_row(run[p], code)
    BY <1>2, <2>1 DEF FinishCommit, StoreInv, VerdictsValid, FailureCodes
  <2>3. UNCHANGED <<accepted, catalog>>
    BY <1>2 DEF FinishCommit
  <2> QED
    BY <2>1, <2>2, <2>3, FinishRowEffect
<1>3. CASE \/ \E r \in Runs : ClaimSelect(p, r) \/ ReconcileLoad(p, r)
           \/ ClaimLockRelease(p) \/ ClaimLockRun(p) \/ FinishLock(p)
  BY <1>3 DEF ClaimSelect, ReconcileLoad, ClaimLockRelease, ClaimLockRun,
     FinishLock, table, Effect
<1> QED
  BY <1>1, <1>2, <1>3 DEF Execution

(* Every step is one of the effects.                                       *)
LEMMA StepEffect ==
    ASSUME TypeOK, StoreInv, SlotReserved, [Next]_vars
    PROVE  Effect
<1>1. CASE UNCHANGED vars
  BY <1>1 DEF vars, table, Effect
<1>2. CASE \E p \in Procs : Abort(p)
  BY <1>2 DEF Abort, table, Effect
<1> QED
  BY <1>1, <1>2, SubmissionEffect, RegistrationEffect, AcceptanceEffect,
     ExecutionEffect DEF Next, Procs, Effect

-----------------------------------------------------------------------------
(* The capacity                                                            *)

(* The running runs can be counted.                                        *)
LEMMA RunningFinite == IsFiniteSet(RunningRuns) /\ Cardinality(RunningRuns) \in Nat
<1>1. IsFiniteSet(Runs)
  BY StoreAssumption, FS_Interval DEF Runs
<1>2. RunningRuns \subseteq Runs
  BY DEF RunningRuns
<1> QED
  BY <1>1, <1>2, FS_Subset, FS_CardinalityType

(* An effect adds at most the run it starts to the running ones.           *)
LEMMA RunningAfter ==
    ASSUME TypeOK, Effect
    PROVE  \/ \E r \in Runs : Started(r) /\ RunningRuns' = RunningRuns \cup {r}
           \/ RunningRuns' \subseteq RunningRuns
<1>1. CASE \E r \in Runs : Inserted(r)
  BY <1>1 DEF Inserted, RunningRuns, TypeOK, TablesOK
<1>2. CASE \E r \in Runs : AcceptedNow(r)
  BY <1>2 DEF AcceptedNow, RunningRuns
<1>3. CASE \E r \in Runs : Started(r)
  <2> PICK r \in Runs : Started(r)
    BY <1>3
  <2>1. \A q \in Runs : status'[q] = "running" <=> status[q] = "running" \/ q = r
    BY DEF Started, TypeOK, TablesOK
  <2>2. RunningRuns' = RunningRuns \cup {r}
    BY <2>1 DEF RunningRuns
  <2> QED
    BY <2>2
<1>4. CASE \E r \in Runs : \E outcome \in TERMINAL_STATUSES : Concluded(r, outcome)
  BY <1>4 DEF Concluded, RunningRuns, TypeOK, TablesOK, TERMINAL_STATUSES
<1>5. CASE UNCHANGED <<status, accepted, outbox>>
  BY <1>5 DEF RunningRuns
<1> QED
  BY <1>1, <1>2, <1>3, <1>4, <1>5 DEF Effect

(* Only a claim in progress holds the capacity lock, and it got the lock   *)
(* when there was a free slot.                                             *)
LEMMA CapacityHolders ==
    ASSUME TypeOK, [Next]_vars, NEW q \in Procs, pc'[q] \in HoldsCapacity
    PROVE  \/ pc[q] \in HoldsCapacity
           \/ Cardinality(RunningRuns) < Capacity /\ UNCHANGED status
<1> USE DEF TypeOK, SessionsOK, HoldsCapacity
<1>1. ASSUME NEW p \in Procs, Submission(p)
      PROVE  pc[q] \in HoldsCapacity
  BY <1>1 DEF Submission, SubmitPrepare, SubmitAdmit, SubmitRefuse,
     SubmitInsert, EndTransaction
<1>2. ASSUME NEW p \in Procs, Registration(p)
      PROVE  pc[q] \in HoldsCapacity
  BY <1>2 DEF Registration, RegisterLockModel, RegisterInsert,
     RegisterLockRelease, RegisterCheck, RegisterRefuse, RegisterCommit,
     EndTransaction
<1>3. ASSUME NEW p \in Procs, Acceptance(p)
      PROVE  pc[q] \in HoldsCapacity
  BY <1>3 DEF Acceptance, AcceptLockRelease, AcceptLockRun, AcceptCommit,
     EndTransaction
<1>4. ASSUME NEW p \in Procs, Execution(p)
      PROVE  \/ pc[q] \in HoldsCapacity
             \/ Cardinality(RunningRuns) < Capacity /\ UNCHANGED status
  <2>1. ASSUME NEW r \in Runs, ClaimSelect(p, r)
        PROVE  Cardinality(RunningRuns) < Capacity /\ UNCHANGED status
    BY <2>1 DEF ClaimSelect, table
  <2>2. CASE \/ ClaimLockRelease(p) \/ ClaimLockRun(p) \/ FinishLock(p)
             \/ \E r \in Runs : ReconcileLoad(p, r)
    BY <2>2 DEF ClaimLockRelease, ClaimLockRun, FinishLock, ReconcileLoad,
       EndTransaction
  <2>3. CASE ClaimCommit(p) \/ FinishCommit(p)
    BY <2>3 DEF ClaimCommit, FinishCommit, EndTransaction
  <2> QED
    BY <1>4, <2>1, <2>2, <2>3 DEF Execution
<1>5. ASSUME NEW p \in Procs, Abort(p)
      PROVE  pc[q] \in HoldsCapacity
  BY <1>5 DEF Abort, EndTransaction
<1>6. CASE UNCHANGED vars
  BY <1>6 DEF vars, locals
<1> QED
  BY <1>1, <1>2, <1>3, <1>4, <1>5, <1>6 DEF Next, Procs

(* Every step keeps the capacity and the slot of a claim.                  *)
LEMMA CapacityStep ==
    ASSUME TypeOK, StoreInv, SlotReserved, CapacityBound, [Next]_vars
    PROVE  SlotReserved' /\ CapacityBound'
<1>1. Capacity \in Nat /\ Cardinality(RunningRuns)' \in Nat
  <2>1. IsFiniteSet(Runs) /\ RunningRuns' \subseteq Runs
    BY StoreAssumption, FS_Interval DEF Runs, RunningRuns
  <2>2. Cardinality(RunningRuns') \in Nat
    BY <2>1, FS_Subset, FS_CardinalityType
  <2> QED
    BY <2>2, StoreAssumption
<1>2. CASE \E r \in Runs : Started(r) /\ RunningRuns' = RunningRuns \cup {r}
  <2> PICK r \in Runs : Started(r) /\ RunningRuns' = RunningRuns \cup {r}
    BY <1>2
  <2> PICK p \in Procs : pc[p] = "claiming" /\ EndTransaction(p)
    BY DEF Started
  <2>1. Cardinality(RunningRuns') <= Cardinality(RunningRuns) + 1
    BY RunningFinite, FS_AddElement
  <2>2. CapacityBound'
    BY <1>1, <2>1, RunningFinite DEF Started, CapacityBound
  <2>3. \A q \in Procs : pc'[q] \notin HoldsCapacity
    BY TransactionEnds DEF StoreInv, LocksHeld, HoldsCapacity
  <2> QED
    BY <2>2, <2>3 DEF SlotReserved
<1>3. CASE RunningRuns' \subseteq RunningRuns
  <2>1. Cardinality(RunningRuns') <= Cardinality(RunningRuns)
    BY <1>3, RunningFinite, FS_Subset
  <2>2. CapacityBound'
    BY <1>1, <2>1, RunningFinite DEF CapacityBound
  <2>3. ASSUME NEW q \in Procs, pc'[q] \in HoldsCapacity
        PROVE  Cardinality(RunningRuns') < Capacity
    <3>1. Cardinality(RunningRuns) < Capacity
      BY <2>3, CapacityHolders DEF SlotReserved
    <3> QED
      BY <1>1, <2>1, <3>1, RunningFinite
  <2> QED
    BY <2>2, <2>3 DEF SlotReserved
<1> QED
  BY <1>2, <1>3, StepEffect, RunningAfter

(* The capacity and the reserved slot are invariants.                      *)
LEMMA CapacityInvariant ==
    Spec => [](TypeOK /\ StoreInv /\ SlotReserved /\ CapacityBound)
<1>1. Init => SlotReserved /\ CapacityBound
  <2> SUFFICES ASSUME Init PROVE SlotReserved /\ CapacityBound
    OBVIOUS
  <2>1. RunningRuns = {}
    BY DEF Init, RunningRuns
  <2>2. Cardinality(RunningRuns) = 0
    BY <2>1, FS_EmptySet
  <2> QED
    BY <2>2, StoreAssumption DEF SlotReserved, CapacityBound
<1>2. TypeOK /\ StoreInv /\ SlotReserved /\ CapacityBound /\ [Next]_vars
        => (SlotReserved /\ CapacityBound)'
  BY CapacityStep
<1> QED
  BY <1>1, <1>2, StoreInvariant, PTL DEF Spec

(* No interleaving of claims, crashes and finishes lets more than Capacity *)
(* runs be running at once.                                                *)
THEOREM CapacityRespected == Spec => []CapacityBound
BY CapacityInvariant, PTL

-----------------------------------------------------------------------------
(* The outbox                                                              *)

(* An effect on the tables keeps the outbox in step with them.             *)
LEMMA OutboxStep ==
    ASSUME TypeOK, OutboxMatchesStatus, Effect
    PROVE  OutboxMatchesStatus'
<1> USE DEF OutboxMatchesStatus, TypeOK, TablesOK, ACTIVE_STATUSES
<1>1. CASE \E r \in Runs : Inserted(r)
  BY <1>1 DEF Inserted
<1>2. CASE \E r \in Runs : AcceptedNow(r)
  BY <1>2 DEF AcceptedNow
<1>3. CASE \E r \in Runs : Started(r)
  BY <1>3 DEF Started
<1>4. ASSUME NEW r \in Runs, NEW outcome \in TERMINAL_STATUSES,
             Concluded(r, outcome)
      PROVE  OutboxMatchesStatus'
  <2>1. outbox[r] = <<"run.requested">>
    BY <1>4 DEF Concluded
  <2>2. /\ status'[r] = outcome
        /\ outbox'[r] = Append(<<"run.requested">>, TerminalEvent(outcome))
        /\ \A q \in Runs \ {r} : status'[q] = status[q] /\ outbox'[q] = outbox[q]
    BY <1>4, <2>1 DEF Concluded
  <2> QED
    BY <1>4, <2>2 DEF TERMINAL_STATUSES
<1>5. CASE UNCHANGED <<status, accepted, outbox>>
  BY <1>5
<1> QED
  BY <1>1, <1>2, <1>3, <1>4, <1>5 DEF Effect

(* Every run has its request event, and exactly one terminal event of the  *)
(* right kind once it is finished.                                         *)
THEOREM OutboxComplete == Spec => []OutboxMatchesStatus
<1>1. Init => OutboxMatchesStatus
  BY DEF Init, OutboxMatchesStatus, ACTIVE_STATUSES
<1>2. TypeOK /\ StoreInv /\ SlotReserved /\ OutboxMatchesStatus /\ [Next]_vars
        => OutboxMatchesStatus'
  BY StepEffect, OutboxStep
<1> QED
  BY <1>1, <1>2, CapacityInvariant, PTL DEF Spec

-----------------------------------------------------------------------------
(* Invocations in use                                                      *)

(* A step leaves the invocation of an accepted unfinished run alone.       *)
LEMMA FrozenStep ==
    ASSUME TypeOK, StoreInv, [Next]_vars, NEW r \in Runs, accepted[r], Active(r)
    PROVE  catalog'[request[r].release][request[r].mode]
             = catalog[request[r].release][request[r].mode]
<1> DEFINE l == request[r].release
           m == request[r].mode
<1>1. /\ l \in Releases /\ catalog[l] # NULL
      /\ m \in DOMAIN catalog[l]
  BY DEF StoreInv, RowsComplete, AcceptedRunsMatchCatalog, matches_fingerprint,
     Active, ACTIVE_STATUSES, Requests
<1>2. CASE UNCHANGED catalog
  BY <1>2
<1>3. ASSUME NEW p \in Procs, RegisterInsert(p)
      PROVE  catalog'[l] = catalog[l]
  BY <1>1, <1>3 DEF RegisterInsert, TypeOK, TablesOK
<1>4. ASSUME NEW p \in Procs, RegisterCommit(p)
      PROVE  catalog'[l][m] = catalog[l][m]
  <2>1. CASE release[p] = l
    <3>1. SameInvocation(catalog[l], seen[p], m)
      BY <1>4, <2>1 DEF RegisterCommit, StoreInv, CheckStillHolds
    <3>2. catalog'[l] = seen[p]
      BY <1>1, <1>4, <2>1 DEF RegisterCommit, TypeOK, TablesOK
    <3> QED
      BY <1>1, <3>1, <3>2 DEF SameInvocation
  <2>2. CASE release[p] # l
    BY <1>1, <1>4, <2>2 DEF RegisterCommit, TypeOK, TablesOK
  <2> QED
    BY <2>1, <2>2
<1>5. \/ UNCHANGED catalog
      \/ \E p \in Procs : RegisterInsert(p) \/ RegisterCommit(p)
  <2>1. ASSUME NEW p \in Procs, Submission(p)
        PROVE  UNCHANGED catalog
    BY <2>1 DEF Submission, SubmitPrepare, SubmitAdmit, SubmitRefuse,
       SubmitInsert, table
  <2>2. ASSUME NEW p \in Procs, Registration(p)
        PROVE  UNCHANGED catalog \/ RegisterInsert(p) \/ RegisterCommit(p)
    BY <2>2 DEF Registration, RegisterLockModel, RegisterLockRelease,
       RegisterCheck, RegisterRefuse, table
  <2>3. ASSUME NEW p \in Procs, Acceptance(p)
        PROVE  UNCHANGED catalog
    BY <2>3 DEF Acceptance, AcceptLockRelease, AcceptLockRun, AcceptCommit,
       table
  <2>4. ASSUME NEW p \in Procs, Execution(p)
        PROVE  UNCHANGED catalog
    BY <2>4 DEF Execution, ClaimSelect, ReconcileLoad, ClaimLockRelease,
       ClaimLockRun, ClaimCommit, FinishLock, FinishCommit, table
  <2>5. ASSUME NEW p \in Procs, Abort(p)
        PROVE  UNCHANGED catalog
    BY <2>5 DEF Abort, table
  <2>6. CASE UNCHANGED vars
    BY <2>6 DEF vars, table
  <2> QED
    BY <2>1, <2>2, <2>3, <2>4, <2>5, <2>6 DEF Next, Procs
<1> QED
  BY <1>2, <1>3, <1>4, <1>5

(* No step changes the invocation of an accepted unfinished run, required  *)
(* outputs included.                                                       *)
THEOREM InvocationsFrozen == Spec => InvocationFrozen
<1>1. TypeOK /\ StoreInv /\ [Next]_vars =>
        [\A r \in Runs : accepted[r] /\ Active(r) =>
           catalog'[request[r].release][request[r].mode]
             = catalog[request[r].release][request[r].mode]]_vars
  BY FrozenStep
<1> QED
  BY <1>1, StoreInvariant, PTL DEF Spec, InvocationFrozen

-----------------------------------------------------------------------------
(* The refinement                                                          *)

(* The instance of RunLifecycle brings its own copy of FiniteSets.         *)
LEMMA SameCardinality ==
    ASSUME NEW S
    PROVE  Lifecycle!Cardinality(S) = Cardinality(S)
BY DEF Lifecycle!Cardinality, Cardinality

(* An effect on the tables is a step of RunLifecycle, or none.             *)
LEMMA LifecycleStep ==
    ASSUME TypeOK, Effect
    PROVE  [Lifecycle!LifecycleNext]_(Lifecycle!lifecycleVars)
<1> DEFINE phases == [r \in Runs |-> Phase(r)]
<1> USE DEF TypeOK, TablesOK
<1>1. ASSUME NEW r \in Runs, Inserted(r)
      PROVE  Lifecycle!Submit(r)
  BY <1>1 DEF Inserted, Lifecycle!Submit, Phase
<1>2. ASSUME NEW r \in Runs, AcceptedNow(r)
      PROVE  Lifecycle!Accept(r)
  BY <1>2 DEF AcceptedNow, Lifecycle!Accept, Phase
<1>3. ASSUME NEW r \in Runs, Started(r)
      PROVE  Lifecycle!Start(r)
  <2>1. {q \in Runs : phases[q] = "running"} = RunningRuns
    BY DEF Phase, RunningRuns
  <2>2. phases' = [phases EXCEPT ![r] = "running"]
    BY <1>3 DEF Started, Phase
  <2>3. phases[r] = "accepted" /\ Cardinality(RunningRuns) < Capacity
    BY <1>3 DEF Started, Phase
  <2>4. UNCHANGED outbox
    BY <1>3 DEF Started
  <2>5. Lifecycle!Cardinality({q \in Runs : phases[q] = "running"}) < Capacity
    BY <2>1, <2>3, SameCardinality
  <2> QED
    BY <2>2, <2>3, <2>4, <2>5 DEF Lifecycle!Start
<1>4. ASSUME NEW r \in Runs, NEW outcome \in TERMINAL_STATUSES,
             Concluded(r, outcome)
      PROVE  Lifecycle!Conclude(r, outcome)
  <2>1. phases' = [phases EXCEPT ![r] = outcome]
    BY <1>4 DEF Concluded, Phase, TERMINAL_STATUSES
  <2>2. (phases[r] = "queued" /\ outcome = "failed") \/ phases[r] = "running"
    BY <1>4 DEF Concluded, Phase
  <2>3. Lifecycle!TerminalEvent(outcome) = TerminalEvent(outcome)
    BY DEF Lifecycle!TerminalEvent, TerminalEvent
  <2> QED
    BY <1>4, <2>1, <2>2, <2>3 DEF Concluded, Lifecycle!Conclude
<1>5. CASE UNCHANGED <<status, accepted, outbox>>
  BY <1>5 DEF Lifecycle!lifecycleVars, Phase
<1> QED
  BY <1>1, <1>2, <1>3, <1>4, <1>5
     DEF Effect, Lifecycle!LifecycleNext, Lifecycle!lifecycleVars,
         Lifecycle!Finished, TERMINAL_STATUSES

(* The transactions of RunStore implement the life of a run promised by    *)
(* RunLifecycle.                                                           *)
THEOREM StoreImplementsLifecycle == Spec => ImplementsLifecycle
<1>1. Init => Lifecycle!LifecycleInit
  BY DEF Init, Lifecycle!LifecycleInit, Phase
<1>2. TypeOK /\ StoreInv /\ SlotReserved /\ [Next]_vars
        => [Lifecycle!LifecycleNext]_(Lifecycle!lifecycleVars)
  BY StepEffect, LifecycleStep
<1> QED
  BY <1>1, <1>2, CapacityInvariant, PTL
     DEF Spec, ImplementsLifecycle, Lifecycle!LifecycleSpec

-----------------------------------------------------------------------------
(* Admission                                                               *)

Limited == {r \in ActiveRuns : request[r].limited}
LimitedOf(u) == {r \in Limited : request[r].user = u}

(* A submission is limited exactly if it comes from the API, and past its  *)
(* count it holds the admission lock and has room, in total and for its    *)
(* user.                                                                   *)
PlaceReserved ==
    \A p \in Procs :
        /\ pc[p] \in {"prepared", "admitted"} => (draft[p].limited <=> p \in Clients)
        /\ pc[p] = "admitted" =>
             /\ p \in Clients /\ admissionLock = p
             /\ Cardinality(Limited) < GlobalTotal
             /\ Cardinality(LimitedOf(draft[p].user)) < PerUser

Bounded ==
    /\ Cardinality(Limited) <= GlobalTotal
    /\ \A u \in Users : Cardinality(LimitedOf(u)) <= PerUser

(* Sets of runs are finite, and smaller ones count less.                   *)
LEMMA SubsetOfRuns ==
    ASSUME NEW S, S \subseteq Runs, NEW T, T \subseteq S
    PROVE  /\ IsFiniteSet(S) /\ Cardinality(S) \in Nat /\ Cardinality(T) \in Nat
           /\ Cardinality(T) <= Cardinality(S)
<1>1. IsFiniteSet(Runs)
  BY StoreAssumption, FS_Interval DEF Runs
<1>2. IsFiniteSet(S)
  BY <1>1, FS_Subset
<1>3. IsFiniteSet(T) /\ Cardinality(T) <= Cardinality(S)
  BY <1>2, FS_Subset
<1> QED
  BY <1>2, <1>3, FS_CardinalityType

(* Only an insertion makes a run active, and rows keep their request.      *)
LEMMA NoneBecomesActive ==
    ASSUME TypeOK, StoreInv, [Next]_vars, \A p \in Clients \cup Operators : ~SubmitInsert(p)
    PROVE  UNCHANGED request /\ \A r \in Runs : Active(r)' => Active(r)
<1> USE DEF Active, ACTIVE_STATUSES
<1>1. CASE \E p \in Clients \cup Operators : Submission(p)
  BY <1>1 DEF Submission, SubmitPrepare, SubmitAdmit, SubmitRefuse, table
<1>2. CASE \E p \in Operators : Registration(p)
  BY <1>2 DEF Registration, RegisterLockModel, RegisterInsert, RegisterLockRelease,
     RegisterCheck, RegisterRefuse, RegisterCommit, table
<1>3. CASE \E p \in Procs : Abort(p)
  BY <1>3 DEF Abort, table
<1>4. ASSUME NEW p \in Procs, NEW r \in Runs, NEW code \in FailureCodes \cup {NULL},
             finish_row(r, code)
      PROVE  \A q \in Runs : Active(q)' => Active(q)
  BY <1>4, FinishRow DEF TERMINAL_STATUSES
<1>5. ASSUME NEW p \in Procs, Acceptance(p)
      PROVE  UNCHANGED request /\ \A r \in Runs : Active(r)' => Active(r)
  <2>1. CASE AcceptCommit(p)
    <3>1. run[p] \in Runs /\ UNCHANGED request
      BY <2>1 DEF AcceptCommit, StoreInv, LocksHeld, HasRun
    <3>2. UNCHANGED status \/ finish_row(run[p], "execution_definition_changed")
      BY <2>1 DEF AcceptCommit
    <3> QED
      BY <1>4, <3>1, <3>2 DEF FailureCodes
  <2> QED
    BY <1>5, <2>1 DEF Acceptance, AcceptLockRun, AcceptLockRelease, table
<1>6. ASSUME NEW p \in Procs, Execution(p)
      PROVE  UNCHANGED request /\ \A r \in Runs : Active(r)' => Active(r)
  <2>1. CASE ClaimCommit(p)
    <3>1. /\ run[p] \in Runs /\ UNCHANGED request /\ status[run[p]] = "queued"
          /\ verdict[p] = "compatible"
      BY <2>1 DEF ClaimCommit, StoreInv, LocksHeld, HasRun, VerdictsValid, Claimable
    <3>2. status' = [status EXCEPT ![run[p]] = "running"]
      BY <2>1, <3>1 DEF ClaimCommit
    <3> QED
      BY <3>1, <3>2 DEF TypeOK, TablesOK
  <2>2. CASE FinishCommit(p)
    <3>1. run[p] \in Runs /\ UNCHANGED request
      BY <2>2 DEF FinishCommit, StoreInv, LocksHeld, HasRun
    <3>2. \E code \in FailureCodes \cup {NULL} : finish_row(run[p], code)
      BY <2>2 DEF FinishCommit, StoreInv, VerdictsValid, FailureCodes
    <3> QED
      BY <1>4, <3>1, <3>2
  <2> QED
    BY <1>6, <2>1, <2>2 DEF Execution, ClaimSelect, ReconcileLoad, ClaimLockRelease,
       ClaimLockRun, FinishLock, table
<1>7. CASE UNCHANGED vars
  BY <1>7 DEF vars, table
<1> QED
  BY <1>1, <1>2, <1>3, <1>5, <1>6, <1>7 DEF Next, Procs

(* What an insertion adds.                                                 *)
LEMMA InsertionAdds ==
    ASSUME TypeOK, StoreInv, PlaceReserved, NEW p \in Procs, SubmitInsert(p)
    PROVE  /\ p \in Clients => pc[p] = "admitted"
           /\ EndTransaction(p)
           /\ \E r \in Runs :
                /\ Limited' \subseteq Limited \cup {r}
                /\ \A u : LimitedOf(u)' \subseteq LimitedOf(u) \cup {r}
                /\ \A u : u # draft[p].user => LimitedOf(u)' \subseteq LimitedOf(u)
           /\ p \notin Clients => /\ Limited' \subseteq Limited
                                  /\ \A u : LimitedOf(u)' \subseteq LimitedOf(u)
<1>1. PICK r \in Runs : /\ status[r] = "none"
                        /\ request' = [request EXCEPT ![r] = draft[p]]
                        /\ status' = [status EXCEPT ![r] = "queued"]
  BY DEF SubmitInsert
<1>2. /\ pc[p] = (IF p \in Clients THEN "admitted" ELSE "prepared") /\ EndTransaction(p)
  BY DEF SubmitInsert
<1>3. /\ request'[r] = draft[p]
      /\ \A q \in Runs : q # r => request'[q] = request[q] /\ status'[q] = status[q]
  BY <1>1 DEF TypeOK, TablesOK
<1>4. \A q \in Runs : q # r /\ q \in Limited' => q \in Limited /\ request'[q] = request[q]
  BY <1>3 DEF Limited, ActiveRuns, Active
<1>5. Limited' \subseteq Runs /\ (r \in Limited' => draft[p].limited)
  BY <1>3 DEF Limited, ActiveRuns
<1>6. p \notin Clients => ~draft[p].limited
  BY <1>2 DEF PlaceReserved
<1>7. Limited' \subseteq Limited \cup {r}
  BY <1>4, <1>5
<1>8. \A u : LimitedOf(u)' \subseteq LimitedOf(u) \cup {r}
  BY <1>4, <1>5 DEF LimitedOf
<1>9. \A u : u # draft[p].user => LimitedOf(u)' \subseteq LimitedOf(u)
  BY <1>3, <1>4, <1>5 DEF LimitedOf
<1>10. p \notin Clients => /\ Limited' \subseteq Limited
                           /\ \A u : LimitedOf(u)' \subseteq LimitedOf(u)
  BY <1>4, <1>5, <1>6 DEF LimitedOf
<1> QED
  BY <1>2, <1>7, <1>8, <1>9, <1>10

(* Whoever is past its count was so before, and has the lock still, or has *)
(* just got the lock and counted.                                          *)
LEMMA AdmissionHolders ==
    ASSUME TypeOK, PlaceReserved, [Next]_vars, NEW q \in Procs,
           pc'[q] \in {"prepared", "admitted"}
    PROVE  /\ draft'[q].limited <=> q \in Clients
           /\ pc'[q] = "admitted" =>
                /\ q \in Clients /\ admissionLock' = q
                /\ \/ pc[q] = "admitted" /\ draft'[q] = draft[q]
                   \/ /\ UNCHANGED table /\ draft'[q] = draft[q]
                      /\ Cardinality(OwnedRuns(draft[q].user)) < PerUser
                      /\ Cardinality(ActiveRuns) < GlobalTotal
<1> USE DEF TypeOK, SessionsOK
<1> DEFINE Stays == /\ pc'[q] = pc[q] /\ draft'[q] = draft[q]
                    /\ admissionLock = q => admissionLock' = q
<1>1. CASE Stays
  BY <1>1 DEF PlaceReserved
<1>2. ASSUME NEW p \in Procs, EndTransaction(p) PROVE Stays
  BY <1>2, StoreAssumption DEF EndTransaction, FreedBy
<1>3. ASSUME NEW p \in Clients \cup Operators, Submission(p)
      PROVE  \/ Stays
             \/ p = q /\ SubmitPrepare(q)
             \/ p = q /\ SubmitAdmit(q)
  <2>1. p \in Procs
    BY <1>3 DEF Procs
  <2>2. CASE SubmitRefuse(p) \/ SubmitInsert(p)
    BY <1>2, <2>1, <2>2 DEF SubmitRefuse, SubmitInsert
  <2>3. CASE SubmitPrepare(p) /\ p # q
    BY <2>1, <2>3 DEF SubmitPrepare, locks
  <2>4. CASE SubmitAdmit(p) /\ p # q
    <3>1. admissionLock = NULL /\ q # NULL
      BY <2>4, StoreAssumption DEF SubmitAdmit
    <3> QED
      BY <2>1, <2>4, <3>1 DEF SubmitAdmit
  <2> QED
    BY <1>3, <2>2, <2>3, <2>4 DEF Submission
<1>4. CASE q \in Clients \cup Operators /\ SubmitPrepare(q)
  <2>1. pc'[q] = "prepared"
    BY <1>4 DEF SubmitPrepare
  <2>2. PICK l \in Releases, m \in Modes, u \in Users \cup {NULL} :
          /\ catalog[l] # NULL
          /\ m \in DOMAIN catalog[l]
          /\ q \in Clients => u # NULL
          /\ draft' = [draft EXCEPT ![q] = [release |-> l, mode |-> m,
                      fingerprint |-> catalog[l][m].computation,
                      user |-> u, limited |-> q \in Clients]]
    BY <1>4, Zenon DEF SubmitPrepare
  <2> DEFINE api == q \in Clients
  <2>3. draft' = [draft EXCEPT ![q] = [release |-> l, mode |-> m,
                      fingerprint |-> catalog[l][m].computation,
                      user |-> u, limited |-> api]]
    BY <2>2
  <2> HIDE DEF api
  <2>4. draft'[q].limited = api
    BY <2>3
  <2> QED
    BY <2>1, <2>4 DEF api
<1>5. CASE q \in Clients \cup Operators /\ SubmitAdmit(q)
  <2>1. /\ pc[q] = "prepared" /\ draft[q].limited /\ admissionLock' = q
        /\ Cardinality(OwnedRuns(draft[q].user)) < PerUser
        /\ Cardinality(ActiveRuns) < GlobalTotal
        /\ UNCHANGED <<table, draft>>
    BY <1>5 DEF SubmitAdmit
  <2>2. q \in Clients /\ (draft'[q].limited <=> q \in Clients)
    BY <2>1 DEF PlaceReserved
  <2> QED
    BY <2>1, <2>2
<1>6. ASSUME NEW p \in Procs, Registration(p) PROVE Stays
  <2>1. CASE RegisterInsert(p) \/ RegisterRefuse(p) \/ RegisterCommit(p)
    BY <1>2, <2>1 DEF RegisterInsert, RegisterRefuse, RegisterCommit
  <2>2. CASE RegisterLockModel(p) \/ RegisterLockRelease(p) \/ RegisterCheck(p)
    BY <2>2 DEF RegisterLockModel, RegisterLockRelease, RegisterCheck, locks
  <2> QED
    BY <1>6, <2>1, <2>2 DEF Registration
<1>7. ASSUME NEW p \in Procs, Acceptance(p) PROVE Stays
  <2>1. CASE AcceptCommit(p)
    BY <1>2, <2>1 DEF AcceptCommit
  <2>2. CASE AcceptLockRun(p) \/ \E r \in Runs : AcceptLockRelease(p, r)
    BY <2>2 DEF AcceptLockRun, AcceptLockRelease
  <2> QED
    BY <1>7, <2>1, <2>2 DEF Acceptance
<1>8. ASSUME NEW p \in Procs, Execution(p) PROVE Stays
  <2>1. CASE EndTransaction(p)
    BY <1>2, <2>1
  <2>2. CASE \/ \E r \in Runs : ClaimSelect(p, r) \/ ReconcileLoad(p, r)
             \/ ClaimLockRelease(p) \/ FinishLock(p)
    BY <2>2 DEF ClaimSelect, ReconcileLoad, ClaimLockRelease, FinishLock, locks
  <2>3. CASE ClaimLockRun(p) /\ ~EndTransaction(p)
    BY <2>3 DEF ClaimLockRun
  <2> QED
    BY <1>8, <2>1, <2>2, <2>3 DEF Execution, ClaimCommit, FinishCommit
<1>9. ASSUME NEW p \in Procs, Abort(p) PROVE Stays
  BY <1>2, <1>9 DEF Abort
<1>10. CASE UNCHANGED vars
  <2>1. Stays
    BY <1>10 DEF vars, locals, locks
  <2> QED
    BY <1>1, <2>1
<1> HIDE DEF Stays
<1> QED
  BY <1>1, <1>3, <1>4, <1>5, <1>6, <1>7, <1>8, <1>9, <1>10 DEF Next, Procs

(* The runs that the limits count.                                         *)
LEMMA LimitedOfRuns ==
    /\ Limited \subseteq ActiveRuns /\ ActiveRuns \subseteq Runs /\ Limited \subseteq Runs
    /\ \A u : LimitedOf(u) \subseteq OwnedRuns(u) /\ OwnedRuns(u) \subseteq Runs
              /\ LimitedOf(u) \subseteq Runs
BY DEF Limited, LimitedOf, ActiveRuns, OwnedRuns

(* Without an insertion of the API the limited runs only become fewer.     *)
LEMMA FewerLimited ==
    ASSUME TypeOK, StoreInv, PlaceReserved, [Next]_vars,
           \A p \in Clients : ~SubmitInsert(p)
    PROVE  Limited' \subseteq Limited /\ \A u : LimitedOf(u)' \subseteq LimitedOf(u)
<1>1. CASE \E p \in Operators : SubmitInsert(p)
  <2>1. PICK p \in Operators : SubmitInsert(p)
    BY <1>1
  <2>2. p \in Procs /\ p \notin Clients
    BY StoreAssumption DEF Procs
  <2> QED
    BY <2>1, <2>2, InsertionAdds
<1>2. CASE \A p \in Operators : ~SubmitInsert(p)
  <2>1. UNCHANGED request /\ \A r \in Runs : Active(r)' => Active(r)
    BY <1>2, NoneBecomesActive
  <2> QED
    BY <2>1 DEF Limited, LimitedOf, ActiveRuns
<1> QED
  BY <1>1, <1>2

(* Every step keeps the reserved places and the bounds.                    *)
LEMMA AdmissionStep ==
    ASSUME TypeOK, StoreInv, PlaceReserved, Bounded, [Next]_vars
    PROVE  PlaceReserved' /\ Bounded'
<1>1. GlobalTotal \in Nat /\ PerUser \in Nat
  BY StoreAssumption
<1>2. /\ Limited \subseteq Runs /\ \A u : LimitedOf(u) \subseteq Runs
  BY LimitedOfRuns
<1>3. CASE \E p \in Clients : SubmitInsert(p)
  <2>1. PICK p \in Clients : SubmitInsert(p)
    BY <1>3
  <2>2. p \in Procs /\ pc[p] = "admitted" /\ EndTransaction(p)
    BY <2>1, InsertionAdds DEF Procs
  <2>3. PICK r \in Runs :
          /\ Limited' \subseteq Limited \cup {r}
          /\ \A u : LimitedOf(u)' \subseteq LimitedOf(u) \cup {r}
          /\ \A u : u # draft[p].user => LimitedOf(u)' \subseteq LimitedOf(u)
    BY <2>1, <2>2, InsertionAdds
  <2>4. /\ Cardinality(Limited) < GlobalTotal /\ admissionLock = p
        /\ Cardinality(LimitedOf(draft[p].user)) < PerUser
    BY <2>2 DEF PlaceReserved
  <2>5. ASSUME NEW S, S \subseteq Runs, NEW T, T \subseteq S \cup {r}
        PROVE  Cardinality(T) <= Cardinality(S) + 1 /\ Cardinality(T) \in Nat
               /\ Cardinality(S) \in Nat
    <3>1. IsFiniteSet(S) /\ Cardinality(S) \in Nat
      BY <2>5, SubsetOfRuns
    <3>2. Cardinality(S \cup {r}) <= Cardinality(S) + 1
      BY <3>1, FS_AddElement
    <3>3. Cardinality(T) <= Cardinality(S \cup {r}) /\ Cardinality(T) \in Nat
          /\ Cardinality(S \cup {r}) \in Nat
      BY <2>5, SubsetOfRuns
    <3> QED
      BY <3>1, <3>2, <3>3
  <2>6. Cardinality(Limited') <= GlobalTotal
    <3>1. Cardinality(Limited') <= Cardinality(Limited) + 1 /\ Cardinality(Limited') \in Nat
          /\ Cardinality(Limited) \in Nat
      BY <1>2, <2>3, <2>5
    <3> QED
      BY <1>1, <2>4, <3>1
  <2>7. ASSUME NEW u \in Users PROVE Cardinality(LimitedOf(u)') <= PerUser
    <3>1. CASE u = draft[p].user
      <4>1. /\ Cardinality(LimitedOf(u)') <= Cardinality(LimitedOf(u)) + 1
            /\ Cardinality(LimitedOf(u)') \in Nat /\ Cardinality(LimitedOf(u)) \in Nat
        BY <1>2, <2>3, <2>5
      <4>2. Cardinality(LimitedOf(u)) < PerUser
        BY <2>4, <3>1
      <4> QED
        BY <1>1, <4>1, <4>2
    <3>2. CASE u # draft[p].user
      <4>1. /\ Cardinality(LimitedOf(u)') <= Cardinality(LimitedOf(u))
            /\ Cardinality(LimitedOf(u)') \in Nat /\ Cardinality(LimitedOf(u)) \in Nat
        BY <1>2, <2>3, <3>2, SubsetOfRuns
      <4> QED
        BY <1>1, <4>1 DEF Bounded
    <3> QED
      BY <3>1, <3>2
  <2>8. \A q \in Procs : pc'[q] # "admitted"
    BY <2>2, <2>4, TransactionEnds DEF PlaceReserved
  <2>9. PlaceReserved'
    BY <2>8, AdmissionHolders DEF PlaceReserved
  <2> QED
    BY <2>6, <2>7, <2>9 DEF Bounded
<1>4. CASE \A p \in Clients : ~SubmitInsert(p)
  <2>1. Limited' \subseteq Limited /\ \A u : LimitedOf(u)' \subseteq LimitedOf(u)
    BY <1>4, FewerLimited
  <2>2. /\ Cardinality(Limited') <= Cardinality(Limited)
        /\ Cardinality(Limited') \in Nat /\ Cardinality(Limited) \in Nat
    BY <1>2, <2>1, SubsetOfRuns
  <2>3. \A u : /\ Cardinality(LimitedOf(u)') <= Cardinality(LimitedOf(u))
                         /\ Cardinality(LimitedOf(u)') \in Nat /\ Cardinality(LimitedOf(u)) \in Nat
    BY <1>2, <2>1, SubsetOfRuns
  <2>4. Bounded'
    BY <1>1, <2>2, <2>3 DEF Bounded
  <2>5. ASSUME NEW q \in Procs, pc'[q] = "admitted", NEW u, u = draft'[q].user
        PROVE  /\ q \in Clients /\ admissionLock' = q
               /\ Cardinality(Limited') < GlobalTotal /\ Cardinality(LimitedOf(u)') < PerUser
    <3>1. /\ q \in Clients /\ admissionLock' = q /\ u = draft[q].user
          /\ \/ pc[q] = "admitted"
             \/ /\ Cardinality(OwnedRuns(u)) < PerUser
                /\ Cardinality(ActiveRuns) < GlobalTotal
      BY <2>5, AdmissionHolders
    <3>2. Cardinality(Limited) < GlobalTotal /\ Cardinality(LimitedOf(u)) < PerUser
      <4>1. CASE pc[q] = "admitted"
        BY <3>1, <4>1 DEF PlaceReserved
      <4>2. CASE Cardinality(OwnedRuns(u)) < PerUser /\ Cardinality(ActiveRuns) < GlobalTotal
        <5>1. /\ Cardinality(Limited) <= Cardinality(ActiveRuns)
              /\ Cardinality(ActiveRuns) \in Nat
          BY LimitedOfRuns, SubsetOfRuns
        <5>2. /\ Cardinality(LimitedOf(u)) <= Cardinality(OwnedRuns(u))
              /\ Cardinality(OwnedRuns(u)) \in Nat
          BY LimitedOfRuns, SubsetOfRuns
        <5> QED
          BY <1>1, <2>2, <2>3, <4>2, <5>1, <5>2
      <4> QED
        BY <3>1, <4>1, <4>2
    <3> QED
      BY <1>1, <2>2, <2>3, <3>1, <3>2
  <2>6. PlaceReserved'
    BY <2>5, AdmissionHolders DEF PlaceReserved
  <2> QED
    BY <2>4, <2>6
<1> QED
  BY <1>3, <1>4

(* The bounds are what the property says.                                  *)
LEMMA BoundedIs == AdmissionBound <=> Bounded
BY DEF AdmissionBound, Bounded, Limited, LimitedOf

(* The reserved places and the bounds are kept for ever.                   *)
LEMMA AdmissionInvariant == Spec => [](PlaceReserved /\ Bounded)
<1>1. Init => PlaceReserved /\ Bounded
  <2> SUFFICES ASSUME Init PROVE PlaceReserved /\ Bounded
    OBVIOUS
  <2>1. Limited = {} /\ \A u : LimitedOf(u) = {}
    BY DEF Init, Limited, LimitedOf, ActiveRuns, Active, ACTIVE_STATUSES
  <2>2. Cardinality({}) = 0
    BY FS_EmptySet
  <2>3. Bounded
    BY <2>1, <2>2, StoreAssumption DEF Bounded
  <2>4. PlaceReserved
    BY DEF Init, PlaceReserved
  <2> QED
    BY <2>3, <2>4
<1>2. TypeOK /\ StoreInv /\ PlaceReserved /\ Bounded /\ [Next]_vars
        => (PlaceReserved /\ Bounded)'
  BY AdmissionStep
<1> QED
  BY <1>1, <1>2, StoreInvariant, PTL DEF Spec

(* However many API requests submit at once, and whatever the command line *)
(* adds, the unfinished runs that the API admitted stay within both limits *)
(* (SqlAlchemyRunSubmissions: the count and the insertion are one          *)
(* transaction under ADMISSION_LOCK).                                      *)
THEOREM LimitsRespected == Spec => []AdmissionBound
BY AdmissionInvariant, BoundedIs, PTL

-----------------------------------------------------------------------------
(* Deadlocks                                                               *)

(* A lock that is taken belongs to a transaction past the statement that   *)
(* takes it and before its end.                                            *)
LocksOwned ==
    /\ \A p \in Procs : admissionLock = p => pc[p] = "admitted"
    /\ \A p \in Procs, l \in Releases : releaseLock[l] = p => pc[p] \in HoldsRelease
    /\ \A p \in Procs, r \in Runs : runLock[r] = p => pc[p] \in HoldsRun

(* The end of a transaction frees its locks and no other.                  *)
LEMMA EndKeepsOwned ==
    ASSUME TypeOK, LocksOwned, NEW p \in Procs, EndTransaction(p)
    PROVE  LocksOwned'
BY StoreAssumption DEF LocksOwned, EndTransaction, FreedBy, TypeOK, SessionsOK

(* Locks are granted one by one; no label that holds a lock leads to one   *)
(* that does not, except through the end of the transaction.               *)
LEMMA OwnedStep ==
    ASSUME TypeOK, StoreInv, LocksOwned, [Next]_vars
    PROVE  LocksOwned'
<1> USE DEF TypeOK, SessionsOK, HoldsRelease, HoldsRun
<1>1. ASSUME NEW p \in Procs, Submission(p) PROVE LocksOwned'
  <2>1. CASE SubmitRefuse(p) \/ SubmitInsert(p)
    BY <2>1, EndKeepsOwned DEF SubmitRefuse, SubmitInsert
  <2>2. CASE SubmitPrepare(p)
    BY <2>2 DEF SubmitPrepare, LocksOwned, locks
  <2>3. CASE SubmitAdmit(p)
    BY <2>3 DEF SubmitAdmit, LocksOwned
  <2> QED
    BY <1>1, <2>1, <2>2, <2>3 DEF Submission
<1>2. ASSUME NEW p \in Procs, Registration(p) PROVE LocksOwned'
  <2>1. CASE RegisterInsert(p) \/ RegisterRefuse(p) \/ RegisterCommit(p)
    BY <2>1, EndKeepsOwned DEF RegisterInsert, RegisterRefuse, RegisterCommit
  <2>2. CASE RegisterLockModel(p)
    BY <2>2 DEF RegisterLockModel, LocksOwned
  <2>3. CASE RegisterLockRelease(p)
    BY <2>3 DEF RegisterLockRelease, LocksOwned
  <2>4. CASE RegisterCheck(p)
    BY <2>4 DEF RegisterCheck, LocksOwned, locks
  <2> QED
    BY <1>2, <2>1, <2>2, <2>3, <2>4 DEF Registration
<1>3. ASSUME NEW p \in Procs, Acceptance(p) PROVE LocksOwned'
  <2>1. CASE AcceptCommit(p)
    BY <2>1, EndKeepsOwned DEF AcceptCommit
  <2>2. ASSUME NEW r \in Runs, AcceptLockRelease(p, r) PROVE LocksOwned'
    BY <2>2 DEF AcceptLockRelease, LocksOwned
  <2>3. CASE AcceptLockRun(p)
    BY <2>3 DEF AcceptLockRun, LocksOwned
  <2> QED
    BY <1>3, <2>1, <2>2, <2>3 DEF Acceptance
<1>4. ASSUME NEW p \in Procs, Execution(p) PROVE LocksOwned'
  <2>1. CASE EndTransaction(p)
    BY <2>1, EndKeepsOwned
  <2>2. ASSUME NEW r \in Runs, ClaimSelect(p, r) \/ ReconcileLoad(p, r) PROVE LocksOwned'
    BY <2>2 DEF ClaimSelect, ReconcileLoad, LocksOwned, locks
  <2>3. CASE ClaimLockRelease(p)
    BY <2>3 DEF ClaimLockRelease, LocksOwned
  <2>4. CASE ClaimLockRun(p) /\ ~EndTransaction(p)
    BY <2>4 DEF ClaimLockRun, LocksOwned
  <2>5. CASE FinishLock(p)
    BY <2>5 DEF FinishLock, LocksOwned
  <2> QED
    BY <1>4, <2>1, <2>2, <2>3, <2>4, <2>5 DEF Execution, ClaimCommit, FinishCommit
<1>5. ASSUME NEW p \in Procs, Abort(p) PROVE LocksOwned'
  BY <1>5, EndKeepsOwned DEF Abort
<1>6. CASE UNCHANGED vars
  BY <1>6 DEF vars, locks, locals, LocksOwned
<1> QED
  BY <1>1, <1>2, <1>3, <1>4, <1>5, <1>6 DEF Next, Procs

(* The order in which every transaction takes its locks: the admission     *)
(* lock, then a release, then a run.  AwaitsRun comes last: who holds a    *)
(* run waits for nothing.                                                  *)
AwaitsRun == {p \in Procs : pc[p] \in {"accepting", "claimLocked", "observed"}}
AwaitsRelease ==
    {p \in Procs : \/ pc[p] \in {"admitted", "registering", "claimSelected"}
                   \/ pc[p] = "prepared" /\ p \in Operators}
AwaitsAdmission == {p \in Procs : pc[p] = "prepared" /\ p \in Clients}

(* Nobody waits backwards: who holds the lock that is waited for waits     *)
(* only for a lock that comes later.                                       *)
LEMMA LockOrder ==
    ASSUME TypeOK, StoreInv, LocksOwned, NEW p \in Procs, Blocker(p) \in Procs
    PROVE  \/ p \in AwaitsRun /\ Blocker(p) \notin AwaitsRun \cup AwaitsRelease \cup AwaitsAdmission
           \/ p \in AwaitsRelease /\ Blocker(p) \notin AwaitsRelease \cup AwaitsAdmission
           \/ p \in AwaitsAdmission /\ Blocker(p) \notin AwaitsAdmission
<1> DEFINE q == Blocker(p)
<1>1. CASE p \in AwaitsRun
  <2>1. q = runLock[run[p]] /\ run[p] \in Runs
    BY <1>1 DEF AwaitsRun, Blocker, StoreInv, LocksHeld, HasRun
  <2>2. pc[q] \in HoldsRun
    BY <2>1 DEF LocksOwned
  <2> QED
    BY <1>1, <2>2 DEF HoldsRun, AwaitsRun, AwaitsRelease, AwaitsAdmission
<1>2. CASE p \in AwaitsRelease
  <2>1. \E l \in Releases : q = releaseLock[l]
    <3>1. CASE pc[p] \in {"registering", "claimSelected"}
      BY <3>1 DEF Blocker, StoreInv, LocksHeld, HasRelease, HoldsRelease
    <3>2. CASE pc[p] \in {"admitted", "prepared"}
      <4>1. draft[p].release \in Releases
        BY <3>2 DEF StoreInv, DraftsValid, Requests
      <4>2. pc[p] = "prepared" => p \in Operators /\ p \notin Clients
        BY <1>2, StoreAssumption DEF AwaitsRelease
      <4>3. q = releaseLock[draft[p].release]
        BY <3>2, <4>2 DEF Blocker
      <4> QED
        BY <4>1, <4>3
    <3> QED
      BY <1>2, <3>1, <3>2 DEF AwaitsRelease
  <2>2. pc[q] \in HoldsRelease
    BY <2>1 DEF LocksOwned
  <2> QED
    BY <1>2, <2>2 DEF HoldsRelease, AwaitsRelease, AwaitsAdmission
<1>3. CASE p \in AwaitsAdmission
  <2>1. q = admissionLock
    BY <1>3, StoreAssumption DEF AwaitsAdmission, Blocker
  <2>2. pc[q] = "admitted"
    BY <2>1 DEF LocksOwned
  <2> QED
    BY <1>3, <2>2 DEF AwaitsAdmission
<1>4. CASE p \notin AwaitsRun \cup AwaitsRelease \cup AwaitsAdmission
  <2>1. /\ pc[p] \notin {"accepting", "claimLocked", "observed", "admitted", "registering",
                         "claimSelected"}
        /\ ~(pc[p] = "prepared" /\ p \in Operators) /\ ~(pc[p] = "prepared" /\ p \in Clients)
    BY <1>4 DEF AwaitsRun, AwaitsRelease, AwaitsAdmission
  <2>2. Blocker(p) = NULL
    BY <2>1 DEF Blocker
  <2> QED
    BY <2>2, StoreAssumption
<1> QED
  BY <1>1, <1>2, <1>3, <1>4

(* In every set of transactions the ones that are furthest in the order of *)
(* locks wait for nobody of the set.                                       *)
LEMMA NobodyInACircle ==
    ASSUME TypeOK, StoreInv, LocksOwned PROVE NoWaitCycle
<1> SUFFICES ASSUME NEW waiting \in SUBSET Procs, waiting # {},
                    \A p \in waiting : Blocker(p) \in waiting
             PROVE  FALSE
  BY DEF NoWaitCycle
<1>1. \A p \in waiting : p \in Procs /\ Blocker(p) \in waiting /\ Blocker(p) \in Procs
  OBVIOUS
<1>2. \A p \in waiting : p \notin AwaitsRun
  BY <1>1, LockOrder
<1>3. \A p \in waiting : p \notin AwaitsRelease
  BY <1>1, <1>2, LockOrder
<1>4. \A p \in waiting : p \notin AwaitsAdmission
  BY <1>1, <1>2, <1>3, LockOrder
<1> QED
  BY <1>1, <1>2, <1>3, <1>4, LockOrder

(* No set of submissions, registrations, acceptances, claims and finishes  *)
(* can wait for each other in a circle: all of them take the admission     *)
(* lock before a release and a release before a run.                       *)
THEOREM NoDeadlock == Spec => []NoWaitCycle
<1>1. Init => LocksOwned
  BY StoreAssumption DEF Init, LocksOwned
<1>2. TypeOK /\ StoreInv /\ LocksOwned /\ [Next]_vars => LocksOwned'
  BY OwnedStep
<1>3. TypeOK /\ StoreInv /\ LocksOwned => NoWaitCycle
  BY NobodyInACircle
<1> QED
  BY <1>1, <1>2, <1>3, StoreInvariant, PTL DEF Spec
=============================================================================
