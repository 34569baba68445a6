# MIC3-API: a TLA+ verification project

MIC3-API accepts requests for scientific model runs over HTTP or a command
line, stores them in PostgreSQL, passes them through Kafka to worker processes,
runs each one as a Kubernetes Job and shows its progress to its owner in a live
feed. Correctness hangs on what happens between processes: rows locked by
transactions, two systems that commit separately, Jobs that outlive the worker
that made them, and threads that share a feed. This project models those parts
from the source (paths below are relative to `src/mic3_api/` unless they start
with `scripts/` or `.github/`), checks them with
TLC on small instances and proves the central properties with TLAPS for every
value of the constants.

## 1. Inventory

| Component | State | Operations | What makes it correct |
| --- | --- | --- | --- |
| Submission and admission (`application/runs/submission.py`, `infrastructure/persistence/run_submissions.py`) | `runs`, `outbox_events`, the admission advisory lock | prepare from a release, count, refuse or insert | limits hold under concurrency; a run and its event appear together |
| Model catalog (`infrastructure/persistence/model_catalog.py`, `application/models/`) | `models`, `model_releases` | register: lock, check protected modes, overwrite | an accepted run keeps the definition it was accepted with |
| Acceptance (`application/runs/acceptance.py`, `run_acceptance.py`) | `accepted_at`, `status` | lock release, lock run, compare fingerprint, accept or fail | decided once, against the current definition |
| Claiming and capacity (`application/runs/execution.py`, `run_execution.py`) | `status`, the capacity advisory lock | claim the oldest accepted run | at most `execution_capacity` running |
| Reconciliation (`application/runs/execution.py`, `kubernetes_jobs.py`, `execution_loop.py`) | `job_uid`, session advisory locks, Jobs in the cluster | look up, create or adopt, verify, record, finish | one Job per run, true outcomes, no run stuck |
| Output verification (`application/runs/artifacts.py`, `s3_artifacts.py`) | objects in the bucket | list, compare with the required files | success only with the outputs |
| Publication (`application/runs/publication.py`, `outbox.py`, `kafka_publication.py`, `publisher.py`) | `published_at`, the producer's buffer | claim a batch, publish, mark, commit | at least once, never marked without delivery |
| Consumption (`worker.py`, `application/runs/consumption.py`, `kafka_consumption.py`, `rejections.py`) | group offsets, `rejected_messages` | poll, decide or reject, commit the offset | no request is skipped |
| Live feed (`application/runs/feed.py`, `run_notifications.py`, `api/routes/run_events.py`, migration 0006) | subscriptions, pending updates, two locks, the LISTEN connection | notify, gather, read, deliver, snapshot, drain, check access | complete, monotone, private, and over when access is |
| User accounts (`application/users/`, `user_accounts.py`, `user_administration.py`) | `users`, `user_identities`, `user_roles` | resolve, provision, synchronise, grant | one user per identity, no accidental rights |
| Processes (`worker.py`, `publisher.py`, `cli.py`, `execution_runtime.py`, `process.py`, the lifespan in `main.py`) | one stop event, tasks, open clients, signal handlers | open, run one or two tasks, stop, join, close | all duties or none, nothing used after it was closed, a true exit status |
| Token validation (`infrastructure/authentication/oidc.py`, `api/dependencies/authentication.py`) | the discovered client with its cached key set, the discovery lock | discover, look up, refresh, decode | withdrawn keys expire, good tokens work, outages are not refusals |
| Release delivery (`.github/workflows/publish-image.yml`, `scripts/release_record.py`, `scripts/execution_delivery.py`) | image tags, release records, Deployments with labels, the Helm release, the schema, migration Jobs | publish, record, gate, migrate, roll out, verify | tags written once, no downgrade, true labels, schema first |
| Identity bootstrap (`scripts/bootstrap_execution_identity.py`) | labels and their owner | read, compare, annotate, release ownership | labels only what it looked at |
| Deployment check (`scripts/deployment_check.py`, `run_inspection.py`) | the diagnostic run | submit, show, judge | a verdict that is true |
| Queries, HTTP routing, configuration, charts | settings | read-only or set up once | see section 8 |

How they interact: submission writes `runs` and the outbox in one transaction;
publishers carry outbox rows to Kafka; the acceptance thread of a worker reads
the requests topic and decides runs in PostgreSQL; the execution thread of the
same process claims accepted runs and drives Jobs; every commit on `runs` or
`run_artifacts` fires a trigger whose notification the API's listener thread
turns into updates for streams. Processes share PostgreSQL, Kafka, the
cluster and the bucket, never memory; inside an API process the listener, the
snapshot executor and the event loop share one `RunFeed`, and request threads
share one token validator. Releases reach the cluster through a GitHub
workflow whose jobs share the registry, the release records and the
Deployments with each other and with an operator.

What is hard: transactions at READ COMMITTED that check something and write
something else; locks taken in several orders; PostgreSQL against Kafka and
against Kubernetes, where each can commit without the other; a session lock
that can vanish under its holder; rebalances; late acknowledgements;
notifications that are lost while nobody listens; threads that must stop each
other; a key set that is cached while keys rotate; and deliveries that die
halfway, with the next one already waiting. `PROJECT.json` lists every
such hazard with its line and the properties aimed at it.

## 2. Modules

| Module | Models | Runs | Proofs |
| --- | --- | --- | --- |
| `RunLifecycle` | what the system promises about a run (abstract) | refined by the next two | |
| `RunStore` | every transaction on `runs` and `model_releases`, lock by lock | `StoreCatalog`, `StoreAdmission` | `RunStoreProofs` |
| `RunExecution` | ticks and reconciliations of workers against the cluster and the bucket | `ExecutionSafety`, `ExecutionLiveness`, `ExecutionStale` | `RunExecutionProofs` |
| `EventFlow` | what the system promises about the events of runs (abstract) | refined by the next | |
| `Delivery` | outbox, publishers, the requests topic, the consumer group | `Delivery` | `DeliveryProofs` |
| `RunFeed` | notifications, listener, subscriptions, streams | `FeedSafety`, `FeedStreams` | `RunFeedProofs` |
| `UserAccounts` | provisioning, profiles, grants | `Accounts` | `UserAccountsProofs` |
| `Processes` | the life of one process of each kind | `Processes` | `ProcessesProofs` |
| `TokenValidation` | request threads, the validator, the key cache, the provider | `Tokens` | `TokenValidationProofs` |
| `DeploymentCheck` | the diagnostic run, `show` and the verdict; its run lives as `RunLifecycle` says | part of `Release` | `ReleaseDeliveryProofs` |
| `ReleaseDelivery` | workflow runs and the bootstrap against registry and cluster; extends `DeploymentCheck` | `Release` | `ReleaseDeliveryProofs` |

`MC*` modules only define instances, bounds and symmetry sets. Operators whose comment
starts with "Faulty variant" are mutations: each changes one definition the way
a plausible bug would, and `PROJECT.json` says which property must then fail.

### RunStore

A transaction is a process with a label `pc[p]` for the place where it waits.
It is split exactly where PostgreSQL can make it wait: advisory locks
(`admissionLock`, `capacityLock`), row locks (`modelLock`, `releaseLock`,
`runLock`) and the key share lock of a foreign key. Writes become visible in
the last step, which is the commit; `Abort` rolls back at any point. Clients
are API requests, Operators are command lines (which submit without limits and
register releases), Acceptors and Executors are the two threads of workers.

Data: an invocation is a computation and its required outputs; the fingerprint
is the computation, because model and image never change within a release and
required outputs are not hashed (`application/runs/fingerprint.py`). SHA-256
is taken to be injective. One execution failure stands for all: RunExecution
tells them apart. `job_uid` lives in RunExecution too.

### RunExecution

One worker is one execution thread. A tick reconciles the runs `running_ids`
returned, oldest first, then claims one more. A reconciliation takes the
session lock of the run and then makes one call per step: load, get, create,
get again, verify, save the uid, collect, finish, unlock. Between any two a
worker can crash, its session can end while it lives on (`LoseSession`), or a
call can fail (`Unavailable`, `CreateFails`; a failed create may have taken
effect). Jobs end on their own and may be deleted by somebody else; a stranger's
Job may occupy the name. The claim and the finish are single steps, because
RunStore shows what their transactions do. An error that is not retryable ends
the process, which is a crash followed by a restart.

### Delivery

Outbox rows are numbered in commit order. A publisher's transaction holds the
rows it has locked and those it has marked; Kafka's log appends on delivery.
`PublishFails` covers the three things an error can mean: not written, written,
or still in the producer's buffer (`inflight`, resolved by `LateDelivery`).
A partition has an owner, the owner's position and the committed offset; a
worker that lost its partition still finishes the record in hand, and its commit
may be taken by the broker. Offsets start at 1.

`EventFlow` is the same without publishers, batches, partitions and offsets:
sets of stored, arrived and confirmed events, and runs that are decided. The
refinement mapping takes the rows of the outbox, the events with a record in a
topic, and the rows with `published_at`.

### RunFeed

A run is reduced to a stage. `CommitRun` appends what the triggers of migration
0006 send. The listener is one thread. It gathers a batch one notification at a
time (`Gather`), so a commit may come between two of them, hands the batch over
(`Publish`, which takes `_reads`), and has a label per critical section of
`RunFeed.publish`; `reads` and the atomicity of each step stand for `_reads`
and `_lock`. A stream record holds the coroutine's place, its Subscription
(`pending`, `error`, `changed`, and `wakes` for the `changed.set` calls that
are scheduled and have not run) and the batch in hand. Payloads that name no
run are dropped by the listener and are left out; so is a request cancelled
while it waits for its snapshot, which only happens when the server stops.

### UserAccounts

A request is a transaction split at the unique key of `user_identities` and at
the row lock of `users`. `seeded` is the set of roles that migrations have
inserted, so the configuration errors happen too.

### Processes

`mode` is the command line, or the API. The main thread has a label for every
call that opens or closes something; in a `finally` a failed close skips the
rest of its block, as in the program. Tasks have the labels of their loops:
`check` (`while not stop.is_set()`), `open`, `inner`, `poll`, `work`,
`closing`, `wait`. `worker.run` and the listener of the API have the same
shape, with a consumer or a connection per attempt. A unit of work succeeds, is
retried, or fails for good; `broken`, `signalled` and `late` record history for
the properties. The API's server is external: it handles the signal and ends
the lifespan. The snapshot executor is shut down without waiting, so a snapshot
may outlive the engine's `dispose`, which only empties the pool; it is left out.

### TokenValidation

Time is a bounded counter. A token is its `kid`, the key that signed it,
whether its claims are good, and its expiry. A thread is at one of: waiting for
`_discovery_lock`, discovering, looking up, fetching, storing. `PyJWKClient` is
modelled from the arguments it gets and from the repository's test of its
refresh: one cached set with a lifespan, a fetch when the set is old or the key
unknown, a pause between two such fetches. A fetch reads the provider and
stores the answer in separate steps, so answers may be stored out of order.
Exceptions that neither the validator nor the dependency catches, which the
framework answers with 500, are left out: no property depends on them.

### ReleaseDelivery and DeploymentCheck

A workflow run occupies a slot and moves through the steps of its two jobs;
`Stop` ends it at any of them. Concurrency groups are the guards of `Checkout`
(one prepare job per tag) and `StartDeploy` (one deploy job). An image is its
version, the commit it was built from and the workflow run that built it, as
two builds of one commit have different digests. A Deployment is one record:
image, labels, and the owner of the labels, because server-side apply refuses
to overwrite another owner's fields. Resource versions are modelled by what they
protect: a guarded write happens only if the object is what was read. The
migration Job runs on when the workflow run dies. A release may bring migrations
or not, so the migration of an older image may succeed or fail.

`DeploymentCheck` splits `show` into its three statements, since each sees what
is committed at its own moment, and judges the answer like `verify_result`.
The missing `accepted_at` or `job_uid` of a succeeded run, and wrong bytes,
would be defects of RunStore and RunExecution and are not told apart here.

## 3. Runs

All passing runs finish in little more than two minutes or less on two cores.

| Run | Question | Bounds | Distinct states |
| --- | --- | --- | --- |
| `StoreCatalog` | can a registration invalidate an accepted run; do claims and finishes respect capacity and the outbox; can transactions wait in a circle; does the store implement the lifecycle | four definitions of one release, two operators, one acceptor, two executors, two runs, capacity one | 910 000 |
| `StoreAdmission` | do limits hold under concurrent submissions while runs are accepted, start and end | three users, two clients, an operator, an acceptor, an executor, three runs of which one may have ended and one may be the operator's, limits of one per user and two in all, three open transactions | 990 000 |
| `ExecutionSafety` | are outcomes true in spite of crashes, outages and deleted Jobs; is a deleted Job recreated | two workers, two runs, capacity one, one fault of each kind but no lost session | 977 000 |
| `ExecutionLiveness` | does every run finish, and are failures real, when a session is lost | two runs, two workers, a lost session, an outage | 254 000 |
| `ExecutionStale` | is a deleted Job recreated when a session is lost: **violated**, see section 7 | one lost session, one deletion | |
| `Delivery` | does the flow of events implement `EventFlow`; what makes copies; is any request skipped or wrongly rejected; is every request decided and every outcome announced | one run and a foreign record in one partition, two publishers, two workers, batches of two, a rebalance, faults on both sides | 134 000 |
| `FeedSafety` | is an update missed, reversed or left asleep | two runs, one stream, a buffer for one, a broken link, a failed read | 2 440 000 |
| `FeedStreams` | does a stream see another user's runs; do mixed batches lose updates; does a stream catch up or end; does a revoked one end | two users, a run of each and one without owner, one stream, one break, read failure and revocation | 186 000 |
| `Accounts` | who wins the race to create a user; do updates erase data; does every request end | three requests of one identity, two columns, one grant, one failure | 431 000 |
| `Processes` | is anything used after it was closed; is the exit status true; does a process drain, stop, or run on with half of its duties | all seven modes, any failure at any call, any number of signals | 1 560 |
| `Tokens` | how long is a withdrawn key trusted; is a good token refused; does every request get its answer | two threads, two keys, two rotations, four moments, lifespan, cooldown, leeway and fetch of one | 199 000 |
| `Release` | can a delivery that died, a moved tag, a race of releases or a bootstrap break what is live | two workflow runs on two versions, two commits, one moved tag, one bootstrap | 1 020 000 |

A lost session and a deleted Job are kept apart in the passing runs because
together they break what `ExecutionStale` shows.

In `StoreCatalog` the API's clients are absent: they alone wait for the
admission lock and hold nothing while they do, so they cannot close a circle,
and operators' submissions wait for the same release row. In `Release`,
version 1 is live and its record exists; delivering it again while version 2 is
on its way is the race of an older with a newer release.

In `StoreAdmission` neither limit implies the other: three users with one run
each are over the limit in all, and one user with two runs is within it. Runs
are accepted, start and end between the count and the insertion, and the place
of a run that ended is given away again. One mutant drops the admission lock,
the other counts queued runs only and breaks the limit in all as soon as a run
has started. Its state constraint `AdmissionBounds` keeps at most three
transactions open, one run ended and one run of the command line; with three
runs, more of either leaves too few for a limit to be exceeded.

Why the bounds suffice: each hazard needs two actors and one fault, and every
bound lets at least that happen. Capacity one with two workers, a buffer of one
with two runs and limits of one and two with three users put each limit under
pressure. Counters are bounded in guards by the constants named `Max...`.

Deadlock is checked in the store and execution runs that cannot come to rest;
the others may: publishers, workers and the listener poll an empty outbox,
topic or connection, requests are answered once, and a poll that finds nothing
changes no state; processes exit; workflow runs and bootstraps are bounded.

## 4. Properties

Every property carries a comment in its module. Facts that only make sense
together are one property, a conjunction of named parts. The ones that matter
most:

* `AcceptedRunsMatchCatalog`, `InvocationFrozen`: an accepted run's mode and
  invocation stay in the catalog until it ends.
* `CapacityBound`, `AdmissionBound`: the two limits, across transactions.
* `OutboxMatchesStatus`, `ImplementsLifecycle`, `FollowsLifecycle`: the
  status and the events of a run move together, along `RunLifecycle`.
* `NoWaitCycle`: no circle of waiting transactions.
* `SuccessHasEvidence`: a succeeded run had a Job that completed and the
  required files.
* `ClusterAgrees`: each failure code has its cause (`FailuresAreReal`), and a
  Job at work belongs to a running run, so the capacity also bounds the cluster
  (`ActiveJobHoldsSlot`).
* `ImplementsFlow`: nothing reaches Kafka that was not stored with its run,
  no event is marked before Kafka has it, and a run is decided once, on a
  request that was delivered (`EventFlow`). `CommittedIsSettled`,
  `CopiesNeedFailures`, `OnlyForeignRejected`, `EveryEventArrives`: the rest of
  at-least-once delivery, end to end.
* `FeedComplete`: whenever a healthy stream is out of date, a notification of
  that run is still on its way (`NothingMissed`), and a stream with something
  to send is woken (`NoLostWakeup`). `OwnRunsInFull`: a stream misses nothing of
  its user's runs and sees no other (`OwnRunsOnly`). `NeverBackwards`.
* `AccountsConsistent`: one whole account per identity (`NoOrphanUsers`,
  `OneUserPerIdentity`) that every request finds (`ConflictsResolve`) and that
  lets nobody in once it is disabled (`InactiveNeverAnswered`).
* `ProcessEnds`: a process exits when one of its tasks has ended
  (`NeverHalfAlive`), after a signal (`SignalEnds`), and with `--once` by itself
  (`OnceEnds`). `ResourcesInOrder` (with `NoUseAfterClose`), `ExitStatusTrue`,
  `DrainBounded`.
* `WithdrawnKeysExpire`: a withdrawn key is trusted no longer than the cache's
  lifespan plus the time of one fetch, and that bound is sharp: the extra fetch
  time is needed when a slow answer is stored over a newer one.
  `GoodTokensWork`: outside of a short time after its key's publication, a good
  token is never answered with 401, whatever the provider does.
* `OnlyForward` (`TagsImmutable`, `NoDowngrade`, `SuccessIsComplete`) and
  `LiveIsTrue` (`LabelsTrue`, `SchemaFirst`, `DeploysCheckedOutSource`): what
  deliveries may never do to the registry and the cluster, although the
  workflow's own first check looks at the API only. `VerdictTrue`: the three statements of
  `show` read the run first, and therefore a run that is just ending is
  never taken for a defective one.

## 5. Fairness

Liveness is checked by TLC only.

* `RunExecution`: workers keep taking steps and Jobs end. The loop catches
  retryable errors and ticks again; Kubernetes restarts a process that exits;
  `activeDeadlineSeconds` of the Job template ends every Job. Faults are bounded.
* `Delivery`: publishers and workers keep polling, the group assigns free
  partitions.
* `RunFeed`: threads, coroutines and timers go on, a lost connection is noticed
  (TCP keepalives) and made again. `_reads` is a `threading.Lock`, which is not
  fair by itself: weak fairness of the snapshot is enough because changes are
  finite in the model, as pauses between batches are in the program.
* `UserAccounts`: a request that has begun goes on, and a lock that is free is
  granted.
* `Processes`: threads keep running and every call returns (clients, statements
  and polls have timeouts); the deadline of `--once` passes in the end.
* `TokenValidation`: threads run on, calls to the provider return or time out,
  and a thread that waits for the discovery lock gets it in the end. That is an
  assumption on the operating system, which wakes the waiters of a
  `threading.Lock` at each release; it matters only while discoveries keep
  failing, for after a successful one nobody takes the lock any more.

Clients, operators, users, faults, disconnects and revocations get no fairness.

## 6. Proofs

Each theorem holds for every value of the constants that satisfies the `ASSUME`
of its module: limits and bounds are numbers, positive where the program's
settings demand it, kinds of processes are disjoint, `NULL` is none of the
values. TLC evaluates these assumptions in every run. Bounds on faults are
constants too, so "any number of failures" is included. Each component has an
inductive invariant, which TLC also finds to hold on the instances of the runs;
its proof has one step per action.

**RunStore** (any number of processes, runs, releases, modes). The inductive
invariant `StoreInv` is the conjunction of `LocksHeld` (a label implies the
locks taken on the way), `RowsComplete` (which columns are set in which
status), `DraftsValid`, `SeenIsStored` (a definition read under a release lock
is still the stored one), `CheckStillHolds` (what a registration checked still
holds at its commit), `VerdictsValid` (a decision made under locks is still
right when it is stored) and `AcceptedRunsMatchCatalog`. The last one is not
inductive alone: a registration past its check could overwrite a mode that was
accepted since; the lock of the release, expressed by the other conjuncts, is
what rules it out. It gives `TypeCorrect` and `AcceptedRunsStayValid`. On top
of it:

* `SlotReserved` (a claim past its count has reserved a slot, thanks to the
  capacity lock) gives `CapacityRespected`; `OutboxComplete`,
  `InvocationsFrozen` and `StoreImplementsLifecycle`, the step simulation of
  `RunLifecycle`, follow.
* `LimitsRespected`: `PlaceReserved` says that a submission past its count
  holds the admission lock and has room in both limits, and that exactly the
  submissions of the API are limited. Runs only leave the count while the lock
  is held by somebody else.
* `NoDeadlock`: `LocksOwned` says that a taken lock belongs to a transaction
  past the statement that takes it. So the owner of a lock that somebody waits
  for waits, if at all, for one that comes later in the order admission,
  release, run, and no circle closes. The locks of the capacity and of a model
  are the first that a transaction takes: who waits for them holds nothing.

**RunExecution** (any number of workers, runs, faults). `ExecutionInv` consists
of `TypeOK`, `LocksHeld` (a live session owns the lock of the run it
reconciles), `JobsCounted` (Jobs made are there or were deleted), `RowsComplete`,
`HandsTrue` (what a worker has loaded, seen or decided was true of the history
of the run), `FailuresAreReal` and `SuccessHasEvidence`. Evidence is stated
over history because the worker acts on what it saw, when the Job may be gone.
`EvidenceForSuccess`, `CauseForFailure` and `WorkersFollowLifecycle` hold
without any hypothesis. `TablesMatchCluster` and `NoScientificRerun` are
proved under `MaxDisconnects = 0 \/ MaxDeletes = 0`: no behaviour has both a lost
session and a deleted Job. Without lost sessions the additional
invariant is `Serial`: `LastJob` (the Job in a worker's hands is the last one),
`VerdictFinal` (a run is finished only when its Job is no longer at work) and
`ActiveJobHoldsSlot`. Without deletions a run has one Job at most. The run
`ExecutionStale` shows that the hypothesis cannot be dropped.

**Delivery** (any number of runs, publishers, workers, partitions).
`DeliveryInv` consists of `TypeOK`, `PublishInv` (`RowsOfRuns`, `LogOfRuns`,
`MarkedIsInKafka`, `PublishedIsInKafka`) and `ConsumeInv` (`HandledIsSettled`,
`PositionIsSettled`, `CommittedIsSettled`, `RejectedInLog`). The argument rests
on one lemma, `Grows`: rows, records, decisions and rejections only grow, so
what was settled stays settled. `PositionIsSettled` says that everything below
an owner's position is settled except the record in its hands, which is why a
failed record must give the partition back. Theorems: `DeliveryTypeCorrect`,
`PublishedEventsDelivered`, `NoRequestLost`, `OwnRequestsNotRejected`. On top,
`CopiesInv` keeps an account for every row of the outbox: the copies Kafka has,
plus one if a producer's buffer still holds the record, plus one if it still
has to be sent, are at most one more than the publications that failed
(`Accounted`). It needs that rows are unique per event (`RowsUnique`), that
only rows are sent (`SentFromRows`) and that open transactions lock different,
unpublished rows (`ClaimsApart`, the work of `SKIP LOCKED`). It gives
`CopiesAreAccountedFor`. `DeliveryImplementsFlow` is the step simulation of
`EventFlow`: a commit of a batch confirms events that Kafka has because
`MarkedIsInKafka`, and a decision finds its request among the arrived ones
because a record that names a run lies in the partition of that run
(`InOwnPartition`, the one further invariant it needs).

**RunFeed** (any number of users, runs, streams, commits, and any limits).
`FeedInv` consists of `Types`, `NotesTrue` (notifications name the owner or
nobody, and a run that exists), `FoundTrue` (what the listener has read of a run
is its last version unless another notification of it waits), `ListenerTrue`,
and for each stream `LinkTrue` (while the listener is not connected no stream is
in good health; only a snapshot holds `_reads`), `HandTrue`, `Wakeful` (a
stream with something to send or report has its event set or a wake-up
scheduled), and for each run `Ordered` (sent, in hand, pending and stored
versions are in this order, and what the listener has found is at least as new
as what streams have), `SnapshotTrue` (a run that changed since the snapshot has
a notification still to be processed), `Kept` (the same for a stream that
follows) and `Private`. `Ordered` and `Kept` are where the two locks matter: a
snapshot is read under `_reads` after the subscription was entered, so a
change is in the snapshot or in a notification that is delivered afterwards.
Theorems: `FeedInvariant`,
`FeedStaysComplete`, `OwnRunsArrive`, `StreamsNeverGoBack`.

**UserAccounts** (any number of requests, operators, identities).
`AccountsInv` = `TypeOK` (which includes who holds which key and row lock),
`RequestTrue` (a request that found its identity free holds the key that keeps it
free, one that lost the race finds the winner's account), `OperatorTrue` (the
row lock keeps the account active while a grant is under way) and
`IdentityTrue` (an identity leads to a user who presented it). Identities are
assigned once and accounts only disabled, so what was read stays true. Theorems: `AccountsStayConsistent`,
`OnlyActiveAreGranted`, `ProfilesKeepClaims`.

**TokenValidation** (any number of threads, keys, rotations, any lifespan,
leeway and fetch time). `ValidatorInv` = `TypeOK`, `OneDiscovery`, `ThreadTrue` (a
set that was fetched is right about every key that has not changed since the
fetch began, at most `FetchTime` ago) and `CacheTrue` (so the cached set is
right about every key that has not changed since `FetchTime` before it was
stored). `WithdrawnKeysAreForgotten` needs nothing else.
`GoodTokensAreAccepted` assumes `Cooldown > 0`: PyJWT pauses between two
refreshes for an unknown key, which the repository relies on ("PyJWT limits
unknown-key refreshes for 30 seconds",
`tests/unit/infrastructure/authentication/test_oidc.py`).

**ReleaseDelivery and DeploymentCheck** (any number of workflow runs, versions,
commits, moved tags, bootstraps). `ReleaseInv` = `Types`, `RecordTrue`, and for
each slot `PrepareTrue` (a tag is free where it has not been pushed yet, and what
is about to be saved is what was pushed), `ReleaseTrue` (a deploy job's release
is the recorded one, built from the commit it checked out), `ClusterTrue`
(nothing live is ahead of a release past the gate, its migrations are there,
and what it rolled out stays), `Exclusive` (the concurrency groups), further
`JobTrue` and `OneMigration` (of migration Jobs), `BootTrue` (a bootstrap labels
only what it has compared with a record), `LabelsTrue` and `SchemaFirst`. `CheckInv` states
for the script what each statement of `show` may have read. Theorems:
`ReleaseInvariant`, `LiveStaysTrue`, `DeliveriesGoForward`, `VerdictIsTrue`.
A proof attempt showed that two arms of the `CASE` in `verify_result`
overlapped, where TLC silently took the first; they are disjoint now.

**Processes** (any set of modes). The three properties are not inductive: that
nothing is closed under a task depends on where the main thread is, and that
the exit status is true on what every task has answered. `ProcInv` consists of
`Kinds` (the types), `StepsFit` (which process takes which step), `TasksFit`
(before the launch no task has begun, once the main thread closes things all
are done, and a task has an answer as soon as it is over), `LinksFit` (a
consumer or connection is open during its attempt, and after it only if closing
it is what failed), `Opened` (what the main thread has opened by then, and that
nobody else's resources are open), `StatusFits` (a failure is the answer of a
task until the join and the exit status afterwards; with status 0 nothing is
open but what remains to be closed), `StopFits` (stop is set by a signal or by a
failure, and a service that answers zero has seen it) and `LastUnit` (a
task that began a unit of work after stop was set does not begin another: it has
the test of stop before it). Theorems: `ProcessInvariant`,
`ResourcesStayInOrder`, `ExitStatusIsTrue`, `DrainIsBounded`. The interesting
case is the pool: a task that ends with zero had seen stop, so stop came from
a signal or from the other task, whose failure makes the status 1. Two `CASE`
expressions of the module had overlapping arms, where TLC took the first and the
prover could take either; they are disjoint now.

Only model-checked: liveness (`EveryRunFinishes`, `EveryEventArrives`,
`StreamsCatchUp`, `RevokedStreamsEnd`, `EveryRequestEnds`,
`EveryRequestAnswered`, `ProcessEnds`), which is out of the prover's reach
because of fairness and `ENABLED`. Every safety property that a run checks is
also a theorem; two of them, about `RunExecution`, under the hypothesis above
and one, about `TokenValidation`, for a positive cooldown.

## 7. Finding

`ExecutionStale`: a recorded Job can be created again. `_find_or_create` trusts
the `job_uid` that `load()` read. If the worker's session ends right after, the
advisory lock is free, another worker creates the Job and records it, and
somebody deletes it, then the first worker finds no Job, believes none was ever
recorded and creates it. The product document says a missing recorded Job is "a
failure, never an automatic scientific rerun" (`docs/architecture/prd.md`,
line 166). The rerun is noticed afterwards: `save_job_uid` fails on the lost
session, and the next reconciliation sees a uid that differs and fails the run
with `job_identity_conflict`. `ExecutionSafety`, where Jobs are deleted
and no session is lost, shows that losing the session is necessary.

## 8. Not modelled

* Read-only queries other than `show`, HTTP routing and status codes, settings,
  Helm charts: they keep no state of their own. The settings' limits are
  constants of the modules.
* The internals of PyJWT, Kafka, PostgreSQL, Kubernetes, Helm and GitHub; what
  the code relies on is modelled and marked external in `PROJECT.json`.
* Of deliveries: legacy records that name one image, paused or scaled
  Deployments, permissions, the recovery of a Helm release that is left pending
  (the gates refuse until an operator has acted), and a runner that GitHub has
  given up but that goes on by itself, against which the concurrency groups are
  no protection.
* Texts, timestamps, JSON and manifests are reduced to what the properties tell
  apart.

## 9. Plan

1. Done: `RunLifecycle`, `RunStore`, `RunExecution`, `EventFlow`, `Delivery`,
   `RunFeed`, `UserAccounts`, `Processes`, `TokenValidation`, `DeploymentCheck`
   and `ReleaseDelivery`, with proofs of every safety property that the runs
   check and of the three refinements.
2. `Delivery` is not mapped to `RunLifecycle`: the end of an accepted run is one
   step there, which hides its start. `RunStore` and `RunExecution` are where a
   run starts and ends.
3. Model if the code grows: an abstract feed that `RunFeed` refines; a
   composition of `RunStore`'s outbox with `Delivery`.
