------------------------------ MODULE Delivery ------------------------------
(***************************************************************************)
(* How a run's events travel: the outbox table, the publishers that carry  *)
(* its rows to Kafka, the requests topic, and the worker processes that    *)
(* consume requests and decide them in PostgreSQL.  Kafka and PostgreSQL   *)
(* commit separately, so every pair of commits can be torn apart by a      *)
(* crash, an outage, a late acknowledgement or a rebalance.                *)
(*                                                                         *)
(* A submission, a decision and the end of a run are single steps here:    *)
(* RunStore models their transactions.  Kafka is external; it is modelled  *)
(* by what the code relies on.                                             *)
(***************************************************************************)
EXTENDS Integers, Sequences, FiniteSets

CONSTANTS Runs,
          Partitions,     \* partitions of the requests topic
          PartitionOf,    \* the partition Kafka chooses for a run's key
          Publishers,     \* publisher processes
          Workers,        \* members of the consumer group
          BatchSize,      \* publisher_batch_size
          MaxPublisherFaults, \* bound: batches that fail
          MaxWorkerFaults,    \* bound: records whose handling fails
          MaxRebalances,  \* bound: partitions taken from a live worker
          MaxForeign,     \* bound: records that others write to the topic
          NULL

Statuses == {"none", "queued", "accepted", "finished"}
Events == [run : Runs, type : {"run.requested", "outcome"}]

(* A record of the requests topic identifies a run or cannot be decoded.   *)
Records == Runs \cup {"foreign"}
Locations == [partition : Partitions, offset : Nat]

ASSUME DeliveryAssumption ==
    /\ PartitionOf \in [Runs -> Partitions]
    /\ BatchSize \in Nat \ {0}
    /\ {MaxPublisherFaults, MaxWorkerFaults, MaxRebalances, MaxForeign}
         \subseteq Nat
    /\ NULL \notin Publishers \cup Workers /\ NULL \notin Locations
    /\ "foreign" \notin Runs

VARIABLES
    status,     \* status[r], as in the runs table
    outbox,     \* outbox rows, oldest first
    published,  \* numbers of the rows whose published_at is set
    rejected,   \* rejected_messages: locations of records
    claimed,    \* claimed[p]: rows the open transaction of p has locked
    marked,     \* marked[p]: rows it has marked and not yet committed
    inflight,   \* rows in a producer's buffer after it reported a timeout
    log,        \* log[k]: records of partition k of the requests topic
    announced,  \* announced[r]: records of r's outcome in the events topic
    owner,      \* owner[k]: worker that partition k is assigned to, or NULL
    position,   \* position[k]: next offset its owner will poll
    committed,  \* committed[k]: offset the group has committed
    pc,         \* pc[w]: where the worker is in its loop
    record,     \* record[w]: location of the record it is handling, or NULL
    faults      \* how many faults of each kind have happened

table == <<status, outbox, published, rejected>>
kafka == <<log, announced, inflight>>
group == <<owner, position, committed>>
publisherVars == <<claimed, marked>>
workerVars == <<pc, record>>
vars == <<table, kafka, group, publisherVars, workerVars, faults>>

FaultKinds == {"publisher", "worker", "rebalance", "foreign"}
Budget(kind) == CASE kind = "publisher" -> MaxPublisherFaults
                  [] kind = "worker" -> MaxWorkerFaults
                  [] kind = "rebalance" -> MaxRebalances
                  [] kind = "foreign" -> MaxForeign
Fault(kind) ==
    /\ faults[kind] < Budget(kind)
    /\ faults' = [faults EXCEPT ![kind] = @ + 1]

Request(r) == [run |-> r, type |-> "run.requested"]
Outcome(r) == [run |-> r, type |-> "outcome"]

-----------------------------------------------------------------------------
Init ==
    /\ status = [r \in Runs |-> "none"]
    /\ outbox = <<>> /\ published = {} /\ rejected = {}
    /\ claimed = [p \in Publishers |-> {}]
    /\ marked = [p \in Publishers |-> {}]
    /\ inflight = {}
    /\ log = [k \in Partitions |-> <<>>]
    /\ announced = [r \in Runs |-> 0]
    /\ owner = [k \in Partitions |-> NULL]
    /\ position = [k \in Partitions |-> 1]
    /\ committed = [k \in Partitions |-> 1]
    /\ pc = [w \in Workers |-> "poll"]
    /\ record = [w \in Workers |-> NULL]
    /\ faults = [kind \in FaultKinds |-> 0]

-----------------------------------------------------------------------------
(* Runs, as the outbox sees them                                           *)

(* SqlAlchemyRunSubmission.add: the run and its event in one transaction.  *)
Submit(r) ==
    /\ status[r] = "none"
    /\ status' = [status EXCEPT ![r] = "queued"]
    /\ outbox' = Append(outbox, Request(r))
    /\ UNCHANGED <<published, rejected, kafka, group, publisherVars,
                   workerVars, faults>>

(* Execution ends an accepted run: finish_row.                             *)
FinishRun(r) ==
    /\ status[r] = "accepted"
    /\ status' = [status EXCEPT ![r] = "finished"]
    /\ outbox' = Append(outbox, Outcome(r))
    /\ UNCHANGED <<published, rejected, kafka, group, publisherVars,
                   workerVars, faults>>

-----------------------------------------------------------------------------
(* Publication: PublishOutbox.execute over SqlAlchemyOutbox.claim          *)

Unpublished == (1..Len(outbox)) \ published
Claimed == UNION {claimed[p] : p \in Publishers}

(* The oldest BatchSize of the rows, or all of them.                       *)
OldestOf(batch, rows) ==
    /\ batch \subseteq rows /\ batch # {}
    /\ Cardinality(batch) <= BatchSize
    /\ batch = rows \/ Cardinality(batch) = BatchSize
    /\ \A i \in batch, j \in rows \ batch : i < j

(* Faulty variant: a batch without regard to the locks of other batches.   *)
ClaimBatch_NoSkip(p) ==
    /\ claimed[p] = {}
    /\ \E batch \in SUBSET Unpublished :
        /\ OldestOf(batch, Unpublished)
        /\ claimed' = [claimed EXCEPT ![p] = batch]
    /\ UNCHANGED <<table, kafka, group, marked, workerVars, faults>>

(* Lock the oldest unpublished rows FOR UPDATE, skipping locked ones.  An  *)
(* empty batch commits at once, which changes nothing.                     *)
ClaimBatch(p) ==
    /\ claimed[p] = {}
    /\ \E batch \in SUBSET (Unpublished \ Claimed) :
        /\ OldestOf(batch, Unpublished \ Claimed)
        /\ claimed' = [claimed EXCEPT ![p] = batch]
    /\ UNCHANGED <<table, kafka, group, marked, workerVars, faults>>

(* A requests record goes to the partition of its key; an outcome goes to  *)
(* the events topic.                                                       *)
Deliver(e) ==
    \/ /\ e.type = "run.requested"
       /\ log' = [log EXCEPT ![PartitionOf[e.run]] = Append(@, e.run)]
       /\ UNCHANGED announced
    \/ /\ e.type = "outcome"
       /\ announced' = [announced EXCEPT ![e.run] = @ + 1]
       /\ UNCHANGED log

(* The first row of the batch that is not marked yet.                      *)
NextRow(p, i) ==
    /\ i \in claimed[p] \ marked[p]
    /\ \A j \in claimed[p] \ marked[p] : i <= j

(* publish returns on the acknowledgement; then mark_published.            *)
Publish(p, i) ==
    /\ NextRow(p, i)
    /\ Deliver(outbox[i])
    /\ marked' = [marked EXCEPT ![p] = @ \cup {i}]
    /\ UNCHANGED <<table, inflight, group, claimed, workerVars, faults>>

CloseBatch(p) ==
    /\ claimed' = [claimed EXCEPT ![p] = {}]
    /\ marked' = [marked EXCEPT ![p] = {}]

CommitBatch(p) ==
    /\ claimed[p] # {} /\ claimed[p] \subseteq marked[p]
    /\ published' = published \cup marked[p]
    /\ CloseBatch(p)
    /\ UNCHANGED <<status, outbox, rejected, kafka, group, workerVars, faults>>

(* Faulty variant: commits although the acknowledgement did not come.      *)
PublishFails_Commits(p, i) ==
    /\ NextRow(p, i)
    /\ Fault("publisher")
    /\ published' = published \cup marked[p] \cup {i}
    /\ inflight' = inflight \cup {i}
    /\ CloseBatch(p)
    /\ UNCHANGED <<status, outbox, rejected, log, announced, group, workerVars>>

(* PublicationError: the record was refused, was written although the      *)
(* error says otherwise, or is still in the producer's buffer.  The batch  *)
(* rolls back, records that were acknowledged included.                    *)
PublishFails(p, i) ==
    /\ NextRow(p, i)
    /\ Fault("publisher")
    /\ \/ UNCHANGED kafka
       \/ Deliver(outbox[i]) /\ UNCHANGED inflight
       \/ inflight' = inflight \cup {i} /\ UNCHANGED <<log, announced>>
    /\ CloseBatch(p)
    /\ UNCHANGED <<table, group, workerVars>>

(* The process dies or the database fails in the middle of a batch.        *)
BatchAborts(p) ==
    /\ claimed[p] # {}
    /\ Fault("publisher")
    /\ CloseBatch(p)
    /\ UNCHANGED <<table, kafka, group, workerVars>>

(* A buffered record reaches Kafka after all, or is lost with its process. *)
LateDelivery(i) ==
    /\ i \in inflight
    /\ inflight' = inflight \ {i}
    /\ Deliver(outbox[i]) \/ UNCHANGED <<log, announced>>
    /\ UNCHANGED <<table, group, publisherVars, workerVars, faults>>

-----------------------------------------------------------------------------
(* Consumption: the loop of the worker                                     *)

(* Somebody else writes to the topic what the publisher would not.         *)
ForeignRecord(k) ==
    /\ Fault("foreign")
    /\ log' = [log EXCEPT ![k] = Append(@, "foreign")]
    /\ UNCHANGED <<table, inflight, announced, group, publisherVars, workerVars>>

(* The group assigns a partition; its new owner resumes from the committed *)
(* offset.                                                                 *)
Assign(k, w) ==
    /\ owner[k] = NULL
    /\ owner' = [owner EXCEPT ![k] = w]
    /\ position' = [position EXCEPT ![k] = committed[k]]
    /\ UNCHANGED <<table, kafka, committed, publisherVars, workerVars, faults>>

(* A worker that is slow or joins late loses or takes over a partition.    *)
(* The one that lost it still holds the record it was handling.            *)
Rebalance(k) ==
    /\ owner[k] # NULL
    /\ Fault("rebalance")
    /\ owner' = [owner EXCEPT ![k] = NULL]
    /\ UNCHANGED <<table, kafka, position, committed, publisherVars, workerVars>>

(* Faulty variant: the offset is committed before the record is handled.   *)
Poll_CommitsFirst(w, k) ==
    /\ pc[w] = "poll"
    /\ owner[k] = w
    /\ position[k] <= Len(log[k])
    /\ record' = [record EXCEPT ![w] =
           [partition |-> k, offset |-> position[k]]]
    /\ position' = [position EXCEPT ![k] = @ + 1]
    /\ committed' = [committed EXCEPT ![k] = position[k] + 1]
    /\ pc' = [pc EXCEPT ![w] = "handle"]
    /\ UNCHANGED <<table, kafka, owner, publisherVars, faults>>

Poll(w, k) ==
    /\ pc[w] = "poll"
    /\ owner[k] = w
    /\ position[k] <= Len(log[k])
    /\ record' = [record EXCEPT ![w] =
           [partition |-> k, offset |-> position[k]]]
    /\ position' = [position EXCEPT ![k] = @ + 1]
    /\ pc' = [pc EXCEPT ![w] = "handle"]
    /\ UNCHANGED <<table, kafka, owner, committed, publisherVars, faults>>

(* Faulty variant: a request that was decided before is rejected.          *)
Consume_RejectsDecided(location) ==
    LET r == log[location.partition][location.offset] IN
    \/ /\ r \in Runs /\ status[r] = "queued"
       /\ \/ /\ status' = [status EXCEPT ![r] = "accepted"]
             /\ UNCHANGED outbox
          \/ /\ status' = [status EXCEPT ![r] = "finished"]
             /\ outbox' = Append(outbox, Outcome(r))
       /\ UNCHANGED rejected
    \/ /\ ~(r \in Runs /\ status[r] = "queued")
       /\ rejected' = rejected \cup {location}
       /\ UNCHANGED <<status, outbox>>

(* Faulty variant: a request that was decided before gets a status that    *)
(* the table does not have.                                                *)
Consume_MarksDuplicate(location) ==
    LET r == log[location.partition][location.offset] IN
    \/ /\ r \in Runs
       /\ status' = [status EXCEPT ![r] =
              IF @ = "queued" THEN "accepted" ELSE "duplicate"]
       /\ UNCHANGED <<outbox, rejected>>
    \/ /\ r \notin Runs
       /\ rejected' = rejected \cup {location}
       /\ UNCHANGED <<status, outbox>>

(* ConsumeRequest.execute.  A run that waits is accepted or failed, one    *)
(* that was decided before is left alone, and a record that names no run   *)
(* is rejected once per location.                                          *)
Consume(location) ==
    LET r == log[location.partition][location.offset] IN
    \/ /\ r \in Runs /\ status[r] = "queued"
       /\ \/ /\ status' = [status EXCEPT ![r] = "accepted"]
             /\ UNCHANGED outbox
          \/ /\ status' = [status EXCEPT ![r] = "finished"]
             /\ outbox' = Append(outbox, Outcome(r))
       /\ UNCHANGED rejected
    \/ /\ r \in Runs /\ status[r] \in {"accepted", "finished"}
       /\ UNCHANGED <<status, outbox, rejected>>
    \/ /\ ~(r \in Runs /\ status[r] # "none")
       /\ rejected' = rejected \cup {location}
       /\ UNCHANGED <<status, outbox>>

Handle(w) ==
    /\ pc[w] = "handle"
    /\ Consume(record[w])
    /\ pc' = [pc EXCEPT ![w] = "commit"]
    /\ UNCHANGED <<published, kafka, group, publisherVars, record, faults>>

(* Faulty variant: the next record is polled by the same consumer.         *)
Restart_KeepsConsumer(w) ==
    /\ pc' = [pc EXCEPT ![w] = "poll"]
    /\ record' = [record EXCEPT ![w] = NULL]
    /\ UNCHANGED owner

(* The consumer is closed and another one is made, by this process or by   *)
(* its successor: its partitions go back to the group.                     *)
Restart(w) ==
    /\ pc' = [pc EXCEPT ![w] = "poll"]
    /\ record' = [record EXCEPT ![w] = NULL]
    /\ owner' = [k \in Partitions |-> IF owner[k] = w THEN NULL ELSE owner[k]]

(* PostgreSQL fails before the transaction commits, or the worker does not *)
(* learn that it did.                                                      *)
HandleFails(w) ==
    /\ pc[w] = "handle"
    /\ Fault("worker")
    /\ \/ Consume(record[w])
       \/ UNCHANGED <<status, outbox, rejected>>
    /\ Restart(w)
    /\ UNCHANGED <<published, kafka, position, committed, publisherVars>>

(* The synchronous commit names the offset after the record.  A worker     *)
(* that lost the partition may still be in the group, and then the broker  *)
(* takes its commit, even one that moves the offset back.                  *)
Commit(w) ==
    LET k == record[w].partition IN
    /\ pc[w] = "commit"
    /\ committed' = [committed EXCEPT ![k] = record[w].offset + 1]
    /\ pc' = [pc EXCEPT ![w] = "poll"]
    /\ record' = [record EXCEPT ![w] = NULL]
    /\ UNCHANGED <<table, kafka, owner, position, publisherVars, faults>>

(* The commit is refused or unconfirmed, or the worker crashes around it.  *)
CommitFails(w) ==
    LET k == record[w].partition IN
    /\ pc[w] = "commit"
    /\ Fault("worker")
    /\ \/ committed' = [committed EXCEPT ![k] = record[w].offset + 1]
       \/ UNCHANGED committed
    /\ Restart(w)
    /\ UNCHANGED <<table, kafka, position, publisherVars>>

-----------------------------------------------------------------------------
PublisherStep(p) ==
    \/ ClaimBatch(p) \/ CommitBatch(p)
    \/ \E i \in claimed[p] : Publish(p, i)

PublisherFault(p) ==
    BatchAborts(p) \/ \E i \in claimed[p] : PublishFails(p, i)

WorkerStep(w) == (\E k \in Partitions : Poll(w, k)) \/ Handle(w) \/ Commit(w)

Assignment(k) == \E w \in Workers : Assign(k, w)

Next ==
    \/ \E r \in Runs : Submit(r) \/ FinishRun(r)
    \/ \E p \in Publishers : PublisherStep(p) \/ PublisherFault(p)
    \/ \E i \in inflight : LateDelivery(i)
    \/ \E k \in Partitions : ForeignRecord(k) \/ Assignment(k) \/ Rebalance(k)
    \/ \E w \in Workers : WorkerStep(w) \/ HandleFails(w) \/ CommitFails(w)

Spec == Init /\ [][Next]_vars

(* Both loops go on for ever and the group assigns every partition.  No    *)
(* run has to be submitted or to end.                                      *)
Fairness ==
    /\ \A p \in Publishers : WF_vars(PublisherStep(p))
    /\ \A w \in Workers : WF_vars(WorkerStep(w))
    /\ \A k \in Partitions : WF_vars(Assignment(k))

FairSpec == Spec /\ Fairness

-----------------------------------------------------------------------------
(* Properties                                                              *)

(* Every variable keeps its type.                                          *)
TypeOK ==
    /\ status \in [Runs -> Statuses]
    /\ outbox \in Seq(Events)
    /\ published \subseteq 1..Len(outbox)
    /\ rejected \subseteq Locations
    /\ claimed \in [Publishers -> SUBSET (1..Len(outbox))]
    /\ marked \in [Publishers -> SUBSET (1..Len(outbox))]
    /\ inflight \subseteq 1..Len(outbox)
    /\ log \in [Partitions -> Seq(Records)]
    /\ announced \in [Runs -> Nat]
    /\ owner \in [Partitions -> Workers \cup {NULL}]
    /\ position \in [Partitions -> Nat \ {0}]
    /\ committed \in [Partitions -> Nat \ {0}]
    /\ pc \in [Workers -> {"poll", "handle", "commit"}]
    /\ record \in [Workers -> Locations \cup {NULL}]
    /\ faults \in [FaultKinds -> Nat]

InLog(r) == \E i \in 1..Len(log[PartitionOf[r]]) : log[PartitionOf[r]][i] = r

InKafka(e) ==
    IF e.type = "run.requested" THEN InLog(e.run) ELSE announced[e.run] > 0

(* A row is marked as published only when Kafka has its record, whatever   *)
(* timeouts, aborted batches and crashes came before: an event is sent     *)
(* twice rather than lost.                                                 *)
PublishedIsInKafka == \A i \in published : InKafka(outbox[i])

Copies(r) ==
    Cardinality({i \in 1..Len(log[PartitionOf[r]]) :
                   log[PartitionOf[r]][i] = r})

(* Publishers that run side by side do not repeat each other's work: every *)
(* further copy of a record is accounted for by a publication that failed. *)
(* A failure may leave a late copy besides the one it makes the next       *)
(* publisher send.                                                         *)
CopiesNeedFailures ==
    \A r \in Runs :
        /\ Copies(r) <= 1 + faults["publisher"]
        /\ announced[r] <= 1 + faults["publisher"]

Settled(k, i) ==
    IF log[k][i] \in Runs THEN status[log[k][i]] \in {"accepted", "finished"}
                          ELSE [partition |-> k, offset |-> i] \in rejected

(* The group never commits past a record that PostgreSQL has not settled:  *)
(* its run is decided or its rejection is stored.  So no failure, restart, *)
(* rebalance or late commit makes a request disappear.                     *)
CommittedIsSettled ==
    \A k \in Partitions : \A i \in 1..(committed[k] - 1) :
        i <= Len(log[k]) /\ Settled(k, i)

(* Nothing the publishers send is ever rejected: the run and its event are *)
(* stored together, so a request never arrives before its run.             *)
OnlyForeignRejected ==
    \A location \in rejected :
        log[location.partition][location.offset] = "foreign"

(* Every submitted run is eventually decided and every outcome reaches the *)
(* events topic, through every finite number of failures of the            *)
(* publishers, of Kafka and of the workers (publisher.run, worker.run).    *)
EveryEventArrives ==
    \A r \in Runs :
        /\ status[r] = "queued" ~> status[r] \in {"accepted", "finished"}
        /\ status[r] = "finished" ~> announced[r] > 0

Flow == INSTANCE EventFlow
    WITH phase <- status,
         stored <- {outbox[i] : i \in 1..Len(outbox)},
         arrived <- {e \in Events : InKafka(e)},
         confirmed <- {outbox[i] : i \in published}

(* Publishers and workers that fail, repeat and overtake each other        *)
(* implement EventFlow: no event is confirmed that Kafka does not have,    *)
(* nothing reaches Kafka that was not stored with its run, and every run   *)
(* is decided once, on a request that was delivered.                       *)
ImplementsFlow == Flow!FlowSpec
=============================================================================
