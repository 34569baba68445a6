--------------------------- MODULE DeliveryProofs ---------------------------
(***************************************************************************)
(* Delivery keeps what it promises for every number of runs, partitions,   *)
(* publishers, workers and failures: events are marked only once Kafka has *)
(* them, offsets are committed only past settled records, nothing the      *)
(* publishers send is rejected, and every further copy is accounted for by *)
(* a publication that failed.                                              *)
(***************************************************************************)
EXTENDS Delivery, FiniteSetTheorems, TLAPS

(* Rows and records name runs that exist.                                  *)
RowsOfRuns == \A i \in 1..Len(outbox) : status[outbox[i].run] # "none"

LogOfRuns ==
    \A k \in Partitions : \A i \in 1..Len(log[k]) :
        log[k][i] \in Runs => status[log[k][i]] # "none"

(* What an open transaction has marked was acknowledged.                   *)
MarkedIsInKafka ==
    \A p \in Publishers : \A i \in marked[p] : InKafka(outbox[i])

PublishInv ==
    RowsOfRuns /\ LogOfRuns /\ MarkedIsInKafka /\ PublishedIsInKafka

(* A worker that is not polling has a record of the log in its hands, and  *)
(* everything before that record is settled.                               *)
SettledUpTo(k, n) ==
    \A i \in 1..n : i <= Len(log[k]) /\ Settled(k, i)

HandledIsSettled ==
    \A w \in Workers :
        /\ pc[w] # "poll" =>
              /\ record[w] # NULL
              /\ record[w].offset \in 1..Len(log[record[w].partition])
              /\ SettledUpTo(record[w].partition, record[w].offset - 1)
        /\ pc[w] = "commit" =>
              Settled(record[w].partition, record[w].offset)

(* What the owner of a partition has polled is settled, but for the record *)
(* it is handling.                                                         *)
Handling(w, k, i) ==
    pc[w] = "handle" /\ record[w] = [partition |-> k, offset |-> i]

PositionIsSettled ==
    \A k \in Partitions : owner[k] # NULL =>
        \A i \in 1..(position[k] - 1) :
            i <= Len(log[k]) /\ (Settled(k, i) \/ Handling(owner[k], k, i))

RejectedInLog ==
    \A location \in rejected :
        /\ location.offset \in 1..Len(log[location.partition])
        /\ log[location.partition][location.offset] = "foreign"

ConsumeInv ==
    /\ HandledIsSettled /\ PositionIsSettled /\ CommittedIsSettled
    /\ RejectedInLog

DeliveryInv == TypeOK /\ PublishInv /\ ConsumeInv

(* What every step leaves in place.                                        *)
Grows ==
    /\ \A k \in Partitions :
        /\ Len(log[k]) <= Len(log'[k])
        /\ \A i \in 1..Len(log[k]) : log'[k][i] = log[k][i]
    /\ Len(outbox) <= Len(outbox')
    /\ \A i \in 1..Len(outbox) : outbox'[i] = outbox[i]
    /\ \A r \in Runs :
        /\ status[r] # "none" => status'[r] # "none"
        /\ status[r] \in {"accepted", "finished"} =>
              status'[r] \in {"accepted", "finished"}
        /\ announced[r] <= announced'[r]
    /\ rejected \subseteq rejected'

-----------------------------------------------------------------------------
(* The initial state is typed.                                             *)
LEMMA InitType == Init => TypeOK
BY DeliveryAssumption DEF Init, TypeOK, Statuses, Records, FaultKinds

(* The initial state satisfies the whole invariant.                        *)
LEMMA InitInv == Init => DeliveryInv
<1> SUFFICES ASSUME Init PROVE DeliveryInv
  OBVIOUS
<1>1. TypeOK
  BY InitType
<1>2. PublishInv
  BY DEF Init, PublishInv, RowsOfRuns, LogOfRuns, MarkedIsInKafka,
         PublishedIsInKafka
<1>3. ConsumeInv
  BY DEF Init, ConsumeInv, HandledIsSettled, PositionIsSettled,
         CommittedIsSettled, RejectedInLog
<1> QED
  BY <1>1, <1>2, <1>3 DEF DeliveryInv

(* An event of the outbox is an event.                                     *)
LEMMA RowType ==
  ASSUME TypeOK, NEW i \in 1..Len(outbox)
  PROVE  outbox[i] \in Events /\ outbox[i].run \in Runs
<1>1. outbox[i] \in Events
  BY DEF TypeOK
<1> QED
  BY <1>1 DEF Events

(* Counting a fault changes the counts and nothing else.                   *)
LEMMA FaultType ==
  ASSUME TypeOK, NEW kind \in FaultKinds, Fault(kind)
  PROVE  faults' \in [FaultKinds -> Nat]
BY DEF TypeOK, Fault

(* A delivery appends to the topics.                                       *)
LEMMA DeliverGrows ==
  ASSUME TypeOK, NEW e \in Events, Deliver(e)
  PROVE  /\ log' \in [Partitions -> Seq(Records)]
         /\ announced' \in [Runs -> Nat]
         /\ \A k \in Partitions :
              /\ Len(log[k]) <= Len(log'[k])
              /\ \A i \in 1..Len(log[k]) : log'[k][i] = log[k][i]
              /\ \A i \in 1..Len(log'[k]) :
                    i \notin 1..Len(log[k]) => log'[k][i] = e.run
         /\ \A r \in Runs : announced[r] <= announced'[r]
<1>1. e.run \in Runs /\ PartitionOf[e.run] \in Partitions
  BY DeliveryAssumption DEF Events
<1>2. CASE e.type = "run.requested"
  <2>1. log' = [log EXCEPT ![PartitionOf[e.run]] = Append(@, e.run)]
        /\ announced' = announced
    BY <1>2 DEF Deliver
  <2> QED
    BY <1>1, <2>1 DEF TypeOK, Records
<1>3. CASE e.type = "outcome"
  <2>1. announced' = [announced EXCEPT ![e.run] = @ + 1] /\ log' = log
    BY <1>3 DEF Deliver
  <2> QED
    BY <1>1, <2>1 DEF TypeOK
<1> QED
  BY <1>2, <1>3 DEF Events

(* After its delivery an event is in Kafka.                                *)
LEMMA DeliverArrives ==
  ASSUME TypeOK, NEW e \in Events, Deliver(e)
  PROVE  InKafka(e)'
<1>1. e.run \in Runs /\ PartitionOf[e.run] \in Partitions
  BY DeliveryAssumption DEF Events
<1>2. CASE e.type = "run.requested"
  <2>1. log' = [log EXCEPT ![PartitionOf[e.run]] = Append(@, e.run)]
    BY <1>2 DEF Deliver
  <2>2. log[PartitionOf[e.run]] \in Seq(Records) /\ e.run \in Records
    BY <1>1 DEF TypeOK, Records
  <2>3. log'[PartitionOf[e.run]] = Append(log[PartitionOf[e.run]], e.run)
    BY <1>1, <2>1 DEF TypeOK
  <2>4. /\ Len(log'[PartitionOf[e.run]]) \in
             1..Len(log'[PartitionOf[e.run]])
        /\ log'[PartitionOf[e.run]][Len(log'[PartitionOf[e.run]])] = e.run
    BY <2>2, <2>3
  <2> QED
    BY <1>2, <2>4 DEF InKafka, InLog
<1>3. CASE e.type = "outcome"
  BY <1>1, <1>3 DEF Deliver, InKafka, TypeOK
<1> QED
  BY <1>2, <1>3 DEF Events

(* What ConsumeRequest may do to the tables.                               *)
LEMMA ConsumeGrows ==
  ASSUME TypeOK, NEW location \in Locations, Consume(location)
  PROVE  /\ status' \in [Runs -> Statuses]
         /\ outbox' \in Seq(Events)
         /\ rejected' \subseteq Locations /\ rejected \subseteq rejected'
         /\ Len(outbox) <= Len(outbox')
         /\ \A i \in 1..Len(outbox) : outbox'[i] = outbox[i]
         /\ \A r \in Runs :
              /\ status[r] # "none" => status'[r] # "none"
              /\ status[r] \in {"accepted", "finished"} =>
                    status'[r] \in {"accepted", "finished"}
<1> DEFINE r == log[location.partition][location.offset]
<1>1. CASE r \in Runs /\ status[r] = "queued" /\ rejected' = rejected
           /\ status' = [status EXCEPT ![r] = "accepted"] /\ outbox' = outbox
  BY <1>1 DEF TypeOK, Statuses
<1>2. CASE r \in Runs /\ status[r] = "queued" /\ rejected' = rejected
           /\ status' = [status EXCEPT ![r] = "finished"]
           /\ outbox' = Append(outbox, Outcome(r))
  <2>1. Outcome(r) \in Events
    BY <1>2 DEF Outcome, Events
  <2>2. outbox \in Seq(Events)
    BY DEF TypeOK
  <2>3. /\ outbox' \in Seq(Events) /\ Len(outbox) <= Len(outbox')
        /\ \A i \in 1..Len(outbox) : outbox'[i] = outbox[i]
    BY <1>2, <2>1, <2>2
  <2> QED
    BY <1>2, <2>3 DEF TypeOK, Statuses
<1>3. CASE UNCHANGED <<status, outbox, rejected>>
  BY <1>3 DEF TypeOK
<1>4. CASE rejected' = rejected \cup {location} /\ UNCHANGED <<status, outbox>>
  BY <1>4 DEF TypeOK
<1> QED
  BY <1>1, <1>2, <1>3, <1>4 DEF Consume

(* Storing an event for a run extends the outbox.                          *)
LEMMA AppendRow ==
  ASSUME TypeOK, NEW e \in Events, outbox' = Append(outbox, e)
  PROVE  /\ outbox' \in Seq(Events)
         /\ Len(outbox') = Len(outbox) + 1
         /\ \A i \in 1..Len(outbox) : outbox'[i] = outbox[i]
         /\ outbox'[Len(outbox) + 1] = e
BY DEF TypeOK

(* The record a worker handles lies in a partition of the topic.           *)
LEMMA RecordType ==
  ASSUME DeliveryInv, NEW w \in Workers, pc[w] # "poll"
  PROVE  /\ record[w] \in Locations
         /\ record[w].partition \in Partitions
         /\ record[w].offset \in 1..Len(log[record[w].partition])
<1>1. record[w] \in Locations \cup {NULL} /\ record[w] # NULL
      /\ record[w].offset \in 1..Len(log[record[w].partition])
  BY DEF DeliveryInv, ConsumeInv, HandledIsSettled, TypeOK
<1> QED
  BY <1>1 DEF Locations

(* Every step leaves rows, records, decisions and rejections in place.     *)
LEMMA NextGrows ==
  ASSUME DeliveryInv, Next
  PROVE  Grows
<1> USE DEF DeliveryInv
<1>1. ASSUME NEW r \in Runs, Submit(r) \/ FinishRun(r) PROVE Grows
  <2>1. Request(r) \in Events /\ Outcome(r) \in Events
    BY DEF Request, Outcome, Events
  <2> QED
    BY <1>1, <2>1, AppendRow DEF Submit, FinishRun, Grows, kafka, TypeOK
<1>2. ASSUME NEW p \in Publishers, PublisherStep(p) PROVE Grows
  <2>1. CASE ClaimBatch(p)
    BY <2>1 DEF ClaimBatch, Grows, table, kafka, TypeOK
  <2>2. CASE CommitBatch(p)
    BY <2>2 DEF CommitBatch, Grows, kafka, TypeOK
  <2>3. ASSUME NEW i \in claimed[p], Publish(p, i) PROVE Grows
    <3>1. outbox[i] \in Events
      BY RowType DEF TypeOK
    <3> QED
      BY <2>3, <3>1, DeliverGrows DEF Publish, Grows, table, TypeOK
  <2> QED
    BY <1>2, <2>1, <2>2, <2>3 DEF PublisherStep
<1>3. ASSUME NEW p \in Publishers, PublisherFault(p) PROVE Grows
  <2>1. CASE BatchAborts(p)
    BY <2>1 DEF BatchAborts, Grows, table, kafka, TypeOK
  <2>2. ASSUME NEW i \in claimed[p], PublishFails(p, i) PROVE Grows
    <3>1. outbox[i] \in Events
      BY RowType DEF TypeOK
    <3>2. CASE Deliver(outbox[i])
      BY <2>2, <3>1, <3>2, DeliverGrows DEF PublishFails, Grows, table, TypeOK
    <3>3. CASE UNCHANGED <<log, announced>>
      BY <2>2, <3>3 DEF PublishFails, Grows, table, TypeOK
    <3> QED
      BY <2>2, <3>2, <3>3 DEF PublishFails, kafka
  <2> QED
    BY <1>3, <2>1, <2>2 DEF PublisherFault
<1>4. ASSUME NEW i \in inflight, LateDelivery(i) PROVE Grows
  <2>1. outbox[i] \in Events
    BY RowType DEF TypeOK
  <2>2. CASE Deliver(outbox[i])
    BY <1>4, <2>1, <2>2, DeliverGrows DEF LateDelivery, Grows, table, TypeOK
  <2>3. CASE UNCHANGED <<log, announced>>
    BY <1>4, <2>3 DEF LateDelivery, Grows, table, TypeOK
  <2> QED
    BY <1>4, <2>2, <2>3 DEF LateDelivery
<1>5. ASSUME NEW k \in Partitions, ForeignRecord(k) PROVE Grows
  BY <1>5 DEF ForeignRecord, Grows, table, TypeOK, Records
<1>6. ASSUME NEW k \in Partitions, Assignment(k) \/ Rebalance(k) PROVE Grows
  BY <1>6 DEF Assignment, Assign, Rebalance, Grows, table, kafka, TypeOK
<1>7. ASSUME NEW w \in Workers, WorkerStep(w) PROVE Grows
  <2>1. CASE Handle(w)
    <3>1. record[w] \in Locations
      BY <2>1, RecordType DEF Handle
    <3> QED
      BY <2>1, <3>1, ConsumeGrows DEF Handle, Grows, kafka, TypeOK
  <2>2. CASE Commit(w) \/ \E k \in Partitions : Poll(w, k)
    BY <2>2 DEF Commit, Poll, Grows, table, kafka, TypeOK
  <2> QED
    BY <1>7, <2>1, <2>2 DEF WorkerStep
<1>8. ASSUME NEW w \in Workers, HandleFails(w) \/ CommitFails(w) PROVE Grows
  <2>1. CASE HandleFails(w)
    <3>1. record[w] \in Locations
      BY <2>1, RecordType DEF HandleFails
    <3>2. CASE Consume(record[w])
      BY <2>1, <3>1, <3>2, ConsumeGrows DEF HandleFails, Grows, kafka, TypeOK
    <3>3. CASE UNCHANGED <<status, outbox, rejected>>
      BY <2>1, <3>3 DEF HandleFails, Grows, kafka, TypeOK
    <3> QED
      BY <2>1, <3>2, <3>3 DEF HandleFails
  <2>2. CASE CommitFails(w)
    BY <2>2 DEF CommitFails, Grows, table, kafka, TypeOK
  <2> QED
    BY <1>8, <2>1, <2>2
<1> QED
  BY <1>1, <1>2, <1>3, <1>4, <1>5, <1>6, <1>7, <1>8 DEF Next

-----------------------------------------------------------------------------
(* Every step keeps the types.                                             *)
LEMMA TypeStep ==
  ASSUME DeliveryInv, Next
  PROVE  TypeOK'
<1> USE DEF DeliveryInv
<1>1. ASSUME NEW r \in Runs, Submit(r) \/ FinishRun(r) PROVE TypeOK'
  <2>1. Request(r) \in Events /\ Outcome(r) \in Events
    BY DEF Request, Outcome, Events
  <2>2. outbox' \in Seq(Events) /\ Len(outbox') = Len(outbox) + 1
    BY <1>1, <2>1, AppendRow DEF Submit, FinishRun
  <2>3. status' \in [Runs -> Statuses]
    BY <1>1 DEF Submit, FinishRun, TypeOK, Statuses
  <2>4. 1..Len(outbox) \subseteq 1..Len(outbox')
    BY <2>2 DEF TypeOK
  <2>5. UNCHANGED <<published, rejected, kafka, group, publisherVars,
                    workerVars, faults>>
    BY <1>1 DEF Submit, FinishRun
  <2> QED
    BY <2>2, <2>3, <2>4, <2>5
    DEF TypeOK, kafka, group, publisherVars, workerVars
<1>2. ASSUME NEW p \in Publishers, PublisherStep(p) PROVE TypeOK'
  <2>1. CASE ClaimBatch(p)
    BY <2>1 DEF ClaimBatch, Unpublished, TypeOK, table, kafka, group,
                workerVars
  <2>2. CASE CommitBatch(p)
    BY <2>2 DEF CommitBatch, CloseBatch, TypeOK, kafka, group, workerVars
  <2>3. ASSUME NEW i \in claimed[p], Publish(p, i) PROVE TypeOK'
    <3>1. outbox[i] \in Events /\ i \in 1..Len(outbox)
      BY RowType DEF TypeOK
    <3>2. log' \in [Partitions -> Seq(Records)] /\ announced' \in [Runs -> Nat]
      BY <2>3, <3>1, DeliverGrows DEF Publish
    <3> QED
      BY <2>3, <3>1, <3>2 DEF Publish, TypeOK, table, group, workerVars
  <2> QED
    BY <1>2, <2>1, <2>2, <2>3 DEF PublisherStep
<1>3. ASSUME NEW p \in Publishers, PublisherFault(p) PROVE TypeOK'
  <2>0. "publisher" \in FaultKinds
    BY DEF FaultKinds
  <2>1. CASE BatchAborts(p)
    <3>1. faults' \in [FaultKinds -> Nat]
      BY <2>0, <2>1, FaultType DEF BatchAborts
    <3> QED
      BY <2>1, <3>1 DEF BatchAborts, CloseBatch, TypeOK, table, kafka, group,
                        workerVars
  <2>2. ASSUME NEW i \in claimed[p], PublishFails(p, i) PROVE TypeOK'
    <3>1. outbox[i] \in Events /\ i \in 1..Len(outbox)
      BY RowType DEF TypeOK
    <3>2. /\ log' \in [Partitions -> Seq(Records)]
          /\ announced' \in [Runs -> Nat]
          /\ inflight' \subseteq 1..Len(outbox)
      <4>1. CASE Deliver(outbox[i]) /\ UNCHANGED inflight
        BY <3>1, <4>1, DeliverGrows DEF TypeOK
      <4>2. CASE UNCHANGED kafka
        BY <4>2 DEF kafka, TypeOK
      <4>3. CASE inflight' = inflight \cup {i} /\ UNCHANGED <<log, announced>>
        BY <3>1, <4>3 DEF TypeOK
      <4> QED
        BY <2>2, <4>1, <4>2, <4>3 DEF PublishFails
    <3>3. faults' \in [FaultKinds -> Nat]
      BY <2>0, <2>2, FaultType DEF PublishFails
    <3> QED
      BY <2>2, <3>2, <3>3
      DEF PublishFails, CloseBatch, TypeOK, table, group, workerVars
  <2> QED
    BY <1>3, <2>1, <2>2 DEF PublisherFault
<1>4. ASSUME NEW i \in inflight, LateDelivery(i) PROVE TypeOK'
  <2>1. outbox[i] \in Events
    BY RowType DEF TypeOK
  <2>2. log' \in [Partitions -> Seq(Records)] /\ announced' \in [Runs -> Nat]
    <3>1. CASE Deliver(outbox[i])
      BY <2>1, <3>1, DeliverGrows
    <3>2. CASE UNCHANGED <<log, announced>>
      BY <3>2 DEF TypeOK
    <3> QED
      BY <1>4, <3>1, <3>2 DEF LateDelivery
  <2> QED
    BY <1>4, <2>2
    DEF LateDelivery, TypeOK, table, group, publisherVars, workerVars
<1>5. ASSUME NEW k \in Partitions, ForeignRecord(k) PROVE TypeOK'
  <2>1. faults' \in [FaultKinds -> Nat]
    BY <1>5, FaultType DEF ForeignRecord, FaultKinds
  <2>2. log' \in [Partitions -> Seq(Records)]
    BY <1>5 DEF ForeignRecord, TypeOK, Records
  <2> QED
    BY <1>5, <2>1, <2>2
    DEF ForeignRecord, TypeOK, table, group, publisherVars, workerVars
<1>6. ASSUME NEW k \in Partitions, Assignment(k) \/ Rebalance(k) PROVE TypeOK'
  <2>1. CASE Assignment(k)
    BY <2>1 DEF Assignment, Assign, TypeOK, table, kafka, publisherVars,
                workerVars
  <2>2. CASE Rebalance(k)
    <3>1. faults' \in [FaultKinds -> Nat]
      BY <2>2, FaultType DEF Rebalance, FaultKinds
    <3> QED
      BY <2>2, <3>1 DEF Rebalance, TypeOK, table, kafka, publisherVars,
                        workerVars
  <2> QED
    BY <1>6, <2>1, <2>2
<1>7. ASSUME NEW w \in Workers, WorkerStep(w) PROVE TypeOK'
  <2>1. CASE Handle(w)
    <3>1. record[w] \in Locations
      BY <2>1, RecordType DEF Handle
    <3>2. /\ status' \in [Runs -> Statuses] /\ outbox' \in Seq(Events)
          /\ rejected' \subseteq Locations /\ Len(outbox) <= Len(outbox')
      BY <2>1, <3>1, ConsumeGrows DEF Handle
    <3>3. 1..Len(outbox) \subseteq 1..Len(outbox')
      BY <3>2 DEF TypeOK
    <3>4. /\ pc' = [pc EXCEPT ![w] = "commit"]
          /\ UNCHANGED <<published, kafka, group, publisherVars, record, faults>>
      BY <2>1 DEF Handle
    <3> QED
      BY <3>2, <3>3, <3>4 DEF TypeOK, kafka, group, publisherVars
  <2>2. CASE Commit(w)
    <3>1. /\ record[w] \in Locations /\ record[w].partition \in Partitions
          /\ record[w].offset \in Nat
      BY <2>2, RecordType DEF Commit, Locations
    <3> QED
      BY <2>2, <3>1 DEF Commit, TypeOK, table, kafka, publisherVars
  <2>3. ASSUME NEW k \in Partitions, Poll(w, k) PROVE TypeOK'
    <3>1. [partition |-> k, offset |-> position[k]] \in Locations
      BY DEF Locations, TypeOK
    <3> QED
      BY <2>3, <3>1 DEF Poll, TypeOK, table, kafka, publisherVars
  <2> QED
    BY <1>7, <2>1, <2>2, <2>3 DEF WorkerStep
<1>8. ASSUME NEW w \in Workers, HandleFails(w) \/ CommitFails(w) PROVE TypeOK'
  <2>0. /\ Restart(w) /\ pc[w] # "poll" /\ faults' \in [FaultKinds -> Nat]
        /\ UNCHANGED <<published, kafka, position, publisherVars>>
    BY <1>8, FaultType DEF HandleFails, CommitFails, FaultKinds, table
  <2>1. /\ record[w] \in Locations /\ record[w].partition \in Partitions
        /\ record[w].offset \in Nat
    BY <2>0, RecordType DEF Locations
  <2>2. /\ pc' \in [Workers -> {"poll", "handle", "commit"}]
        /\ record' \in [Workers -> Locations \cup {NULL}]
        /\ owner' \in [Partitions -> Workers \cup {NULL}]
    BY <2>0 DEF Restart, TypeOK
  <2>3. /\ status' \in [Runs -> Statuses] /\ outbox' \in Seq(Events)
        /\ rejected' \subseteq Locations /\ Len(outbox) <= Len(outbox')
        /\ committed' \in [Partitions -> Nat \ {0}]
    <3>1. CASE HandleFails(w)
      <4>1. committed' = committed
        BY <3>1 DEF HandleFails
      <4>2. CASE Consume(record[w])
        BY <2>1, <4>1, <4>2, ConsumeGrows DEF TypeOK
      <4>3. CASE UNCHANGED <<status, outbox, rejected>>
        BY <4>1, <4>3 DEF TypeOK
      <4> QED
        BY <3>1, <4>2, <4>3 DEF HandleFails
    <3>2. CASE CommitFails(w)
      <4>1. UNCHANGED <<status, outbox, rejected>>
        BY <3>2 DEF CommitFails, table
      <4>2. committed' \in [Partitions -> Nat \ {0}]
        <5>1. \/ committed' = committed
              \/ committed' = [committed EXCEPT ![record[w].partition] =
                                  record[w].offset + 1]
          BY <3>2 DEF CommitFails
        <5>2. committed \in [Partitions -> Nat \ {0}]
          BY DEF TypeOK
        <5> QED
          BY <2>1, <5>1, <5>2
      <4>3. /\ status \in [Runs -> Statuses] /\ outbox \in Seq(Events)
            /\ rejected \subseteq Locations /\ Len(outbox) \in Nat
        BY DEF TypeOK
      <4> QED
        BY <4>1, <4>2, <4>3
    <3> QED
      BY <1>8, <3>1, <3>2
  <2>4. 1..Len(outbox) \subseteq 1..Len(outbox')
    BY <2>3 DEF TypeOK
  <2> QED
    BY <2>0, <2>2, <2>3, <2>4 DEF TypeOK, kafka, publisherVars
<1> QED
  BY <1>1, <1>2, <1>3, <1>4, <1>5, <1>6, <1>7, <1>8 DEF Next

-----------------------------------------------------------------------------
(* Publication                                                             *)

(* What is in Kafka stays there.                                           *)
LEMMA KafkaKept ==
  ASSUME TypeOK, Grows, NEW e \in Events, InKafka(e), TypeOK'
  PROVE  InKafka(e)'
<1>1. e.run \in Runs /\ PartitionOf[e.run] \in Partitions
  BY DeliveryAssumption DEF Events
<1>2. CASE e.type = "run.requested"
  <2>1. PICK i \in 1..Len(log[PartitionOf[e.run]]) :
              log[PartitionOf[e.run]][i] = e.run
    BY <1>2 DEF InKafka, InLog
  <2>2. /\ i \in 1..Len(log'[PartitionOf[e.run]])
        /\ log'[PartitionOf[e.run]][i] = e.run
    BY <1>1, <2>1 DEF Grows, TypeOK
  <2> QED
    BY <1>2, <2>2 DEF InKafka, InLog
<1>3. CASE e.type # "run.requested"
  BY <1>1, <1>3 DEF InKafka, Grows, TypeOK
<1> QED
  BY <1>2, <1>3

(* A step that leaves the log alone and stores no event keeps rows and     *)
(* records attached to runs.                                               *)
LEMMA RunsKept ==
  ASSUME TypeOK, Grows, RowsOfRuns, LogOfRuns, UNCHANGED <<outbox, log>>
  PROVE  RowsOfRuns' /\ LogOfRuns'
<1>1. \A i \in 1..Len(outbox) : outbox[i].run \in Runs
  BY RowType
<1> QED
  BY <1>1 DEF RowsOfRuns, LogOfRuns, Grows

(* A delivery puts a record of an existing run into the log.               *)
LEMMA DeliverKeepsRuns ==
  ASSUME TypeOK, RowsOfRuns, LogOfRuns, NEW i \in 1..Len(outbox),
         Deliver(outbox[i]), UNCHANGED <<status, outbox>>
  PROVE  RowsOfRuns' /\ LogOfRuns'
<1>1. outbox[i] \in Events /\ status[outbox[i].run] # "none"
  BY RowType DEF RowsOfRuns
<1>2. \A k \in Partitions :
        /\ \A j \in 1..Len(log[k]) : log'[k][j] = log[k][j]
        /\ \A j \in 1..Len(log'[k]) :
              j \notin 1..Len(log[k]) => log'[k][j] = outbox[i].run
  BY <1>1, DeliverGrows
<1> QED
  BY <1>1, <1>2 DEF RowsOfRuns, LogOfRuns

(* An event that is stored for an existing run keeps rows attached.        *)
LEMMA AppendKeepsRuns ==
  ASSUME TypeOK, Grows, RowsOfRuns, LogOfRuns, log' = log,
         NEW e \in Events, outbox' = Append(outbox, e), status'[e.run] # "none"
  PROVE  RowsOfRuns' /\ LogOfRuns'
<1>1. /\ Len(outbox') = Len(outbox) + 1
      /\ \A i \in 1..Len(outbox) : outbox'[i] = outbox[i]
      /\ outbox'[Len(outbox) + 1] = e
  BY AppendRow
<1>2. \A i \in 1..Len(outbox) : outbox[i].run \in Runs
  BY RowType
<1>3. Len(outbox) \in Nat
  BY DEF TypeOK
<1>4. ASSUME NEW i \in 1..Len(outbox') PROVE status'[outbox'[i].run] # "none"
  <2>1. CASE i \in 1..Len(outbox)
    BY <1>1, <1>2, <2>1 DEF RowsOfRuns, Grows
  <2>2. CASE i = Len(outbox) + 1
    BY <1>1, <2>2
  <2> QED
    BY <1>1, <1>3, <2>1, <2>2
<1> QED
  BY <1>4 DEF RowsOfRuns, LogOfRuns, Grows

(* Consumption decides runs that exist.                                    *)
LEMMA ConsumeKeepsRuns ==
  ASSUME TypeOK, Grows, RowsOfRuns, LogOfRuns, log' = log,
         NEW location \in Locations, Consume(location)
  PROVE  RowsOfRuns' /\ LogOfRuns'
<1> DEFINE r == log[location.partition][location.offset]
<1>1. CASE outbox' = outbox
  BY <1>1, RunsKept
<1>2. CASE /\ r \in Runs /\ outbox' = Append(outbox, Outcome(r))
           /\ status' = [status EXCEPT ![r] = "finished"]
  <2>1. Outcome(r) \in Events /\ Outcome(r).run = r
    BY <1>2 DEF Outcome, Events
  <2>2. status'[r] = "finished"
    BY <1>2 DEF TypeOK
  <2> QED
    BY <1>2, <2>1, <2>2, AppendKeepsRuns
<1> QED
  BY <1>1, <1>2 DEF Consume

(* Rows and records name existing runs after every step.                   *)
LEMMA RunsStep ==
  ASSUME DeliveryInv, Next
  PROVE  RowsOfRuns' /\ LogOfRuns'
<1> USE DEF DeliveryInv, PublishInv
<1>0. Grows
  BY NextGrows
<1>1. ASSUME NEW r \in Runs, Submit(r) \/ FinishRun(r)
      PROVE  RowsOfRuns' /\ LogOfRuns'
  <2>1. /\ Request(r) \in Events /\ Request(r).run = r
        /\ Outcome(r) \in Events /\ Outcome(r).run = r
    BY DEF Request, Outcome, Events
  <2>2. status'[r] # "none" /\ log' = log
    BY <1>1 DEF Submit, FinishRun, TypeOK, kafka
  <2> QED
    BY <1>0, <1>1, <2>1, <2>2, AppendKeepsRuns DEF Submit, FinishRun
<1>2. ASSUME NEW p \in Publishers, PublisherStep(p) \/ PublisherFault(p)
      PROVE  RowsOfRuns' /\ LogOfRuns'
  <2>1. CASE UNCHANGED <<outbox, log>>
    BY <1>0, <2>1, RunsKept
  <2>2. ASSUME NEW i \in claimed[p], Deliver(outbox[i]), UNCHANGED <<status, outbox>>
        PROVE  RowsOfRuns' /\ LogOfRuns'
    BY <2>2, DeliverKeepsRuns DEF TypeOK
  <2> QED
    BY <1>2, <2>1, <2>2 DEF PublisherStep, PublisherFault, ClaimBatch,
       CommitBatch, Publish, BatchAborts, PublishFails, table, kafka
<1>3. ASSUME NEW i \in inflight, LateDelivery(i)
      PROVE  RowsOfRuns' /\ LogOfRuns'
  <2>1. CASE Deliver(outbox[i])
    BY <1>3, <2>1, DeliverKeepsRuns DEF TypeOK, LateDelivery, table
  <2>2. CASE UNCHANGED <<log, announced>>
    BY <1>0, <1>3, <2>2, RunsKept DEF LateDelivery, table
  <2> QED
    BY <1>3, <2>1, <2>2 DEF LateDelivery
<1>4. ASSUME NEW k \in Partitions, ForeignRecord(k)
      PROVE  RowsOfRuns' /\ LogOfRuns'
  <2>1. /\ log' = [log EXCEPT ![k] = Append(@, "foreign")]
        /\ UNCHANGED <<status, outbox>>
    BY <1>4 DEF ForeignRecord, table
  <2>2. \A j \in Partitions : log[j] \in Seq(Records)
    BY DEF TypeOK
  <2>3. \A j \in Partitions : \A i \in 1..Len(log'[j]) :
          \/ i \in 1..Len(log[j]) /\ log'[j][i] = log[j][i]
          \/ log'[j][i] = "foreign"
    BY <2>1, <2>2 DEF TypeOK, Records
  <2> QED
    BY <2>1, <2>3, DeliveryAssumption DEF RowsOfRuns, LogOfRuns
<1>5. ASSUME NEW k \in Partitions, Assignment(k) \/ Rebalance(k)
      PROVE  RowsOfRuns' /\ LogOfRuns'
  BY <1>0, <1>5, RunsKept DEF Assignment, Assign, Rebalance, table, kafka
<1>6. ASSUME NEW w \in Workers,
             WorkerStep(w) \/ HandleFails(w) \/ CommitFails(w)
      PROVE  RowsOfRuns' /\ LogOfRuns'
  <2>1. CASE UNCHANGED <<outbox, log>>
    BY <1>0, <2>1, RunsKept
  <2>2. CASE pc[w] # "poll" /\ log' = log /\ Consume(record[w])
    BY <1>0, <2>2, RecordType, ConsumeKeepsRuns
  <2> QED
    BY <1>6, <2>1, <2>2 DEF WorkerStep, Poll, Handle, Commit, HandleFails,
       CommitFails, table, kafka
<1> QED
  BY <1>1, <1>2, <1>3, <1>4, <1>5, <1>6 DEF Next

(* Rows that were sent count as sent after every step that marks no more.  *)
LEMMA SentKept ==
  ASSUME DeliveryInv, Grows, TypeOK', NEW S \in SUBSET (1..Len(outbox)),
         \A i \in S : InKafka(outbox[i])
  PROVE  \A i \in S : InKafka(outbox[i])'
<1> SUFFICES ASSUME NEW i \in S PROVE InKafka(outbox[i])'
  OBVIOUS
<1>1. PICK e \in Events : e = outbox[i]
  BY RowType DEF DeliveryInv
<1>2. InKafka(e)
  BY <1>1
<1>3. InKafka(e)'
  BY <1>2, KafkaKept DEF DeliveryInv
<1>4. outbox'[i] = e
  BY <1>1 DEF Grows
<1> QED
  BY <1>3, <1>4 DEF InKafka, InLog

(* What is marked, in a transaction or for good, is in Kafka after every   *)
(* step.                                                                   *)
LEMMA SentStep ==
  ASSUME DeliveryInv, Next
  PROVE  MarkedIsInKafka' /\ PublishedIsInKafka'
<1> USE DEF DeliveryInv, PublishInv
<1>0. Grows /\ TypeOK'
  BY NextGrows, TypeStep
<1>1. published \in SUBSET (1..Len(outbox))
      /\ \A p \in Publishers : marked[p] \in SUBSET (1..Len(outbox))
  BY DEF TypeOK
<1>2. /\ \A i \in published : InKafka(outbox[i])'
      /\ \A p \in Publishers : \A i \in marked[p] : InKafka(outbox[i])'
  BY <1>0, <1>1, SentKept DEF MarkedIsInKafka, PublishedIsInKafka
<1>3. CASE UNCHANGED <<published, marked>>
  BY <1>2, <1>3 DEF MarkedIsInKafka, PublishedIsInKafka
<1>4. ASSUME NEW p \in Publishers, CommitBatch(p)
      PROVE  MarkedIsInKafka' /\ PublishedIsInKafka'
  <2>1. /\ published' = published \cup marked[p]
        /\ marked' = [marked EXCEPT ![p] = {}]
    BY <1>4 DEF CommitBatch, CloseBatch
  <2> QED
    BY <1>2, <2>1 DEF MarkedIsInKafka, PublishedIsInKafka, TypeOK
<1>5. ASSUME NEW p \in Publishers, PublisherFault(p)
      PROVE  MarkedIsInKafka' /\ PublishedIsInKafka'
  <2>1. published' = published /\ marked' = [marked EXCEPT ![p] = {}]
    BY <1>5 DEF PublisherFault, BatchAborts, PublishFails, CloseBatch, table
  <2> QED
    BY <1>2, <2>1 DEF MarkedIsInKafka, PublishedIsInKafka, TypeOK
<1>6. ASSUME NEW p \in Publishers, NEW i \in claimed[p], Publish(p, i)
      PROVE  MarkedIsInKafka' /\ PublishedIsInKafka'
  <2>1. /\ published' = published /\ outbox' = outbox
        /\ marked' = [marked EXCEPT ![p] = @ \cup {i}]
    BY <1>6 DEF Publish, table
  <2>2. PICK e \in Events : e = outbox[i]
    BY RowType DEF TypeOK
  <2>3. InKafka(e)'
    BY <1>6, <2>2, DeliverArrives DEF Publish
  <2>4. InKafka(outbox[i])'
    BY <2>1, <2>2, <2>3 DEF InKafka, InLog
  <2> QED
    BY <1>2, <2>1, <2>4 DEF MarkedIsInKafka, PublishedIsInKafka, TypeOK
<1>7. ASSUME NEW p \in Publishers, PublisherStep(p)
      PROVE  MarkedIsInKafka' /\ PublishedIsInKafka'
  <2>1. CASE ClaimBatch(p)
    BY <1>3, <2>1 DEF ClaimBatch, table
  <2> QED
    BY <1>4, <1>6, <1>7, <2>1 DEF PublisherStep
<1>8. CASE \/ \E r \in Runs : Submit(r) \/ FinishRun(r)
           \/ \E i \in inflight : LateDelivery(i)
           \/ \E k \in Partitions :
                ForeignRecord(k) \/ Assignment(k) \/ Rebalance(k)
           \/ \E w \in Workers :
                WorkerStep(w) \/ HandleFails(w) \/ CommitFails(w)
  <2>1. UNCHANGED <<published, marked>>
    BY <1>8 DEF Submit, FinishRun, LateDelivery, ForeignRecord, Assignment,
       Assign, Rebalance, WorkerStep, Poll, Handle, Commit, HandleFails,
       CommitFails, table, publisherVars
  <2> QED
    BY <1>3, <2>1
<1> QED
  BY <1>5, <1>7, <1>8 DEF Next

-----------------------------------------------------------------------------
(* Consumption                                                             *)

(* A settled record stays settled.                                         *)
LEMMA SettledKept ==
  ASSUME TypeOK, Grows, NEW k \in Partitions, NEW i \in 1..Len(log[k]),
         Settled(k, i)
  PROVE  Settled(k, i)'
<1>1. log'[k][i] = log[k][i]
  BY DEF Grows
<1> QED
  BY <1>1 DEF Settled, Grows

(* So does a settled prefix.                                               *)
LEMMA PrefixKept ==
  ASSUME TypeOK, TypeOK', Grows, NEW k \in Partitions, NEW n \in Int,
         SettledUpTo(k, n)
  PROVE  SettledUpTo(k, n)'
<1> SUFFICES ASSUME NEW i \in 1..n PROVE (i <= Len(log[k]) /\ Settled(k, i))'
  BY DEF SettledUpTo
<1>1. i \in 1..Len(log[k]) /\ Settled(k, i) /\ Len(log[k]) \in Nat
      /\ Len(log'[k]) \in Nat
  BY DEF SettledUpTo, TypeOK
<1>2. Settled(k, i)'
  BY <1>1, SettledKept
<1> QED
  BY <1>1, <1>2 DEF Grows

(* A step that rejects nothing keeps rejections attached to the log.       *)
LEMMA RejectedKept ==
  ASSUME TypeOK, TypeOK', Grows, RejectedInLog, rejected' = rejected
  PROVE  RejectedInLog'
<1> SUFFICES ASSUME NEW location \in rejected
    PROVE (/\ location.offset \in 1..Len(log[location.partition])
           /\ log[location.partition][location.offset] = "foreign")'
  BY DEF RejectedInLog
<1>1. location \in Locations
  BY DEF TypeOK
<1>2. location.partition \in Partitions
  BY <1>1 DEF Locations
<1>3. Len(log[location.partition]) \in Nat /\ Len(log'[location.partition]) \in Nat
  BY <1>2 DEF TypeOK
<1> QED
  BY <1>2, <1>3 DEF RejectedInLog, Grows

(* A worker whose locals do not change keeps its part of the invariant.    *)
LEMMA WorkerKept ==
  ASSUME DeliveryInv, TypeOK', Grows, NEW w \in Workers,
         pc'[w] = pc[w], record'[w] = record[w], pc[w] # "poll"
  PROVE  /\ record'[w] # NULL
         /\ record'[w].offset \in 1..Len(log'[record'[w].partition])
         /\ SettledUpTo(record[w].partition, record[w].offset - 1)'
         /\ pc[w] = "commit" => Settled(record[w].partition, record[w].offset)'
<1>1. /\ record[w] # NULL /\ record[w] \in Locations
      /\ record[w].partition \in Partitions
      /\ record[w].offset \in 1..Len(log[record[w].partition])
      /\ SettledUpTo(record[w].partition, record[w].offset - 1)
      /\ pc[w] = "commit" => Settled(record[w].partition, record[w].offset)
  BY RecordType DEF DeliveryInv, ConsumeInv, HandledIsSettled
<1>2. PICK k \in Partitions, o \in Nat :
        k = record[w].partition /\ o = record[w].offset
  BY <1>1
<1>3. SettledUpTo(k, o - 1)'
  BY <1>1, <1>2, PrefixKept DEF DeliveryInv
<1>4. pc[w] = "commit" => Settled(k, o)'
  BY <1>1, <1>2, SettledKept DEF DeliveryInv
<1>5. Len(log[k]) \in Nat /\ Len(log'[k]) \in Nat /\ Len(log[k]) <= Len(log'[k])
  BY DEF DeliveryInv, TypeOK, Grows
<1> QED
  BY <1>1, <1>2, <1>3, <1>4, <1>5 DEF SettledUpTo, Settled

(* ConsumeRequest settles the record it is given, and rejects it only if   *)
(* it names no run.                                                        *)
LEMMA ConsumeSettles ==
  ASSUME DeliveryInv, TypeOK', Grows, NEW k \in Partitions,
         NEW o \in 1..Len(log[k]), NEW location \in Locations,
         location.partition = k, location.offset = o,
         location = [partition |-> k, offset |-> o],
         Consume(location), log' = log
  PROVE  Settled(k, o)' /\ RejectedInLog'
<1> USE DEF DeliveryInv, PublishInv, ConsumeInv
<1> DEFINE r == log[k][o]
<1>0. r \in Records /\ (r \in Runs => status[r] # "none")
  BY DEF LogOfRuns, TypeOK
<1>1. CASE r \in Runs
  <2>1. rejected' = rejected /\ status'[r] \in {"accepted", "finished"}
    BY <1>0, <1>1 DEF Consume, TypeOK
  <2> QED
    BY <1>1, <2>1, RejectedKept DEF Settled
<1>2. CASE r \notin Runs
  <2>1. rejected' = rejected \cup {location} /\ r = "foreign"
    BY <1>0, <1>2 DEF Consume, Records
  <2>2. Settled(k, o)'
    BY <1>2, <2>1 DEF Settled
  <2>3. RejectedInLog'
    BY <2>1 DEF RejectedInLog
  <2> QED
    BY <2>2, <2>3
<1> QED
  BY <1>1, <1>2

(* The record in the hands of a worker, as constants of a step.            *)
LEMMA RecordParts ==
  ASSUME DeliveryInv, NEW w \in Workers, pc[w] # "poll"
  PROVE  \E k \in Partitions, o \in Nat :
            /\ o \in 1..Len(log[k])
            /\ record[w] = [partition |-> k, offset |-> o]
            /\ record[w].partition = k /\ record[w].offset = o
            /\ record[w] \in Locations
BY RecordType DEF Locations

(* Only foreign records are rejected by a step.                            *)
LEMMA RejectedStep ==
  ASSUME DeliveryInv, Next
  PROVE  RejectedInLog'
<1>0. Grows /\ TypeOK /\ TypeOK' /\ RejectedInLog
  BY NextGrows, TypeStep DEF DeliveryInv, ConsumeInv
<1>1. CASE rejected' = rejected
  BY <1>0, <1>1, RejectedKept
<1>2. ASSUME NEW w \in Workers, pc[w] = "handle", Consume(record[w]), log' = log
      PROVE  RejectedInLog'
  <2>1. PICK k \in Partitions, o \in Nat :
            /\ o \in 1..Len(log[k])
            /\ record[w] = [partition |-> k, offset |-> o]
            /\ record[w].partition = k /\ record[w].offset = o
            /\ record[w] \in Locations
    BY <1>2, RecordParts
  <2> QED
    BY <1>0, <1>2, <2>1, ConsumeSettles
<1>3. CASE \/ \E r \in Runs : Submit(r) \/ FinishRun(r)
           \/ \E p \in Publishers : PublisherStep(p) \/ PublisherFault(p)
           \/ \E i \in inflight : LateDelivery(i)
           \/ \E k \in Partitions :
                ForeignRecord(k) \/ Assignment(k) \/ Rebalance(k)
  <2>1. rejected' = rejected
    BY <1>3 DEF Submit, FinishRun, PublisherStep, PublisherFault, ClaimBatch,
       CommitBatch, Publish, BatchAborts, PublishFails, LateDelivery,
       ForeignRecord, Assignment, Assign, Rebalance, table
  <2> QED
    BY <1>1, <2>1
<1>4. ASSUME NEW w \in Workers,
             WorkerStep(w) \/ HandleFails(w) \/ CommitFails(w)
      PROVE  RejectedInLog'
  BY <1>1, <1>2, <1>4 DEF WorkerStep, Poll, Handle, Commit, HandleFails,
     CommitFails, table, kafka
<1> QED
  BY <1>3, <1>4 DEF Next

(* What is before and under a worker's hands is settled after every step.  *)
LEMMA HandledStep ==
  ASSUME DeliveryInv, Next
  PROVE  HandledIsSettled'
<1>0. Grows /\ TypeOK /\ TypeOK'
  BY NextGrows, TypeStep DEF DeliveryInv
<1> DEFINE Good(v) ==
       /\ pc[v] # "poll" =>
             /\ record[v] # NULL
             /\ record[v].offset \in 1..Len(log[record[v].partition])
             /\ SettledUpTo(record[v].partition, record[v].offset - 1)
       /\ pc[v] = "commit" => Settled(record[v].partition, record[v].offset)
<1>1. ASSUME NEW v \in Workers, pc'[v] = pc[v], record'[v] = record[v]
      PROVE  Good(v)'
  <2>1. CASE pc[v] = "poll"
    BY <1>1, <2>1
  <2>2. CASE pc[v] # "poll"
    BY <1>0, <1>1, <2>2, WorkerKept DEF SettledUpTo, Settled
  <2> QED
    BY <2>1, <2>2
<1>2. ASSUME NEW v \in Workers, pc'[v] = "poll"
      PROVE  Good(v)'
  BY <1>2
<1>3. CASE UNCHANGED workerVars
  BY <1>1, <1>3 DEF workerVars, HandledIsSettled
<1>4. ASSUME NEW w \in Workers,
             Commit(w) \/ HandleFails(w) \/ CommitFails(w)
      PROVE  HandledIsSettled'
  <2>1. /\ pc' = [pc EXCEPT ![w] = "poll"]
        /\ record' = [record EXCEPT ![w] = NULL]
    BY <1>4 DEF Commit, HandleFails, CommitFails, Restart
  <2>2. \A v \in Workers : Good(v)'
    BY <1>0, <1>1, <1>2, <2>1 DEF TypeOK
  <2> QED
    BY <2>2 DEF HandledIsSettled
<1>5. ASSUME NEW w \in Workers, Handle(w)
      PROVE  HandledIsSettled'
  <2>1. PICK k \in Partitions, o \in Nat :
            /\ o \in 1..Len(log[k])
            /\ record[w] = [partition |-> k, offset |-> o]
            /\ record[w].partition = k /\ record[w].offset = o
            /\ record[w] \in Locations
    BY <1>5, RecordParts DEF Handle
  <2>2. /\ pc' = [pc EXCEPT ![w] = "commit"] /\ record' = record /\ log' = log
        /\ pc[w] = "handle" /\ Consume(record[w])
    BY <1>5 DEF Handle, kafka
  <2>3. Settled(k, o)'
    BY <1>0, <2>1, <2>2, ConsumeSettles
  <2>4. SettledUpTo(k, o - 1)
    BY <2>1, <2>2 DEF DeliveryInv, ConsumeInv, HandledIsSettled
  <2>5. SettledUpTo(k, o - 1)'
    BY <1>0, <2>1, <2>4, PrefixKept
  <2>6. Good(w)'
    BY <1>0, <2>1, <2>2, <2>3, <2>5,
       RecordType DEF SettledUpTo, Settled, DeliveryInv, ConsumeInv,
       HandledIsSettled
  <2>7. \A v \in Workers \ {w} : Good(v)'
    BY <1>0, <1>1, <2>2 DEF TypeOK
  <2> QED
    BY <2>6, <2>7 DEF HandledIsSettled
<1>6. ASSUME NEW w \in Workers, NEW k \in Partitions, Poll(w, k)
      PROVE  HandledIsSettled'
  <2>1. PICK o \in Nat \ {0} : o = position[k]
    BY <1>0 DEF TypeOK
  <2>2. /\ pc[w] = "poll" /\ owner[k] = w /\ o <= Len(log[k])
        /\ record' = [record EXCEPT ![w] = [partition |-> k, offset |-> o]]
        /\ pc' = [pc EXCEPT ![w] = "handle"]
        /\ UNCHANGED <<log, status, rejected>>
    BY <1>6, <2>1 DEF Poll, kafka, table
  <2>3. w # NULL /\ Len(log[k]) \in Nat
    BY <1>0, DeliveryAssumption DEF TypeOK
  <2>4. SettledUpTo(k, o - 1)
    BY <2>1, <2>2, <2>3 DEF DeliveryInv, ConsumeInv, PositionIsSettled,
       Handling, SettledUpTo
  <2>5. SettledUpTo(k, o - 1)'
    BY <1>0, <2>4, PrefixKept
  <2>6. record'[w] = [partition |-> k, offset |-> o] /\ pc'[w] = "handle"
    BY <1>0, <2>2 DEF TypeOK
  <2>7. Good(w)'
    <3>1. record'[w].partition = k /\ record'[w].offset = o
      BY <2>6
    <3>2. o \in 1..Len(log'[k])
      BY <2>1, <2>2, <2>3
    <3>3. record'[w] # NULL
      BY <1>0, <2>6, DeliveryAssumption DEF Locations
    <3> QED
      BY <2>5, <2>6, <3>1, <3>2, <3>3 DEF SettledUpTo, Settled
  <2>8. \A v \in Workers \ {w} : Good(v)'
    BY <1>0, <1>1, <2>2 DEF TypeOK
  <2> QED
    BY <2>7, <2>8 DEF HandledIsSettled
<1>7. CASE \/ \E r \in Runs : Submit(r) \/ FinishRun(r)
           \/ \E p \in Publishers : PublisherStep(p) \/ PublisherFault(p)
           \/ \E i \in inflight : LateDelivery(i)
           \/ \E k \in Partitions :
                ForeignRecord(k) \/ Assignment(k) \/ Rebalance(k)
  <2>1. UNCHANGED workerVars
    BY <1>7 DEF Submit, FinishRun, PublisherStep, PublisherFault, ClaimBatch,
       CommitBatch, Publish, BatchAborts, PublishFails, LateDelivery,
       ForeignRecord, Assignment, Assign, Rebalance
  <2> QED
    BY <1>3, <2>1
<1> QED
  BY <1>4, <1>5, <1>6, <1>7 DEF Next, WorkerStep

(* What the owners have polled is settled or in hand after every step.     *)
LEMMA PositionStep ==
  ASSUME DeliveryInv, Next
  PROVE  PositionIsSettled'
<1>0. Grows /\ TypeOK /\ TypeOK' /\ PositionIsSettled
  BY NextGrows, TypeStep DEF DeliveryInv, ConsumeInv
<1> DEFINE Good(k) == owner[k] # NULL =>
             \A i \in 1..(position[k] - 1) :
               i <= Len(log[k]) /\ (Settled(k, i) \/ Handling(owner[k], k, i))
<1>1. ASSUME NEW k \in Partitions, owner'[k] = NULL PROVE Good(k)'
  BY <1>1
<1>2. ASSUME NEW k \in Partitions, NEW i \in 1..Len(log[k])
      PROVE  /\ i <= Len(log'[k])
             /\ Settled(k, i) => Settled(k, i)'
  <2>1. Len(log[k]) \in Nat /\ Len(log'[k]) \in Nat
    BY <1>0 DEF TypeOK
  <2> QED
    BY <1>0, <2>1, SettledKept DEF Grows
<1>3. ASSUME NEW k \in Partitions, owner'[k] = owner[k],
             position'[k] = position[k],
             \A i \in 1..Len(log[k]) : Handling(owner[k], k, i) =>
                 Settled(k, i)' \/ Handling(owner[k], k, i)'
      PROVE  Good(k)'
  <2> SUFFICES ASSUME owner[k] # NULL, NEW i \in 1..(position[k] - 1)
      PROVE (i <= Len(log[k]) /\ (Settled(k, i) \/ Handling(owner[k], k, i)))'
    BY <1>3
  <2>1. /\ i \in 1..Len(log[k])
        /\ Settled(k, i) \/ Handling(owner[k], k, i)
    BY <1>0 DEF PositionIsSettled, TypeOK
  <2>2. i <= Len(log'[k]) /\ (Settled(k, i) => Settled(k, i)')
    BY <1>2, <2>1
  <2>3. Settled(k, i)' \/ Handling(owner[k], k, i)'
    BY <1>3, <2>1, <2>2
  <2> QED
    BY <2>2, <2>3
<1>4. CASE UNCHANGED <<owner, position, pc, record>>
  BY <1>3, <1>4 DEF Handling, PositionIsSettled
<1>5. ASSUME NEW j \in Partitions, NEW w \in Workers, Assign(j, w)
      PROVE  PositionIsSettled'
  <2>1. /\ owner' = [owner EXCEPT ![j] = w]
        /\ position' = [position EXCEPT ![j] = committed[j]]
        /\ UNCHANGED <<log, status, rejected, pc, record>>
    BY <1>5 DEF Assign, table, kafka, workerVars
  <2>2. Good(j)'
    BY <1>0, <2>1 DEF TypeOK, DeliveryInv, ConsumeInv, CommittedIsSettled,
       Settled
  <2>3. \A k \in Partitions \ {j} : Good(k)'
    BY <1>0, <1>3, <2>1 DEF TypeOK, Handling
  <2> QED
    BY <2>2, <2>3 DEF PositionIsSettled
<1>6. ASSUME NEW j \in Partitions, Rebalance(j)
      PROVE  PositionIsSettled'
  <2>1. /\ owner' = [owner EXCEPT ![j] = NULL]
        /\ UNCHANGED <<position, pc, record>>
    BY <1>6 DEF Rebalance, workerVars
  <2>2. \A k \in Partitions : Good(k)'
    BY <1>0, <1>1, <1>3, <2>1 DEF TypeOK, Handling
  <2> QED
    BY <2>2 DEF PositionIsSettled
<1>7. ASSUME NEW w \in Workers, NEW j \in Partitions, Poll(w, j)
      PROVE  PositionIsSettled'
  <2>1. PICK o \in Nat \ {0} : o = position[j]
    BY <1>0 DEF TypeOK
  <2>2. /\ pc[w] = "poll" /\ owner[j] = w /\ o <= Len(log[j])
        /\ record' = [record EXCEPT ![w] = [partition |-> j, offset |-> o]]
        /\ pc' = [pc EXCEPT ![w] = "handle"]
        /\ position' = [position EXCEPT ![j] = o + 1]
        /\ UNCHANGED <<log, status, rejected, owner>>
    BY <1>7, <2>1 DEF Poll, kafka, table
  <2>3. Handling(w, j, o)'
    BY <1>0, <2>2 DEF TypeOK, Handling
  <2>4. \A k \in Partitions : \A i \in 1..Len(log[k]) :
          Handling(owner[k], k, i) => Handling(owner[k], k, i)'
    BY <1>0, <2>2 DEF TypeOK, Handling
  <2>5. Good(j)'
    <3>1. \A i \in 1..(o - 1) : i \in 1..Len(log[j]) /\ Settled(j, i)
      <4>1. owner[j] # NULL /\ Len(log[j]) \in Nat /\ ~(pc[owner[j]] = "handle")
        BY <1>0, <2>2, DeliveryAssumption DEF TypeOK
      <4>2. \A i \in 1..(o - 1) : i <= Len(log[j]) /\ Settled(j, i)
        BY <1>0, <2>1, <4>1 DEF PositionIsSettled, Handling
      <4> QED
        BY <2>1, <4>1, <4>2
    <3>2. position'[j] = o + 1 /\ owner'[j] = w
      BY <1>0, <2>2 DEF TypeOK
    <3>3. \A i \in 1..o : i <= Len(log'[j]) /\
              (Settled(j, i)' \/ Handling(w, j, i)')
      BY <1>2, <2>1, <2>2, <2>3, <3>1
    <3> QED
      BY <2>1, <3>2, <3>3 DEF Handling
  <2>6. \A k \in Partitions \ {j} : Good(k)'
    <3> SUFFICES ASSUME NEW k \in Partitions \ {j} PROVE Good(k)'
      OBVIOUS
    <3>1. owner'[k] = owner[k] /\ position'[k] = position[k]
      BY <1>0, <2>2 DEF TypeOK
    <3> QED
      BY <1>3, <2>4, <3>1
  <2> QED
    BY <2>5, <2>6 DEF PositionIsSettled
<1>8. ASSUME NEW w \in Workers, Handle(w)
      PROVE  PositionIsSettled'
  <2>1. PICK h \in Partitions, o \in Nat :
            /\ o \in 1..Len(log[h])
            /\ record[w] = [partition |-> h, offset |-> o]
            /\ record[w].partition = h /\ record[w].offset = o
            /\ record[w] \in Locations
    BY <1>8, RecordParts DEF Handle
  <2>2. /\ pc' = [pc EXCEPT ![w] = "commit"] /\ log' = log
        /\ pc[w] = "handle" /\ Consume(record[w])
        /\ UNCHANGED <<owner, position, record>>
    BY <1>8 DEF Handle, kafka, group
  <2>3. Settled(h, o)'
    BY <1>0, <2>1, <2>2, ConsumeSettles
  <2>4. ASSUME NEW k \in Partitions, NEW i \in 1..Len(log[k]),
               Handling(owner[k], k, i)
        PROVE  Settled(k, i)' \/ Handling(owner[k], k, i)'
    <3>1. CASE owner[k] = w
      <4>1. k = h /\ i = o
        BY <2>1, <2>4, <3>1 DEF Handling
      <4> QED
        BY <2>3, <4>1
    <3>2. CASE owner[k] # w
      BY <1>0, <2>2, <2>4, <3>2 DEF Handling, TypeOK
    <3> QED
      BY <3>1, <3>2
  <2>5. \A k \in Partitions : Good(k)'
    BY <1>3, <2>2, <2>4
  <2> QED
    BY <2>5 DEF PositionIsSettled
<1>9. ASSUME NEW w \in Workers, Commit(w)
      PROVE  PositionIsSettled'
  <2>1. /\ pc' = [pc EXCEPT ![w] = "poll"] /\ pc[w] = "commit"
        /\ record' = [record EXCEPT ![w] = NULL]
        /\ UNCHANGED <<owner, position>>
    BY <1>9 DEF Commit
  <2>2. \A k \in Partitions : \A i \in 1..Len(log[k]) :
          Handling(owner[k], k, i) => Handling(owner[k], k, i)'
    BY <1>0, <2>1 DEF Handling, TypeOK
  <2>3. \A k \in Partitions : Good(k)'
    BY <1>3, <2>1, <2>2
  <2> QED
    BY <2>3 DEF PositionIsSettled
<1>10. ASSUME NEW w \in Workers, HandleFails(w) \/ CommitFails(w)
       PROVE  PositionIsSettled'
  <2>1. /\ pc' = [pc EXCEPT ![w] = "poll"]
        /\ record' = [record EXCEPT ![w] = NULL]
        /\ owner' = [k \in Partitions |-> IF owner[k] = w THEN NULL ELSE owner[k]]
        /\ position' = position
    BY <1>10 DEF HandleFails, CommitFails, Restart
  <2>2. ASSUME NEW k \in Partitions PROVE Good(k)'
    <3>1. CASE owner[k] = w
      BY <1>1, <2>1, <3>1
    <3>2. CASE owner[k] # w
      <4>1. owner'[k] = owner[k]
        BY <2>1, <3>2
      <4>2. \A i \in 1..Len(log[k]) :
              Handling(owner[k], k, i) => Handling(owner[k], k, i)'
        BY <1>0, <2>1, <3>2, <4>1 DEF Handling, TypeOK
      <4> QED
        BY <1>3, <2>1, <4>1, <4>2
    <3> QED
      BY <3>1, <3>2
  <2> QED
    BY <2>2 DEF PositionIsSettled
<1>11. CASE \/ \E r \in Runs : Submit(r) \/ FinishRun(r)
            \/ \E p \in Publishers : PublisherStep(p) \/ PublisherFault(p)
            \/ \E i \in inflight : LateDelivery(i)
            \/ \E k \in Partitions : ForeignRecord(k)
  <2>1. UNCHANGED <<owner, position, pc, record>>
    BY <1>11 DEF Submit, FinishRun, PublisherStep, PublisherFault, ClaimBatch,
       CommitBatch, Publish, BatchAborts, PublishFails, LateDelivery,
       ForeignRecord, group, workerVars
  <2> QED
    BY <1>4, <2>1
<1> QED
  BY <1>5, <1>6, <1>7, <1>8, <1>9, <1>10, <1>11 DEF Next, WorkerStep,
     Assignment

(* The committed prefix is settled after every step.                       *)
LEMMA CommittedStep ==
  ASSUME DeliveryInv, Next
  PROVE  CommittedIsSettled'
<1>0. Grows /\ TypeOK /\ TypeOK'
  BY NextGrows, TypeStep DEF DeliveryInv
<1>1. ASSUME NEW k \in Partitions, committed'[k] = committed[k]
      PROVE  \A i \in 1..(committed'[k] - 1) :
                (i <= Len(log[k]) /\ Settled(k, i))'
  <2>1. PICK n \in Int : n = committed[k] - 1
    BY <1>0 DEF TypeOK
  <2>2. SettledUpTo(k, n)
    BY <2>1 DEF DeliveryInv, ConsumeInv, CommittedIsSettled, SettledUpTo
  <2>3. SettledUpTo(k, n)'
    BY <1>0, <2>2, PrefixKept
  <2> QED
    BY <1>1, <2>1, <2>3 DEF SettledUpTo
<1>2. CASE committed' = committed
  BY <1>1, <1>2 DEF CommittedIsSettled
<1>3. ASSUME NEW w \in Workers, pc[w] = "commit",
             committed' = [committed EXCEPT ![record[w].partition]
                             = record[w].offset + 1]
      PROVE  CommittedIsSettled'
  <2>1. PICK h \in Partitions, o \in Nat :
            /\ o \in 1..Len(log[h])
            /\ record[w] = [partition |-> h, offset |-> o]
            /\ record[w].partition = h /\ record[w].offset = o
            /\ record[w] \in Locations
    BY <1>3, RecordParts
  <2>2. SettledUpTo(h, o - 1) /\ Settled(h, o) /\ Len(log[h]) \in Nat
    <3>1. /\ SettledUpTo(record[w].partition, record[w].offset - 1)
          /\ Settled(record[w].partition, record[w].offset)
      BY <1>3 DEF DeliveryInv, ConsumeInv, HandledIsSettled
    <3>2. Len(log[h]) \in Nat
      BY <1>0 DEF TypeOK
    <3> QED
      BY <2>1, <3>1, <3>2
  <2>3. SettledUpTo(h, o)
    BY <2>1, <2>2 DEF SettledUpTo
  <2>4. SettledUpTo(h, o)'
    BY <1>0, <2>3, PrefixKept
  <2>5. committed'[h] = o + 1
    BY <1>0, <1>3, <2>1 DEF TypeOK
  <2>6. \A i \in 1..(committed'[h] - 1) :
            (i <= Len(log[h]) /\ Settled(h, i))'
    BY <2>1, <2>4, <2>5 DEF SettledUpTo
  <2>7. \A k \in Partitions \ {h} : committed'[k] = committed[k]
    BY <1>0, <1>3, <2>1 DEF TypeOK
  <2> QED
    BY <1>1, <2>6, <2>7 DEF CommittedIsSettled
<1>4. CASE \/ \E r \in Runs : Submit(r) \/ FinishRun(r)
           \/ \E p \in Publishers : PublisherStep(p) \/ PublisherFault(p)
           \/ \E i \in inflight : LateDelivery(i)
           \/ \E k \in Partitions :
                ForeignRecord(k) \/ Assignment(k) \/ Rebalance(k)
  <2>1. committed' = committed
    BY <1>4 DEF Submit, FinishRun, PublisherStep, PublisherFault, ClaimBatch,
       CommitBatch, Publish, BatchAborts, PublishFails, LateDelivery,
       ForeignRecord, Assignment, Assign, Rebalance, group
  <2> QED
    BY <1>2, <2>1
<1>5. ASSUME NEW w \in Workers,
             WorkerStep(w) \/ HandleFails(w) \/ CommitFails(w)
      PROVE  CommittedIsSettled'
  BY <1>2, <1>3, <1>5 DEF WorkerStep, Poll, Handle, Commit, HandleFails,
     CommitFails, group
<1> QED
  BY <1>4, <1>5 DEF Next

-----------------------------------------------------------------------------
(* A stuttering step changes nothing.                                      *)
LEMMA DeliveryStutter == DeliveryInv /\ UNCHANGED vars => DeliveryInv'
BY DEF DeliveryInv, PublishInv, ConsumeInv, TypeOK, RowsOfRuns, LogOfRuns,
   MarkedIsInKafka, PublishedIsInKafka, InKafka, InLog, HandledIsSettled,
   PositionIsSettled, CommittedIsSettled, RejectedInLog, SettledUpTo, Settled,
   Handling, vars, table, kafka, group, publisherVars, workerVars

(* DeliveryInv is an invariant of the specification.                       *)
LEMMA DeliveryInvariant == Spec => []DeliveryInv
<1>1. Init => DeliveryInv
  BY InitInv
<1>2. DeliveryInv /\ [Next]_vars => DeliveryInv'
  <2>1. CASE Next
    BY <2>1, TypeStep, RunsStep, SentStep, RejectedStep, HandledStep,
       PositionStep, CommittedStep DEF DeliveryInv, PublishInv, ConsumeInv
  <2>2. CASE UNCHANGED vars
    BY <2>2, DeliveryStutter
  <2> QED
    BY <2>1, <2>2
<1> QED
  BY <1>1, <1>2, PTL DEF Spec

(* Every variable of Delivery keeps its type.                              *)
THEOREM DeliveryTypeCorrect == Spec => []TypeOK
<1>1. DeliveryInv => TypeOK
  BY DEF DeliveryInv
<1> QED
  BY <1>1, DeliveryInvariant, PTL

(* A row of the outbox is marked as published only when Kafka has it.      *)
THEOREM PublishedEventsDelivered == Spec => []PublishedIsInKafka
<1>1. DeliveryInv => PublishedIsInKafka
  BY DEF DeliveryInv, PublishInv
<1> QED
  BY <1>1, DeliveryInvariant, PTL

(* The worker commits no offset past a record that is not settled.         *)
THEOREM NoRequestLost == Spec => []CommittedIsSettled
<1>1. DeliveryInv => CommittedIsSettled
  BY DEF DeliveryInv, ConsumeInv
<1> QED
  BY <1>1, DeliveryInvariant, PTL

(* No request the publisher sent is rejected.                              *)
THEOREM OwnRequestsNotRejected == Spec => []OnlyForeignRejected
<1>1. DeliveryInv => OnlyForeignRejected
  BY DEF DeliveryInv, ConsumeInv, RejectedInLog, OnlyForeignRejected
<1> QED
  BY <1>1, DeliveryInvariant, PTL

-----------------------------------------------------------------------------
(* How many copies Kafka gets                                              *)

(* Where the requests of r lie in their partition.                         *)
Places(r) == {i \in 1..Len(log[PartitionOf[r]]) : log[PartitionOf[r]][i] = r}

(* How many records of each event the topics hold.                         *)
Sent ==
    [e \in Events |-> IF e.type = "run.requested"
                        THEN Cardinality(Places(e.run)) ELSE announced[e.run]]

(* A run has one request and one outcome, stored when it ends.             *)
RowsUnique ==
    /\ \A i \in 1..Len(outbox) :
          outbox[i].type = "outcome" => status[outbox[i].run] = "finished"
    /\ \A i, j \in 1..Len(outbox) : outbox[i] = outbox[j] => i = j

(* Only rows of the outbox are sent.                                       *)
SentFromRows ==
    \A e \in Events : Sent[e] # 0 => \E i \in 1..Len(outbox) : outbox[i] = e

(* Open transactions lock different rows, none of them published.          *)
ClaimsApart ==
    \A p \in Publishers :
        /\ marked[p] \subseteq claimed[p]
        /\ claimed[p] \cap published = {}
        /\ \A q \in Publishers : p # q => claimed[p] \cap claimed[q] = {}

(* Copies that may still come: one from the buffer of a producer that gave *)
(* up on it, one from a publisher that has the row still to send.          *)
Late(i) == IF i \in inflight THEN 1 ELSE 0

Owed(i) ==
    IF i \in published \/ \E p \in Publishers : i \in marked[p] THEN 0 ELSE 1

(* The copies that Kafka has and may still get are paid for by failures.   *)
Accounted ==
    \A i \in 1..Len(outbox) :
        Sent[outbox[i]] + Late(i) + Owed(i) <= 1 + faults["publisher"]

CopiesInv == RowsUnique /\ SentFromRows /\ ClaimsApart /\ Accounted

(* Counts are numbers.                                                     *)
LEMMA SentType ==
  ASSUME TypeOK
  PROVE  /\ Sent \in [Events -> Nat]
         /\ \A r \in Runs : IsFiniteSet(Places(r))
<1>1. ASSUME NEW r \in Runs
      PROVE  IsFiniteSet(Places(r)) /\ Cardinality(Places(r)) \in Nat
  <2>1. PartitionOf[r] \in Partitions
    BY DeliveryAssumption
  <2>2. log[PartitionOf[r]] \in Seq(Records)
    BY <2>1 DEF TypeOK
  <2>3. Len(log[PartitionOf[r]]) \in Int
    BY <2>2
  <2>4. IsFiniteSet(1..Len(log[PartitionOf[r]]))
    BY <2>3, FS_Interval
  <2>5. Places(r) \in SUBSET (1..Len(log[PartitionOf[r]]))
    BY DEF Places
  <2>6. IsFiniteSet(Places(r))
    BY <2>4, <2>5, FS_Subset
  <2> QED
    BY <2>6, FS_CardinalityType
<1>2. \A e \in Events : e.run \in Runs
  BY DEF Events
<1> QED
  BY <1>1, <1>2 DEF Sent, TypeOK

(* Counts change only with the topics.                                     *)
LEMMA SentSame ==
  ASSUME UNCHANGED <<log, announced>>
  PROVE  Sent' = Sent
BY DEF Sent, Places

(* A record that is no request of r leaves the count of r alone.           *)
LEMMA PlacesSame ==
  ASSUME TypeOK, NEW k \in Partitions, NEW x \in Records,
         log' = [log EXCEPT ![k] = Append(@, x)],
         NEW r \in Runs, r # x \/ PartitionOf[r] # k
  PROVE  Places(r)' = Places(r)
<1>1. PartitionOf[r] \in Partitions
  BY DeliveryAssumption
<1>2. log[PartitionOf[r]] \in Seq(Records)
  BY <1>1 DEF TypeOK
<1>3. CASE PartitionOf[r] # k
  BY <1>1, <1>3 DEF Places, TypeOK
<1>4. CASE PartitionOf[r] = k /\ r # x
  <2>1. log'[PartitionOf[r]] = Append(log[PartitionOf[r]], x)
    BY <1>1, <1>4 DEF TypeOK
  <2> QED
    BY <1>2, <1>4, <2>1 DEF Places
<1> QED
  BY <1>3, <1>4

(* A request of r adds one to its count.                                   *)
LEMMA PlacesGrow ==
  ASSUME TypeOK, NEW r \in Runs,
         log' = [log EXCEPT ![PartitionOf[r]] = Append(@, r)]
  PROVE  Cardinality(Places(r))' = Cardinality(Places(r)) + 1
<1>1. PartitionOf[r] \in Partitions
  BY DeliveryAssumption
<1> DEFINE n == Len(log[PartitionOf[r]]) + 1
<1>2. log[PartitionOf[r]] \in Seq(Records)
  BY <1>1 DEF TypeOK
<1>3. log'[PartitionOf[r]] = Append(log[PartitionOf[r]], r)
  BY <1>1 DEF TypeOK
<1>4. Places(r)' = Places(r) \cup {n} /\ n \notin Places(r)
  BY <1>2, <1>3 DEF Places
<1>5. IsFiniteSet(Places(r))
  BY SentType
<1>6. Cardinality(Places(r) \cup {n}) = Cardinality(Places(r)) + 1
  BY <1>4, <1>5, FS_AddElement
<1> QED
  BY <1>4, <1>6

(* A delivery makes one copy of its event and of no other.                 *)
LEMMA SentDeliver ==
  ASSUME TypeOK, NEW e \in Events, Deliver(e)
  PROVE  /\ Sent'[e] = Sent[e] + 1
         /\ \A f \in Events : f # e => Sent'[f] = Sent[f]
<1>1. e.run \in Runs /\ e.type \in {"run.requested", "outcome"}
  BY DEF Events
<1>2. \A f \in Events :
        /\ f.run \in Runs /\ f.type \in {"run.requested", "outcome"}
        /\ f.run = e.run /\ f.type = e.type => f = e
  BY DEF Events
<1>3. CASE e.type = "run.requested"
  <2>1. log' = [log EXCEPT ![PartitionOf[e.run]] = Append(@, e.run)]
        /\ announced' = announced
    BY <1>3 DEF Deliver
  <2>2. Cardinality(Places(e.run))' = Cardinality(Places(e.run)) + 1
    <3>1. PICK r \in Runs : r = e.run
      BY <1>1
    <3> QED
      BY <2>1, <3>1, PlacesGrow
  <2>3. \A r \in Runs : r # e.run => Places(r)' = Places(r)
    BY <1>1, <2>1, PlacesSame, DeliveryAssumption DEF Records
  <2> QED
    BY <1>1, <1>2, <1>3, <2>1, <2>2, <2>3 DEF Sent
<1>4. CASE e.type = "outcome"
  <2>1. announced' = [announced EXCEPT ![e.run] = @ + 1] /\ log' = log
    BY <1>4 DEF Deliver
  <2>2. \A r \in Runs : Places(r)' = Places(r)
    BY <2>1 DEF Places
  <2> QED
    BY <1>1, <1>2, <1>4, <2>1, <2>2 DEF Sent, TypeOK
<1> QED
  BY <1>1, <1>3, <1>4

(* A foreign record is a copy of nothing.                                  *)
LEMMA SentForeign ==
  ASSUME TypeOK, NEW k \in Partitions, ForeignRecord(k)
  PROVE  Sent' = Sent
<1>1. log' = [log EXCEPT ![k] = Append(@, "foreign")] /\ announced' = announced
  BY DEF ForeignRecord
<1>2. "foreign" \in Records /\ \A r \in Runs : r # "foreign"
  BY DeliveryAssumption DEF Records
<1>3. \A r \in Runs : Places(r)' = Places(r)
  BY <1>1, <1>2, PlacesSame
<1>4. \A e \in Events : e.run \in Runs
  BY DEF Events
<1> QED
  BY <1>1, <1>3, <1>4 DEF Sent

(* What a transaction may add to the outbox: the request of a new run or   *)
(* the outcome of one that has just ended.                                 *)
RowAdded(r, e) ==
    /\ outbox' = Append(outbox, e)
    /\ \/ e = Request(r) /\ status[r] = "none"
       \/ e = Outcome(r) /\ status[r] # "finished" /\ status'[r] = "finished"

(* A step adds such a row, or none.                                        *)
LEMMA RowsStep ==
  ASSUME DeliveryInv, Next
  PROVE  /\ \A r \in Runs : status[r] = "finished" => status'[r] = "finished"
         /\ \/ outbox' = outbox
            \/ \E r \in Runs, e \in Events : RowAdded(r, e)
<1> USE DEF DeliveryInv
<1> DEFINE Rows ==
      /\ \A r \in Runs : status[r] = "finished" => status'[r] = "finished"
      /\ \/ outbox' = outbox
         \/ \E r \in Runs, e \in Events : RowAdded(r, e)
<1>0. \A r \in Runs : Request(r) \in Events /\ Outcome(r) \in Events
  BY DEF Request, Outcome, Events
<1>1. ASSUME NEW r \in Runs, Submit(r) \/ FinishRun(r) PROVE Rows
  <2>1. CASE Submit(r)
    BY <1>0, <2>1 DEF Submit, RowAdded, TypeOK
  <2>2. CASE FinishRun(r)
    BY <1>0, <2>2 DEF FinishRun, RowAdded, TypeOK
  <2> QED
    BY <1>1, <2>1, <2>2
<1>2. ASSUME NEW location \in Locations, Consume(location) PROVE Rows
  BY <1>0, <1>2 DEF Consume, RowAdded, TypeOK
<1>3. ASSUME NEW w \in Workers,
             WorkerStep(w) \/ HandleFails(w) \/ CommitFails(w) PROVE Rows
  <2>1. CASE UNCHANGED <<status, outbox>>
    BY <2>1
  <2>2. CASE pc[w] # "poll" /\ Consume(record[w])
    BY <1>2, <2>2, RecordType
  <2> QED
    BY <1>3, <2>1, <2>2 DEF WorkerStep, Poll, Handle, Commit, HandleFails,
       CommitFails, table
<1>4. CASE UNCHANGED <<status, outbox>>
  BY <1>4
<1> QED
  BY <1>1, <1>3, <1>4 DEF Next, PublisherStep, PublisherFault, ClaimBatch,
     CommitBatch, Publish, BatchAborts, PublishFails, LateDelivery,
     ForeignRecord, Assignment, Assign, Rebalance, table

(* A row that is added is the first of its event.                          *)
LEMMA RowAddedIsNew ==
  ASSUME DeliveryInv, RowsUnique, NEW r \in Runs, NEW e \in Events,
         RowAdded(r, e)
  PROVE  /\ e.run = r
         /\ \A i \in 1..Len(outbox) : outbox[i] # e
         /\ e.type = "outcome" => status'[r] = "finished"
BY DEF DeliveryInv, PublishInv, RowsOfRuns, RowsUnique, RowAdded, Request,
   Outcome

(* Rows stay unique.                                                       *)
LEMMA UniqueStep ==
  ASSUME DeliveryInv, RowsUnique, Next
  PROVE  RowsUnique'
<1>1. /\ \A r \in Runs : status[r] = "finished" => status'[r] = "finished"
      /\ \/ outbox' = outbox
         \/ \E r \in Runs, e \in Events : RowAdded(r, e)
  BY RowsStep
<1>2. TypeOK /\ \A i \in 1..Len(outbox) : outbox[i].run \in Runs
  BY RowType DEF DeliveryInv
<1>3. CASE outbox' = outbox
  BY <1>1, <1>2, <1>3 DEF RowsUnique
<1>4. ASSUME NEW r \in Runs, NEW e \in Events, RowAdded(r, e)
      PROVE  RowsUnique'
  <2>1. /\ Len(outbox') = Len(outbox) + 1
        /\ \A i \in 1..Len(outbox) : outbox'[i] = outbox[i]
        /\ outbox'[Len(outbox) + 1] = e
    BY <1>2, <1>4, AppendRow DEF RowAdded
  <2>2. /\ e.run = r
        /\ \A i \in 1..Len(outbox) : outbox[i] # e
        /\ e.type = "outcome" => status'[r] = "finished"
    BY <1>4, RowAddedIsNew
  <2>3. Len(outbox) \in Nat
    BY <1>2 DEF TypeOK
  <2> QED
    BY <1>1, <1>2, <2>1, <2>2, <2>3 DEF RowsUnique
<1> QED
  BY <1>1, <1>3, <1>4

(* FOR UPDATE SKIP LOCKED keeps open transactions apart.                   *)
LEMMA ClaimsStep ==
  ASSUME DeliveryInv, ClaimsApart, Next
  PROVE  ClaimsApart'
<1> USE DEF DeliveryInv
<1>1. CASE UNCHANGED <<claimed, marked, published>>
  BY <1>1 DEF ClaimsApart
<1>2. ASSUME NEW p \in Publishers, ClaimBatch(p) PROVE ClaimsApart'
  <2>1. PICK batch \in SUBSET (Unpublished \ Claimed) :
          claimed' = [claimed EXCEPT ![p] = batch]
    BY <1>2 DEF ClaimBatch
  <2>2. claimed[p] = {} /\ marked' = marked /\ published' = published
    BY <1>2 DEF ClaimBatch, table
  <2>3. \A i \in batch : i \notin published
    BY <2>1 DEF Unpublished
  <2>4. \A q \in Publishers : \A i \in batch : i \notin claimed[q]
    BY <2>1, Zenon DEF Claimed
  <2> QED
    BY <2>1, <2>2, <2>3, <2>4 DEF ClaimsApart, TypeOK
<1>3. ASSUME NEW p \in Publishers, CommitBatch(p) PROVE ClaimsApart'
  BY <1>3 DEF CommitBatch, CloseBatch, ClaimsApart, TypeOK
<1>4. ASSUME NEW p \in Publishers, NEW i \in claimed[p], Publish(p, i)
      PROVE  ClaimsApart'
  BY <1>4 DEF Publish, NextRow, ClaimsApart, TypeOK, table
<1>5. ASSUME NEW p \in Publishers, PublisherFault(p) PROVE ClaimsApart'
  <2>1. CloseBatch(p) /\ published' = published
    BY <1>5 DEF PublisherFault, BatchAborts, PublishFails, table
  <2> QED
    BY <2>1 DEF CloseBatch, ClaimsApart, TypeOK
<1> QED
  BY <1>1, <1>2, <1>3, <1>4, <1>5 DEF Next, PublisherStep, Submit, FinishRun,
     LateDelivery, ForeignRecord, Assignment, Assign, Rebalance, WorkerStep,
     Poll, Handle, Commit, HandleFails, CommitFails, table, publisherVars

(* What a step sends is a row of the outbox.                               *)
LEMMA TopicsStep ==
  ASSUME DeliveryInv, Next
  PROVE  \/ Sent' = Sent
         \/ \E i \in 1..Len(outbox) : Deliver(outbox[i])
<1> USE DEF DeliveryInv
<1>1. CASE UNCHANGED <<log, announced>>
  BY <1>1, SentSame
<1>2. ASSUME NEW k \in Partitions, ForeignRecord(k) PROVE Sent' = Sent
  BY <1>2, SentForeign
<1>3. inflight \subseteq 1..Len(outbox)
      /\ \A p \in Publishers : claimed[p] \subseteq 1..Len(outbox)
  BY DEF TypeOK
<1> QED
  BY <1>1, <1>2, <1>3 DEF Next, Submit, FinishRun, PublisherStep,
     PublisherFault, ClaimBatch, CommitBatch, Publish, BatchAborts,
     PublishFails, LateDelivery, Assignment, Assign, Rebalance, WorkerStep,
     Poll, Handle, Commit, HandleFails, CommitFails, kafka

(* Only rows are sent.                                                     *)
LEMMA SentRowsStep ==
  ASSUME DeliveryInv, SentFromRows, Next
  PROVE  SentFromRows'
<1>0. Len(outbox) \in Nat /\ Len(outbox') \in Nat
  BY TypeStep DEF DeliveryInv, TypeOK
<1>1. /\ Len(outbox) <= Len(outbox')
      /\ \A i \in 1..Len(outbox) : outbox'[i] = outbox[i]
  BY NextGrows DEF Grows
<1>2. \A e \in Events : (\E i \in 1..Len(outbox) : outbox[i] = e)
         => \E i \in 1..Len(outbox') : outbox'[i] = e
  BY <1>0, <1>1
<1>3. CASE Sent' = Sent
  BY <1>2, <1>3 DEF SentFromRows
<1>4. ASSUME NEW i \in 1..Len(outbox), Deliver(outbox[i])
      PROVE  SentFromRows'
  <2>1. PICK e \in Events : e = outbox[i]
    BY RowType DEF DeliveryInv
  <2>2. \A f \in Events : f # e => Sent'[f] = Sent[f]
    BY <1>4, <2>1, SentDeliver DEF DeliveryInv
  <2> QED
    BY <1>2, <2>1, <2>2 DEF SentFromRows
<1> QED
  BY <1>3, <1>4, TopicsStep

(* The account of a row that exists stays balanced.                        *)
RowAccounted(i) ==
    Sent'[outbox[i]] + Late(i)' + Owed(i)' <= 1 + faults'["publisher"]

(* The balance of the rows that a step finds.                              *)
LEMMA OldRowsAccounted ==
  ASSUME DeliveryInv, CopiesInv, Next, NEW i \in 1..Len(outbox)
  PROVE  RowAccounted(i)
<1> USE DEF DeliveryInv, CopiesInv
<1>1. /\ Sent[outbox[i]] \in Nat /\ Late(i) \in {0, 1} /\ Owed(i) \in {0, 1}
      /\ faults["publisher"] \in Nat
      /\ Sent[outbox[i]] + Late(i) + Owed(i) <= 1 + faults["publisher"]
  BY RowType, SentType DEF Accounted, Late, Owed, TypeOK, FaultKinds
<1>2. /\ \A j \in 1..Len(outbox) : outbox[j] \in Events
      /\ \A j \in 1..Len(outbox) : outbox[i] = outbox[j] => i = j
  BY RowType DEF RowsUnique
<1>3. ASSUME NEW j \in 1..Len(outbox), Deliver(outbox[j])
      PROVE  Sent'[outbox[i]] = IF i = j THEN Sent[outbox[i]] + 1
                                         ELSE Sent[outbox[i]]
  <2>1. PICK e \in Events : e = outbox[j]
    BY <1>2
  <2>2. /\ Sent'[e] = Sent[e] + 1
        /\ \A f \in Events : f # e => Sent'[f] = Sent[f]
    BY <1>3, <2>1, SentDeliver
  <2> QED
    BY <1>2, <2>1, <2>2
<1>4. ASSUME Sent' = Sent, UNCHANGED <<inflight, published, marked>>,
             faults'["publisher"] = faults["publisher"]
      PROVE  RowAccounted(i)
  BY <1>1, <1>4 DEF RowAccounted, Late, Owed
<1>5. ASSUME NEW p \in Publishers, CommitBatch(p) PROVE RowAccounted(i)
  <2>1. /\ published' = published \cup marked[p] /\ faults' = faults
        /\ marked' = [marked EXCEPT ![p] = {}]
        /\ inflight' = inflight
    BY <1>5 DEF CommitBatch, CloseBatch, kafka
  <2>2. Sent' = Sent
    BY <1>5, SentSame DEF CommitBatch, kafka
  <2>3. Owed(i)' = Owed(i)
    BY <2>1 DEF Owed, TypeOK
  <2> QED
    BY <1>1, <2>1, <2>2, <2>3 DEF RowAccounted, Late
<1>6. ASSUME NEW p \in Publishers, NEW j \in claimed[p], Publish(p, j)
      PROVE  RowAccounted(i)
  <2>1. /\ published' = published /\ faults' = faults /\ inflight' = inflight
        /\ marked' = [marked EXCEPT ![p] = @ \cup {j}]
        /\ Deliver(outbox[j]) /\ j \notin marked[p]
    BY <1>6 DEF Publish, NextRow, table
  <2>2. j \in 1..Len(outbox)
    BY DEF TypeOK
  <2>3. Owed(j) = 1
    BY <2>1 DEF Owed, ClaimsApart
  <2>4. Owed(i)' = IF i = j THEN 0 ELSE Owed(i)
    BY <2>1 DEF Owed, TypeOK
  <2> QED
    BY <1>1, <1>3, <2>1, <2>2, <2>3, <2>4 DEF RowAccounted, Late
<1>7. ASSUME NEW p \in Publishers, CloseBatch(p), Fault("publisher"),
             published' = published
      PROVE  /\ Owed(i)' <= 1 /\ Owed(i)' \in Nat
             /\ faults'["publisher"] = faults["publisher"] + 1
  BY <1>7 DEF CloseBatch, Fault, Owed, TypeOK, FaultKinds
<1>8. ASSUME NEW p \in Publishers, BatchAborts(p) PROVE RowAccounted(i)
  <2>1. Sent' = Sent /\ inflight' = inflight
    BY <1>8, SentSame DEF BatchAborts, kafka
  <2>2. Owed(i)' \in {0, 1} /\ faults'["publisher"] = faults["publisher"] + 1
    BY <1>7, <1>8 DEF BatchAborts, table
  <2> QED
    BY <1>1, <2>1, <2>2 DEF RowAccounted, Late
<1>9. ASSUME NEW p \in Publishers, NEW j \in claimed[p], PublishFails(p, j)
      PROVE  RowAccounted(i)
  <2>1. Owed(i)' \in {0, 1} /\ faults'["publisher"] = faults["publisher"] + 1
    BY <1>7, <1>9 DEF PublishFails, table
  <2>2. j \in 1..Len(outbox) /\ j \notin marked[p]
    BY <1>9 DEF TypeOK, PublishFails, NextRow
  <2>3. Owed(j) = 1
    BY <2>2 DEF Owed, ClaimsApart
  <2>4. CASE UNCHANGED kafka
    BY <1>1, <2>1, <2>4, SentSame DEF RowAccounted, Late, kafka
  <2>5. CASE Deliver(outbox[j]) /\ UNCHANGED inflight
    BY <1>1, <1>3, <2>1, <2>2, <2>3, <2>5 DEF RowAccounted, Late
  <2>6. CASE inflight' = inflight \cup {j} /\ UNCHANGED <<log, announced>>
    BY <1>1, <2>1, <2>3, <2>6, SentSame DEF RowAccounted, Late
  <2> QED
    BY <1>9, <2>4, <2>5, <2>6 DEF PublishFails
<1>10. ASSUME NEW j \in inflight, LateDelivery(j) PROVE RowAccounted(i)
  <2>1. /\ inflight' = inflight \ {j} /\ faults' = faults
        /\ published' = published /\ marked' = marked
    BY <1>10 DEF LateDelivery, table, publisherVars
  <2>2. j \in 1..Len(outbox) /\ Late(j) = 1
    BY DEF TypeOK, Late
  <2>3. CASE Deliver(outbox[j])
    BY <1>1, <1>3, <2>1, <2>2, <2>3 DEF RowAccounted, Late, Owed
  <2>4. CASE UNCHANGED <<log, announced>>
    BY <1>1, <2>1, <2>4, SentSame DEF RowAccounted, Late, Owed
  <2> QED
    BY <1>10, <2>3, <2>4 DEF LateDelivery
<1>11. ASSUME NEW k \in Partitions, ForeignRecord(k) PROVE RowAccounted(i)
  <2>1. Sent' = Sent
    BY <1>11, SentForeign
  <2> QED
    BY <1>4, <1>11, <2>1 DEF ForeignRecord, Fault, table, publisherVars,
       TypeOK, FaultKinds
<1>12. CASE \/ \E r \in Runs : Submit(r) \/ FinishRun(r)
            \/ \E p \in Publishers : ClaimBatch(p)
            \/ \E k \in Partitions : Assignment(k) \/ Rebalance(k)
            \/ \E w \in Workers :
                 WorkerStep(w) \/ HandleFails(w) \/ CommitFails(w)
  <2>1. UNCHANGED <<log, announced, inflight, published, marked>>
    BY <1>12 DEF Submit, FinishRun, ClaimBatch, Assignment, Assign, Rebalance,
       WorkerStep, Poll, Handle, Commit, HandleFails, CommitFails, table,
       kafka, publisherVars
  <2>2. faults'["publisher"] = faults["publisher"]
    BY <1>12 DEF Submit, FinishRun, ClaimBatch, Assignment, Assign, Rebalance,
       WorkerStep, Poll, Handle, Commit, HandleFails, CommitFails, Fault,
       TypeOK, FaultKinds
  <2> QED
    BY <1>4, <2>1, <2>2, SentSame
<1> QED
  BY <1>5, <1>6, <1>8, <1>9, <1>10, <1>11, <1>12 DEF Next, PublisherStep,
     PublisherFault

(* The account stays balanced: a row that is added has not been sent.      *)
LEMMA AccountedStep ==
  ASSUME DeliveryInv, CopiesInv, Next
  PROVE  Accounted'
<1>0. TypeOK /\ TypeOK'
  BY TypeStep DEF DeliveryInv
<1>1. \A i \in 1..Len(outbox) : outbox'[i] = outbox[i] /\ RowAccounted(i)
  BY OldRowsAccounted, NextGrows DEF Grows
<1>2. CASE outbox' = outbox
  BY <1>1, <1>2 DEF Accounted, RowAccounted, Late, Owed
<1>3. ASSUME NEW r \in Runs, NEW e \in Events, RowAdded(r, e)
      PROVE  Accounted'
  <2> DEFINE n == Len(outbox) + 1
  <2>1. /\ Len(outbox') = n /\ Len(outbox) \in Nat
        /\ outbox'[n] = e
    BY <1>0, <1>3, AppendRow DEF RowAdded, TypeOK
  <2>2. \A i \in 1..Len(outbox) : outbox[i] # e
    BY <1>3, RowAddedIsNew DEF CopiesInv
  <2>3. Sent[e] = 0
    BY <2>2 DEF CopiesInv, SentFromRows
  <2>4. Sent'[e] = 0
    <3>1. CASE Sent' = Sent
      BY <2>3, <3>1
    <3>2. ASSUME NEW i \in 1..Len(outbox), Deliver(outbox[i])
          PROVE  Sent'[e] = 0
      <4>1. PICK f \in Events : f = outbox[i] /\ f # e
        BY <1>0, <2>2, RowType
      <4> QED
        BY <1>0, <2>3, <3>2, <4>1, SentDeliver
    <3> QED
      BY <3>1, <3>2, TopicsStep
  <2>5. UNCHANGED inflight
    <3>1. outbox' # outbox
      BY <2>1
    <3> QED
      BY <3>1 DEF Next, Submit, FinishRun, PublisherStep, PublisherFault,
         ClaimBatch, CommitBatch, Publish, BatchAborts, PublishFails,
         LateDelivery, ForeignRecord, Assignment, Assign, Rebalance,
         WorkerStep, Poll, Handle, Commit, HandleFails, CommitFails, table,
         kafka
  <2>6. n \notin inflight' /\ faults'["publisher"] \in Nat
    BY <1>0, <2>1, <2>5 DEF TypeOK, FaultKinds
  <2> QED
    BY <1>1, <2>1, <2>4, <2>6 DEF Accounted, RowAccounted, Late, Owed
<1> QED
  BY <1>2, <1>3, RowsStep

(* Before anything happened there is nothing to account for.               *)
LEMMA CopiesInit == Init => CopiesInv
<1> SUFFICES ASSUME Init PROVE CopiesInv
  OBVIOUS
<1>1. /\ outbox = <<>>
      /\ \A k \in Partitions : log[k] = <<>>
      /\ \A r \in Runs : announced[r] = 0
  BY DEF Init
<1>2. \A r \in Runs : Places(r) = {}
  BY <1>1, DeliveryAssumption DEF Places
<1>3. \A e \in Events : Sent[e] = 0
  <2>1. \A e \in Events : e.run \in Runs
    BY DEF Events
  <2>2. Cardinality({}) = 0
    BY FS_EmptySet
  <2>3. ASSUME NEW e \in Events PROVE Sent[e] = 0
    <3>1. Places(e.run) = {} /\ announced[e.run] = 0
      BY <1>1, <1>2, <2>1
    <3> QED
      BY <2>2, <3>1 DEF Sent
  <2> QED
    BY <2>3
<1>4. SentFromRows
  BY <1>3 DEF SentFromRows
<1>5. ClaimsApart
  BY DEF Init, ClaimsApart
<1> QED
  BY <1>1, <1>4, <1>5 DEF CopiesInv, RowsUnique, Accounted

(* The account is kept for ever.                                           *)
LEMMA CopiesInvariant == Spec => []CopiesInv
<1>1. Init => CopiesInv
  BY CopiesInit
<1>2. DeliveryInv /\ CopiesInv /\ [Next]_vars => CopiesInv'
  <2>1. CASE UNCHANGED vars
    <3>1. Sent' = Sent
      BY <2>1, SentSame DEF vars, kafka
    <3> QED
      BY <2>1, <3>1 DEF CopiesInv, RowsUnique, SentFromRows, ClaimsApart,
         Accounted, Late, Owed, vars, table, kafka, publisherVars
  <2> QED
    BY <2>1, UniqueStep, SentRowsStep, ClaimsStep, AccountedStep DEF CopiesInv
<1> QED
  BY <1>1, <1>2, DeliveryInvariant, PTL DEF Spec

(* However many publishers run side by side, a record of the requests or   *)
(* of the events topic has no more further copies than publications have   *)
(* failed.                                                                 *)
THEOREM CopiesAreAccountedFor == Spec => []CopiesNeedFailures
<1>1. DeliveryInv /\ CopiesInv => CopiesNeedFailures
  <2> SUFFICES ASSUME DeliveryInv, CopiesInv, NEW r \in Runs
               PROVE  /\ Copies(r) <= 1 + faults["publisher"]
                      /\ announced[r] <= 1 + faults["publisher"]
    BY DEF CopiesNeedFailures
  <2>1. Sent \in [Events -> Nat] /\ faults["publisher"] \in Nat
    BY SentType DEF DeliveryInv, TypeOK, FaultKinds
  <2>2. ASSUME NEW e \in Events PROVE Sent[e] <= 1 + faults["publisher"]
    <3>1. CASE Sent[e] = 0
      BY <2>1, <3>1
    <3>2. CASE \E i \in 1..Len(outbox) : outbox[i] = e
      BY <2>1, <3>2 DEF CopiesInv, Accounted, Late, Owed
    <3> QED
      BY <3>1, <3>2 DEF CopiesInv, SentFromRows
  <2>3. /\ Request(r) \in Events /\ Request(r).run = r
        /\ Request(r).type = "run.requested"
        /\ Outcome(r) \in Events /\ Outcome(r).run = r
        /\ Outcome(r).type = "outcome"
    BY DEF Request, Outcome, Events
  <2>4. Copies(r) = Sent[Request(r)] /\ announced[r] = Sent[Outcome(r)]
    BY <2>3 DEF Sent, Copies, Places
  <2> QED
    BY <2>2, <2>3, <2>4
<1> QED
  BY <1>1, CopiesInvariant, DeliveryInvariant, PTL

-----------------------------------------------------------------------------
(* The refinement of EventFlow                                             *)

Stored == {outbox[i] : i \in 1..Len(outbox)}
Arrived == {e \in Events : InKafka(e)}
Confirmed == {outbox[i] : i \in published}

(* A request lies in the partition of its run, where it counts as arrived. *)
InOwnPartition ==
    \A k \in Partitions : \A i \in 1..Len(log[k]) :
        log[k][i] \in Runs => PartitionOf[log[k][i]] = k

(* An event has arrived if a record of it has been sent.                   *)
ArrivedAreSent == \A e \in Events : InKafka(e) <=> Sent[e] # 0

(* Presence in Kafka and the count of records agree.                       *)
LEMMA ArrivedIsSent == TypeOK => ArrivedAreSent
<1> SUFFICES ASSUME TypeOK, NEW e \in Events
             PROVE  InKafka(e) <=> Sent[e] # 0
  BY DEF ArrivedAreSent
<1>1. e.run \in Runs
  BY DEF Events
<1>2. CASE e.type = "run.requested"
  <2>1. IsFiniteSet(Places(e.run))
    BY <1>1, SentType
  <2>2. Cardinality(Places(e.run)) = 0 <=> Places(e.run) = {}
    BY <2>1, FS_EmptySet
  <2>3. InLog(e.run) <=> Places(e.run) # {}
    BY DEF InLog, Places
  <2> QED
    BY <1>2, <2>2, <2>3 DEF InKafka, Sent
<1>3. CASE e.type # "run.requested"
  BY <1>1, <1>3 DEF InKafka, Sent, TypeOK
<1> QED
  BY <1>2, <1>3

(* Where no record is sent, nothing arrives; a delivery is an arrival.     *)
LEMMA ArrivedStep ==
  ASSUME TypeOK, TypeOK'
  PROVE  /\ Sent' = Sent => Arrived' = Arrived
         /\ \A e \in Events : Deliver(e) => Arrived' = Arrived \cup {e}
<1>1. ArrivedAreSent
  BY ArrivedIsSent
<1>2. ArrivedAreSent'
  BY ArrivedIsSent, PTL
<1>3. ASSUME Sent' = Sent PROVE Arrived' = Arrived
  BY <1>1, <1>2, <1>3 DEF Arrived, ArrivedAreSent
<1>4. ASSUME NEW e \in Events, Deliver(e) PROVE Arrived' = Arrived \cup {e}
  <2>1. /\ Sent'[e] = Sent[e] + 1
        /\ \A f \in Events : f # e => Sent'[f] = Sent[f]
    BY <1>4, SentDeliver
  <2>2. Sent[e] \in Nat
    BY SentType
  <2> QED
    BY <1>1, <1>2, <2>1, <2>2 DEF Arrived, ArrivedAreSent
<1> QED
  BY <1>3, <1>4

(* A row that is added is one more stored event, and confirms nothing.     *)
LEMMA StoredStep ==
  ASSUME TypeOK, NEW e \in Events, outbox' = Append(outbox, e),
         published' = published
  PROVE  Stored' = Stored \cup {e} /\ Confirmed' = Confirmed
<1>1. /\ Len(outbox') = Len(outbox) + 1 /\ Len(outbox) \in Nat
      /\ \A i \in 1..Len(outbox) : outbox'[i] = outbox[i]
      /\ outbox'[Len(outbox) + 1] = e
  BY AppendRow DEF TypeOK
<1>2. published \subseteq 1..Len(outbox)
  BY DEF TypeOK
<1> QED
  BY <1>1, <1>2 DEF Stored, Confirmed

(* Records are added at the partition of their run, or name no run.        *)
LEMMA PartitionStep ==
  ASSUME DeliveryInv, InOwnPartition, Next
  PROVE  InOwnPartition'
<1> USE DEF DeliveryInv
<1>1. CASE log' = log
  BY <1>1 DEF InOwnPartition
<1>2. ASSUME NEW k \in Partitions, NEW x \in Records,
             x \in Runs => PartitionOf[x] = k,
             log' = [log EXCEPT ![k] = Append(@, x)]
      PROVE  InOwnPartition'
  <2>1. log[k] \in Seq(Records) /\ log'[k] = Append(log[k], x)
    BY <1>2 DEF TypeOK
  <2>2. \A j \in Partitions : j # k => log'[j] = log[j]
    BY <1>2 DEF TypeOK
  <2>3. \A i \in 1..Len(log'[k]) :
          log'[k][i] = x \/ (i \in 1..Len(log[k]) /\ log'[k][i] = log[k][i])
    <3>1. Len(log[k]) \in Nat /\ Len(log'[k]) = Len(log[k]) + 1
      BY <2>1
    <3>2. /\ log'[k][Len(log[k]) + 1] = x
          /\ \A i \in 1..Len(log[k]) : log'[k][i] = log[k][i]
      BY <2>1
    <3> QED
      BY <3>1, <3>2
  <2> QED
    BY <1>2, <2>2, <2>3 DEF InOwnPartition
<1>3. ASSUME NEW k \in Partitions, ForeignRecord(k) PROVE InOwnPartition'
  BY <1>2, <1>3, DeliveryAssumption DEF ForeignRecord, Records
<1>4. ASSUME NEW e \in Events, Deliver(e) PROVE InOwnPartition'
  BY <1>1, <1>2, <1>4, DeliveryAssumption DEF Deliver, Events, Records
<1>5. ASSUME NEW i \in 1..Len(outbox), Deliver(outbox[i])
      PROVE  InOwnPartition'
  BY <1>4, <1>5, RowType
<1>6. inflight \subseteq 1..Len(outbox)
      /\ \A p \in Publishers : claimed[p] \subseteq 1..Len(outbox)
  BY DEF TypeOK
<1> QED
  BY <1>1, <1>3, <1>5, <1>6 DEF Next, Submit, FinishRun, PublisherStep,
     PublisherFault, ClaimBatch, CommitBatch, Publish, BatchAborts,
     PublishFails, LateDelivery, Assignment, Assign, Rebalance, WorkerStep,
     Poll, Handle, Commit, HandleFails, CommitFails, kafka

(* Requests lie where they belong, always.                                 *)
LEMMA PartitionInvariant == Spec => []InOwnPartition
<1>1. Init => InOwnPartition
  BY DEF Init, InOwnPartition
<1>2. DeliveryInv /\ InOwnPartition /\ [Next]_vars => InOwnPartition'
  BY PartitionStep DEF InOwnPartition, vars, kafka
<1> QED
  BY <1>1, <1>2, DeliveryInvariant, PTL DEF Spec

(* The events of both specifications are the same.                         *)
LEMMA FlowEvents ==
  ASSUME NEW r \in Runs
  PROVE  /\ Flow!FlowEvent(r, "run.requested") = Request(r)
         /\ Flow!FlowEvent(r, "outcome") = Outcome(r)
         /\ Request(r) \in Events /\ Outcome(r) \in Events
BY DEF Flow!FlowEvent, Request, Outcome, Events

(* A step that changes neither runs, rows, marks nor topics.               *)
FlowStutter == UNCHANGED <<status, Stored, Arrived, Confirmed>>

FlowStep == Flow!FlowNext \/ FlowStutter

(* A decision is taken on a request that has arrived, by a run that waits  *)
(* for it; every other record leaves the runs alone.                       *)
LEMMA FlowConsume ==
  ASSUME DeliveryInv, DeliveryInv', InOwnPartition, NEW w \in Workers,
         pc[w] # "poll", Consume(record[w]),
         UNCHANGED <<published, log, announced>>
  PROVE  FlowStep
<1> USE DEF DeliveryInv
<1>1. PICK k \in Partitions, o \in Nat :
        /\ o \in 1..Len(log[k])
        /\ record[w].partition = k /\ record[w].offset = o
  BY RecordParts
<1>2. Arrived' = Arrived
  BY SentSame, ArrivedStep
<1>3. CASE UNCHANGED <<status, outbox>>
  BY <1>2, <1>3 DEF FlowStep, FlowStutter, Stored, Confirmed
<1>4. ASSUME NEW r \in Runs, r = log[k][o], status[r] = "queued"
      PROVE  FlowStep
  <2>1. PartitionOf[r] = k
    BY <1>1, <1>4 DEF InOwnPartition
  <2>2. InLog(r)
    BY <1>1, <1>4, <2>1 DEF InLog
  <2>3. InKafka(Request(r))
    BY <2>2 DEF InKafka, Request
  <2>4. Flow!FlowEvent(r, "run.requested") \in Arrived
    BY <1>4, <2>3, FlowEvents DEF Arrived
  <2>5. CASE status' = [status EXCEPT ![r] = "accepted"] /\ outbox' = outbox
    <3>1. Stored' = Stored /\ Confirmed' = Confirmed
      BY <2>5 DEF Stored, Confirmed
    <3>2. Flow!Decide(r)
      BY <1>2, <1>4, <2>4, <2>5, <3>1
         DEF Flow!Decide, Stored, Arrived, Confirmed
    <3> QED
      BY <1>4, <3>2 DEF FlowStep, Flow!FlowNext
  <2>6. CASE /\ status' = [status EXCEPT ![r] = "finished"]
             /\ outbox' = Append(outbox, Outcome(r))
    <3>1. Stored' = Stored \cup {Outcome(r)} /\ Confirmed' = Confirmed
      BY <1>4, <2>6, StoredStep, FlowEvents
    <3>2. Flow!Enter(r, "finished", "outcome")
      BY <1>2, <1>4, <2>6, <3>1, FlowEvents
         DEF Flow!Enter, Stored, Arrived, Confirmed
    <3>3. Flow!Decide(r)
      BY <1>4, <2>4, <3>2 DEF Flow!Decide, Arrived
    <3> QED
      BY <1>4, <3>3 DEF FlowStep, Flow!FlowNext
  <2> QED
    BY <1>1, <1>4, <2>5, <2>6 DEF Consume
<1>5. CASE log[k][o] \in Runs /\ status[log[k][o]] = "queued"
  BY <1>4, <1>5
<1> QED
  BY <1>1, <1>3, <1>5 DEF Consume

(* A record that reaches Kafka is that of a stored event.                  *)
LEMMA FlowDeliver ==
  ASSUME DeliveryInv, DeliveryInv', NEW i \in 1..Len(outbox),
         Deliver(outbox[i]), UNCHANGED <<status, outbox, published>>
  PROVE  FlowStep
<1> USE DEF DeliveryInv
<1>1. PICK e \in Events : e = outbox[i]
  BY RowType
<1>2. Arrived' = Arrived \cup {e}
  BY <1>1, ArrivedStep
<1>3. Stored' = Stored /\ Confirmed' = Confirmed /\ e \in Stored
  BY <1>1 DEF Stored, Confirmed
<1>4. Flow!Arrive(e)
  BY <1>2, <1>3 DEF Flow!Arrive, Stored, Arrived, Confirmed
<1> QED
  BY <1>3, <1>4 DEF FlowStep, Flow!FlowNext, Stored

(* What a batch commits was acknowledged, so Kafka has it.                 *)
LEMMA FlowCommit ==
  ASSUME DeliveryInv, DeliveryInv', NEW p \in Publishers, CommitBatch(p)
  PROVE  FlowStep
<1> USE DEF DeliveryInv
<1>0. PICK batch : batch = {outbox[i] : i \in marked[p]}
  OBVIOUS
<1>1. marked[p] \subseteq 1..Len(outbox)
  BY DEF TypeOK
<1>2. batch \subseteq Arrived
  BY <1>0, <1>1, RowType DEF PublishInv, MarkedIsInKafka, Arrived
<1>3. UNCHANGED <<status, outbox, log, announced>>
      /\ published' = published \cup marked[p]
  BY DEF CommitBatch, kafka
<1>4. Arrived' = Arrived
  BY <1>3, SentSame, ArrivedStep
<1>5. Stored' = Stored /\ Confirmed' = Confirmed \cup batch
  BY <1>0, <1>3 DEF Stored, Confirmed
<1>6. Flow!Confirm(batch)
  BY <1>3, <1>4, <1>5 DEF Flow!Confirm, Stored, Arrived, Confirmed
<1> QED
  BY <1>2, <1>6 DEF FlowStep, Flow!FlowNext, Arrived

(* Every step of Delivery is one of EventFlow, or changes nothing there.   *)
LEMMA FlowSimulation ==
  ASSUME DeliveryInv, DeliveryInv', InOwnPartition, [Next]_vars
  PROVE  FlowStep
<1> USE DEF DeliveryInv
<1>1. CASE UNCHANGED <<status, outbox, published>> /\ Sent' = Sent
  BY <1>1, ArrivedStep DEF FlowStep, FlowStutter, Stored, Confirmed
<1>2. CASE UNCHANGED <<status, outbox, published, log, announced>>
  BY <1>1, <1>2, SentSame
<1>3. ASSUME NEW r \in Runs, Submit(r) PROVE FlowStep
  <2>1. Arrived' = Arrived
    BY <1>3, SentSame, ArrivedStep DEF Submit, kafka
  <2>2. Stored' = Stored \cup {Request(r)} /\ Confirmed' = Confirmed
    BY <1>3, StoredStep, FlowEvents DEF Submit
  <2>3. Flow!Submit(r)
    BY <1>3, <2>1, <2>2, FlowEvents
       DEF Submit, Flow!Submit, Flow!Enter, Stored, Arrived, Confirmed
  <2> QED
    BY <2>3 DEF FlowStep, Flow!FlowNext
<1>4. ASSUME NEW r \in Runs, FinishRun(r) PROVE FlowStep
  <2>1. Arrived' = Arrived
    BY <1>4, SentSame, ArrivedStep DEF FinishRun, kafka
  <2>2. Stored' = Stored \cup {Outcome(r)} /\ Confirmed' = Confirmed
    BY <1>4, StoredStep, FlowEvents DEF FinishRun
  <2>3. Flow!Finish(r)
    BY <1>4, <2>1, <2>2, FlowEvents
       DEF FinishRun, Flow!Finish, Flow!Enter, Stored, Arrived, Confirmed
  <2> QED
    BY <2>3 DEF FlowStep, Flow!FlowNext
<1>5. ASSUME NEW p \in Publishers, PublisherStep(p) \/ PublisherFault(p)
      PROVE  FlowStep
  <2>1. claimed[p] \subseteq 1..Len(outbox)
    BY DEF TypeOK
  <2> QED
    BY <1>2, <1>5, <2>1, FlowDeliver, FlowCommit DEF PublisherStep,
       PublisherFault, ClaimBatch, Publish, PublishFails, BatchAborts, table,
       kafka
<1>6. ASSUME NEW i \in inflight, LateDelivery(i) PROVE FlowStep
  <2>1. i \in 1..Len(outbox)
    BY DEF TypeOK
  <2> QED
    BY <1>2, <1>6, <2>1, FlowDeliver DEF LateDelivery, table
<1>7. ASSUME NEW k \in Partitions,
             ForeignRecord(k) \/ Assignment(k) \/ Rebalance(k)
      PROVE  FlowStep
  BY <1>1, <1>2, <1>7, SentForeign
     DEF ForeignRecord, Assignment, Assign, Rebalance, table, kafka
<1>8. ASSUME NEW w \in Workers,
             WorkerStep(w) \/ HandleFails(w) \/ CommitFails(w)
      PROVE  FlowStep
  BY <1>2, <1>8, FlowConsume DEF WorkerStep, Poll, Handle, Commit,
     HandleFails, CommitFails, table, kafka
<1>9. CASE UNCHANGED vars
  BY <1>2, <1>9 DEF vars, table, kafka
<1> QED
  BY <1>3, <1>4, <1>5, <1>6, <1>7, <1>8, <1>9 DEF Next

(* Whatever fails, repeats or overtakes between the outbox and the         *)
(* decision, Delivery implements EventFlow.                                *)
THEOREM DeliveryImplementsFlow == Spec => ImplementsFlow
<1>1. Init => Flow!FlowInit
  <2> SUFFICES ASSUME Init PROVE Flow!FlowInit
    OBVIOUS
  <2>1. TypeOK
    BY InitType
  <2>2. \A r \in Runs : ~InLog(r) /\ announced[r] = 0
    BY DeliveryAssumption DEF Init, InLog
  <2>3. \A e \in Events : ~InKafka(e)
    BY <2>2 DEF InKafka, Events
  <2> QED
    BY <2>3 DEF Init, Flow!FlowInit
<1>2. DeliveryInv /\ DeliveryInv' /\ InOwnPartition /\ [Next]_vars
        => [Flow!FlowNext]_(Flow!flowVars)
  BY FlowSimulation
     DEF FlowStep, FlowStutter, Flow!flowVars, Stored, Arrived, Confirmed
<1> QED
  BY <1>1, <1>2, DeliveryInvariant, PartitionInvariant, PTL
     DEF Spec, ImplementsFlow, Flow!FlowSpec
=============================================================================
