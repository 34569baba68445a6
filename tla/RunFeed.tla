------------------------------ MODULE RunFeed ------------------------------
(***************************************************************************)
(* The personal live feed of one API process: PostgreSQL notifications,    *)
(* the listener thread that turns them into updates, the RunFeed object    *)
(* with its two locks, and the SSE streams that carry updates to clients.  *)
(* The listener, the snapshot executor and the event loop run as threads   *)
(* of one process; every step below is one critical section of _lock, one  *)
(* database read, or one stretch of a coroutine between two awaits.        *)
(*                                                                         *)
(* A run is abstracted to the stage its row has reached: 0 before the      *)
(* INSERT, Final when the status is terminal.  Artifacts only appear in    *)
(* the transaction that ends a run.                                        *)
(***************************************************************************)
EXTENDS Integers, Sequences, FiniteSets

CONSTANTS Users,
          NoOwner,         \* a run without requested_by, or a payload without it
          MaxRuns,         \* bound: runs, numbered in the order of created_at
          Owner,           \* Owner[r]: requested_by
          Final,           \* the terminal stage
          Streams,         \* connections of clients
          Caller,          \* Caller[s]: the user who opens it
          PerUser,         \* SSE_MAX_STREAMS_PER_USER
          Total,           \* SSE_MAX_STREAMS
          PendingLimit,    \* SSE_PENDING_RUNS
          TerminalRuns,    \* SNAPSHOT_TERMINAL_RUNS
          BatchLimit,      \* stop_after: notifications gathered for one publish
          MaxBreaks,       \* bound: losses of the LISTEN connection
          MaxReadFailures, \* bound: reads of the store that fail
          MaxRevocations   \* bound: accounts deactivated, tokens expired

Runs == 1..MaxRuns
Stages == 0..Final

ASSUME FeedAssumption ==
    /\ NoOwner \notin Users
    /\ Owner \in [Runs -> Users \cup {NoOwner}]
    /\ Caller \in [Streams -> Users]
    /\ Final \in Nat \ {0}
    /\ {PerUser, Total, PendingLimit, BatchLimit} \subseteq Nat \ {0}
    /\ {MaxRuns, TerminalRuns, MaxBreaks, MaxReadFailures, MaxRevocations} \subseteq Nat
    /\ Streams \cap {"free", "listener"} = {}

Nothing == [r \in Runs |-> 0]
Known(u) == {r \in DOMAIN u : u[r] # 0}
Change == [run : Runs, owner : Users \cup {NoOwner}]

VARIABLES
    stage,      \* stage[r]: what is committed in the runs table
    channel,    \* notifications on their way to the listener, oldest first
    link,       \* the LISTEN connection: "down", "up" or "broken"
    listener,   \* the listener thread: pc, taken, batch, found, store_failed
    available,  \* RunFeed._available
    reads,      \* holder of RunFeed._reads
    stream,     \* stream[s]: the coroutine of s and its Subscription
    view,       \* view[s][r]: the stage of r last sent to the client of s
    active,     \* users whose account is active
    expired,    \* streams whose token has expired
    budget      \* faults that may still happen

vars == <<stage, channel, link, listener, available, reads, stream, view,
          active, expired, budget>>

ListenerSteps == {"connect", "listening", "idle", "gather", "watch", "find",
                  "resync", "deliver", "failed", "stopped"}
StreamSteps == {"new", "subscribed", "snapshot", "open", "drain", "heartbeat",
                "check", "send", "wait", "ending", "closed"}

(* Types, and who holds _reads: a publish of the listener or a snapshot of *)
(* one stream, exactly while it is in progress (RunFeed._reads).           *)
TypeOK ==
    /\ stage \in [Runs -> Stages]
    /\ channel \in Seq(Change)
    /\ link \in {"down", "up", "broken"}
    /\ listener \in [pc : ListenerSteps, taken : 0..BatchLimit, batch : Seq(Change),
                     found : Stages, store_failed : BOOLEAN]
    /\ available \in BOOLEAN
    /\ reads \in {"free", "listener"} \cup Streams
    /\ stream \in [Streams -> [pc : StreamSteps, hand : [Runs -> Stages],
                               pending : [Runs -> Stages],
                               error : {"none", "unavailable", "resync_required"},
                               changed : BOOLEAN, wakes : Nat]]
    /\ view \in [Streams -> [Runs -> Stages]]
    /\ active \subseteq Users /\ expired \subseteq Streams
    /\ budget \in [{"break", "read", "revoke"} -> Nat]
    /\ reads = "listener" <=>
         listener.pc \in {"watch", "find", "resync", "deliver"}
    /\ \A s \in Streams : reads = s <=> stream[s].pc = "snapshot"

(* A stream with a Subscription as its constructor leaves it.              *)
Fresh(step) == [pc |-> step, hand |-> Nothing, pending |-> Nothing,
                error |-> "none", changed |-> FALSE, wakes |-> 0]

Init ==
    /\ stage = [r \in Runs |-> 0]
    /\ channel = <<>> /\ link = "down"
    /\ listener = [pc |-> "connect", taken |-> 0, batch |-> <<>>, found |-> 0,
                   store_failed |-> FALSE]
    /\ available = FALSE
    /\ reads = "free"
    /\ stream = [s \in Streams |-> Fresh("new")]
    /\ view = [s \in Streams |-> Nothing]
    /\ active = Users /\ expired = {}
    /\ budget = [break |-> MaxBreaks, read |-> MaxReadFailures,
                 revoke |-> MaxRevocations]

Spend(kind) ==
    /\ budget[kind] > 0
    /\ budget' = [budget EXCEPT ![kind] = @ - 1]

-----------------------------------------------------------------------------
(* The database                                                            *)

Note(r) == [run |-> r, owner |-> Owner[r]]
ArtifactNote(r) == [run |-> r, owner |-> NoOwner]

(* A transaction moves run r on to stage v.  The triggers notify with the  *)
(* owner for the runs row, without it for artifact rows; a transaction     *)
(* sends equal payloads once, and only sessions that listen get them.      *)
CommitRun(r, v) ==
    /\ stage[r] < v
    /\ stage[r] = 0 => v = 1 /\ \A q \in 1..(r - 1) : stage[q] # 0
    /\ stage' = [stage EXCEPT ![r] = v]
    /\ \E notes \in {<<Note(r)>>} \cup
                    IF v = Final
                    THEN {<<Note(r), ArtifactNote(r)>>,
                          <<ArtifactNote(r), Note(r)>>}
                    ELSE {} :
         channel' = IF link = "up" THEN channel \o notes ELSE channel
    /\ UNCHANGED <<link, listener, available, reads, stream, view, active,
                   expired, budget>>

(* An administrator deactivates an account.                                *)
Deactivate(u) ==
    /\ Spend("revoke")
    /\ u \in active
    /\ active' = active \ {u}
    /\ UNCHANGED <<stage, channel, link, listener, available, reads, stream,
                   view, expired>>

(* Time passes the expiry of the token that opened s.                      *)
Expire(s) ==
    /\ Spend("revoke")
    /\ s \notin expired
    /\ expired' = expired \cup {s}
    /\ UNCHANGED <<stage, channel, link, listener, available, reads, stream,
                   view, active>>

(* The connection of the listener is lost: nothing more reaches it.        *)
BreakLink ==
    /\ Spend("break")
    /\ link = "up"
    /\ link' = "broken"
    /\ UNCHANGED <<stage, channel, listener, available, reads, stream, view,
                   active, expired>>

-----------------------------------------------------------------------------
(* RunFeed: the effect of its critical sections on subscriptions           *)

Subscribed == {s \in Streams : stream[s].pc \notin {"new", "closed"}}
Healthy == {s \in Subscribed : stream[s].error = "none"}

(* RunFeed._fail.                                                          *)
Fail(sub, code) ==
    IF sub.error = "none"
    THEN [sub EXCEPT !.error = code, !.pending = Nothing, !.wakes = @ + 1]
    ELSE sub

(* RunFeed._resync and the loop of unavailable.                            *)
FailAll(subs, code) ==
    [s \in Streams |-> IF s \in subs THEN Fail(stream[s], code) ELSE stream[s]]

(* Faulty variant: a full buffer drops the update and keeps the stream.    *)
Store_DropsOverflow(sub, r, v) ==
    IF r \notin Known(sub.pending) /\ Cardinality(Known(sub.pending)) >= PendingLimit
    THEN sub
    ELSE [sub EXCEPT !.pending[r] = v,
                     !.wakes = IF sub.pending = Nothing THEN @ + 1 ELSE @]

(* One subscription's turn in RunFeed._deliver.                            *)
Store(sub, r, v) ==
    IF r \notin Known(sub.pending) /\ Cardinality(Known(sub.pending)) >= PendingLimit
    THEN Fail(sub, "resync_required")
    ELSE [sub EXCEPT !.pending[r] = v,
                     !.wakes = IF sub.pending = Nothing THEN @ + 1 ELSE @]

-----------------------------------------------------------------------------
(* The listener thread: RunNotifications._run                              *)

(* Connect, find the triggers, LISTEN.  A failure to connect calls         *)
(* unavailable() again, which changes nothing.                             *)
Connect ==
    /\ listener.pc = "connect"
    /\ link' = "up" /\ channel' = <<>>
    /\ listener' = [listener EXCEPT !.pc = "listening"]
    /\ UNCHANGED <<stage, available, reads, stream, view, active, expired,
                   budget>>

(* RunFeed.available.                                                      *)
MakeAvailable ==
    /\ listener.pc = "listening"
    /\ available' = TRUE
    /\ listener' = [listener EXCEPT !.pc = "idle"]
    /\ UNCHANGED <<stage, channel, link, reads, stream, view, active, expired,
                   budget>>

(* changes[run_id] = owner or changes.get(run_id), in order of first sight. *)
Merge(batch, change) ==
    IF \E i \in DOMAIN batch : batch[i].run = change.run
    THEN [i \in DOMAIN batch |->
            IF batch[i].run = change.run /\ change.owner # NoOwner
            THEN change ELSE batch[i]]
    ELSE Append(batch, change)

(* notifies(timeout, stop_after) yields one notification after the other.  *)
Gather ==
    /\ listener.pc \in {"idle", "gather"}
    /\ channel # <<>> /\ listener.taken < BatchLimit
    /\ listener' = [listener EXCEPT !.pc = "gather", !.taken = @ + 1,
                                    !.batch = Merge(@, Head(channel))]
    /\ channel' = Tail(channel)
    /\ UNCHANGED <<stage, link, available, reads, stream, view, active, expired,
                   budget>>

(* It pauses or has yielded enough: publish(changes) takes _reads.         *)
Publish ==
    /\ listener.pc = "gather"
    /\ reads = "free"
    /\ reads' = "listener"
    /\ listener' = [listener EXCEPT !.pc = "watch", !.taken = 0,
                                    !.store_failed = FALSE]
    /\ UNCHANGED <<stage, channel, link, available, stream, view, active,
                   expired, budget>>

(* The loop of publish moves on to the rest of the changes.                *)
Continue(rest, failed) ==
    /\ listener' = [listener EXCEPT
         !.pc = IF rest = <<>> THEN "idle" ELSE "watch",
         !.batch = rest, !.found = 0, !.store_failed = failed]
    /\ reads' = IF rest = <<>> THEN "free" ELSE reads

(* Who is watching decides what becomes of the next change.                *)
PublishWatch ==
    /\ listener.pc = "watch"
    /\ LET change == Head(listener.batch)
           watched == {Caller[s] : s \in Healthy}
       IN \/ /\ watched = {}
             /\ Continue(<<>>, FALSE)
          \/ /\ watched # {}
             /\ change.owner \notin watched \cup {NoOwner}
             /\ Continue(Tail(listener.batch), listener.store_failed)
          \/ /\ watched # {}
             /\ change.owner \in watched \cup {NoOwner}
             /\ listener' = [listener EXCEPT
                  !.pc = IF listener.store_failed THEN "resync" ELSE "find"]
             /\ UNCHANGED reads
    /\ UNCHANGED <<stage, channel, link, available, stream, view, active,
                   expired, budget>>

(* store.find: the committed row, or nothing to deliver if it has no owner. *)
PublishFind ==
    /\ listener.pc = "find"
    /\ LET r == Head(listener.batch).run
       IN \/ /\ Owner[r] # NoOwner
             /\ listener' = [listener EXCEPT !.pc = "deliver", !.found = stage[r]]
             /\ UNCHANGED reads
          \/ /\ Owner[r] = NoOwner
             /\ Continue(Tail(listener.batch), listener.store_failed)
    /\ UNCHANGED <<stage, channel, link, available, stream, view, active,
                   expired, budget>>

PublishFindFails ==
    /\ Spend("read")
    /\ listener.pc = "find"
    /\ listener' = [listener EXCEPT !.pc = "resync"]
    /\ UNCHANGED <<stage, channel, link, available, reads, stream, view,
                   active, expired>>

(* RunFeed._resync(owner).                                                 *)
PublishResync ==
    /\ listener.pc = "resync"
    /\ LET owner == Head(listener.batch).owner
       IN stream' = FailAll({s \in Subscribed : owner \in {NoOwner, Caller[s]}},
                            "resync_required")
    /\ Continue(Tail(listener.batch), TRUE)
    /\ UNCHANGED <<stage, channel, link, available, view, active, expired,
                   budget>>

(* Faulty variant: hands the update to every healthy subscription.         *)
PublishDeliver_Everyone ==
    /\ listener.pc = "deliver"
    /\ LET r == Head(listener.batch).run
       IN stream' = [s \in Streams |->
            IF s \in Healthy THEN Store(stream[s], r, listener.found)
            ELSE stream[s]]
    /\ Continue(Tail(listener.batch), listener.store_failed)
    /\ UNCHANGED <<stage, channel, link, available, view, active, expired,
                   budget>>

(* RunFeed._deliver.                                                       *)
PublishDeliver ==
    /\ listener.pc = "deliver"
    /\ LET r == Head(listener.batch).run
       IN stream' = [s \in Streams |->
            IF s \in Healthy /\ Caller[s] = Owner[r]
            THEN Store(stream[s], r, listener.found)
            ELSE stream[s]]
    /\ Continue(Tail(listener.batch), listener.store_failed)
    /\ UNCHANGED <<stage, channel, link, available, view, active, expired,
                   budget>>

(* notifies() raises on the lost connection; what it had gathered is lost. *)
NoticeBreak ==
    /\ listener.pc \in {"idle", "gather"} /\ link = "broken"
    /\ listener' = [listener EXCEPT !.pc = "failed", !.taken = 0, !.batch = <<>>]
    /\ channel' = <<>>
    /\ UNCHANGED <<stage, link, available, reads, stream, view, active,
                   expired, budget>>

(* Faulty variant: stops new subscriptions and forgets the open ones.      *)
MakeUnavailable_KeepsStreams ==
    /\ listener.pc = "failed"
    /\ available' = FALSE
    /\ link' = "down"
    /\ listener' = [listener EXCEPT !.pc = "connect"]
    /\ UNCHANGED <<stage, channel, reads, stream, view, active, expired,
                   budget>>

(* RunFeed.unavailable, then the wait before the next attempt.             *)
MakeUnavailable ==
    /\ listener.pc = "failed"
    /\ available' = FALSE
    /\ stream' = FailAll(Subscribed, "unavailable")
    /\ link' = "down"
    /\ listener' = [listener EXCEPT !.pc = "connect"]
    /\ UNCHANGED <<stage, channel, reads, view, active, expired, budget>>

(* RunNotifications.stop: both loops see stop_event and end.               *)
Stop ==
    /\ listener.pc \in {"connect", "idle"}
    /\ available' = FALSE
    /\ stream' = FailAll(Subscribed, "unavailable")
    /\ link' = "down" /\ channel' = <<>>
    /\ listener' = [listener EXCEPT !.pc = "stopped"]
    /\ UNCHANGED <<stage, reads, view, active, expired, budget>>

-----------------------------------------------------------------------------
(* A stream: the run_events route and its generator                        *)

Goto(s, step) == stream' = [stream EXCEPT ![s].pc = step]

(* The token has not expired and the account is active: access_error, and  *)
(* the checks before the stream is opened.                                 *)
Granted(s) == Caller[s] \in active /\ s \notin expired

(* The checks of the route and RunFeed.subscribe, or an answer 401, 403,   *)
(* 503 or 429.                                                             *)
Subscribe(s) ==
    /\ stream[s].pc = "new"
    /\ IF /\ Granted(s)
          /\ available
          /\ Cardinality(Subscribed) < Total
          /\ Cardinality({q \in Subscribed : Caller[q] = Caller[s]}) < PerUser
       THEN Goto(s, "subscribed")
       ELSE Goto(s, "closed")
    /\ UNCHANGED <<stage, channel, link, listener, available, reads, view,
                   active, expired, budget>>

(* SqlAlchemyRunFeed.snapshot: active runs and the newest terminal ones.   *)
Newest(r) ==
    Cardinality({q \in Runs : q > r /\ Owner[q] = Owner[r] /\ stage[q] = Final})
      < TerminalRuns
Snapshot(user) ==
    [r \in Runs |-> IF Owner[r] = user /\ (stage[r] = Final => Newest(r))
                    THEN stage[r] ELSE 0]

(* RunFeed.snapshot takes _reads and queries the store.                    *)
SnapshotRead(s) ==
    /\ stream[s].pc = "subscribed"
    /\ reads = "free"
    /\ reads' = s
    /\ stream' = [stream EXCEPT ![s].pc = "snapshot",
                                ![s].hand = Snapshot(Caller[s])]
    /\ UNCHANGED <<stage, channel, link, listener, available, view, active,
                   expired, budget>>

(* The query fails: _reads is released and the caller gets 503.            *)
SnapshotFails(s) ==
    /\ Spend("read")
    /\ stream[s].pc = "subscribed"
    /\ reads = "free"
    /\ Goto(s, "ending")
    /\ UNCHANGED <<stage, channel, link, listener, available, reads, view,
                   active, expired>>

(* Faulty variant: keeps what arrived before the snapshot was read.        *)
SnapshotReturn_KeepsPending(s) ==
    /\ stream[s].pc = "snapshot"
    /\ reads' = "free"
    /\ IF stream[s].error # "none" \/ ~available
       THEN Goto(s, "ending")
       ELSE Goto(s, "open")
    /\ UNCHANGED <<stage, channel, link, listener, available, view, active,
                   expired, budget>>

(* The end of RunFeed.snapshot: the snapshot replaces what is pending.     *)
SnapshotReturn(s) ==
    /\ stream[s].pc = "snapshot"
    /\ reads' = "free"
    /\ IF stream[s].error # "none" \/ ~available
       THEN Goto(s, "ending")
       ELSE stream' = [stream EXCEPT ![s].pc = "open", ![s].pending = Nothing]
    /\ UNCHANGED <<stage, channel, link, listener, available, view, active,
                   expired, budget>>

(* What is in hand goes out, frame by frame.                               *)
Send(s, step) ==
    /\ view' = [view EXCEPT ![s] =
         [r \in Runs |-> IF stream[s].hand[r] # 0 THEN stream[s].hand[r]
                         ELSE @[r]]]
    /\ stream' = [stream EXCEPT ![s].pc = step, ![s].hand = Nothing]

(* The first access check, and the snapshot frame if it passes.            *)
OpenStream(s) ==
    /\ stream[s].pc = "open"
    /\ \/ Granted(s) /\ Send(s, "drain")
       \/ ~Granted(s) /\ Goto(s, "ending") /\ UNCHANGED view
    /\ UNCHANGED <<stage, channel, link, listener, available, reads, active,
                   expired, budget>>

(* Faulty variant: an access check only when there is something to send.   *)
Drain_ChecksUpdatesOnly(s) ==
    /\ stream[s].pc \in {"drain", "heartbeat"}
    /\ stream' = [stream EXCEPT
         ![s].changed = FALSE,
         ![s].hand = stream[s].pending, ![s].pending = Nothing,
         ![s].pc = CASE stream[s].error # "none" -> "ending"
                     [] stream[s].pending # Nothing -> "check"
                     [] OTHER -> "wait"]
    /\ UNCHANGED <<stage, channel, link, listener, available, reads, view,
                   active, expired, budget>>

(* RunFeed.drain and what follows up to the next await.  The heartbeat is  *)
(* due after the timer, and may be due after a wakeup.                     *)
Drain(s) ==
    /\ stream[s].pc \in {"drain", "heartbeat"}
    /\ \E due \in BOOLEAN :
        /\ stream[s].pc = "heartbeat" => due
        /\ stream' = [stream EXCEPT
             ![s].changed = FALSE,
             ![s].hand = stream[s].pending, ![s].pending = Nothing,
             ![s].pc = CASE stream[s].error # "none" -> "ending"
                         [] stream[s].error = "none"
                            /\ (due \/ stream[s].pending # Nothing) -> "check"
                         [] OTHER -> IF s \in expired THEN "ending" ELSE "wait"]
    /\ UNCHANGED <<stage, channel, link, listener, available, reads, view,
                   active, expired, budget>>

(* The access check of a batch or a heartbeat.                             *)
CheckAccess(s) ==
    /\ stream[s].pc = "check"
    /\ Goto(s, IF Granted(s) THEN "send" ELSE "ending")
    /\ UNCHANGED <<stage, channel, link, listener, available, reads, view,
                   active, expired, budget>>

(* is_active raises: the stream ends with "unavailable".                   *)
CheckFails(s) ==
    /\ Spend("read")
    /\ stream[s].pc \in {"open", "check"}
    /\ Goto(s, "ending")
    /\ UNCHANGED <<stage, channel, link, listener, available, reads, view,
                   active, expired>>

SendUpdates(s) ==
    /\ stream[s].pc = "send"
    /\ Send(s, "wait")
    /\ UNCHANGED <<stage, channel, link, listener, available, reads, active,
                   expired, budget>>

(* The event loop runs a changed.set that wake() scheduled.                *)
RunWake(s) ==
    /\ stream[s].wakes > 0
    /\ stream' = [stream EXCEPT ![s].wakes = @ - 1, ![s].changed = TRUE]
    /\ UNCHANGED <<stage, channel, link, listener, available, reads, view,
                   active, expired, budget>>

(* changed.wait() returns.                                                 *)
Wake(s) ==
    /\ stream[s].pc = "wait" /\ stream[s].changed
    /\ Goto(s, "drain")
    /\ UNCHANGED <<stage, channel, link, listener, available, reads, view,
                   active, expired, budget>>

(* wait_for times out: heartbeat, or expiry of the token.                  *)
Timeout(s) ==
    /\ stream[s].pc = "wait"
    /\ Goto(s, "heartbeat")
    /\ UNCHANGED <<stage, channel, link, listener, available, reads, view,
                   active, expired, budget>>

(* The client goes away, or a send blocks for too long.                    *)
Disconnect(s) ==
    /\ stream[s].pc \in {"open", "drain", "heartbeat", "check", "send", "wait"}
    /\ Goto(s, "ending")
    /\ UNCHANGED <<stage, channel, link, listener, available, reads, view,
                   active, expired, budget>>

(* The finally clause: RunFeed.unsubscribe, and nobody holds the           *)
(* Subscription any longer.                                                *)
Unsubscribe(s) ==
    /\ stream[s].pc = "ending"
    /\ stream' = [stream EXCEPT ![s] = Fresh("closed")]
    /\ view' = [view EXCEPT ![s] = Nothing]
    /\ UNCHANGED <<stage, channel, link, listener, available, reads, active,
                   expired, budget>>

-----------------------------------------------------------------------------
Listen ==
    \/ Connect \/ MakeAvailable \/ Gather \/ Publish
    \/ PublishWatch \/ PublishFind \/ PublishResync \/ PublishDeliver
    \/ NoticeBreak \/ MakeUnavailable

Serve(s) ==
    \/ SnapshotReturn(s) \/ OpenStream(s) \/ Drain(s) \/ CheckAccess(s)
    \/ SendUpdates(s) \/ Wake(s) \/ Unsubscribe(s)

Next ==
    \/ \E r \in Runs, v \in Stages : CommitRun(r, v)
    \/ \E u \in Users : Deactivate(u)
    \/ \E s \in Streams : Expire(s)
    \/ BreakLink \/ Stop \/ PublishFindFails
    \/ Listen
    \/ \E s \in Streams :
         \/ Subscribe(s) \/ SnapshotRead(s) \/ SnapshotFails(s)
         \/ CheckFails(s) \/ RunWake(s) \/ Timeout(s) \/ Disconnect(s)
         \/ Serve(s)

Spec == Init /\ [][Next]_vars

(* Threads keep running, the database can be reached again, timers fire    *)
(* and the executor gets _reads at last: publish releases it after every   *)
(* batch.                                                                  *)
Fairness ==
    /\ WF_vars(Listen)
    /\ \A s \in Streams :
        /\ WF_vars(Serve(s))
        /\ WF_vars(RunWake(s))
        /\ WF_vars(Timeout(s))
        /\ WF_vars(SnapshotRead(s))

FairSpec == Spec /\ Fairness

-----------------------------------------------------------------------------
(* Properties                                                              *)

(* A stream that has its snapshot and has not ended.                       *)
Following(s) ==
    stream[s].pc \in {"open", "drain", "heartbeat", "check", "send", "wait"}

(* What the client of s will have seen of r once everything held for it in *)
(* this process is sent.                                                   *)
Seen(s, r) ==
    CASE stream[s].pending[r] # 0 -> stream[s].pending[r]
      [] stream[s].pending[r] = 0 /\ stream[s].hand[r] # 0 -> stream[s].hand[r]
      [] OTHER -> view[s][r]

(* A terminal run too old for the snapshot window need not be shown.       *)
OutOfWindow(r) == stage[r] = Final /\ ~Newest(r)
UpToDate(s, r) == Seen(s, r) = stage[r] \/ (Seen(s, r) = 0 /\ OutOfWindow(r))

(* A change of r is still to be read, or has been read in its last version. *)
OnItsWay(r) ==
    \/ \E i \in DOMAIN channel : channel[i].run = r
    \/ \E i \in DOMAIN listener.batch :
        /\ listener.batch[i].run = r
        /\ i = 1 /\ listener.pc = "deliver" => listener.found = stage[r]

(* A stream in good health over a live LISTEN connection misses nothing:   *)
(* whenever what it has shown or holds is out of date, a notification for  *)
(* that run is still to be processed (feed.publish, feed.snapshot,         *)
(* RunNotifications._run).                                                 *)
NothingMissed ==
    \A s \in Streams, r \in Runs :
        /\ Following(s) /\ stream[s].error = "none"
        /\ link = "up" /\ listener.pc # "stopped"
        /\ Owner[r] = Caller[s]
        => UpToDate(s, r) \/ OnItsWay(r)

(* A stream never takes its client back to an older state of a run: reads  *)
(* made before the snapshot are not delivered after it (the promise of the *)
(* comment on RunFeed._reads).                                             *)
NeverBackwards ==
    [][\A s \in Streams, r \in Runs :
         view'[s][r] >= view[s][r] \/ stream'[s].pc = "closed"]_view

(* A waiting stream with something to send or to report has a wakeup set   *)
(* or scheduled, and does not sit until the next heartbeat                 *)
(* (Subscription.wake against RunFeed.drain).                              *)
NoLostWakeup ==
    \A s \in Streams :
        /\ stream[s].pc = "wait"
        /\ stream[s].pending # Nothing \/ stream[s].error # "none"
        => stream[s].changed \/ stream[s].wakes > 0

(* Whatever changes is on its way to the client, from the notification to  *)
(* the wakeup of the stream, under locks held by exactly their holders     *)
(* (run_notifications.py, feed.py).                                        *)
FeedComplete == TypeOK /\ NothingMissed /\ NoLostWakeup

(* No state of a run ever reaches, or is held for, a stream of another     *)
(* user, whatever mixture of known and unknown owners a batch carries      *)
(* (RunFeed._deliver, SqlAlchemyRunFeed.snapshot).                         *)
OwnRunsOnly ==
    \A s \in Streams :
        Known(view[s]) \cup Known(stream[s].hand) \cup Known(stream[s].pending)
          \subseteq {r \in Runs : Owner[r] = Caller[s]}

(* Of batches that mix the runs of several users, a stream gets those of   *)
(* its own user, all of them and no other (RunFeed.publish).               *)
OwnRunsInFull == OwnRunsOnly /\ NothingMissed

(* As long as a user is subscribed, the stream again and again shows the   *)
(* present state of every run of theirs, or it is closed and the client    *)
(* can reconnect: no stream stays behind for good (run_events).            *)
StreamsCatchUp ==
    \A s \in Streams, r \in Runs :
        s \in Subscribed ~>
          \/ stream[s].pc = "closed"
          \/ Owner[r] = Caller[s] =>
               view[s][r] = stage[r] \/ (view[s][r] = 0 /\ OutOfWindow(r))

(* The stream of a deactivated account or an expired token ends, even when *)
(* no run changes any more (access_error at heartbeats in run_events).     *)
RevokedStreamsEnd ==
    \A s \in Streams :
        ~Granted(s) /\ s \in Subscribed ~> stream[s].pc = "closed"
=============================================================================
