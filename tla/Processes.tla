----------------------------- MODULE Processes -----------------------------
(***************************************************************************)
(* The life of one operating-system process of the system: the worker      *)
(* (python -m mic3_api.worker, with --once or --execute), the publisher    *)
(* (python -m mic3_api.publisher, with or without --once), the command     *)
(* line and the API under its server.  The main thread opens resources,    *)
(* runs one task or, with --execute, two tasks in a pool, waits for them   *)
(* and closes what it opened.  Tasks end each other through one Event,     *)
(* stop; in the API it is the stop_event of the notification listener.     *)
(*                                                                         *)
(* What a unit of work does is the business of Delivery (a record, a       *)
(* batch), RunExecution (a tick), RunStore (a command) and RunFeed (a      *)
(* batch of notifications); here it succeeds, fails in a way that is       *)
(* retried, or fails for good.                                             *)
(***************************************************************************)
EXTENDS Naturals, FiniteSets

CONSTANT Modes   \* the ways of starting a process that are considered

Workers == {"worker", "worker_once", "worker_execute"}
Publishers == {"publisher", "publisher_once"}
Once == {"worker_once", "publisher_once"}

ASSUME ModesAssumption ==
    Modes \subseteq Workers \cup Publishers \cup {"cli", "api"}

Tasks == {"accept", "execute", "publish", "command", "listen"}
Connected == {"accept", "listen"}   \* tasks that hold a connection of their own

VARIABLES
    mode,      \* argv
    main,      \* what the main thread does next
    task,      \* task[t]: where task t is
    answer,    \* answer[t]: what it returned, or "again" while it goes on
    stop,      \* the Event
    handlers,  \* whether stop_on_signals is in force
    open,      \* resources that are open
    code,      \* the exit status
    broken,    \* history: something failed and was not retried
    signalled, \* history: a signal was handled
    late       \* history: late[t] units of work begun after stop was set

threads == <<task, answer>>
vars == <<mode, main, threads, stop, handlers, open, code, broken, signalled,
          late>>

TasksOf(m) ==
    CASE m = "worker_execute" -> {"accept", "execute"}
      [] m \in Workers \ {"worker_execute"} -> {"accept"}
      [] m \in Publishers -> {"publish"}
      [] m = "api" -> {"listen"}
      [] OTHER -> {"command"}

Ended == main \in {"exited", "killed"}

Init ==
    /\ mode \in Modes
    /\ main = "start"
    /\ task = [t \in Tasks |-> "none"]
    /\ answer = [t \in Tasks |-> "again"]
    /\ stop = FALSE /\ handlers = FALSE
    /\ broken = FALSE /\ signalled = FALSE
    /\ open = {} /\ code = 0
    /\ late = [t \in Tasks |-> 0]

-----------------------------------------------------------------------------
(* The tasks                                                               *)

At(t, step) == ~Ended /\ task[t] = step

Go(t, step) ==
    /\ task' = [task EXCEPT ![t] = step]
    /\ UNCHANGED answer

(* t stops working with this answer.                                       *)
Answer(t, step, a) ==
    /\ task' = [task EXCEPT ![t] = step]
    /\ answer' = [answer EXCEPT ![t] = a]

Begin(t) ==
    late' = [late EXCEPT ![t] = IF stop /\ @ < 2 THEN @ + 1 ELSE @]

(* while not stop.is_set(): the head of every loop.                        *)
CheckStop(t) ==
    /\ At(t, "check")
    /\ IF stop THEN Answer(t, "ended", "zero")
       ELSE Go(t, IF t \in Connected THEN "open" ELSE "work")
    /\ UNCHANGED <<mode, main, stop, handlers, open, code, broken, signalled,
                   late>>

(* stop.wait(seconds) returns when stop is set or the time has passed.     *)
Wait(t) ==
    /\ At(t, "wait")
    /\ Go(t, "check")
    /\ UNCHANGED <<mode, main, stop, handlers, open, code, broken, signalled,
                   late>>

Link(t) == IF t = "accept" THEN "consumer" ELSE "connection"

(* Every attempt of worker.run has a consumer of its own, every attempt of *)
(* the listener a connection that listens.                                 *)
Connect(t) ==
    /\ At(t, "open") /\ t \in Connected
    /\ Go(t, "inner")
    /\ open' = open \cup {Link(t)}
    /\ UNCHANGED <<mode, main, stop, handlers, code, broken, signalled, late>>

(* The inner loop ends without an answer when stop is set.                 *)
InnerCheck(t) ==
    /\ At(t, "inner")
    /\ Go(t, IF stop THEN "closing" ELSE "poll")
    /\ UNCHANGED <<mode, main, stop, handlers, open, code, broken, signalled,
                   late>>

(* consumer.poll(0.2) returns a record or nothing, connection.notifies(0.5)*)
(* some changes or none.                                                   *)
Poll(t) ==
    /\ At(t, "poll")
    /\ \/ Go(t, "work") /\ Begin(t)
       \/ Go(t, "inner") /\ UNCHANGED late
    /\ UNCHANGED <<mode, main, stop, handlers, open, code, broken, signalled>>

(* --once: nothing came before the deadline.                               *)
IdleTimeout ==
    /\ At("accept", "poll") /\ mode \in Once
    /\ Answer("accept", "closing", "zero")
    /\ UNCHANGED <<mode, main, stop, handlers, open, code, broken, signalled,
                   late>>

(* The record is decided and its offset committed; the changes are given   *)
(* to the feed.                                                            *)
Handle(t) ==
    /\ At(t, "work") /\ t \in Connected
    /\ IF mode \in Once THEN Answer(t, "closing", "zero") ELSE Go(t, "inner")
    /\ UNCHANGED <<mode, main, stop, handlers, open, code, broken, signalled,
                   late>>

(* An exception in an attempt: is_retryable decides, and --once never      *)
(* tries again.                                                            *)
AcceptFails ==
    /\ \E step \in {"open", "poll", "work"} : At("accept", step)
    /\ \E retryable \in BOOLEAN :
        LET final == ~retryable \/ mode \in Once IN
        /\ Answer("accept", "closing", IF final THEN "one" ELSE "again")
        /\ broken' = (broken \/ final)
    /\ UNCHANGED <<mode, main, stop, handlers, open, code, signalled, late>>

(* The listener catches everything and connects again.                     *)
ListenFails ==
    /\ \E step \in {"open", "poll", "work"} : At("listen", step)
    /\ Go("listen", "closing")
    /\ UNCHANGED <<mode, main, stop, handlers, open, code, broken, signalled,
                   late>>

AfterClose(t) == IF answer[t] = "again" THEN "wait" ELSE "ended"

(* finally: consumer.close(), and the end of "with psycopg.connect".  If   *)
(* the former raises, the exception replaces whatever run was about to     *)
(* return; the listener catches its own.                                   *)
CloseLink(t) ==
    /\ At(t, "closing")
    /\ \/ /\ Go(t, AfterClose(t))
          /\ open' = open \ {Link(t)}
          /\ UNCHANGED broken
       \/ /\ t = "accept" /\ "consumer" \in open
          /\ Answer(t, "ended", "raised")
          /\ broken' = TRUE
          /\ UNCHANGED open
    /\ UNCHANGED <<mode, main, stop, handlers, code, signalled, late>>

(* run_execution: one tick of the coordinator, done or to be retried.      *)
Tick ==
    /\ At("execute", "work")
    /\ Go("execute", "wait") /\ Begin("execute")
    /\ UNCHANGED <<mode, main, stop, handlers, open, code, broken, signalled>>

(* An error that is neither InfrastructureUnavailable nor retryable.       *)
TickFails ==
    /\ At("execute", "work")
    /\ Answer("execute", "ended", "one") /\ Begin("execute")
    /\ stop' = TRUE /\ broken' = TRUE
    /\ UNCHANGED <<mode, main, handlers, open, code, signalled>>

(* Faulty variant: after a full batch the next follows at once.            *)
Batch_Greedy ==
    /\ At("publish", "work") /\ Begin("publish")
    /\ IF mode \in Once THEN Answer("publish", "ended", "zero")
       ELSE \E next \in {"work", "wait"} : Go("publish", next)
    /\ UNCHANGED <<mode, main, stop, handlers, open, code, broken, signalled>>

(* publisher.run: a batch is committed; only a full one is followed by     *)
(* another without a pause.                                                *)
Batch ==
    /\ At("publish", "work") /\ Begin("publish")
    /\ IF mode \in Once THEN Answer("publish", "ended", "zero")
       ELSE \E next \in {"check", "wait"} : Go("publish", next)
    /\ UNCHANGED <<mode, main, stop, handlers, open, code, broken, signalled>>

(* PublicationError and SQLAlchemyError are retried after a pause, except  *)
(* with --once; anything else is raised.                                   *)
BatchFails ==
    /\ At("publish", "work") /\ Begin("publish")
    /\ \/ /\ mode \notin Once
          /\ Go("publish", "wait")
          /\ UNCHANGED broken
       \/ /\ \/ mode \in Once /\ Answer("publish", "ended", "one")
             \/ Answer("publish", "ended", "raised")
          /\ broken' = TRUE
    /\ UNCHANGED <<mode, main, stop, handlers, open, code, signalled>>

(* cli.main: one command, which prints its result or fails.                *)
Command ==
    /\ At("command", "work")
    /\ \E a \in {"zero", "one", "raised"} :
        /\ Answer("command", "ended", a)
        /\ broken' = (a # "zero")
    /\ UNCHANGED <<mode, main, stop, handlers, open, code, signalled, late>>

(* Faulty variant: nobody tells the other task.                            *)
Supervise_Silent(t) ==
    /\ At(t, "ended")
    /\ Go(t, "done")
    /\ UNCHANGED <<mode, main, stop, handlers, open, code, broken, signalled,
                   late>>

(* supervised: however a task of the pool ends, it sets stop.  A task that *)
(* the main thread runs itself has nobody to stop.                         *)
Supervise(t) ==
    /\ At(t, "ended")
    /\ Go(t, "done")
    /\ stop' = (stop \/ mode = "worker_execute")
    /\ UNCHANGED <<mode, main, handlers, open, code, broken, signalled, late>>

-----------------------------------------------------------------------------
(* The main thread                                                         *)

FirstRelease ==
    CASE mode = "worker_execute" -> "closeInventory"
      [] mode = "api" -> "dispose"
      [] OTHER -> "restore"

Fail(next) == main' = next /\ code' = 1 /\ broken' = TRUE
Pass(next) == main' = next /\ UNCHANGED <<code, broken>>

(* Acquire one resource, or unwind to the finally of its block.            *)
Acquire(step, resource, next, unwind) ==
    /\ main = step
    /\ \/ open' = open \cup {resource} /\ Pass(next)
       \/ Fail(unwind) /\ UNCHANGED open
    /\ UNCHANGED <<mode, threads, stop, handlers, signalled, late>>

(* Settings and the engine; the publisher's producer follows.              *)
OpenDatabase ==
    Acquire("start", "database",
            CASE mode \in Publishers -> "producer"
              [] mode \in Workers \cup {"api"} -> "install"
              [] OTHER -> "launch",
            "exited")

OpenProducer == Acquire("producer", "producer", "install", "dispose")

(* stop_on_signals.__enter__; the API's server has handlers of its own.    *)
InstallHandlers ==
    /\ main = "install"
    /\ handlers' = TRUE
    /\ main' = IF mode = "worker_execute" THEN "jobs" ELSE "launch"
    /\ UNCHANGED <<mode, threads, stop, open, code, broken, signalled, late>>

(* run_with_execution: the renderer with the Kubernetes client, then S3.   *)
ConnectJobs == Acquire("jobs", "jobs", "inventory", FirstRelease)
ConnectInventory == Acquire("inventory", "inventory", "launch", FirstRelease)

(* Run the task, submit both tasks to the pool, or start the listener.     *)
Launch ==
    /\ main = "launch"
    /\ main' = IF mode = "api" THEN "serve" ELSE "join"
    /\ task' = [t \in Tasks |->
                  IF t \notin TasksOf(mode) THEN "none"
                  ELSE IF t = "command" THEN "work" ELSE "check"]
    /\ UNCHANGED <<mode, answer, stop, handlers, open, code, broken,
                   signalled, late>>

(* lifespan: the server has been told to end, notifications.stop sets the  *)
(* Event and joins the thread.                                             *)
StopListener ==
    /\ main = "serve" /\ signalled
    /\ stop' = TRUE
    /\ main' = "join"
    /\ UNCHANGED <<mode, threads, handlers, open, code, broken, signalled, late>>

(* Faulty variant: the pool is left as soon as one task is done.           *)
Join_First ==
    /\ main = "join"
    /\ \E t \in TasksOf(mode) :
        /\ task[t] = "done"
        /\ code' = IF answer[t] = "zero" THEN 0 ELSE 1
    /\ main' = FirstRelease
    /\ UNCHANGED <<mode, threads, stop, handlers, open, broken, signalled, late>>

(* Faulty variant: the result of the task that accepts is the result.      *)
Join_AcceptOnly ==
    /\ main = "join"
    /\ \A t \in TasksOf(mode) : task[t] = "done"
    /\ code' = IF \E t \in TasksOf(mode) \ {"execute"} : answer[t] # "zero"
               THEN 1 ELSE 0
    /\ main' = FirstRelease
    /\ UNCHANGED <<mode, threads, stop, handlers, open, broken, signalled, late>>

(* The pool waits for both tasks, whatever the first one's result was; an  *)
(* exception of one ends as exit status 1, like the answer 1.              *)
Join ==
    /\ main = "join"
    /\ \A t \in TasksOf(mode) : task[t] = "done"
    /\ code' = IF \E t \in TasksOf(mode) : answer[t] # "zero" THEN 1 ELSE 0
    /\ main' = FirstRelease
    /\ UNCHANGED <<mode, threads, stop, handlers, open, broken, signalled, late>>

(* Close a resource in a finally, if it was opened.  A failure skips the   *)
(* rest of that block.                                                     *)
Release(step, resource, next, onFailure) ==
    /\ main = step
    /\ \/ open' = open \ {resource} /\ Pass(next)
       \/ resource \in open /\ Fail(onFailure) /\ UNCHANGED open
    /\ UNCHANGED <<mode, threads, stop, handlers, signalled, late>>

CloseInventory == Release("closeInventory", "inventory", "closeJobs", "restore")
CloseJobs == Release("closeJobs", "jobs", "restore", "restore")

(* stop_on_signals.__exit__                                                *)
RestoreHandlers ==
    /\ main = "restore"
    /\ handlers' = FALSE
    /\ main' = IF mode \in Publishers THEN "closeProducer" ELSE "dispose"
    /\ UNCHANGED <<mode, threads, stop, open, code, broken, signalled, late>>

CloseProducer == Release("closeProducer", "producer", "dispose", "exited")
Dispose == Release("dispose", "database", "exited", "exited")

(* SIGTERM: the handler sets stop, the API's server ends the lifespan;     *)
(* without a handler the process ends at once.                             *)
Signal ==
    /\ ~Ended
    /\ IF handlers
       THEN stop' = (stop \/ mode # "api") /\ signalled' = TRUE /\ UNCHANGED main
       ELSE main' = "killed" /\ UNCHANGED <<stop, signalled>>
    /\ UNCHANGED <<mode, threads, handlers, open, code, broken, late>>

-----------------------------------------------------------------------------

Main ==
    \/ OpenDatabase \/ OpenProducer \/ InstallHandlers \/ ConnectJobs
    \/ ConnectInventory \/ Launch \/ StopListener \/ Join \/ CloseInventory
    \/ CloseJobs
    \/ RestoreHandlers \/ CloseProducer \/ Dispose

Work(t) ==
    \/ CheckStop(t) \/ Wait(t) \/ Supervise(t)
    \/ Connect(t) \/ InnerCheck(t) \/ Poll(t) \/ Handle(t) \/ CloseLink(t)
    \/ t = "accept" /\ (IdleTimeout \/ AcceptFails)
    \/ t = "listen" /\ ListenFails
    \/ t = "execute" /\ (Tick \/ TickFails)
    \/ t = "publish" /\ (Batch \/ BatchFails)
    \/ t = "command" /\ Command

Next == Main \/ Signal \/ \E t \in Tasks : Work(t)

Spec == Init /\ [][Next]_vars

(* Threads keep running and every call they make returns: clients and      *)
(* statements have timeouts.  The monotonic clock passes any deadline.     *)
Fairness ==
    /\ WF_vars(Main)
    /\ \A t \in Tasks : WF_vars(Work(t))
    /\ SF_vars(IdleTimeout)

FairSpec == Spec /\ Fairness

-----------------------------------------------------------------------------

TaskSteps == {"none", "check", "open", "inner", "poll", "work", "closing",
              "wait", "ended", "done"}
MainSteps == {"start", "producer", "install", "jobs", "inventory", "launch",
              "serve", "join", "closeInventory", "closeJobs", "restore",
              "closeProducer", "dispose", "exited", "killed"}

(* Types; and the consumer or connection of an attempt is gone before the  *)
(* next attempt begins, so that one worker never holds two places in its   *)
(* group (worker.run closes it in a finally, the listener in a with).      *)
TypeOK ==
    /\ mode \in Modes /\ main \in MainSteps
    /\ task \in [Tasks -> TaskSteps]
    /\ answer \in [Tasks -> {"again", "zero", "one", "raised"}]
    /\ {stop, handlers, broken, signalled} \subseteq BOOLEAN
    /\ open \subseteq {"database", "producer", "consumer", "connection", "jobs",
                       "inventory"}
    /\ code \in 0..1
    /\ late \in [Tasks -> 0..2]
    /\ \A t \in Connected :
        task[t] \in {"check", "open", "wait"} => Link(t) \notin open

(* What a task works with stays open until it is done: run_with_execution  *)
(* closes its clients, and main the engine, only after the pool has been   *)
(* left, and lifespan disposes of the engine after the listener.           *)
Needs(t) ==
    CASE t = "accept" -> {"database", "consumer"}
      [] t = "execute" -> {"database", "jobs", "inventory"}
      [] t = "publish" -> {"database", "producer"}
      [] t = "listen" -> {"database", "connection"}
      [] OTHER -> {"database"}

NoUseAfterClose ==
    \A t \in Tasks : At(t, "work") => Needs(t) \subseteq open

(* Every resource is held when it is needed and not longer: a task between *)
(* two connections has closed the last one (TypeOK), and nothing is closed *)
(* under a task (run_with_execution, worker.run, lifespan).                *)
ResourcesInOrder == TypeOK /\ NoUseAfterClose

(* The exit status can be relied on by Kubernetes and by operators: 0 if   *)
(* and only if nothing failed for good, and then nothing is left open; a   *)
(* service that was not told to stop never ends with 0 (worker.main,       *)
(* publisher.main, run_with_execution: max over the results).  The API's   *)
(* exit status is its server's.                                            *)
ExitStatusTrue ==
    main = "exited" /\ mode # "api" =>
        /\ code = 0 <=> ~broken
        /\ code = 0 => open = {}
        /\ code = 0 /\ mode \notin Once \cup {"cli"} => signalled

(* Once stop is set, a task begins at most one more unit of work: the one  *)
(* it was already past the check for (the stop.is_set() tests of           *)
(* worker.run, publisher.run, run_execution and RunNotifications._run).    *)
DrainBounded == \A t \in Tasks : late[t] <= 1

(* A process whose task has ended does not run on with half of its duties: *)
(* the other task is told and the process exits (supervised).              *)
NeverHalfAlive == \A t \in Tasks : task[t] = "ended" ~> Ended

(* A signal ends the process (stop_on_signals and the loops' tests).       *)
SignalEnds == signalled ~> Ended

(* --once and commands end by themselves, whatever fails on the way.       *)
OnceEnds == mode \in Once \cup {"cli"} ~> Ended

(* Every process ends when it has to: it lost a task, was told to stop, or *)
(* had a single thing to do (supervised, stop_on_signals, --once).         *)
ProcessEnds == NeverHalfAlive /\ SignalEnds /\ OnceEnds
=============================================================================
