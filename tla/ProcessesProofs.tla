-------------------------- MODULE ProcessesProofs --------------------------
(***************************************************************************)
(* Theorems about Processes for every choice of modes: a process of each   *)
(* kind keeps its resources in order, ends with a true exit status and     *)
(* begins at most one unit of work per task after it was told to stop.     *)
(* The inductive invariant follows the main thread: before it launches its *)
(* tasks nothing runs, while it waits for them everything they need is     *)
(* open, and once it closes things they are all done.                      *)
(***************************************************************************)
EXTENDS Processes, TLAPS

(* The main thread before it launches its tasks, while they may run, and   *)
(* once they are done.                                                     *)
Before == {"start", "producer", "install", "jobs", "inventory", "launch"}
During == {"serve", "join"}
After == {"closeInventory", "closeJobs", "restore", "closeProducer",
          "dispose", "exited"}

Attempting == {"inner", "poll", "work"}   \* with a connection of its own
Over == {"ended", "done"}
Bad == {"one", "raised"}

(* The types, one by one.                                                  *)
Kinds ==
    /\ mode \in Modes /\ main \in MainSteps
    /\ task \in [Tasks -> TaskSteps]
    /\ answer \in [Tasks -> {"again", "zero", "one", "raised"}]
    /\ stop \in BOOLEAN /\ handlers \in BOOLEAN
    /\ broken \in BOOLEAN /\ signalled \in BOOLEAN
    /\ open \subseteq {"database", "producer", "consumer", "connection", "jobs",
                       "inventory"}
    /\ code \in 0..1
    /\ late \in [Tasks -> 0..2]

(* Which process takes which step of the main thread.                      *)
StepsFit ==
    /\ main \in {"producer", "closeProducer"} => mode \in Publishers
    /\ main \in {"jobs", "inventory", "closeInventory", "closeJobs"} =>
        mode = "worker_execute"
    /\ main = "serve" => mode = "api"
    /\ main = "restore" => mode # "api"
    /\ main = "install" => mode # "cli"

(* Where tasks are, by where the main thread is; an answer is there from   *)
(* the moment a task begins to end.                                        *)
TasksFit ==
    \A t \in Tasks :
        /\ task[t] # "none" => t \in TasksOf(mode)
        /\ task[t] \in {"open", "inner", "poll", "closing"} => t \in Connected
        /\ main \in Before => task[t] = "none"
        /\ main \in After => task[t] \in {"none", "done"}
        /\ answer[t] # "again" => task[t] \in Over \cup {"closing"}
        /\ task[t] \in Over => answer[t] # "again"

(* A consumer or connection exists during its attempt only, unless closing *)
(* it was what failed.                                                     *)
LinksFit ==
    \A t \in Connected :
        /\ task[t] \in Attempting => Link(t) \in open
        /\ Link(t) \in open =>
            \/ task[t] \in Attempting \cup {"closing"}
            \/ task[t] \in Over /\ answer[t] = "raised"

(* What the main thread has opened so far, and for whom.                   *)
Opened ==
    /\ main \in During \cup (Before \ {"start"}) => "database" \in open
    /\ main \in {"install", "launch", "join"} /\ mode \in Publishers =>
        "producer" \in open
    /\ main \in {"inventory", "launch", "join"} /\ mode = "worker_execute" =>
        "jobs" \in open
    /\ main \in {"launch", "join"} /\ mode = "worker_execute" =>
        "inventory" \in open
    /\ "producer" \in open => mode \in Publishers
    /\ "jobs" \in open \/ "inventory" \in open => mode = "worker_execute"

(* What an orderly end has still to close.                                 *)
Remaining ==
    [closeInventory |-> {"database", "jobs", "inventory"},
     closeJobs |-> {"database", "jobs"},
     restore |-> IF mode \in Publishers THEN {"database", "producer"}
                 ELSE {"database"},
     closeProducer |-> {"database", "producer"},
     dispose |-> {"database"},
     exited |-> {}]

(* A failure that counts is the answer of a task until the main thread has *)
(* joined it, and the exit status from then on.                            *)
StatusFits ==
    /\ main \in Before => ~broken
    /\ main \in Before \cup During => code = 0
    /\ main \in During => (broken <=> \E t \in Tasks : answer[t] \in Bad)
    /\ main \in After => (code = 0 <=> ~broken)
    /\ main \in After /\ code = 0 => open \subseteq Remaining[main]

(* stop is set by a signal or by a failure, and a service that answers     *)
(* zero has seen it.                                                       *)
StopFits ==
    /\ stop => signalled \/ broken
    /\ mode \notin Once \cup {"cli"} =>
        \A t \in Tasks : answer[t] = "zero" => stop
    /\ main \in After /\ code = 0 /\ mode \notin Once \cup {"cli"} => signalled

(* A unit of work that began after stop was set is the last one.           *)
LastUnit ==
    \A t \in Tasks : late[t] > 0 =>
        /\ late[t] = 1 /\ stop
        /\ task[t] \notin {"none", "open", "poll"}
        /\ t \notin Connected => task[t] # "work"

ProcInv ==
    /\ Kinds /\ StepsFit /\ TasksFit /\ LinksFit /\ Opened
    /\ StatusFits /\ StopFits /\ LastUnit
-----------------------------------------------------------------------------
(* Which process runs which task.                                          *)
LEMMA TasksOfModes ==
    ASSUME NEW m \in Modes
    PROVE  /\ TasksOf(m) \subseteq Tasks /\ TasksOf(m) # {}
           /\ "accept" \in TasksOf(m) <=> m \in Workers
           /\ "execute" \in TasksOf(m) <=> m = "worker_execute"
           /\ "publish" \in TasksOf(m) <=> m \in Publishers
           /\ "listen" \in TasksOf(m) <=> m = "api"
           /\ "command" \in TasksOf(m) <=> m = "cli"
<1>1. CASE m = "worker_execute"
  BY <1>1 DEF TasksOf, Tasks, Workers, Publishers
<1>2. CASE m \in Workers \ {"worker_execute"}
  BY <1>2 DEF TasksOf, Tasks, Workers, Publishers
<1>3. CASE m \in Publishers
  BY <1>3 DEF TasksOf, Tasks, Workers, Publishers
<1>4. CASE m = "api"
  BY <1>4 DEF TasksOf, Tasks, Workers, Publishers
<1>5. CASE m = "cli"
  BY <1>5 DEF TasksOf, Tasks, Workers, Publishers
<1> QED
  BY <1>1, <1>2, <1>3, <1>4, <1>5, ModesAssumption

(* The parts of the invariant imply the type invariant.                    *)
LEMMA PartsImplyTypes == ProcInv => TypeOK
BY DEF ProcInv, Kinds, LinksFit, TypeOK, Attempting, Over, Connected, Tasks

(* Nothing runs at first.                                                  *)
LEMMA InitHolds == Init => ProcInv
<1> SUFFICES ASSUME Init PROVE ProcInv
  OBVIOUS
<1>1. Kinds
  <2>1. /\ stop \in BOOLEAN /\ handlers \in BOOLEAN
        /\ broken \in BOOLEAN /\ signalled \in BOOLEAN
    BY Zenon DEF Init
  <2> QED
    BY <2>1 DEF Init, Kinds, MainSteps, TaskSteps
<1>2. StepsFit /\ TasksFit /\ Opened /\ StatusFits
  BY DEF Init, StepsFit, TasksFit, Opened, StatusFits, Before, During, After,
         Over, Bad
<1>3. LinksFit /\ StopFits /\ LastUnit
  BY DEF Init, LinksFit, StopFits, LastUnit, Attempting, Over, After,
         Connected, Tasks
<1> QED
  BY <1>1, <1>2, <1>3 DEF ProcInv

(* What the main thread opens, the links of the tasks apart.               *)
Resources == {"database", "producer", "jobs", "inventory"}

(* Counting a unit of work keeps the type of the counters.                 *)
LEMMA BeginKinds ==
    ASSUME Kinds, NEW t \in Tasks, Begin(t)
    PROVE  late' \in [Tasks -> 0..2]
BY DEF Kinds, Begin

(* Acquiring a resource keeps the types.                                   *)
LEMMA AcquireKinds ==
    ASSUME Kinds, NEW step, NEW resource \in Resources,
           NEW next \in MainSteps, NEW unwind \in MainSteps,
           Acquire(step, resource, next, unwind)
    PROVE  Kinds'
<1>1. broken' \in BOOLEAN
  BY Zenon DEF Acquire, Pass, Fail, Kinds
<1>2. code' \in 0..1 /\ main' \in MainSteps
  BY DEF Acquire, Pass, Fail, Kinds
<1>3. open' \subseteq open \cup Resources
  BY DEF Acquire, Pass, Fail
<1> QED
  BY <1>1, <1>2, <1>3 DEF Acquire, threads, Kinds, Resources

(* Releasing one keeps them too.                                           *)
LEMMA ReleaseKinds ==
    ASSUME Kinds, NEW step, NEW resource, NEW next \in MainSteps,
           NEW onFailure \in MainSteps,
           Release(step, resource, next, onFailure)
    PROVE  Kinds'
<1>1. broken' \in BOOLEAN
  BY Zenon DEF Release, Pass, Fail, Kinds
<1>2. code' \in 0..1 /\ main' \in MainSteps
  BY DEF Release, Pass, Fail, Kinds
<1>3. open' \subseteq open
  BY DEF Release, Pass, Fail
<1> QED
  BY <1>1, <1>2, <1>3 DEF Release, threads, Kinds

(* The status stays true, and what is open stays within what remains to be *)
(* closed, if the next step has no less to close than this one leaves.     *)
LEMMA ReleaseStatus ==
    ASSUME Kinds, StatusFits, NEW step \in After, NEW resource,
           NEW next \in After, NEW onFailure \in After,
           Release(step, resource, next, onFailure),
           Remaining[step] \ {resource} \subseteq Remaining[next]
    PROVE  StatusFits'
<1>1. Remaining' = Remaining
  BY DEF Release, Remaining
<1>2. CASE open' = open \ {resource} /\ Pass(next)
  BY <1>1, <1>2 DEF Release, Pass, StatusFits, Before, During, After
<1>3. CASE Fail(onFailure)
  <2>1. broken' /\ code' = 1 /\ main' = onFailure
    BY <1>3 DEF Fail
  <2> QED
    BY <2>1 DEF StatusFits, Before, During, After
<1> QED
  BY <1>2, <1>3 DEF Release

(* The clean-up begins with a step of the main thread.                     *)
LEMMA FirstReleaseKind == FirstRelease \in MainSteps
BY DEF FirstRelease, MainSteps

-----------------------------------------------------------------------------
(* The tasks                                                               *)

(* The head of a loop.                                                     *)
LEMMA CheckStopStep ==
    ASSUME ProcInv, NEW t \in Tasks, CheckStop(t)
    PROVE  ProcInv'
<1> USE DEF ProcInv
<1>1. Kinds'
  BY DEF CheckStop, Go, Answer, Kinds, TaskSteps
<1>2. StepsFit' /\ Opened'
  BY DEF CheckStop, StepsFit, Opened
<1>3. TasksFit'
  BY DEF CheckStop, Go, Answer, TasksFit, Kinds, Over, At
<1>4. LinksFit'
  BY DEF CheckStop, Go, Answer, LinksFit, Kinds, Over, Attempting, At,
         Connected, Tasks
<1>5. StatusFits'
  BY DEF CheckStop, Go, Answer, StatusFits, TasksFit, Kinds, Over, Bad, At
<1>6. StopFits'
  BY DEF CheckStop, Go, StopFits, Kinds
<1>7. LastUnit'
  BY DEF CheckStop, Answer, LastUnit, Kinds
<1> QED
  BY <1>1, <1>2, <1>3, <1>4, <1>5, <1>6, <1>7

(* A pause ends.                                                           *)
LEMMA WaitStep ==
    ASSUME ProcInv, NEW t \in Tasks, Wait(t)
    PROVE  ProcInv'
<1> USE DEF ProcInv
<1>1. Kinds'
  BY DEF Wait, Go, Kinds, TaskSteps
<1>2. StepsFit' /\ Opened'
  BY DEF Wait, StepsFit, Opened
<1>3. TasksFit'
  BY DEF Wait, Go, TasksFit, Kinds, Over, At
<1>4. LinksFit'
  BY DEF Wait, Go, LinksFit, Kinds, Over, Attempting, At
<1>5. StatusFits'
  BY DEF Wait, Go, StatusFits, TasksFit, Kinds, At
<1>6. StopFits'
  BY DEF Wait, Go, StopFits, Kinds
<1>7. LastUnit'
  BY DEF Wait, Go, LastUnit, Kinds
<1> QED
  BY <1>1, <1>2, <1>3, <1>4, <1>5, <1>6, <1>7

(* An attempt gets its connection.                                         *)
LEMMA ConnectStep ==
    ASSUME ProcInv, NEW t \in Tasks, Connect(t)
    PROVE  ProcInv'
<1> USE DEF ProcInv
<1>1. Kinds'
  BY DEF Connect, Go, Kinds, TaskSteps, Link
<1>2. StepsFit' /\ Opened'
  BY DEF Connect, StepsFit, Opened, Link
<1>3. TasksFit'
  BY DEF Connect, Go, TasksFit, Kinds, Over, At
<1>4. LinksFit'
  BY DEF Connect, Go, LinksFit, Kinds, Attempting, Connected, Link
<1>5. StatusFits'
  BY DEF Connect, Go, StatusFits, TasksFit, Kinds, At
<1>6. StopFits'
  BY DEF Connect, Go, StopFits, Kinds
<1>7. LastUnit'
  BY DEF Connect, Go, LastUnit, Kinds
<1> QED
  BY <1>1, <1>2, <1>3, <1>4, <1>5, <1>6, <1>7

(* The head of an inner loop.                                              *)
LEMMA InnerCheckStep ==
    ASSUME ProcInv, NEW t \in Tasks, InnerCheck(t)
    PROVE  ProcInv'
<1> USE DEF ProcInv
<1>1. Kinds'
  BY DEF InnerCheck, Go, Kinds, TaskSteps
<1>2. StepsFit' /\ Opened'
  BY DEF InnerCheck, StepsFit, Opened
<1>3. TasksFit'
  BY DEF InnerCheck, Go, TasksFit, Kinds, Over, At
<1>4. LinksFit'
  BY DEF InnerCheck, Go, LinksFit, Kinds, Attempting, At
<1>5. StatusFits'
  BY DEF InnerCheck, Go, StatusFits, TasksFit, Kinds, At
<1>6. StopFits'
  BY DEF InnerCheck, Go, StopFits, Kinds
<1>7. LastUnit'
  BY DEF InnerCheck, Go, LastUnit, Kinds
<1> QED
  BY <1>1, <1>2, <1>3, <1>4, <1>5, <1>6, <1>7

(* A record or a notification comes, or none does.                         *)
LEMMA PollStep ==
    ASSUME ProcInv, NEW t \in Tasks, Poll(t)
    PROVE  ProcInv'
<1> USE DEF ProcInv
<1>1. Kinds'
  BY DEF Poll, Go, Begin, Kinds, TaskSteps
<1>2. StepsFit' /\ Opened'
  BY DEF Poll, StepsFit, Opened
<1>3. TasksFit'
  BY DEF Poll, Go, TasksFit, Kinds, Over, At
<1>4. LinksFit'
  BY DEF Poll, Go, LinksFit, Kinds, Attempting, At, Connected, Tasks
<1>5. StatusFits'
  BY DEF Poll, Go, StatusFits, TasksFit, Kinds, At
<1>6. StopFits'
  BY DEF Poll, Go, StopFits, Kinds
<1>7. LastUnit'
  BY DEF Poll, Go, Begin, LastUnit, TasksFit, Kinds, At
<1> QED
  BY <1>1, <1>2, <1>3, <1>4, <1>5, <1>6, <1>7

(* Nothing came before the deadline.                                       *)
LEMMA IdleTimeoutStep ==
    ASSUME ProcInv, IdleTimeout
    PROVE  ProcInv'
<1> USE DEF ProcInv
<1>1. Kinds'
  BY DEF IdleTimeout, Answer, Kinds, TaskSteps, Tasks
<1>2. StepsFit' /\ Opened'
  BY DEF IdleTimeout, StepsFit, Opened
<1>3. TasksFit'
  BY DEF IdleTimeout, Answer, TasksFit, Kinds, At
<1>4. LinksFit'
  BY DEF IdleTimeout, Answer, LinksFit, Kinds, Attempting, At
<1>5. StatusFits'
  BY DEF IdleTimeout, Answer, StatusFits, TasksFit, Kinds, Over, Bad, At,
         Tasks
<1>6. StopFits'
  BY DEF IdleTimeout, StopFits
<1>7. LastUnit'
  BY DEF IdleTimeout, Answer, LastUnit, Kinds
<1> QED
  BY <1>1, <1>2, <1>3, <1>4, <1>5, <1>6, <1>7

(* A record is decided, notifications are passed on.                       *)
LEMMA HandleStep ==
    ASSUME ProcInv, NEW t \in Tasks, Handle(t)
    PROVE  ProcInv'
<1> USE DEF ProcInv
<1>1. Kinds'
  BY DEF Handle, Go, Answer, Kinds, TaskSteps
<1>2. StepsFit' /\ Opened'
  BY DEF Handle, StepsFit, Opened
<1>3. TasksFit'
  BY DEF Handle, Go, Answer, TasksFit, Kinds, Over, At
<1>4. LinksFit'
  BY DEF Handle, Go, Answer, LinksFit, Kinds, Attempting, At, Connected, Tasks
<1>5. StatusFits'
  BY DEF Handle, Go, Answer, StatusFits, TasksFit, Kinds, Over, Bad, At
<1>6. StopFits'
  BY DEF Handle, Go, StopFits, Kinds
<1>7. LastUnit'
  BY DEF Handle, Go, Answer, LastUnit, Kinds
<1> QED
  BY <1>1, <1>2, <1>3, <1>4, <1>5, <1>6, <1>7

(* An attempt to accept fails.                                             *)
LEMMA AcceptFailsStep ==
    ASSUME ProcInv, AcceptFails
    PROVE  ProcInv'
<1> USE DEF ProcInv
<1>1. Kinds'
  BY DEF AcceptFails, Answer, Kinds, TaskSteps, Tasks
<1>2. StepsFit' /\ Opened'
  BY DEF AcceptFails, StepsFit, Opened
<1>3. TasksFit'
  BY DEF AcceptFails, Answer, TasksFit, Kinds, Over, At, Connected
<1>4. LinksFit'
  BY DEF AcceptFails, Answer, LinksFit, Kinds, Attempting
<1>5. StatusFits'
  <2>1. \/ answer' = [answer EXCEPT !["accept"] = "one"] /\ broken' = TRUE
        \/ answer' = [answer EXCEPT !["accept"] = "again"] /\ broken' = broken
    BY Zenon DEF AcceptFails, Answer, Kinds
  <2>2. /\ main \in During /\ answer["accept"] = "again"
        /\ UNCHANGED <<mode, main, code, open>>
    BY DEF AcceptFails, Kinds, TasksFit, Before, During, After, Over, Ended,
           At, Tasks, MainSteps
  <2>3. CASE answer' = [answer EXCEPT !["accept"] = "one"] /\ broken' = TRUE
    BY <2>2, <2>3 DEF Kinds, StatusFits, Before, During, After, Bad, Tasks
  <2>4. CASE answer' = [answer EXCEPT !["accept"] = "again"] /\ broken' = broken
    BY <2>2, <2>4 DEF StatusFits, Kinds, During, After
  <2> QED
    BY <2>1, <2>3, <2>4
<1>6. StopFits'
  BY DEF AcceptFails, Answer, StopFits, Kinds
<1>7. LastUnit'
  BY DEF AcceptFails, Answer, LastUnit, Kinds
<1> QED
  BY <1>1, <1>2, <1>3, <1>4, <1>5, <1>6, <1>7

(* An attempt to listen fails.                                             *)
LEMMA ListenFailsStep ==
    ASSUME ProcInv, ListenFails
    PROVE  ProcInv'
<1> USE DEF ProcInv
<1>1. Kinds'
  BY DEF ListenFails, Go, Kinds, TaskSteps, Tasks
<1>2. StepsFit' /\ Opened'
  BY DEF ListenFails, StepsFit, Opened
<1>3. TasksFit'
  BY DEF ListenFails, Go, TasksFit, Kinds, Over, At, Connected
<1>4. LinksFit'
  BY DEF ListenFails, Go, LinksFit, Kinds, Attempting
<1>5. StatusFits'
  BY DEF ListenFails, Go, StatusFits, TasksFit, Kinds, At, Tasks
<1>6. StopFits'
  BY DEF ListenFails, Go, StopFits, Kinds
<1>7. LastUnit'
  BY DEF ListenFails, Go, LastUnit, Kinds
<1> QED
  BY <1>1, <1>2, <1>3, <1>4, <1>5, <1>6, <1>7

(* An attempt closes its connection, or fails to.                          *)
LEMMA CloseLinkStep ==
    ASSUME ProcInv, NEW t \in Tasks, CloseLink(t)
    PROVE  ProcInv'
<1> USE DEF ProcInv
<1>1. Kinds'
  <2>1. broken' \in BOOLEAN
    BY Zenon DEF CloseLink, Kinds
  <2> QED
    BY <2>1 DEF CloseLink, Go, Answer, AfterClose, Kinds, TaskSteps
<1>2. StepsFit' /\ Opened'
  BY DEF CloseLink, StepsFit, Opened, Link
<1>3. TasksFit'
  BY DEF CloseLink, Go, Answer, AfterClose, TasksFit, Kinds, Over, At
<1>4. LinksFit'
  BY DEF CloseLink, Go, Answer, AfterClose, LinksFit, TasksFit, Kinds, Over,
         Attempting, At, Connected, Tasks, Link
<1>5. StatusFits'
  BY DEF CloseLink, Go, Answer, StatusFits, TasksFit, Kinds, Bad, At
<1>6. StopFits'
  BY DEF CloseLink, Go, Answer, StopFits, Kinds
<1>7. LastUnit'
  BY DEF CloseLink, Go, Answer, AfterClose, LastUnit, Kinds
<1> QED
  BY <1>1, <1>2, <1>3, <1>4, <1>5, <1>6, <1>7

(* A tick of the coordinator.                                              *)
LEMMA TickStep ==
    ASSUME ProcInv, Tick
    PROVE  ProcInv'
<1> USE DEF ProcInv
<1>1. Kinds'
  BY DEF Tick, Go, Begin, Kinds, TaskSteps, Tasks
<1>2. StepsFit' /\ Opened'
  BY DEF Tick, StepsFit, Opened
<1>3. TasksFit'
  BY DEF Tick, Go, TasksFit, Kinds, Over, At
<1>4. LinksFit'
  BY DEF Tick, Go, LinksFit, Kinds, Connected
<1>5. StatusFits'
  BY DEF Tick, Go, StatusFits, TasksFit, Kinds, At, Tasks
<1>6. StopFits'
  BY DEF Tick, Go, StopFits, Kinds
<1>7. LastUnit'
  BY DEF Tick, Go, Begin, LastUnit, Kinds, At, Connected
<1> QED
  BY <1>1, <1>2, <1>3, <1>4, <1>5, <1>6, <1>7

(* A tick fails for good.                                                  *)
LEMMA TickFailsStep ==
    ASSUME ProcInv, TickFails
    PROVE  ProcInv'
<1> USE DEF ProcInv
<1>1. Kinds'
  BY DEF TickFails, Answer, Begin, Kinds, TaskSteps, Tasks
<1>2. StepsFit' /\ Opened'
  BY DEF TickFails, StepsFit, Opened
<1>3. TasksFit'
  BY DEF TickFails, Answer, TasksFit, Kinds, Over, At
<1>4. LinksFit'
  BY DEF TickFails, Answer, LinksFit, Kinds, Connected
<1>5. StatusFits'
  BY DEF TickFails, Answer, StatusFits, TasksFit, Kinds, Bad, At, Tasks
<1>6. StopFits'
  BY DEF TickFails, StopFits
<1>7. LastUnit'
  BY DEF TickFails, Answer, Begin, LastUnit, Kinds, At, Connected
<1> QED
  BY <1>1, <1>2, <1>3, <1>4, <1>5, <1>6, <1>7

(* A batch is published.                                                   *)
LEMMA BatchStep ==
    ASSUME ProcInv, Batch
    PROVE  ProcInv'
<1> USE DEF ProcInv
<1>1. Kinds'
  BY DEF Batch, Go, Answer, Begin, Kinds, TaskSteps, Tasks
<1>2. StepsFit' /\ Opened'
  BY DEF Batch, StepsFit, Opened
<1>3. TasksFit'
  BY DEF Batch, Go, Answer, TasksFit, Kinds, Over, At
<1>4. LinksFit'
  BY DEF Batch, Go, Answer, LinksFit, Kinds, Connected, Tasks
<1>5. StatusFits'
  BY DEF Batch, Go, Answer, StatusFits, TasksFit, Kinds, Over, Bad, At, Tasks
<1>6. StopFits'
  BY DEF Batch, Go, StopFits, Kinds
<1>7. LastUnit'
  BY DEF Batch, Go, Answer, Begin, LastUnit, Kinds, At, Connected
<1> QED
  BY <1>1, <1>2, <1>3, <1>4, <1>5, <1>6, <1>7

(* A batch fails.                                                          *)
LEMMA BatchFailsStep ==
    ASSUME ProcInv, BatchFails
    PROVE  ProcInv'
<1> USE DEF ProcInv
<1>1. Kinds'
  <2>1. broken' \in BOOLEAN
    BY Zenon DEF BatchFails, Kinds
  <2>2. late' \in [Tasks -> 0..2]
    BY BeginKinds DEF BatchFails, Tasks
  <2>3. /\ task' \in [Tasks -> TaskSteps]
        /\ answer' \in [Tasks -> {"again", "zero", "one", "raised"}]
    BY DEF BatchFails, Go, Answer, Kinds, TaskSteps
  <2> QED
    BY <2>1, <2>2, <2>3 DEF BatchFails, Kinds
<1>2. StepsFit' /\ Opened'
  BY DEF BatchFails, StepsFit, Opened
<1>3. TasksFit'
  BY DEF BatchFails, Go, Answer, TasksFit, Kinds, Over, At
<1>4. LinksFit'
  BY DEF BatchFails, Go, Answer, LinksFit, Kinds, Connected, Tasks
<1>5. StatusFits'
  BY DEF BatchFails, Go, Answer, StatusFits, TasksFit, Kinds, Bad, At, Tasks
<1>6. StopFits'
  BY DEF BatchFails, Go, Answer, StopFits, Kinds
<1>7. LastUnit'
  BY DEF BatchFails, Go, Answer, Begin, LastUnit, Kinds, At, Connected
<1> QED
  BY <1>1, <1>2, <1>3, <1>4, <1>5, <1>6, <1>7

(* A command ends.  No other task runs in that process, so that the status *)
(* is what this one says.                                                  *)
LEMMA CommandStep ==
    ASSUME ProcInv, Command
    PROVE  ProcInv'
<1> USE DEF ProcInv
<1>1. Kinds'
  BY DEF Command, Answer, Kinds, TaskSteps, Tasks
<1>2. StepsFit' /\ Opened'
  BY DEF Command, StepsFit, Opened
<1>3. TasksFit'
  BY DEF Command, Answer, TasksFit, Kinds, Over, At
<1>4. LinksFit'
  BY DEF Command, Answer, LinksFit, Kinds, Connected
<1>5. StatusFits' /\ StopFits'
  <2>1. PICK a \in {"zero", "one", "raised"} :
          /\ answer' = [answer EXCEPT !["command"] = a]
          /\ broken' = (a # "zero")
    BY Zenon DEF Command, Answer
  <2>2. /\ main \in During /\ mode = "cli"
        /\ \A t \in Tasks : answer[t] = "again"
        /\ UNCHANGED <<mode, main, code, open, stop, signalled>>
    BY TasksOfModes DEF Command, Kinds, TasksFit, Before, During, After, Over,
           Ended, At, Tasks, Workers, Publishers, MainSteps
  <2>3. CASE a = "zero"
    <3>1. ~broken /\ ~broken'
      BY <2>1, <2>2, <2>3 DEF Kinds, StatusFits, Bad
    <3> QED
      BY <2>1, <2>2, <2>3, <3>1 DEF StatusFits, StopFits, Kinds, During,
             After, Bad
  <2>4. CASE a # "zero"
    <3>1. broken'
      BY <2>1, <2>4
    <3>2. \E t \in Tasks : answer'[t] \in Bad
      BY <2>1, <2>4 DEF Kinds, Bad, Tasks
    <3> QED
      BY <2>2, <3>1, <3>2 DEF StatusFits, StopFits, Kinds, Before, During,
             After
  <2> QED
    BY <2>3, <2>4
<1>6. LastUnit'
  BY DEF Command, Answer, LastUnit, Kinds
<1> QED
  BY <1>1, <1>2, <1>3, <1>4, <1>5, <1>6

(* A task of the pool has ended: if with zero it had seen stop, and if not *)
(* something is broken; either way stop is accounted for.                  *)
LEMMA SuperviseStep ==
    ASSUME ProcInv, NEW t \in Tasks, Supervise(t)
    PROVE  ProcInv'
<1> USE DEF ProcInv
<1>1. Kinds'
  BY DEF Supervise, Go, Kinds, TaskSteps
<1>2. StepsFit' /\ Opened'
  BY DEF Supervise, StepsFit, Opened
<1>3. TasksFit'
  BY DEF Supervise, Go, TasksFit, Kinds, Over, At
<1>4. LinksFit'
  BY DEF Supervise, Go, LinksFit, Kinds, Over, Attempting, At
<1>5. StatusFits'
  BY DEF Supervise, Go, StatusFits, TasksFit, Kinds, At
<1>6. StopFits'
  <2>1. CASE mode = "worker_execute"
    <3>1. main \in During /\ answer[t] # "again"
      BY DEF Supervise, Kinds, TasksFit, Before, During, After, Over, Ended,
             At, MainSteps
    <3>2. answer[t] = "zero" => stop
      BY <2>1 DEF StopFits, Once
    <3>3. answer[t] # "zero" => broken
      BY <3>1 DEF Kinds, StatusFits, Bad
    <3> QED
      BY <3>2, <3>3 DEF Supervise, Go, Kinds, StopFits
  <2>2. CASE mode # "worker_execute"
    <3>1. stop' = stop
      BY <2>2, Zenon DEF Supervise, Kinds
    <3> QED
      BY <3>1 DEF Supervise, Go, Kinds, StopFits
  <2> QED
    BY <2>1, <2>2
<1>7. LastUnit'
  BY DEF Supervise, Go, LastUnit, Kinds
<1> QED
  BY <1>1, <1>2, <1>3, <1>4, <1>5, <1>6, <1>7

-----------------------------------------------------------------------------
(* The main thread                                                         *)

(* The engine is created, or not.                                          *)
LEMMA OpenDatabaseStep ==
    ASSUME ProcInv, OpenDatabase
    PROVE  ProcInv'
<1> USE DEF ProcInv
<1>1. Kinds'
  BY AcquireKinds DEF OpenDatabase, Resources, MainSteps
<1>2. StepsFit'
  BY DEF OpenDatabase, Acquire, Fail, Pass, StepsFit, Workers
<1>3. TasksFit'
  BY DEF OpenDatabase, Acquire, TasksFit, Before, threads
<1>4. LinksFit'
  BY DEF OpenDatabase, Acquire, LinksFit, Link, threads
<1>5. Opened'
  BY DEF OpenDatabase, Acquire, Fail, Pass, Opened, Before, During, Workers,
         Publishers
<1>6. StatusFits'
  BY DEF OpenDatabase, Acquire, Fail, Pass, StatusFits, Before, During, After
<1>7. StopFits'
  BY DEF OpenDatabase, Acquire, Fail, Pass, StopFits, After, threads
<1>8. LastUnit'
  BY DEF OpenDatabase, Acquire, LastUnit, TasksFit, Before
<1> QED
  BY <1>1, <1>2, <1>3, <1>4, <1>5, <1>6, <1>7, <1>8

(* The producer is created, or not.                                        *)
LEMMA OpenProducerStep ==
    ASSUME ProcInv, OpenProducer
    PROVE  ProcInv'
<1> USE DEF ProcInv
<1>1. Kinds'
  BY AcquireKinds DEF OpenProducer, Resources, MainSteps
<1>2. StepsFit'
  BY DEF OpenProducer, Acquire, Fail, Pass, StepsFit, Publishers
<1>3. TasksFit'
  BY DEF OpenProducer, Acquire, TasksFit, Before, threads
<1>4. LinksFit'
  BY DEF OpenProducer, Acquire, LinksFit, Link, threads
<1>5. Opened'
  BY DEF OpenProducer, Acquire, Fail, Pass, Opened, StepsFit, Before
<1>6. StatusFits'
  BY DEF OpenProducer, Acquire, Fail, Pass, StatusFits, Before, During, After
<1>7. StopFits'
  BY DEF OpenProducer, Acquire, Fail, Pass, StopFits, After, threads
<1>8. LastUnit'
  BY DEF OpenProducer, Acquire, LastUnit, TasksFit, Before
<1> QED
  BY <1>1, <1>2, <1>3, <1>4, <1>5, <1>6, <1>7, <1>8

(* Signals are handled from now on.                                        *)
LEMMA InstallHandlersStep ==
    ASSUME ProcInv, InstallHandlers
    PROVE  ProcInv'
<1> USE DEF ProcInv
<1>1. Kinds'
  BY DEF InstallHandlers, Kinds, MainSteps, threads
<1>2. StepsFit'
  BY DEF InstallHandlers, StepsFit
<1>3. TasksFit'
  BY DEF InstallHandlers, TasksFit, Before, threads
<1>4. LinksFit'
  BY DEF InstallHandlers, LinksFit, threads
<1>5. Opened'
  BY DEF InstallHandlers, Opened, Before
<1>6. StatusFits'
  BY DEF InstallHandlers, StatusFits, Before, During, After
<1>7. StopFits'
  BY DEF InstallHandlers, StopFits, After, threads
<1>8. LastUnit'
  BY DEF InstallHandlers, LastUnit, TasksFit, Before
<1> QED
  BY <1>1, <1>2, <1>3, <1>4, <1>5, <1>6, <1>7, <1>8

(* The Kubernetes client is created, or not.                               *)
LEMMA ConnectJobsStep ==
    ASSUME ProcInv, ConnectJobs
    PROVE  ProcInv'
<1> USE DEF ProcInv
<1>1. Kinds'
  BY AcquireKinds, FirstReleaseKind DEF ConnectJobs, Resources, MainSteps
<1>2. StepsFit'
  BY DEF ConnectJobs, Acquire, Fail, Pass, StepsFit, FirstRelease
<1>3. TasksFit'
  BY DEF ConnectJobs, Acquire, TasksFit, Before, threads
<1>4. LinksFit'
  BY DEF ConnectJobs, Acquire, LinksFit, Link, threads
<1>5. Opened'
  BY DEF ConnectJobs, Acquire, Fail, Pass, Opened, StepsFit, Before,
         FirstRelease
<1>6. StatusFits'
  BY DEF ConnectJobs, Acquire, Fail, Pass, StatusFits, Before, During, After,
         FirstRelease
<1>7. StopFits'
  BY DEF ConnectJobs, Acquire, Fail, Pass, StopFits, After, threads
<1>8. LastUnit'
  BY DEF ConnectJobs, Acquire, LastUnit, TasksFit, Before
<1> QED
  BY <1>1, <1>2, <1>3, <1>4, <1>5, <1>6, <1>7, <1>8

(* The S3 client is created, or not.                                       *)
LEMMA ConnectInventoryStep ==
    ASSUME ProcInv, ConnectInventory
    PROVE  ProcInv'
<1> USE DEF ProcInv
<1>1. Kinds'
  BY AcquireKinds, FirstReleaseKind DEF ConnectInventory, Resources, MainSteps
<1>2. StepsFit'
  BY DEF ConnectInventory, Acquire, Fail, Pass, StepsFit, FirstRelease
<1>3. TasksFit'
  BY DEF ConnectInventory, Acquire, TasksFit, Before, threads
<1>4. LinksFit'
  BY DEF ConnectInventory, Acquire, LinksFit, Link, threads
<1>5. Opened'
  BY DEF ConnectInventory, Acquire, Fail, Opened, StepsFit, Before,
         Publishers, FirstRelease
<1>6. StatusFits'
  BY DEF ConnectInventory, Acquire, Fail, Pass, StatusFits, Before, During,
         After, FirstRelease
<1>7. StopFits'
  BY DEF ConnectInventory, Acquire, Fail, Pass, StopFits, After, threads
<1>8. LastUnit'
  BY DEF ConnectInventory, Acquire, LastUnit, TasksFit, Before
<1> QED
  BY <1>1, <1>2, <1>3, <1>4, <1>5, <1>6, <1>7, <1>8

(* The tasks begin.                                                        *)
LEMMA LaunchStep ==
    ASSUME ProcInv, Launch
    PROVE  ProcInv'
<1> USE DEF ProcInv
<1>1. Kinds'
  BY DEF Launch, Kinds, TaskSteps, MainSteps
<1>2. StepsFit'
  BY DEF Launch, StepsFit, Kinds
<1>3. TasksFit'
  BY DEF Launch, TasksFit, Kinds, Before, After, Over
<1>4. LinksFit'
  BY DEF Launch, LinksFit, TasksFit, Kinds, Before, Over, Attempting,
         Connected, Tasks
<1>5. Opened'
  BY DEF Launch, Kinds, Opened, Before
<1>6. StatusFits'
  BY DEF Launch, StatusFits, TasksFit, Kinds, Before, After, Over, Bad
<1>7. StopFits'
  BY DEF Launch, StopFits, Kinds, After
<1>8. LastUnit'
  BY DEF Launch, LastUnit, TasksFit, Kinds, Before
<1> QED
  BY <1>1, <1>2, <1>3, <1>4, <1>5, <1>6, <1>7, <1>8

(* The listener is told to stop.                                           *)
LEMMA StopListenerStep ==
    ASSUME ProcInv, StopListener
    PROVE  ProcInv'
<1> USE DEF ProcInv
<1>1. Kinds'
  BY DEF StopListener, Kinds, MainSteps, threads
<1>2. StepsFit'
  BY DEF StopListener, StepsFit
<1>3. TasksFit'
  BY DEF StopListener, TasksFit, Before, After, threads
<1>4. LinksFit'
  BY DEF StopListener, LinksFit, threads
<1>5. Opened'
  BY DEF StopListener, Opened, StepsFit, During, Publishers
<1>6. StatusFits'
  BY DEF StopListener, StatusFits, Before, During, After, threads
<1>7. StopFits'
  BY DEF StopListener, StopFits
<1>8. LastUnit'
  BY DEF StopListener, LastUnit, threads
<1> QED
  BY <1>1, <1>2, <1>3, <1>4, <1>5, <1>6, <1>7, <1>8

(* All tasks are done: the answers become the status, and only what an     *)
(* orderly end has to close is open if they are all zero.                  *)
LEMMA JoinStep ==
    ASSUME ProcInv, Join
    PROVE  ProcInv'
<1> USE DEF ProcInv
<1>1. Kinds'
  BY DEF Join, Kinds, MainSteps, threads, FirstRelease
<1>2. StepsFit'
  BY DEF Join, StepsFit, FirstRelease
<1>3. TasksFit'
  BY DEF Join, TasksFit, Before, threads, FirstRelease
<1>4. LinksFit'
  BY DEF Join, LinksFit, threads
<1>5. Opened'
  BY DEF Join, Opened, During
<1>6. StatusFits'
  <2>1. \A t \in TasksOf(mode) : answer[t] # "again" /\ t \in Tasks
    BY TasksOfModes DEF Join, Kinds, TasksFit, Over
  <2>2. \A t \in Tasks : task[t] = "none" \/ task[t] = "done"
    BY DEF Join, TasksFit
  <2>3. \A t \in Tasks \ TasksOf(mode) : answer[t] = "again"
    BY DEF Kinds, TasksFit, Over
  <2>4. main' \in After /\ main' # "exited"
    BY DEF Join, FirstRelease, After
  <2>5. code' = 0 <=> ~broken'
    <3>1. broken <=> \E t \in Tasks : answer[t] \in Bad
      BY DEF Join, StatusFits, During
    <3>2. (\E t \in TasksOf(mode) : answer[t] # "zero")
            <=> \E t \in Tasks : answer[t] \in Bad
      BY <2>1, <2>3 DEF Kinds, Bad
    <3> QED
      BY <3>1, <3>2 DEF Join
  <2>6. code' = 0 => open' \subseteq Remaining'[main']
    <3> SUFFICES ASSUME code' = 0 PROVE open' \subseteq Remaining'[main']
      OBVIOUS
    <3>1. \A t \in Tasks : answer[t] # "raised"
      BY <2>3 DEF Join
    <3>2. "consumer" \notin open /\ "connection" \notin open
      BY <2>2, <3>1 DEF LinksFit, Link, Connected, Tasks, Attempting
    <3> QED
      BY <3>2 DEF Join, FirstRelease, Remaining, Kinds, Opened, Publishers
  <2> QED
    BY <2>4, <2>5, <2>6 DEF StatusFits, Before, During, After
<1>7. StopFits'
  BY TasksOfModes DEF Join, StopFits, StatusFits, TasksFit, Kinds, During,
         Over, Bad, threads
<1>8. LastUnit'
  BY DEF Join, LastUnit, threads
<1> QED
  BY <1>1, <1>2, <1>3, <1>4, <1>5, <1>6, <1>7, <1>8

(* The S3 client is closed, or fails to.                                   *)
LEMMA CloseInventoryStep ==
    ASSUME ProcInv, CloseInventory
    PROVE  ProcInv'
<1> USE DEF ProcInv
<1>1. Kinds'
  BY ReleaseKinds DEF CloseInventory, MainSteps
<1>2. StepsFit'
  BY DEF CloseInventory, Release, Fail, Pass, StepsFit
<1>3. TasksFit'
  BY DEF CloseInventory, Release, Fail, Pass, TasksFit, Before, After, threads
<1>4. LinksFit'
  BY DEF CloseInventory, Release, LinksFit, Link, threads
<1>5. Opened'
  BY DEF CloseInventory, Release, Fail, Pass, Opened, Before, During
<1>6. StatusFits'
  BY ReleaseStatus DEF CloseInventory, After, Remaining
<1>7. StopFits'
  BY DEF CloseInventory, Release, Fail, Pass, StopFits, After, threads
<1>8. LastUnit'
  BY DEF CloseInventory, Release, LastUnit, threads
<1> QED
  BY <1>1, <1>2, <1>3, <1>4, <1>5, <1>6, <1>7, <1>8

(* The Kubernetes client is closed, or fails to.                           *)
LEMMA CloseJobsStep ==
    ASSUME ProcInv, CloseJobs
    PROVE  ProcInv'
<1> USE DEF ProcInv
<1>1. Kinds'
  BY ReleaseKinds DEF CloseJobs, MainSteps
<1>2. StepsFit'
  BY DEF CloseJobs, Release, Fail, Pass, StepsFit
<1>3. TasksFit'
  BY DEF CloseJobs, Release, Fail, Pass, TasksFit, Before, After, threads
<1>4. LinksFit'
  BY DEF CloseJobs, Release, LinksFit, Link, threads
<1>5. Opened'
  BY DEF CloseJobs, Release, Fail, Pass, Opened, Before, During
<1>6. StatusFits'
  BY ReleaseStatus DEF CloseJobs, After, Remaining
<1>7. StopFits'
  BY DEF CloseJobs, Release, Fail, Pass, StopFits, After, threads
<1>8. LastUnit'
  BY DEF CloseJobs, Release, LastUnit, threads
<1> QED
  BY <1>1, <1>2, <1>3, <1>4, <1>5, <1>6, <1>7, <1>8

(* Signals are no longer handled.                                          *)
LEMMA RestoreHandlersStep ==
    ASSUME ProcInv, RestoreHandlers
    PROVE  ProcInv'
<1> USE DEF ProcInv
<1>1. Kinds'
  <2>1. handlers' \in BOOLEAN
    BY Zenon DEF RestoreHandlers
  <2> QED
    BY <2>1 DEF RestoreHandlers, Kinds, MainSteps, threads
<1>2. StepsFit'
  BY DEF RestoreHandlers, StepsFit
<1>3. TasksFit'
  BY DEF RestoreHandlers, TasksFit, Before, After, threads
<1>4. LinksFit'
  BY DEF RestoreHandlers, LinksFit, threads
<1>5. Opened'
  BY DEF RestoreHandlers, Opened, Before, During
<1>6. StatusFits'
  BY DEF RestoreHandlers, StatusFits, Before, During, After, Remaining
<1>7. StopFits'
  BY DEF RestoreHandlers, StopFits, After, threads
<1>8. LastUnit'
  BY DEF RestoreHandlers, LastUnit, threads
<1> QED
  BY <1>1, <1>2, <1>3, <1>4, <1>5, <1>6, <1>7, <1>8

(* The producer is closed, or fails to.                                    *)
LEMMA CloseProducerStep ==
    ASSUME ProcInv, CloseProducer
    PROVE  ProcInv'
<1> USE DEF ProcInv
<1>1. Kinds'
  BY ReleaseKinds DEF CloseProducer, MainSteps
<1>2. StepsFit'
  BY DEF CloseProducer, Release, Fail, Pass, StepsFit
<1>3. TasksFit'
  BY DEF CloseProducer, Release, Fail, Pass, TasksFit, Before, After, threads
<1>4. LinksFit'
  BY DEF CloseProducer, Release, LinksFit, Link, threads
<1>5. Opened'
  BY DEF CloseProducer, Release, Fail, Pass, Opened, Before, During
<1>6. StatusFits'
  BY ReleaseStatus DEF CloseProducer, After, Remaining
<1>7. StopFits'
  BY DEF CloseProducer, Release, Fail, Pass, StopFits, After, threads
<1>8. LastUnit'
  BY DEF CloseProducer, Release, LastUnit, threads
<1> QED
  BY <1>1, <1>2, <1>3, <1>4, <1>5, <1>6, <1>7, <1>8

(* The engine is disposed of, or fails to.                                 *)
LEMMA DisposeStep ==
    ASSUME ProcInv, Dispose
    PROVE  ProcInv'
<1> USE DEF ProcInv
<1>1. Kinds'
  BY ReleaseKinds DEF Dispose, MainSteps
<1>2. StepsFit'
  BY DEF Dispose, Release, Fail, Pass, StepsFit
<1>3. TasksFit'
  BY DEF Dispose, Release, Fail, Pass, TasksFit, Before, After, threads
<1>4. LinksFit'
  BY DEF Dispose, Release, LinksFit, Link, threads
<1>5. Opened'
  BY DEF Dispose, Release, Fail, Pass, Opened, Before, During
<1>6. StatusFits'
  BY ReleaseStatus DEF Dispose, After, Remaining
<1>7. StopFits'
  BY DEF Dispose, Release, Fail, Pass, StopFits, After, threads
<1>8. LastUnit'
  BY DEF Dispose, Release, LastUnit, threads
<1> QED
  BY <1>1, <1>2, <1>3, <1>4, <1>5, <1>6, <1>7, <1>8

(* A signal, handled or not.                                               *)
LEMMA SignalStep ==
    ASSUME ProcInv, Signal
    PROVE  ProcInv'
<1> USE DEF ProcInv
<1>1. Kinds'
  <2>1. stop' \in BOOLEAN /\ signalled' \in BOOLEAN
    BY Zenon DEF Signal, Kinds
  <2>2. main' \in MainSteps
    BY DEF Signal, Kinds, MainSteps
  <2> QED
    BY <2>1, <2>2 DEF Signal, Kinds, threads
<1>2. StepsFit'
  BY DEF Signal, StepsFit
<1>3. TasksFit'
  BY DEF Signal, TasksFit, Before, After, threads
<1>4. LinksFit'
  BY DEF Signal, LinksFit, threads
<1>5. Opened'
  BY DEF Signal, Opened, Before, During
<1>6. StatusFits'
  BY DEF Signal, StatusFits, Before, During, After, threads, Remaining
<1>7. StopFits'
  BY DEF Signal, StopFits, Kinds, After, threads
<1>8. LastUnit'
  BY DEF Signal, LastUnit, Kinds, threads
<1> QED
  BY <1>1, <1>2, <1>3, <1>4, <1>5, <1>6, <1>7, <1>8

-----------------------------------------------------------------------------

(* A step that changes nothing.                                            *)
LEMMA StutterStep ==
    ASSUME ProcInv, UNCHANGED vars
    PROVE  ProcInv'
<1> USE DEF ProcInv, vars, threads
<1>1. Kinds' /\ StepsFit' /\ Opened'
  BY DEF Kinds, StepsFit, Opened
<1>2. TasksFit' /\ LinksFit' /\ LastUnit'
  BY DEF TasksFit, LinksFit, LastUnit
<1>3. StatusFits' /\ StopFits'
  BY DEF StatusFits, StopFits, Remaining
<1> QED
  BY <1>1, <1>2, <1>3

(* The invariant survives every step.                                      *)
LEMMA ProcStep == ProcInv /\ [Next]_vars => ProcInv'
<1> SUFFICES ASSUME ProcInv, [Next]_vars PROVE ProcInv'
  OBVIOUS
<1>1. CASE Main
  BY <1>1, OpenDatabaseStep, OpenProducerStep, InstallHandlersStep,
     ConnectJobsStep, ConnectInventoryStep, LaunchStep, StopListenerStep,
     JoinStep, CloseInventoryStep, CloseJobsStep, RestoreHandlersStep,
     CloseProducerStep, DisposeStep DEF Main
<1>2. CASE Signal
  BY <1>2, SignalStep
<1>3. ASSUME NEW t \in Tasks, Work(t) PROVE ProcInv'
  BY <1>3, CheckStopStep, WaitStep, SuperviseStep, ConnectStep,
     InnerCheckStep, PollStep, HandleStep, CloseLinkStep, IdleTimeoutStep,
     AcceptFailsStep, ListenFailsStep, TickStep, TickFailsStep, BatchStep,
     BatchFailsStep, CommandStep DEF Work
<1>4. CASE UNCHANGED vars
  BY <1>4, StutterStep
<1> QED
  BY <1>1, <1>2, <1>3, <1>4 DEF Next

(* The inductive invariant of a process: where its threads are, what they  *)
(* hold and what they have answered agree with each other, in every mode.  *)
THEOREM ProcessInvariant == Spec => []ProcInv
<1>1. Init => ProcInv
  BY InitHolds
<1>2. ProcInv /\ [Next]_vars => ProcInv'
  BY ProcStep
<1> QED
  BY <1>1, <1>2, PTL DEF Spec

(* No connection of a task outlives its attempt, and nothing is closed     *)
(* under a task at work: run_with_execution, main and lifespan close what  *)
(* they opened only after every task is done.                              *)
THEOREM ResourcesStayInOrder == Spec => []ResourcesInOrder
<1>1. ProcInv => NoUseAfterClose
  <2> SUFFICES ASSUME ProcInv, NEW t \in Tasks, At(t, "work")
               PROVE  Needs(t) \subseteq open
    BY DEF NoUseAfterClose
  <2> USE DEF ProcInv
  <2>1. main \in During /\ t \in TasksOf(mode)
    BY DEF At, Ended, Kinds, TasksFit, MainSteps, Before, During, After
  <2>2. t \in Connected => Link(t) \in open
    BY DEF At, LinksFit, Attempting
  <2>3. /\ t = "accept" => mode \in Workers
        /\ t = "execute" => mode = "worker_execute"
        /\ t = "publish" => mode \in Publishers
    BY <2>1, TasksOfModes DEF Kinds
  <2> QED
    BY <2>1, <2>2, <2>3
    DEF Needs, Opened, StepsFit, During, Tasks, Connected, Link, Publishers
<1>2. ProcInv => ResourcesInOrder
  BY <1>1, PartsImplyTypes DEF ResourcesInOrder
<1> QED
  BY <1>2, ProcessInvariant, PTL

(* The exit status is 0 if and only if nothing failed for good, then       *)
(* everything is closed, and a service had been told to stop: whichever    *)
(* task ended first, and whatever failed while the process was closing.    *)
THEOREM ExitStatusIsTrue == Spec => []ExitStatusTrue
<1>1. ProcInv => ExitStatusTrue
  BY DEF ProcInv, StatusFits, StopFits, ExitStatusTrue, After, Remaining
<1> QED
  BY <1>1, ProcessInvariant, PTL

(* A task begins at most one unit of work after stop was set, the one it   *)
(* was already past the test for.                                          *)
THEOREM DrainIsBounded == Spec => []DrainBounded
<1>1. ProcInv => DrainBounded
  BY DEF ProcInv, Kinds, LastUnit, DrainBounded
<1> QED
  BY <1>1, ProcessInvariant, PTL
=============================================================================
