--------------------------- MODULE RunFeedProofs ---------------------------
(***************************************************************************)
(* Proofs about RunFeed, for any number of users, runs, streams and faults *)
(* and any limits: a healthy stream misses nothing, is not left asleep,    *)
(* sees the runs of its own user only, and never goes back.                *)
(***************************************************************************)
EXTENDS RunFeed, FiniteSetTheorems, SequenceTheorems, TLAPS

Publishing == {"watch", "find", "resync", "deliver"}
Disconnected == {"connect", "listening", "stopped"}

ListenerType ==
    [pc : ListenerSteps, taken : 0..BatchLimit, batch : Seq(Change),
     found : Stages, store_failed : BOOLEAN]

StreamType ==
    [pc : StreamSteps, hand : [Runs -> Stages], pending : [Runs -> Stages],
     error : {"none", "unavailable", "resync_required"},
     changed : BOOLEAN, wakes : Nat]

Types ==
    /\ stage \in [Runs -> Stages] /\ channel \in Seq(Change)
    /\ link \in {"down", "up", "broken"} /\ listener \in ListenerType
    /\ available \in BOOLEAN /\ reads \in {"free", "listener"} \cup Streams
    /\ stream \in [Streams -> StreamType] /\ view \in [Streams -> [Runs -> Stages]]
    /\ active \subseteq Users /\ expired \subseteq Streams
    /\ budget \in [{"break", "read", "revoke"} -> Nat]
    /\ reads = "listener" <=> listener.pc \in Publishing

(* A sequence of changes has one of run r.                                 *)
Names(q, r) == \E i \in DOMAIN q : q[i].run = r

(* A notification names the owner or nobody, and a run that exists.        *)
NoteTrue(change) ==
    change.owner \in {NoOwner, Owner[change.run]} /\ stage[change.run] # 0

NotesTrue ==
    /\ \A i \in DOMAIN channel : NoteTrue(channel[i])
    /\ \A i \in DOMAIN listener.batch : NoteTrue(listener.batch[i])

(* What was found is the last version unless a change is on its way.       *)
FoundTrue ==
    listener.pc = "deliver" =>
        LET r == Head(listener.batch).run IN
        /\ listener.found # 0 /\ listener.found <= stage[r]
        /\ link = "up" => listener.found = stage[r] \/ Names(channel, r)

ListenerTrue ==
    /\ listener.pc \in Publishing \cup {"gather"} => listener.batch # <<>>
    /\ listener.pc \in Disconnected => ~available

(* While the listener is not connected, no stream is left in good health;  *)
(* only a snapshot holds _reads.                                           *)
LinkTrue(s) ==
    /\ listener.pc \in Disconnected => s \notin Healthy
    /\ reads = s <=> stream[s].pc = "snapshot"

(* What is in hand where: the snapshot is the first thing a client gets.   *)
HandTrue(s) ==
    /\ stream[s].pc \in {"new", "subscribed", "drain", "heartbeat", "wait", "closed"} =>
         stream[s].hand = Nothing
    /\ stream[s].pc \in {"new", "subscribed", "snapshot", "open"} => view[s] = Nothing

(* A stream that goes on is woken, before it waits as well as while it     *)
(* does.                                                                   *)
Wakeful(s) ==
    /\ stream[s].pc # "ending"
    /\ stream[s].pending # Nothing \/ stream[s].error # "none"
    => stream[s].changed \/ stream[s].wakes > 0

(* From the client to the database, versions only get newer; and what the  *)
(* listener has found is newer than all that streams have, as nothing else *)
(* is read while it holds _reads.                                          *)
Ordered(s, r) ==
    /\ view[s][r] <= stage[r]
    /\ stream[s].hand[r] <= stage[r] /\ stream[s].pending[r] <= stage[r]
    /\ Following(s) /\ stream[s].hand[r] # 0 => view[s][r] <= stream[s].hand[r]
    /\ Following(s) /\ stream[s].pending[r] # 0 =>
         view[s][r] <= stream[s].pending[r] /\ stream[s].hand[r] <= stream[s].pending[r]
    /\ listener.pc = "deliver" /\ Head(listener.batch).run = r =>
         /\ view[s][r] <= listener.found
         /\ stream[s].hand[r] <= listener.found /\ stream[s].pending[r] <= listener.found

(* A run has changed since the snapshot was read only if the listener has  *)
(* still to hear of it.                                                    *)
SnapshotTrue(s, r) ==
    /\ stream[s].pc = "snapshot" /\ stream[s].error = "none" /\ link = "up"
    /\ Owner[r] = Caller[s]
    => \/ stream[s].hand[r] = stage[r]
       \/ stream[s].hand[r] = 0 /\ OutOfWindow(r)
       \/ Names(channel, r) \/ Names(listener.batch, r)

(* NothingMissed, of one stream and one run.                               *)
Kept(s, r) ==
    /\ Following(s) /\ stream[s].error = "none" /\ link = "up"
    /\ Owner[r] = Caller[s]
    => UpToDate(s, r) \/ OnItsWay(r)

(* OwnRunsOnly, of one stream and one run.                                 *)
Private(s, r) ==
    Owner[r] # Caller[s] => view[s][r] = 0 /\ stream[s].hand[r] = 0 /\ stream[s].pending[r] = 0

RunTrue(s, r) == Ordered(s, r) /\ SnapshotTrue(s, r) /\ Kept(s, r) /\ Private(s, r)

StreamTrue(s) ==
    /\ LinkTrue(s) /\ HandTrue(s) /\ Wakeful(s)
    /\ \A r \in Runs : RunTrue(s, r)

FeedInv ==
    /\ Types /\ NotesTrue /\ FoundTrue /\ ListenerTrue
    /\ \A s \in Streams : StreamTrue(s)

-----------------------------------------------------------------------------
(* Sequences of changes, and subscriptions                                 *)

(* What the constants are.                                                 *)
LEMMA Constants ==
    /\ MaxRuns \in Nat /\ Final \in Nat /\ BatchLimit \in Nat /\ BatchLimit # 0
    /\ TerminalRuns \in Nat
    /\ Owner \in [Runs -> Users \cup {NoOwner}] /\ Caller \in [Streams -> Users]
    /\ NoOwner \notin Users /\ "free" \notin Streams /\ "listener" \notin Streams
    /\ Nothing \in [Runs -> Stages] /\ \A r \in Runs : Nothing[r] = 0
    /\ Stages \subseteq Nat /\ 0 \in Stages
BY FeedAssumption DEF Nothing, Stages

(* An empty channel names no run.                                          *)
LEMMA EmptyNames ==
    <<>> \in Seq(Change) /\ Len(<<>>) = 0 /\ DOMAIN <<>> = {}
OBVIOUS

(* Taking the first notification leaves the others in order.               *)
LEMMA TailNames ==
    ASSUME NEW q \in Seq(Change), q # <<>>
    PROVE  /\ Tail(q) \in Seq(Change) /\ Head(q) \in Change /\ Head(q) = q[1]
           /\ 1 \in DOMAIN q
           /\ \A i \in DOMAIN Tail(q) : i + 1 \in DOMAIN q /\ Tail(q)[i] = q[i + 1]
           /\ \A i \in DOMAIN q : i = 1 \/ (i - 1 \in DOMAIN Tail(q) /\ q[i] = Tail(q)[i - 1])
           /\ \A r : Names(q, r) => r = Head(q).run \/ Names(Tail(q), r)
<1>1. /\ Len(q) \in Nat /\ Len(q) > 0 /\ DOMAIN q = 1..Len(q)
      /\ Head(q) = q[1] /\ q[1] \in Change
  BY EmptySeq
<1>2. /\ Tail(q) \in Seq(Change) /\ Len(Tail(q)) = Len(q) - 1
      /\ \A i \in 1..Len(Tail(q)) : Tail(q)[i] = q[i + 1]
  BY HeadTailProperties
<1>3. DOMAIN Tail(q) = 1..(Len(q) - 1)
  BY <1>1, <1>2
<1>4. \A i \in DOMAIN q : i = 1 \/ (i - 1 \in DOMAIN Tail(q) /\ q[i] = Tail(q)[i - 1])
  <2> SUFFICES ASSUME NEW i \in DOMAIN q, i # 1
               PROVE  i - 1 \in DOMAIN Tail(q) /\ q[i] = Tail(q)[i - 1]
    OBVIOUS
  <2>1. i \in Nat /\ i - 1 \in 1..(Len(q) - 1) /\ (i - 1) + 1 = i
    BY <1>1
  <2>2. Tail(q)[i - 1] = q[(i - 1) + 1]
    BY <1>2, <2>1
  <2> QED
    BY <1>3, <2>1, <2>2
<1>5. \A r : Names(q, r) => r = Head(q).run \/ Names(Tail(q), r)
  BY <1>1, <1>4 DEF Names
<1> QED
  BY <1>1, <1>2, <1>3, <1>4, <1>5

(* Sending notifications keeps those that wait.                            *)
LEMMA ConcatNames ==
    ASSUME NEW q \in Seq(Change), NEW p \in Seq(Change)
    PROVE  /\ q \o p \in Seq(Change)
           /\ \A i \in DOMAIN (q \o p) : \/ i \in DOMAIN q /\ (q \o p)[i] = q[i]
                                         \/ \E j \in DOMAIN p : (q \o p)[i] = p[j]
           /\ \A r : Names(q, r) \/ Names(p, r) => Names(q \o p, r)
<1>1. /\ q \o p \in Seq(Change) /\ Len(q \o p) = Len(q) + Len(p)
      /\ \A i \in 1..Len(q) + Len(p) :
           (q \o p)[i] = IF i <= Len(q) THEN q[i] ELSE p[i - Len(q)]
  BY ConcatProperties
<1>2. /\ DOMAIN q = 1..Len(q) /\ DOMAIN p = 1..Len(p) /\ Len(q) \in Nat /\ Len(p) \in Nat
      /\ DOMAIN (q \o p) = 1..(Len(q) + Len(p))
  BY <1>1
<1> DEFINE k == Len(q)
           m == Len(p)
           both == q \o p
<1>3. /\ \A i \in 1..k : both[i] = q[i]
      /\ \A j \in 1..m : both[k + j] = p[j] /\ k + j \in 1..(k + m)
  <2>1. \A j \in 1..m : k + j \in 1..(k + m) /\ ~(k + j <= k) /\ (k + j) - k = j
    BY <1>2
  <2> QED
    BY <1>1, <1>2, <2>1
<1>4. \A i \in 1..(k + m) : i \in 1..k \/ \E j \in 1..m : i = k + j
  <2> SUFFICES ASSUME NEW i \in 1..(k + m), i \notin 1..k PROVE i - k \in 1..m /\ i = k + (i - k)
    OBVIOUS
  <2> QED
    BY <1>2
<1> HIDE DEF k, m, both
<1>5. /\ DOMAIN q = 1..k /\ DOMAIN p = 1..m /\ DOMAIN both = 1..(k + m) /\ k \in Nat /\ m \in Nat
  BY <1>2 DEF k, m, both
<1>6. \A i \in 1..k : i \in 1..(k + m)
  BY <1>5
<1>7. ASSUME NEW r, Names(q, r) \/ Names(p, r) PROVE Names(both, r)
  <2>1. CASE Names(q, r)
    <3>1. PICK i \in 1..k : q[i].run = r
      BY <1>5, <2>1 DEF Names
    <3> QED
      BY <1>3, <1>5, <1>6, <3>1 DEF Names
  <2>2. CASE Names(p, r)
    <3>1. PICK j \in 1..m : p[j].run = r
      BY <1>5, <2>2 DEF Names
    <3> QED
      BY <1>3, <1>5, <3>1 DEF Names
  <2> QED
    BY <1>7, <2>1, <2>2
<1>8. both \in Seq(Change)
  BY <1>1 DEF both
<1>9. ASSUME NEW i \in DOMAIN both
      PROVE  \/ i \in DOMAIN q /\ both[i] = q[i]
             \/ \E j \in DOMAIN p : both[i] = p[j]
  <2>1. CASE i \in 1..k
    BY <1>3, <1>5, <2>1
  <2>2. CASE i \notin 1..k
    <3>1. PICK j \in 1..m : i = k + j
      BY <1>4, <1>5, <2>2
    <3> QED
      BY <1>3, <1>5, <3>1
  <2> QED
    BY <2>1, <2>2
<1> QED
  BY <1>7, <1>8, <1>9 DEF both

(* A batch keeps every run that it was told of, and what it says is true   *)
(* if it was told the truth.                                               *)
LEMMA MergeNames ==
    ASSUME NEW batch \in Seq(Change), NEW change \in Change
    PROVE  /\ Merge(batch, change) \in Seq(Change) /\ Merge(batch, change) # <<>>
           /\ \A r : Names(batch, r) \/ r = change.run => Names(Merge(batch, change), r)
           /\ (\A i \in DOMAIN batch : NoteTrue(batch[i])) /\ NoteTrue(change) =>
                \A i \in DOMAIN Merge(batch, change) : NoteTrue(Merge(batch, change)[i])
<1>1. CASE \E i \in DOMAIN batch : batch[i].run = change.run
  <2> DEFINE new == [i \in DOMAIN batch |->
            IF batch[i].run = change.run /\ change.owner # NoOwner
            THEN change ELSE batch[i]]
  <2>1. Merge(batch, change) = new
    BY <1>1 DEF Merge
  <2>2. DOMAIN batch = 1..Len(batch) /\ Len(batch) \in Nat
    OBVIOUS
  <2>3. \A i \in DOMAIN batch : new[i] \in Change /\ new[i].run = batch[i].run
                                /\ new[i] \in {batch[i], change}
    BY <2>2
  <2>4. DOMAIN new = DOMAIN batch
    OBVIOUS
  <2>5. new \in Seq(Change) /\ new # <<>>
    BY <1>1, <2>2, <2>3, <2>4
  <2> HIDE DEF new
  <2> QED
    BY <1>1, <2>1, <2>3, <2>4, <2>5 DEF Names
<1>2. CASE ~\E i \in DOMAIN batch : batch[i].run = change.run
  <2> DEFINE new == Append(batch, change)
  <2>1. Merge(batch, change) = new
    BY <1>2 DEF Merge
  <2>2. /\ new \in Seq(Change) /\ Len(new) = Len(batch) + 1
        /\ \A i \in 1..Len(batch) : new[i] = batch[i]
        /\ new[Len(batch) + 1] = change
    BY AppendProperties
  <2>3. /\ DOMAIN batch = 1..Len(batch) /\ Len(batch) \in Nat
        /\ DOMAIN new = 1..(Len(batch) + 1)
    BY <2>2
  <2> HIDE DEF new
  <2>4. new # <<>>
    BY <2>2, <2>3
  <2>5. \A i \in DOMAIN new : i \in DOMAIN batch \/ i = Len(batch) + 1
    BY <2>3
  <2> QED
    BY <2>1, <2>2, <2>3, <2>4, <2>5 DEF Names
<1> QED
  BY <1>1, <1>2

(* What RunFeed._fail does to a healthy subscription.                      *)
LEMMA FailIs ==
    ASSUME NEW sub \in StreamType, NEW code \in {"unavailable", "resync_required"}
    PROVE  /\ Fail(sub, code) \in StreamType
           /\ Fail(sub, code).pc = sub.pc /\ Fail(sub, code).hand = sub.hand
           /\ Fail(sub, code).changed = sub.changed /\ Fail(sub, code).error # "none"
           /\ \/ sub.error # "none" /\ Fail(sub, code) = sub
              \/ Fail(sub, code).pending = Nothing /\ Fail(sub, code).wakes = sub.wakes + 1
<1>1. CASE sub.error # "none"
  BY <1>1 DEF Fail, StreamType
<1>2. CASE sub.error = "none"
  <2> DEFINE a == [pc |-> sub.pc, hand |-> sub.hand, pending |-> sub.pending, error |-> code,
                   changed |-> sub.changed, wakes |-> sub.wakes]
             b == [pc |-> sub.pc, hand |-> sub.hand, pending |-> Nothing, error |-> code,
                   changed |-> sub.changed, wakes |-> sub.wakes]
             c == [pc |-> sub.pc, hand |-> sub.hand, pending |-> Nothing, error |-> code,
                   changed |-> sub.changed, wakes |-> sub.wakes + 1]
  <2>1. [sub EXCEPT !.error = code] = a
    BY DEF StreamType
  <2>2. [a EXCEPT !.pending = Nothing] = b
    BY DEF StreamType
  <2>3. [b EXCEPT !.wakes = @ + 1] = c
    BY DEF StreamType
  <2>4. Fail(sub, code) = c
    <3> HIDE DEF a, b, c
    <3> QED
      BY <1>2, <2>1, <2>2, <2>3, Zenon DEF Fail
  <2> QED
    BY <2>4, Constants DEF StreamType
<1> QED
  BY <1>1, <1>2

(* One subscription's turn in RunFeed._deliver: it fails, or the update is *)
(* pending and it is woken if nothing was.                                 *)
LEMMA StoreIs ==
    ASSUME NEW sub \in StreamType, sub.error = "none", NEW r \in Runs, NEW v \in Stages
    PROVE  /\ Store(sub, r, v) \in StreamType
           /\ Store(sub, r, v).pc = sub.pc /\ Store(sub, r, v).hand = sub.hand
           /\ Store(sub, r, v).changed = sub.changed
           /\ \/ /\ Store(sub, r, v).error # "none" /\ Store(sub, r, v).pending = Nothing
                 /\ Store(sub, r, v).wakes = sub.wakes + 1
              \/ /\ Store(sub, r, v).error = "none"
                 /\ Store(sub, r, v).pending = [sub.pending EXCEPT ![r] = v]
                 /\ \/ Store(sub, r, v).wakes = sub.wakes + 1
                    \/ sub.pending # Nothing /\ Store(sub, r, v).wakes = sub.wakes
<1> DEFINE full == r \notin Known(sub.pending) /\ Cardinality(Known(sub.pending)) >= PendingLimit
<1>1. CASE full
  <2>1. Store(sub, r, v) = Fail(sub, "resync_required")
    BY <1>1 DEF Store
  <2> QED
    BY <2>1, FailIs
<1>2. CASE ~full
  <2> DEFINE p == [sub.pending EXCEPT ![r] = v]
             w == IF sub.pending = Nothing THEN sub.wakes + 1 ELSE sub.wakes
             a == [pc |-> sub.pc, hand |-> sub.hand, pending |-> p, error |-> sub.error,
                   changed |-> sub.changed, wakes |-> sub.wakes]
             c == [pc |-> sub.pc, hand |-> sub.hand, pending |-> p, error |-> sub.error,
                   changed |-> sub.changed, wakes |-> w]
  <2>1. p \in [Runs -> Stages] /\ w \in Nat
    BY DEF StreamType
  <2>2. [sub EXCEPT !.pending[r] = v] = a
    BY DEF StreamType
  <2>3. [a EXCEPT !.wakes = w] = c
    <3> HIDE DEF w, p
    <3> QED
      BY DEF StreamType
  <2>4. a.wakes = sub.wakes
    OBVIOUS
  <2>5. Store(sub, r, v) = c
    <3>1. Store(sub, r, v) = [sub EXCEPT !.pending[r] = v,
                                         !.wakes = IF sub.pending = Nothing THEN @ + 1 ELSE @]
      BY <1>2 DEF Store
    <3>2. (IF sub.pending = Nothing THEN a.wakes + 1 ELSE a.wakes) = w
      BY <2>4
    <3> HIDE DEF a, c, w, p, full
    <3> QED
      BY <2>2, <2>3, <3>1, <3>2, Zenon
  <2>6. c \in StreamType /\ c.pc = sub.pc /\ c.hand = sub.hand /\ c.changed = sub.changed
        /\ c.error = "none" /\ c.pending = p /\ c.wakes = w
    <3> HIDE DEF p, w
    <3> QED
      BY <2>1 DEF StreamType
  <2>7. w = sub.wakes + 1 \/ (sub.pending # Nothing /\ w = sub.wakes)
    OBVIOUS
  <2> HIDE DEF a, c, w, full
  <2> QED
    BY <2>5, <2>6, <2>7
<1> QED
  BY <1>1, <1>2

(* The parts of the types.                                                 *)
LEMMA FeedTypes ==
    ASSUME Types
    PROVE  /\ \A r \in Runs : stage[r] \in Nat
           /\ \A s \in Streams : stream[s] \in StreamType /\ view[s] \in [Runs -> Stages]
           /\ \A s \in Streams, r \in Runs :
                view[s][r] \in Nat /\ stream[s].hand[r] \in Nat /\ stream[s].pending[r] \in Nat
           /\ listener.found \in Nat /\ listener.batch \in Seq(Change)
           /\ listener \in ListenerType
<1>1. \A s \in Streams : stream[s] \in StreamType /\ view[s] \in [Runs -> Stages]
  BY DEF Types
<1>2. \A s \in Streams : stream[s].hand \in [Runs -> Stages] /\ stream[s].pending \in [Runs -> Stages]
  BY <1>1 DEF StreamType
<1> QED
  BY <1>1, <1>2, Constants DEF Types, ListenerType

(* Where a change may be on its way.                                       *)
LEMMA WayIs ==
    ASSUME NEW r
    PROVE  /\ OnItsWay(r) => Names(channel, r) \/ Names(listener.batch, r)
           /\ Names(channel, r) => OnItsWay(r)
           /\ listener.pc # "deliver" /\ Names(listener.batch, r) => OnItsWay(r)
BY DEF OnItsWay, Names

-----------------------------------------------------------------------------
(* Frames                                                                  *)

(* All that a stream's own facts depend on besides the stream.             *)
Shared == UNCHANGED <<stage, channel, link, listener>>

(* A stream that a step leaves alone keeps its truth if what it shares     *)
(* with others stays.                                                      *)
LEMMA StreamKept ==
    ASSUME NEW s, StreamTrue(s), Shared, stream'[s] = stream[s], view'[s] = view[s],
           reads = s <=> reads' = s, s \in Streams
    PROVE  StreamTrue(s)'
<1>1. LinkTrue(s)' /\ HandTrue(s)' /\ Wakeful(s)'
  BY DEF StreamTrue, Shared, LinkTrue, HandTrue, Wakeful, Healthy, Subscribed
<1>2. ASSUME NEW r \in Runs PROVE RunTrue(s, r)'
  <2>1. RunTrue(s, r)
    BY DEF StreamTrue
  <2>2. Ordered(s, r)' /\ Private(s, r)'
    BY <2>1 DEF RunTrue, Ordered, Private, Shared, Following
  <2>3. OutOfWindow(r)' <=> OutOfWindow(r)
    BY DEF OutOfWindow, Newest, Shared
  <2>4. SnapshotTrue(s, r)'
    BY <2>1, <2>3 DEF RunTrue, SnapshotTrue, Shared, Names
  <2>5. Seen(s, r)' = Seen(s, r) /\ (OnItsWay(r)' <=> OnItsWay(r))
    BY DEF Seen, OnItsWay, Shared
  <2>6. Kept(s, r)'
    BY <2>1, <2>3, <2>5 DEF RunTrue, Kept, UpToDate, Shared, Following
  <2> QED
    BY <2>2, <2>4, <2>6 DEF RunTrue
<1> QED
  BY <1>1, <1>2 DEF StreamTrue

(* A step of stream s leaves the others alone.                             *)
StreamFrame(s) ==
    /\ Shared /\ UNCHANGED available
    /\ \A t \in Streams \ {s} : stream'[t] = stream[t] /\ view'[t] = view[t]
    /\ \A t \in Streams \ {s} : reads = t <=> reads' = t
    /\ reads' \in {"free", "listener"} \cup Streams
    /\ reads' = "listener" <=> reads = "listener"
    /\ active' \subseteq Users /\ expired' \subseteq Streams
    /\ budget' \in [{"break", "read", "revoke"} -> Nat]

(* The frame of a stream's step: it is enough to show what becomes of      *)
(* that stream.                                                            *)
LEMMA StreamMoves ==
    ASSUME FeedInv, NEW s \in Streams, StreamFrame(s),
           stream' \in [Streams -> StreamType], view' \in [Streams -> [Runs -> Stages]],
           StreamTrue(s)'
    PROVE  FeedInv'
<1>1. Types'
  BY DEF FeedInv, Types, StreamFrame, Shared
<1>2. NotesTrue' /\ FoundTrue' /\ ListenerTrue'
  BY DEF FeedInv, NotesTrue, NoteTrue, FoundTrue, ListenerTrue, StreamFrame, Shared, Names
<1>3. ASSUME NEW t \in Streams PROVE StreamTrue(t)'
  <2>1. CASE t # s
    BY <2>1, StreamKept DEF StreamFrame, FeedInv
  <2> QED
    BY <2>1
<1> QED
  BY <1>1, <1>2, <1>3 DEF FeedInv

-----------------------------------------------------------------------------
(* Steps of a stream                                                       *)

(* What a stream has seen of a run: what is pending, in hand or sent.      *)
LEMMA SeenIs ==
    ASSUME NEW s, NEW r
    PROVE  /\ Seen(s, r) = IF stream[s].pending[r] # 0 THEN stream[s].pending[r]
                           ELSE IF stream[s].hand[r] # 0 THEN stream[s].hand[r] ELSE view[s][r]
           /\ Seen(s, r)' = IF stream'[s].pending[r] # 0 THEN stream'[s].pending[r]
                            ELSE IF stream'[s].hand[r] # 0 THEN stream'[s].hand[r] ELSE view'[s][r]
BY DEF Seen

(* How it is seen after a step.                                            *)
LEMMA SeenNext ==
    ASSUME NEW s, NEW r
    PROVE  /\ stream'[s].pending[r] # 0 => Seen(s, r)' = stream'[s].pending[r]
           /\ /\ stream'[s].pending[r] = stream[s].pending[r]
              /\ stream'[s].hand[r] = stream[s].hand[r] /\ view'[s][r] = view[s][r]
              => Seen(s, r)' = Seen(s, r)
BY SeenIs

(* What a run's facts need of the shared state.                            *)
LEMMA SharedKept ==
    ASSUME Shared, NEW r
    PROVE  /\ stage'[r] = stage[r] /\ UNCHANGED <<link, listener, channel>>
           /\ OutOfWindow(r)' <=> OutOfWindow(r)
           /\ OnItsWay(r)' <=> OnItsWay(r)
           /\ Names(channel, r)' <=> Names(channel, r)
           /\ Names(listener.batch, r)' <=> Names(listener.batch, r)
BY DEF Shared, OutOfWindow, Newest, OnItsWay, Names

(* A step that only moves the label of a stream.                           *)
LEMMA GotoInv ==
    ASSUME FeedInv, NEW s \in Streams, NEW step \in StreamSteps, Goto(s, step), StreamFrame(s),
           UNCHANGED <<view, reads>>,
           \/ step = "ending" /\ stream[s].pc \notin {"new", "closed", "snapshot"}
           \/ stream[s].pc = "wait" /\ step \in {"drain", "heartbeat"}
           \/ stream[s].pc = "check" /\ step = "send"
    PROVE  FeedInv'
<1>1. /\ Types /\ stream[s] \in StreamType /\ StreamTrue(s) /\ Shared
  BY FeedTypes DEF FeedInv, StreamFrame
<1>2. /\ stream' \in [Streams -> StreamType] /\ view' \in [Streams -> [Runs -> Stages]]
      /\ stream'[s].pc = step /\ stream'[s].hand = stream[s].hand
      /\ stream'[s].pending = stream[s].pending /\ stream'[s].error = stream[s].error
      /\ stream'[s].changed = stream[s].changed /\ stream'[s].wakes = stream[s].wakes
  BY <1>1 DEF Goto, Types, StreamType
<1>3. LinkTrue(s)' /\ HandTrue(s)' /\ Wakeful(s)'
  BY <1>1, <1>2 DEF StreamTrue, LinkTrue, HandTrue, Wakeful, Healthy, Subscribed, Shared
<1>4. ASSUME NEW r \in Runs PROVE RunTrue(s, r)'
  <2>1. RunTrue(s, r)
    BY <1>1 DEF StreamTrue
  <2>2. Following(s)' => Following(s)
    BY <1>2 DEF Following
  <2>3. Ordered(s, r)' /\ Private(s, r)'
    BY <1>1, <1>2, <2>1, <2>2, SharedKept DEF RunTrue, Ordered, Private, Shared
  <2>4. SnapshotTrue(s, r)'
    BY <1>2 DEF SnapshotTrue
  <2>5. Kept(s, r)'
    BY <1>1, <1>2, <2>1, <2>2, SeenIs, SharedKept DEF RunTrue, Kept, UpToDate
  <2> QED
    BY <2>3, <2>4, <2>5 DEF RunTrue
<1>5. StreamTrue(s)'
  BY <1>3, <1>4 DEF StreamTrue
<1> QED
  BY <1>2, <1>5, StreamMoves

(* A fault is paid for from its budget.                                    *)
LEMMA SpendTypes ==
    ASSUME Types, NEW kind \in {"break", "read", "revoke"}, Spend(kind)
    PROVE  budget' \in [{"break", "read", "revoke"} -> Nat]
<1>1. budget \in [{"break", "read", "revoke"} -> Nat] /\ budget[kind] > 0
      /\ budget' = [budget EXCEPT ![kind] = budget[kind] - 1]
  BY DEF Types, Spend
<1> QED
  BY <1>1

(* A step that changes only the stream, or only what the client sees.      *)
LEMMA FrameIs ==
    ASSUME FeedInv, NEW s \in Streams,
           UNCHANGED <<stage, channel, link, listener, available, reads, active, expired>>,
           budget' \in [{"break", "read", "revoke"} -> Nat],
           \A t \in Streams \ {s} : stream'[t] = stream[t] /\ view'[t] = view[t]
    PROVE  StreamFrame(s)
BY DEF FeedInv, Types, StreamFrame, Shared

(* Such a step leaves everything else alone.                               *)
LEMMA GotoFrame ==
    ASSUME FeedInv, NEW s \in Streams, NEW step, Goto(s, step),
           UNCHANGED <<stage, channel, link, listener, available, reads, view, active, expired>>,
           budget' \in [{"break", "read", "revoke"} -> Nat]
    PROVE  StreamFrame(s)
<1>1. \A t \in Streams \ {s} : stream'[t] = stream[t] /\ view'[t] = view[t]
  BY DEF FeedInv, Types, Goto
<1> QED
  BY <1>1, FrameIs

(* The steps of a stream that only move its label keep the invariant.      *)
LEMMA GotoStepsInv ==
    ASSUME FeedInv, NEW s \in Streams,
           \/ SnapshotFails(s) \/ CheckFails(s) \/ Disconnect(s)
           \/ CheckAccess(s) \/ Wake(s) \/ Timeout(s)
    PROVE  FeedInv'
<1>1. Types /\ budget \in [{"break", "read", "revoke"} -> Nat]
  BY DEF FeedInv, Types
<1>2. CASE SnapshotFails(s) \/ CheckFails(s)
  <2>1. /\ Goto(s, "ending") /\ stream[s].pc \notin {"new", "closed", "snapshot"}
        /\ UNCHANGED <<stage, channel, link, listener, available, reads, view, active, expired>>
        /\ budget' \in [{"break", "read", "revoke"} -> Nat]
    BY <1>1, <1>2, SpendTypes DEF SnapshotFails, CheckFails
  <2> QED
    BY <2>1, GotoFrame, GotoInv DEF StreamSteps
<1>3. CASE Disconnect(s)
  <2>1. /\ Goto(s, "ending") /\ stream[s].pc \notin {"new", "closed", "snapshot"}
        /\ UNCHANGED <<stage, channel, link, listener, available, reads, view, active, expired,
                       budget>>
    BY <1>3 DEF Disconnect
  <2> QED
    BY <1>1, <2>1, GotoFrame, GotoInv DEF StreamSteps
<1>4. CASE CheckAccess(s)
  <2>1. PICK step \in {"send", "ending"} : Goto(s, step)
    BY <1>4 DEF CheckAccess
  <2>2. /\ stream[s].pc = "check"
        /\ UNCHANGED <<stage, channel, link, listener, available, reads, view, active, expired,
                       budget>>
    BY <1>4 DEF CheckAccess
  <2> QED
    BY <1>1, <2>1, <2>2, GotoFrame, GotoInv DEF StreamSteps
<1>5. CASE Wake(s) \/ Timeout(s)
  <2>1. PICK step \in {"drain", "heartbeat"} : Goto(s, step)
    BY <1>5 DEF Wake, Timeout
  <2>2. /\ stream[s].pc = "wait"
        /\ UNCHANGED <<stage, channel, link, listener, available, reads, view, active, expired,
                       budget>>
    BY <1>5 DEF Wake, Timeout
  <2> QED
    BY <1>1, <2>1, <2>2, GotoFrame, GotoInv DEF StreamSteps
<1> QED
  BY <1>2, <1>3, <1>4, <1>5

(* RunWake keeps the invariant.                                            *)
LEMMA RunWakeInv ==
    ASSUME FeedInv, NEW s \in Streams, RunWake(s) PROVE FeedInv'
<1>1. /\ Types /\ stream[s] \in StreamType /\ StreamTrue(s)
      /\ stream[s].wakes > 0
      /\ stream' = [stream EXCEPT ![s].wakes = @ - 1, ![s].changed = TRUE]
      /\ UNCHANGED <<stage, channel, link, listener, available, reads, view, active, expired,
                     budget>>
  BY FeedTypes DEF FeedInv, RunWake
<1>2. /\ stream' \in [Streams -> StreamType] /\ view' \in [Streams -> [Runs -> Stages]]
      /\ stream'[s].pc = stream[s].pc /\ stream'[s].hand = stream[s].hand
      /\ stream'[s].pending = stream[s].pending /\ stream'[s].error = stream[s].error
      /\ stream'[s].changed
      /\ \A t \in Streams \ {s} : stream'[t] = stream[t] /\ view'[t] = view[t]
  <2> DEFINE yes == TRUE
             w == stream[s].wakes - 1
             new == [pc |-> stream[s].pc, hand |-> stream[s].hand, pending |-> stream[s].pending,
                     error |-> stream[s].error, changed |-> yes, wakes |-> w]
             less == [pc |-> stream[s].pc, hand |-> stream[s].hand, pending |-> stream[s].pending,
                      error |-> stream[s].error, changed |-> stream[s].changed, wakes |-> w]
  <2>1. w \in Nat /\ yes \in BOOLEAN
    BY <1>1 DEF StreamType
  <2>2. stream' = [stream EXCEPT ![s] = new]
    <3>1. [stream[s] EXCEPT !.wakes = w] = less
      BY <1>1 DEF StreamType
    <3>2. [less EXCEPT !.changed = yes] = new
      <4> HIDE DEF w, yes
      <4> QED
        BY <1>1 DEF StreamType
    <3>3. stream' = [stream EXCEPT ![s] = [stream[s] EXCEPT !.wakes = w, !.changed = yes]]
      BY <1>1 DEF Types
    <3> HIDE DEF less, new, w, yes
    <3> QED
      BY <3>1, <3>2, <3>3, Zenon
  <2> HIDE DEF w, yes
  <2>3. new \in StreamType
    BY <1>1, <2>1 DEF StreamType
  <2>4. stream'[s] = new
    BY <1>1, <2>2 DEF Types
  <2>5. stream'[s].changed
    <3>1. stream'[s].changed = yes
      BY <2>4
    <3> QED
      BY <3>1, Zenon DEF yes
  <2>6. /\ stream'[s].pc = stream[s].pc /\ stream'[s].hand = stream[s].hand
        /\ stream'[s].pending = stream[s].pending /\ stream'[s].error = stream[s].error
    BY <2>4
  <2> HIDE DEF new
  <2>7. /\ stream' \in [Streams -> StreamType] /\ view' \in [Streams -> [Runs -> Stages]]
        /\ \A t \in Streams \ {s} : stream'[t] = stream[t] /\ view'[t] = view[t]
    BY <1>1, <2>2, <2>3 DEF Types
  <2> QED
    BY <2>5, <2>6, <2>7, Zenon
<1>3. StreamFrame(s) /\ Shared
  BY <1>1, <1>2, FrameIs DEF Types, StreamFrame
<1>4. LinkTrue(s)' /\ HandTrue(s)' /\ Wakeful(s)'
  BY <1>1, <1>2, <1>3 DEF StreamTrue, LinkTrue, HandTrue, Wakeful, Healthy, Subscribed
<1>5. ASSUME NEW r \in Runs PROVE RunTrue(s, r)'
  <2>1. RunTrue(s, r) /\ (Following(s)' <=> Following(s))
    BY <1>1, <1>2 DEF StreamTrue, Following
  <2>2. Ordered(s, r)' /\ Private(s, r)' /\ SnapshotTrue(s, r)'
    BY <1>1, <1>2, <1>3, <2>1, SharedKept DEF RunTrue, Ordered, Private, SnapshotTrue
  <2>3. Kept(s, r)'
    BY <1>1, <1>2, <1>3, <2>1, SeenIs, SharedKept DEF RunTrue, Kept, UpToDate
  <2> QED
    BY <2>2, <2>3 DEF RunTrue
<1>6. StreamTrue(s)'
  BY <1>4, <1>5 DEF StreamTrue
<1> QED
  BY <1>2, <1>3, <1>6, StreamMoves

(* RunFeed.subscribe succeeds only while the feed is available.            *)
LEMMA SubscribeInv ==
    ASSUME FeedInv, NEW s \in Streams, Subscribe(s) PROVE FeedInv'
<1>1. PICK step \in {"subscribed", "closed"} :
        Goto(s, step) /\ (step = "subscribed" => available)
  BY DEF Subscribe
<1>2. /\ stream[s].pc = "new"
      /\ UNCHANGED <<stage, channel, link, listener, available, reads, view, active, expired,
                     budget>>
  BY DEF Subscribe
<1>3. /\ Types /\ stream[s] \in StreamType /\ StreamTrue(s) /\ ListenerTrue
      /\ budget \in [{"break", "read", "revoke"} -> Nat]
  BY FeedTypes DEF FeedInv, Types
<1>4. StreamFrame(s) /\ Shared
  BY <1>1, <1>2, <1>3, GotoFrame DEF StreamFrame
<1>5. /\ stream' \in [Streams -> StreamType] /\ view' \in [Streams -> [Runs -> Stages]]
      /\ stream'[s].pc = step /\ stream'[s].hand = stream[s].hand
      /\ stream'[s].pending = stream[s].pending /\ stream'[s].error = stream[s].error
      /\ stream'[s].changed = stream[s].changed /\ stream'[s].wakes = stream[s].wakes
  BY <1>1, <1>2, <1>3 DEF Goto, Types, StreamType, StreamSteps
<1>6. LinkTrue(s)'
  BY <1>1, <1>2, <1>3, <1>5 DEF StreamTrue, LinkTrue, ListenerTrue, Healthy, Subscribed
<1>7. HandTrue(s)' /\ Wakeful(s)'
  BY <1>1, <1>2, <1>3, <1>5 DEF StreamTrue, HandTrue, Wakeful
<1>8. ASSUME NEW r \in Runs PROVE RunTrue(s, r)'
  <2>1. RunTrue(s, r) /\ ~Following(s)'
    BY <1>1, <1>3, <1>5 DEF StreamTrue, Following
  <2>2. Ordered(s, r)' /\ Private(s, r)'
    BY <1>2, <1>4, <1>5, <2>1, SharedKept DEF RunTrue, Ordered, Private
  <2>3. SnapshotTrue(s, r)' /\ Kept(s, r)'
    BY <1>1, <1>5, <2>1 DEF SnapshotTrue, Kept
  <2> QED
    BY <2>2, <2>3 DEF RunTrue
<1> QED
  BY <1>4, <1>5, <1>6, <1>7, <1>8, StreamMoves DEF StreamTrue

(* A snapshot has the runs of its user as they are, but for old finished   *)
(* ones.                                                                   *)
LEMMA SnapshotType ==
    ASSUME Types, NEW user
    PROVE  /\ Snapshot(user) \in [Runs -> Stages]
           /\ \A r \in Runs : /\ Snapshot(user)[r] \in {0, stage[r]}
                              /\ Owner[r] # user => Snapshot(user)[r] = 0
                              /\ Owner[r] = user => Snapshot(user)[r] = stage[r] \/ OutOfWindow(r)
BY Constants DEF Types, Snapshot, OutOfWindow

(* The snapshot is read under _reads: nothing is being delivered.          *)
LEMMA SnapshotReadInv ==
    ASSUME FeedInv, NEW s \in Streams, SnapshotRead(s) PROVE FeedInv'
<1> DEFINE shown == Snapshot(Caller[s])
<1>1. /\ stream[s].pc = "subscribed" /\ reads = "free" /\ reads' = s
      /\ stream' = [stream EXCEPT ![s].pc = "snapshot", ![s].hand = shown]
      /\ UNCHANGED <<stage, channel, link, listener, available, view, active, expired, budget>>
  BY DEF SnapshotRead
<1>2. /\ Types /\ stream[s] \in StreamType /\ StreamTrue(s)
      /\ listener.pc # "deliver" /\ listener.pc \notin Publishing
  BY <1>1, FeedTypes DEF FeedInv, Types, Publishing
<1>3. /\ shown \in [Runs -> Stages]
      /\ \A r \in Runs : /\ shown[r] \in {0, stage[r]}
                         /\ Owner[r] # Caller[s] => shown[r] = 0
                         /\ Owner[r] = Caller[s] => shown[r] = stage[r] \/ OutOfWindow(r)
  BY <1>2, SnapshotType
<1> HIDE DEF shown
<1>4. /\ stream' \in [Streams -> StreamType] /\ view' \in [Streams -> [Runs -> Stages]]
      /\ stream'[s].pc = "snapshot" /\ stream'[s].hand = shown
      /\ stream'[s].pending = stream[s].pending /\ stream'[s].error = stream[s].error
      /\ stream'[s].changed = stream[s].changed /\ stream'[s].wakes = stream[s].wakes
      /\ \A t \in Streams \ {s} : stream'[t] = stream[t]
  BY <1>1, <1>2, <1>3 DEF Types, StreamType, StreamSteps
<1>5. StreamFrame(s) /\ Shared
  BY <1>1, <1>2, <1>4, Constants DEF StreamFrame, Shared, Types
<1>6. LinkTrue(s)' /\ HandTrue(s)' /\ Wakeful(s)'
  BY <1>1, <1>2, <1>4 DEF StreamTrue, LinkTrue, HandTrue, Wakeful, Healthy, Subscribed
<1>7. ASSUME NEW r \in Runs PROVE RunTrue(s, r)'
  <2>1. RunTrue(s, r) /\ ~Following(s)' /\ stage[r] \in Nat
    BY <1>2, <1>4, FeedTypes DEF StreamTrue, Following
  <2>2. Ordered(s, r)'
    BY <1>1, <1>2, <1>3, <1>4, <2>1 DEF RunTrue, Ordered
  <2>3. Private(s, r)'
    BY <1>1, <1>3, <1>4, <2>1 DEF RunTrue, Private
  <2>4. SnapshotTrue(s, r)'
    BY <1>3, <1>4, <1>5, SharedKept DEF SnapshotTrue
  <2>5. Kept(s, r)'
    BY <2>1 DEF Kept
  <2> QED
    BY <2>2, <2>3, <2>4, <2>5 DEF RunTrue
<1> QED
  BY <1>4, <1>5, <1>6, <1>7, StreamMoves DEF StreamTrue

(* SnapshotReturn keeps the invariant.                                     *)
LEMMA SnapshotReturnInv ==
    ASSUME FeedInv, NEW s \in Streams, SnapshotReturn(s) PROVE FeedInv'
<1>1. /\ stream[s].pc = "snapshot" /\ reads' = "free"
      /\ \/ Goto(s, "ending")
         \/ stream' = [stream EXCEPT ![s].pc = "open", ![s].pending = Nothing]
      /\ UNCHANGED <<stage, channel, link, listener, available, view, active, expired, budget>>
  BY DEF SnapshotReturn
<1>2. /\ Types /\ stream[s] \in StreamType /\ StreamTrue(s) /\ reads = s
      /\ listener.pc # "deliver"
  <2>1. StreamTrue(s) /\ reads = s /\ Types
    BY <1>1 DEF FeedInv, StreamTrue, LinkTrue
  <2> QED
    BY <2>1, FeedTypes, Constants DEF Types, Publishing
<1>3. PICK pc \in {"ending", "open"} :
      /\ stream' \in [Streams -> StreamType] /\ view' \in [Streams -> [Runs -> Stages]]
      /\ stream'[s].pc = pc /\ stream'[s].hand = stream[s].hand
      /\ stream'[s].pending = Nothing \/ stream'[s].pending = stream[s].pending
      /\ pc = "open" => stream'[s].pending = Nothing
      /\ stream'[s].error = stream[s].error
      /\ stream'[s].changed = stream[s].changed /\ stream'[s].wakes = stream[s].wakes
      /\ \A t \in Streams \ {s} : stream'[t] = stream[t]
  <2>1. CASE Goto(s, "ending")
    BY <1>1, <1>2, <2>1 DEF Goto, Types, StreamType, StreamSteps
  <2>2. CASE stream' = [stream EXCEPT ![s].pc = "open", ![s].pending = Nothing]
    BY <1>1, <1>2, <2>2, Constants DEF Types, StreamType, StreamSteps
  <2> QED
    BY <1>1, <2>1, <2>2
<1>4. StreamFrame(s) /\ Shared
  BY <1>1, <1>2, <1>3, Constants DEF StreamFrame, Shared, Types
<1>5. LinkTrue(s)'
  BY <1>1, <1>2, <1>3, Constants DEF StreamTrue, LinkTrue, Healthy, Subscribed
<1>6. HandTrue(s)' /\ Wakeful(s)'
  BY <1>1, <1>2, <1>3 DEF StreamTrue, HandTrue, Wakeful
<1>7. ASSUME NEW r \in Runs PROVE RunTrue(s, r)'
  <2>1. RunTrue(s, r) /\ stage[r] \in Nat /\ view[s] = Nothing /\ Nothing[r] = 0
    BY <1>1, <1>2, FeedTypes, Constants DEF StreamTrue, HandTrue
  <2>2. stream'[s].pending[r] \in {0, stream[s].pending[r]}
    BY <1>3, <2>1
  <2>3. Ordered(s, r)'
    <3>1. stream[s].hand[r] \in Nat /\ (Following(s)' => stream'[s].pending[r] = 0)
      BY <1>2, <1>3, <2>1, FeedTypes DEF Following
    <3> QED
      BY <1>1, <1>2, <1>3, <2>1, <2>2, <3>1 DEF RunTrue, Ordered
  <2>4. Private(s, r)' /\ SnapshotTrue(s, r)'
    BY <1>1, <1>3, <2>1, <2>2 DEF RunTrue, Private, SnapshotTrue
  <2>5. Kept(s, r)'
    <3> SUFFICES ASSUME Following(s)', stream'[s].error = "none", link' = "up",
                        Owner[r] = Caller[s]
                 PROVE  UpToDate(s, r)' \/ OnItsWay(r)'
      BY DEF Kept
    <3>1. pc = "open"
      BY <1>3 DEF Following
    <3>2. Seen(s, r)' = stream[s].hand[r]
      BY <1>1, <1>3, <2>1, <3>1, SeenIs
    <3>3. \/ stream[s].hand[r] = stage[r]
          \/ stream[s].hand[r] = 0 /\ OutOfWindow(r)
          \/ Names(channel, r) \/ Names(listener.batch, r)
      BY <1>1, <1>3, <2>1 DEF RunTrue, SnapshotTrue
    <3> QED
      BY <1>2, <1>4, <3>2, <3>3, WayIs, SharedKept DEF UpToDate
  <2> QED
    BY <2>3, <2>4, <2>5 DEF RunTrue
<1> QED
  BY <1>3, <1>4, <1>5, <1>6, <1>7, StreamMoves DEF StreamTrue

(* What is in hand is newer than what the client has, and older than what  *)
(* is pending.                                                             *)
LEMMA SendInv ==
    ASSUME FeedInv, NEW s \in Streams, NEW step \in {"drain", "wait"}, Send(s, step),
           stream[s].pc \in {"open", "send"},
           UNCHANGED <<stage, channel, link, listener, available, reads, active, expired, budget>>
    PROVE  FeedInv'
<1> DEFINE sent == [r \in Runs |-> IF stream[s].hand[r] # 0 THEN stream[s].hand[r] ELSE view[s][r]]
<1>1. /\ Types /\ stream[s] \in StreamType /\ StreamTrue(s) /\ view[s] \in [Runs -> Stages]
      /\ budget \in [{"break", "read", "revoke"} -> Nat]
  BY FeedTypes DEF FeedInv, Types
<1>2. /\ view' = [view EXCEPT ![s] = sent]
      /\ stream' = [stream EXCEPT ![s].pc = step, ![s].hand = Nothing]
  BY <1>1 DEF Send, Types
<1>3. /\ sent \in [Runs -> Stages]
      /\ \A r \in Runs : sent[r] = IF stream[s].hand[r] # 0 THEN stream[s].hand[r] ELSE view[s][r]
  BY <1>1 DEF StreamType
<1> HIDE DEF sent
<1>4. /\ stream' \in [Streams -> StreamType] /\ view' \in [Streams -> [Runs -> Stages]]
      /\ stream'[s].pc = step /\ stream'[s].hand = Nothing
      /\ stream'[s].pending = stream[s].pending /\ stream'[s].error = stream[s].error
      /\ stream'[s].changed = stream[s].changed /\ stream'[s].wakes = stream[s].wakes
      /\ view'[s] = sent
      /\ \A t \in Streams \ {s} : stream'[t] = stream[t] /\ view'[t] = view[t]
  BY <1>1, <1>2, <1>3, Constants DEF Types, StreamType, StreamSteps
<1>5. StreamFrame(s) /\ Shared
  BY <1>1, <1>4, FrameIs DEF StreamFrame
<1>6. LinkTrue(s)' /\ HandTrue(s)' /\ Wakeful(s)'
  BY <1>1, <1>4 DEF StreamTrue, LinkTrue, HandTrue, Wakeful, Healthy, Subscribed
<1>7. ASSUME NEW r \in Runs PROVE RunTrue(s, r)'
  <2>1. /\ RunTrue(s, r) /\ Following(s) /\ Nothing[r] = 0 /\ stage[r] \in Nat
        /\ stream[s].hand[r] \in Nat /\ view[s][r] \in Nat
        /\ stream[s].pending[r] \in Nat /\ listener.found \in Nat
    BY <1>1, FeedTypes, Constants DEF StreamTrue, Following
  <2>2. /\ view'[s][r] = (IF stream[s].hand[r] # 0 THEN stream[s].hand[r] ELSE view[s][r])
        /\ stream'[s].hand[r] = 0 /\ stream'[s].pending[r] = stream[s].pending[r]
    BY <1>3, <1>4, <2>1
  <2>3. Ordered(s, r)'
    BY <1>4, <2>1, <2>2 DEF RunTrue, Ordered
  <2>4. Private(s, r)' /\ SnapshotTrue(s, r)'
    BY <1>4, <2>1, <2>2 DEF RunTrue, Private, SnapshotTrue
  <2>5. Seen(s, r)' = Seen(s, r)
    BY <2>2, SeenIs
  <2>6. Kept(s, r)'
    BY <1>4, <1>5, <2>1, <2>5, SharedKept DEF RunTrue, Kept, UpToDate
  <2> QED
    BY <2>3, <2>4, <2>6 DEF RunTrue
<1> QED
  BY <1>4, <1>5, <1>6, <1>7, StreamMoves DEF StreamTrue

(* Sending the snapshot and sending a batch keep the invariant.            *)
LEMMA OpenStreamInv ==
    ASSUME FeedInv, NEW s \in Streams, OpenStream(s) \/ SendUpdates(s) PROVE FeedInv'
<1>1. CASE OpenStream(s) /\ Granted(s)
  <2>1. /\ Send(s, "drain") /\ stream[s].pc = "open"
        /\ UNCHANGED <<stage, channel, link, listener, available, reads, active, expired, budget>>
    BY <1>1 DEF OpenStream
  <2> QED
    BY <2>1, SendInv
<1>2. CASE OpenStream(s) /\ ~Granted(s)
  <2>1. /\ Goto(s, "ending") /\ stream[s].pc = "open"
        /\ UNCHANGED <<stage, channel, link, listener, available, reads, view, active, expired,
                       budget>>
    BY <1>2 DEF OpenStream
  <2>2. budget \in [{"break", "read", "revoke"} -> Nat]
    BY DEF FeedInv, Types
  <2> QED
    BY <2>1, <2>2, GotoFrame, GotoInv DEF StreamSteps
<1>3. CASE SendUpdates(s)
  <2>1. /\ Send(s, "wait") /\ stream[s].pc = "send"
        /\ UNCHANGED <<stage, channel, link, listener, available, reads, active, expired, budget>>
    BY <1>3 DEF SendUpdates
  <2> QED
    BY <2>1, SendInv
<1> QED
  BY <1>1, <1>2, <1>3

(* drain clears the event and takes all that is pending at once, under     *)
(* _lock: a stream goes to sleep only with nothing to send or to report.   *)
LEMMA DrainInv ==
    ASSUME FeedInv, NEW s \in Streams, Drain(s) PROVE FeedInv'
<1> DEFINE no == FALSE
<1>1. PICK pc \in {"ending", "check", "wait"} :
        /\ stream' = [stream EXCEPT ![s].changed = no, ![s].hand = stream[s].pending,
                                    ![s].pending = Nothing, ![s].pc = pc]
        /\ pc # "ending" => stream[s].error = "none"
        /\ pc = "wait" => stream[s].pending = Nothing
  BY DEF Drain
<1>2. /\ stream[s].pc \in {"drain", "heartbeat"}
      /\ UNCHANGED <<stage, channel, link, listener, available, reads, view, active, expired,
                     budget>>
  BY DEF Drain
<1>3. /\ Types /\ stream[s] \in StreamType /\ StreamTrue(s)
      /\ budget \in [{"break", "read", "revoke"} -> Nat]
  BY FeedTypes DEF FeedInv, Types
<1>4. no \in BOOLEAN
  OBVIOUS
<1> HIDE DEF no
<1>5. /\ stream' \in [Streams -> StreamType] /\ view' \in [Streams -> [Runs -> Stages]]
      /\ stream'[s].pc = pc /\ stream'[s].hand = stream[s].pending
      /\ stream'[s].pending = Nothing /\ stream'[s].error = stream[s].error
      /\ \A t \in Streams \ {s} : stream'[t] = stream[t] /\ view'[t] = view[t]
  BY <1>1, <1>2, <1>3, <1>4, Constants DEF Types, StreamType, StreamSteps
<1>6. StreamFrame(s) /\ Shared
  BY <1>2, <1>3, <1>5, FrameIs DEF StreamFrame
<1>7. LinkTrue(s)' /\ HandTrue(s)' /\ Wakeful(s)'
  BY <1>1, <1>2, <1>3, <1>5 DEF StreamTrue, LinkTrue, HandTrue, Wakeful, Healthy, Subscribed
<1>8. ASSUME NEW r \in Runs PROVE RunTrue(s, r)'
  <2>1. /\ RunTrue(s, r) /\ Following(s) /\ Nothing[r] = 0 /\ stage[r] \in Nat
        /\ stream[s].hand[r] = 0 /\ view[s][r] \in Nat
        /\ stream[s].pending[r] \in Nat /\ listener.found \in Nat
    BY <1>2, <1>3, FeedTypes, Constants DEF StreamTrue, HandTrue, Following
  <2>2. stream'[s].hand[r] = stream[s].pending[r] /\ stream'[s].pending[r] = 0
    BY <1>5, <2>1
  <2>3. Ordered(s, r)'
    BY <1>2, <2>1, <2>2 DEF RunTrue, Ordered
  <2>4. Private(s, r)' /\ SnapshotTrue(s, r)'
    BY <1>2, <1>5, <2>1, <2>2 DEF RunTrue, Private, SnapshotTrue
  <2>5. Seen(s, r)' = Seen(s, r)
    BY <1>2, <2>1, <2>2, SeenIs
  <2>6. Kept(s, r)'
    BY <1>5, <1>6, <2>1, <2>5, SharedKept DEF RunTrue, Kept, UpToDate
  <2> QED
    BY <2>3, <2>4, <2>6 DEF RunTrue
<1> QED
  BY <1>5, <1>6, <1>7, <1>8, StreamMoves DEF StreamTrue

(* Unsubscribe keeps the invariant.                                        *)
LEMMA UnsubscribeInv ==
    ASSUME FeedInv, NEW s \in Streams, Unsubscribe(s) PROVE FeedInv'
<1> DEFINE no == FALSE
           new == [pc |-> "closed", hand |-> Nothing, pending |-> Nothing,
                   error |-> "none", changed |-> no, wakes |-> 0]
<1>1. /\ stream[s].pc = "ending"
      /\ stream' = [stream EXCEPT ![s] = new] /\ view' = [view EXCEPT ![s] = Nothing]
      /\ UNCHANGED <<stage, channel, link, listener, available, reads, active, expired, budget>>
  BY DEF Unsubscribe, Fresh
<1>2. /\ Types /\ stream[s] \in StreamType /\ StreamTrue(s)
      /\ budget \in [{"break", "read", "revoke"} -> Nat]
  BY FeedTypes DEF FeedInv, Types
<1>3. no \in BOOLEAN
  OBVIOUS
<1> HIDE DEF no
<1>4. new \in StreamType /\ new.pc = "closed" /\ new.hand = Nothing /\ new.pending = Nothing
      /\ new.error = "none"
  BY <1>3, Constants DEF StreamType, StreamSteps
<1> HIDE DEF new
<1>5. /\ stream' \in [Streams -> StreamType] /\ view' \in [Streams -> [Runs -> Stages]]
      /\ stream'[s] = new /\ view'[s] = Nothing
      /\ \A t \in Streams \ {s} : stream'[t] = stream[t] /\ view'[t] = view[t]
  BY <1>1, <1>2, <1>4, Constants DEF Types
<1>6. StreamFrame(s) /\ Shared
  BY <1>1, <1>2, <1>5, FrameIs DEF StreamFrame
<1>7. LinkTrue(s)' /\ HandTrue(s)' /\ Wakeful(s)'
  BY <1>1, <1>2, <1>4, <1>5 DEF StreamTrue, LinkTrue, HandTrue, Wakeful, Healthy, Subscribed
<1>8. ASSUME NEW r \in Runs PROVE RunTrue(s, r)'
  <2>1. /\ Nothing[r] = 0 /\ stage'[r] \in Nat /\ ~Following(s)'
        /\ stream'[s].hand[r] = 0 /\ stream'[s].pending[r] = 0 /\ view'[s][r] = 0
        /\ listener'.found \in Nat
    BY <1>1, <1>2, <1>4, <1>5, FeedTypes, Constants DEF Following
  <2>2. Ordered(s, r)' /\ Private(s, r)'
    BY <2>1 DEF Ordered, Private
  <2>3. SnapshotTrue(s, r)' /\ Kept(s, r)'
    BY <1>4, <1>5, <2>1 DEF SnapshotTrue, Kept
  <2> QED
    BY <2>2, <2>3 DEF RunTrue
<1> QED
  BY <1>5, <1>6, <1>7, <1>8, StreamMoves DEF StreamTrue

-----------------------------------------------------------------------------
(* Steps that leave a stream alone                                         *)

(* What becomes of run r outside the streams is harmless to stream s: it   *)
(* is not a run that s follows, or a change of r is in the channel, or r   *)
(* stays as it is and so does what is on its way.                          *)
Harmless(s, r) ==
    s \in Healthy /\ Owner[r] = Caller[s] /\ link' = "up" =>
        /\ link = "up"
        /\ \/ Names(channel, r)'
           \/ /\ stage'[r] = stage[r]
              /\ OutOfWindow(r) => OutOfWindow(r)'
              /\ OnItsWay(r) => OnItsWay(r)'

(* What the listener holds in hand is what it held, or the last version.   *)
FoundLate(r) ==
    listener'.pc = "deliver" /\ Head(listener'.batch).run = r =>
        \/ listener.pc = "deliver" /\ listener' = listener
        \/ listener'.found \in Nat /\ stage[r] <= listener'.found

(* A stream keeps its truth under a step of the listener or of a run that  *)
(* leaves a notification on its way.                                       *)
LEMMA StreamStays ==
    ASSUME FeedInv, NEW s \in Streams, stream'[s] = stream[s], view'[s] = view[s],
           reads = s <=> reads' = s,
           listener'.pc \in Disconnected => listener.pc \in Disconnected \/ s \notin Subscribed,
           \A r \in Runs : /\ stage'[r] \in Nat /\ stage[r] <= stage'[r]
                           /\ Harmless(s, r) /\ FoundLate(r)
    PROVE  StreamTrue(s)'
<1>1. /\ StreamTrue(s) /\ Types
  BY DEF FeedInv
<1>2. /\ LinkTrue(s)' /\ HandTrue(s)' /\ Wakeful(s)' /\ (s \in Healthy' <=> s \in Healthy)
  BY <1>1 DEF StreamTrue, LinkTrue, HandTrue, Wakeful, Healthy, Subscribed
<1>3. ASSUME NEW r \in Runs PROVE RunTrue(s, r)'
  <2>1. /\ RunTrue(s, r) /\ Harmless(s, r) /\ FoundLate(r)
        /\ stage'[r] \in Nat /\ stage[r] \in Nat /\ stage[r] <= stage'[r]
        /\ stream[s].hand[r] \in Nat /\ view[s][r] \in Nat /\ stream[s].pending[r] \in Nat
        /\ listener.found \in Nat
    BY <1>1, FeedTypes DEF StreamTrue
  <2>2. Following(s)' <=> Following(s)
    BY DEF Following
  <2>3. Ordered(s, r)'
    BY <2>1, <2>2 DEF RunTrue, Ordered, FoundLate
  <2>4. Private(s, r)'
    BY <2>1 DEF RunTrue, Private
  <2>5. Seen(s, r)' = Seen(s, r)
    BY SeenIs
  <2>6. Kept(s, r)'
    <3> SUFFICES ASSUME Following(s)', stream'[s].error = "none", link' = "up",
                        Owner[r] = Caller[s]
                 PROVE  UpToDate(s, r)' \/ OnItsWay(r)'
      BY DEF Kept
    <3>1. s \in Healthy
      BY DEF Healthy, Subscribed, Following
    <3>2. Names(channel, r)' => OnItsWay(r)'
      BY DEF OnItsWay, Names
    <3>3. link = "up" /\ (UpToDate(s, r) \/ OnItsWay(r))
      BY <2>1, <2>2, <3>1 DEF RunTrue, Kept, Harmless
    <3> QED
      BY <2>1, <2>5, <3>1, <3>2, <3>3 DEF Harmless, UpToDate
  <2>7. SnapshotTrue(s, r)'
    <3> SUFFICES ASSUME stream'[s].pc = "snapshot", stream'[s].error = "none", link' = "up",
                        Owner[r] = Caller[s]
                 PROVE  \/ stream'[s].hand[r] = stage'[r]
                        \/ stream'[s].hand[r] = 0 /\ OutOfWindow(r)'
                        \/ Names(channel, r)' \/ Names(listener.batch, r)'
      BY DEF SnapshotTrue
    <3>1. s \in Healthy
      BY DEF Healthy, Subscribed
    <3>2. listener.pc # "deliver"
      <4>1. reads = s
        BY <1>1 DEF StreamTrue, LinkTrue
      <4> QED
        BY <1>1, <4>1, Constants DEF Types, Publishing
    <3>3. OnItsWay(r)' => Names(channel, r)' \/ Names(listener.batch, r)'
      BY DEF OnItsWay, Names
    <3>4. link = "up" /\ (\/ stream[s].hand[r] = stage[r]
                          \/ stream[s].hand[r] = 0 /\ OutOfWindow(r)
                          \/ OnItsWay(r))
      BY <2>1, <3>1, <3>2, WayIs DEF RunTrue, SnapshotTrue, Harmless
    <3> QED
      BY <2>1, <3>1, <3>3, <3>4 DEF Harmless
  <2> QED
    BY <2>3, <2>4, <2>6, <2>7 DEF RunTrue
<1> QED
  BY <1>2, <1>3 DEF StreamTrue

(* A step that leaves all streams alone.                                   *)
LEMMA StreamsStay ==
    ASSUME FeedInv, UNCHANGED <<stream, view>>, Types', NotesTrue', FoundTrue', ListenerTrue',
           \A s \in Streams : reads = s <=> reads' = s,
           listener'.pc \in Disconnected => listener.pc \in Disconnected,
           \A r \in Runs : stage[r] <= stage'[r] /\ FoundLate(r),
           \A s \in Streams, r \in Runs : Harmless(s, r)
    PROVE  FeedInv'
<1>1. \A r \in Runs : stage'[r] \in Nat
  BY Constants DEF Types
<1>2. \A s \in Streams : StreamTrue(s)'
  BY <1>1, StreamStays
<1> QED
  BY <1>2 DEF FeedInv

(* Changes of accounts and tokens, and the loss of the connection.         *)
LEMMA EnvironmentInv ==
    ASSUME FeedInv, \/ \E u \in Users : Deactivate(u)
                    \/ \E s \in Streams : Expire(s)
                    \/ BreakLink
    PROVE  FeedInv'
<1>1. /\ Types /\ budget' \in [{"break", "read", "revoke"} -> Nat]
      /\ active' \subseteq Users /\ expired' \subseteq Streams
      /\ link' = link \/ link' = "broken"
      /\ UNCHANGED <<stage, channel, listener, available, reads, stream, view>>
  BY SpendTypes DEF FeedInv, Types, Deactivate, Expire, BreakLink
<1>2. Types'
  BY <1>1 DEF Types
<1>3. NotesTrue' /\ FoundTrue' /\ ListenerTrue'
  BY <1>1 DEF FeedInv, NotesTrue, NoteTrue, FoundTrue, ListenerTrue, Names
<1>4. \A r \in Runs : stage[r] <= stage'[r] /\ FoundLate(r)
  BY <1>1, FeedTypes DEF FoundLate
<1>5. \A s \in Streams, r \in Runs : Harmless(s, r)
  BY <1>1 DEF Harmless, OutOfWindow, Newest, OnItsWay
<1> QED
  BY <1>1, <1>2, <1>3, <1>4, <1>5, StreamsStay

-----------------------------------------------------------------------------
(* A commit                                                                *)

(* A run that has left the window of the snapshot does not come back.      *)
LEMMA WindowGrows ==
    ASSUME Types, NEW q \in Runs, NEW v \in Stages, stage[q] < v,
           stage' = [stage EXCEPT ![q] = v], NEW r \in Runs, r # q, OutOfWindow(r)
    PROVE  OutOfWindow(r)'
<1> DEFINE Newer == {p \in Runs : p > r /\ Owner[p] = Owner[r] /\ stage[p] = Final}
           NewerNow == {p \in Runs : p > r /\ Owner[p] = Owner[r] /\ stage'[p] = Final}
<1>1. /\ stage \in [Runs -> Stages] /\ v \in 0..Final /\ stage[q] \in Nat /\ Final \in Nat
      /\ TerminalRuns \in Nat
  BY Constants DEF Types, Stages
<1>2. stage[q] # Final /\ \A p \in Runs : p # q => stage'[p] = stage[p]
  BY <1>1
<1>3. Newer \subseteq NewerNow /\ NewerNow \subseteq 1..MaxRuns
  BY <1>2 DEF Runs
<1>4. IsFiniteSet(1..MaxRuns)
  BY Constants, FS_Interval
<1>5. IsFiniteSet(NewerNow)
  BY <1>3, <1>4, FS_Subset
<1>6. /\ Cardinality(Newer) <= Cardinality(NewerNow) /\ Cardinality(NewerNow) \in Nat
      /\ Cardinality(Newer) \in Nat
  <2>1. IsFiniteSet(Newer) /\ Cardinality(Newer) <= Cardinality(NewerNow)
    BY <1>3, <1>5, FS_Subset
  <2> QED
    BY <1>5, <2>1, FS_CardinalityType
<1>7. stage[r] = Final /\ ~(Cardinality(Newer) < TerminalRuns)
  BY DEF OutOfWindow, Newest
<1> HIDE DEF Newer, NewerNow
<1>8. stage'[r] = Final /\ ~(Cardinality(NewerNow) < TerminalRuns)
  BY <1>1, <1>2, <1>6, <1>7
<1> QED
  BY <1>8 DEF OutOfWindow, Newest, NewerNow

(* Every transaction notifies of its run, once or twice.                   *)
LEMMA NotesOfCommit ==
    ASSUME NEW r \in Runs,
           NEW notes \in {<<Note(r)>>, <<Note(r), ArtifactNote(r)>>, <<ArtifactNote(r), Note(r)>>}
    PROVE  /\ notes \in Seq(Change) /\ Names(notes, r)
           /\ \A i \in DOMAIN notes : notes[i].run = r /\ notes[i].owner \in {NoOwner, Owner[r]}
<1>1. Note(r) \in Change /\ ArtifactNote(r) \in Change
  BY Constants DEF Note, ArtifactNote, Change
<1>2. /\ Note(r).run = r /\ Note(r).owner = Owner[r]
      /\ ArtifactNote(r).run = r /\ ArtifactNote(r).owner = NoOwner
  BY DEF Note, ArtifactNote
<1> DEFINE a == Note(r)
           b == ArtifactNote(r)
<1> HIDE DEF a, b
<1>3. notes \in {<<a>>, <<a, b>>, <<b, a>>} /\ a \in Change /\ b \in Change
      /\ a.run = r /\ b.run = r /\ a.owner \in {NoOwner, Owner[r]} /\ b.owner \in {NoOwner, Owner[r]}
  BY <1>1, <1>2 DEF a, b
<1>4. notes \in Seq(Change)
  BY <1>3
<1>5. 1 \in DOMAIN notes /\ \A i \in DOMAIN notes : notes[i] \in {a, b}
  BY <1>3
<1> QED
  BY <1>3, <1>4, <1>5 DEF Names

(* CommitRun keeps the invariant.                                          *)
LEMMA CommitRunInv ==
    ASSUME FeedInv, NEW q \in Runs, NEW v \in Stages, CommitRun(q, v) PROVE FeedInv'
<1>1. PICK notes \in {<<Note(q)>>, <<Note(q), ArtifactNote(q)>>, <<ArtifactNote(q), Note(q)>>} :
        channel' = IF link = "up" THEN channel \o notes ELSE channel
  BY DEF CommitRun
<1>2. /\ stage[q] < v /\ stage' = [stage EXCEPT ![q] = v]
      /\ UNCHANGED <<link, listener, available, reads, stream, view, active, expired, budget>>
  BY DEF CommitRun
<1>3. /\ Types /\ NotesTrue /\ FoundTrue /\ ListenerTrue
      /\ stage \in [Runs -> Stages] /\ channel \in Seq(Change) /\ v \in Nat /\ stage[q] \in Nat
      /\ listener.batch \in Seq(Change) /\ listener.found \in Nat
  BY FeedTypes, Constants DEF FeedInv, Types
<1>4. /\ notes \in Seq(Change) /\ Names(notes, q)
      /\ \A i \in DOMAIN notes : notes[i].run = q /\ notes[i].owner \in {NoOwner, Owner[q]}
  BY NotesOfCommit
<1>5. /\ stage' \in [Runs -> Stages] /\ stage'[q] = v /\ v # 0
      /\ \A r \in Runs : stage[r] <= stage'[r] /\ (r # q => stage'[r] = stage[r])
                         /\ stage[r] \in Nat /\ stage'[r] \in Nat
  <2>1. stage' \in [Runs -> Stages] /\ stage'[q] = v /\ v # 0 /\ stage[q] <= stage'[q]
    BY <1>2, <1>3
  <2>2. \A r \in Runs : r # q => stage'[r] = stage[r]
    BY <1>2, <1>3
  <2>3. \A r \in Runs : stage[r] \in Nat /\ stage'[r] \in Nat
    BY <1>3, <2>1, Constants
  <2>4. \A r \in Runs : stage[r] <= stage'[r]
    BY <2>1, <2>2, <2>3
  <2> QED
    BY <2>1, <2>2, <2>3, <2>4
<1>6. /\ channel' \in Seq(Change)
      /\ \A r : Names(channel, r) => Names(channel, r)'
      /\ link = "up" => Names(channel, q)'
      /\ \A i \in DOMAIN channel' :
            \/ i \in DOMAIN channel /\ channel'[i] = channel[i]
            \/ \E j \in DOMAIN notes : channel'[i] = notes[j]
  <2>1. CASE link = "up"
    <3>1. channel' = channel \o notes
      BY <1>1, <2>1
    <3>2. /\ channel \o notes \in Seq(Change)
          /\ \A i \in DOMAIN (channel \o notes) :
               \/ i \in DOMAIN channel /\ (channel \o notes)[i] = channel[i]
               \/ \E j \in DOMAIN notes : (channel \o notes)[i] = notes[j]
          /\ \A r : Names(channel, r) \/ Names(notes, r) => Names(channel \o notes, r)
      BY <1>3, <1>4, ConcatNames
    <3>3. \A r : Names(channel \o notes, r) => Names(channel, r)'
      BY <3>1 DEF Names
    <3> QED
      BY <1>4, <3>1, <3>2, <3>3
  <2>2. CASE link # "up"
    BY <1>1, <1>3, <2>2 DEF Names
  <2> QED
    BY <2>1, <2>2
<1>7. Types'
  BY <1>2, <1>3, <1>5, <1>6 DEF Types
<1>8. \A change \in Change : NoteTrue(change) => NoteTrue(change)'
  BY <1>5, Constants DEF NoteTrue, Change
<1>9. NotesTrue'
  <2>1. ASSUME NEW i \in DOMAIN channel' PROVE NoteTrue(channel[i])'
    <3>1. CASE i \in DOMAIN channel /\ channel'[i] = channel[i]
      <4>1. channel[i] \in Change /\ NoteTrue(channel[i])
        BY <1>3, <3>1 DEF NotesTrue
      <4>2. channel[i].run \in Runs
        BY <4>1 DEF Change
      <4> QED
        BY <1>5, <3>1, <4>1, <4>2 DEF NoteTrue
    <3>2. CASE \E j \in DOMAIN notes : channel'[i] = notes[j]
      BY <1>4, <1>5, <3>2 DEF NoteTrue
    <3> QED
      BY <1>6, <3>1, <3>2
  <2>2. ASSUME NEW i \in DOMAIN listener.batch PROVE NoteTrue(listener.batch[i])'
    <3>1. listener.batch[i] \in Change /\ NoteTrue(listener.batch[i])
      BY <1>3 DEF NotesTrue
    <3>2. listener.batch[i].run \in Runs
      BY <3>1 DEF Change
    <3> QED
      BY <1>2, <1>5, <3>1, <3>2 DEF NoteTrue
  <2> QED
    BY <1>2, <2>1, <2>2 DEF NotesTrue
<1>10. FoundTrue'
  <2> SUFFICES ASSUME listener.pc = "deliver" PROVE FoundTrue'
    BY <1>2 DEF FoundTrue
  <2>1. PICK r \in Runs : Head(listener.batch).run = r
    <3>1. Head(listener.batch) \in Change
      BY <1>3, TailNames DEF ListenerTrue, Publishing
    <3> QED
      BY <3>1 DEF Change
  <2>2. /\ stage[r] \in Nat /\ stage'[r] \in Nat /\ stage[r] <= stage'[r]
        /\ r # q => stage'[r] = stage[r]
    BY <1>5
  <2>3. /\ listener.found # 0 /\ listener.found <= stage[r]
        /\ link = "up" => listener.found = stage[r] \/ Names(channel, r)
    BY <1>3, <2>1 DEF FoundTrue
  <2>4. /\ listener.found <= stage'[r]
        /\ link = "up" => listener.found = stage'[r] \/ Names(channel, r)'
    BY <1>3, <1>6, <2>2, <2>3
  <2> QED
    BY <1>2, <2>1, <2>3, <2>4 DEF FoundTrue, Names
<1>11. ListenerTrue'
  BY <1>2, <1>3 DEF ListenerTrue
<1>12. \A r \in Runs : FoundLate(r)
  BY <1>2 DEF FoundLate
<1>13. ASSUME NEW s \in Streams, NEW r \in Runs PROVE Harmless(s, r)
  <2>1. CASE r = q
    BY <1>2, <1>6, <2>1 DEF Harmless
  <2>2. CASE r # q
    <3>1. OutOfWindow(r) => OutOfWindow(r)'
      BY <1>2, <1>3, <2>2, WindowGrows
    <3>2. OnItsWay(r) => OnItsWay(r)'
      BY <1>2, <1>5, <1>6, <2>2 DEF OnItsWay, Names
    <3> QED
      BY <1>2, <1>5, <2>2, <3>1, <3>2 DEF Harmless
  <2> QED
    BY <2>1, <2>2
<1> QED
  BY <1>2, <1>5, <1>7, <1>9, <1>10, <1>11, <1>12, <1>13, StreamsStay

-----------------------------------------------------------------------------
(* Steps of the listener                                                   *)

(* The notification in the listener's hands, and those after it.           *)
LEMMA HeadIs ==
    ASSUME FeedInv, listener.batch # <<>>
    PROVE  /\ Head(listener.batch) \in Change /\ Head(listener.batch).run \in Runs
           /\ NoteTrue(Head(listener.batch)) /\ Tail(listener.batch) \in Seq(Change)
           /\ \A i \in DOMAIN Tail(listener.batch) : NoteTrue(Tail(listener.batch)[i])
           /\ \A r : Names(listener.batch, r) =>
                       r = Head(listener.batch).run \/ Names(Tail(listener.batch), r)
<1>1. listener.batch \in Seq(Change) /\ \A i \in DOMAIN listener.batch : NoteTrue(listener.batch[i])
  BY FeedTypes DEF FeedInv, NotesTrue
<1>2. Head(listener.batch) \in Change
  BY <1>1, TailNames
<1>3. Head(listener.batch).run \in Runs
  BY <1>2 DEF Change
<1> QED
  BY <1>1, <1>2, <1>3, TailNames

(* Connecting, becoming available and noticing a break keep the            *)
(* invariant.                                                              *)
LEMMA ConnectInv ==
    ASSUME FeedInv, Connect \/ MakeAvailable \/ NoticeBreak PROVE FeedInv'
<1>1. /\ Types /\ NotesTrue /\ ListenerTrue /\ listener \in ListenerType
      /\ listener.pc \notin Publishing
  BY FeedTypes DEF FeedInv, Connect, MakeAvailable, NoticeBreak, Publishing
<1>2. /\ listener'.pc \notin Publishing /\ listener'.pc # "gather"
      /\ listener'.pc \in Disconnected => listener.pc \in Disconnected
      /\ listener' \in ListenerType /\ available' \in BOOLEAN
      /\ link' \in {"down", "up", "broken"}
      /\ channel' = channel \/ channel' = <<>>
      /\ listener'.batch = listener.batch \/ listener'.batch = <<>>
      /\ UNCHANGED <<stage, reads, stream, view, active, expired, budget>>
  <2>1. CASE Connect
    BY <1>1, <2>1 DEF Connect, Publishing, Disconnected, ListenerType, ListenerSteps, Types
  <2>2. CASE MakeAvailable
    BY <1>1, <2>2 DEF MakeAvailable, Publishing, Disconnected, ListenerType, ListenerSteps, Types
  <2>3. CASE NoticeBreak
    <3> DEFINE none == <<>>
    <3>1. none \in Seq(Change) /\ 0 \in 0..BatchLimit
      BY EmptyNames, Constants
    <3>2. /\ listener' = [listener EXCEPT !.pc = "failed", !.taken = 0, !.batch = none]
          /\ channel' = none
          /\ UNCHANGED <<stage, link, available, reads, stream, view, active, expired, budget>>
      BY <2>3 DEF NoticeBreak
    <3> HIDE DEF none
    <3>3. /\ listener' \in ListenerType /\ listener'.pc = "failed" /\ listener'.batch = none
      BY <1>1, <3>1, <3>2 DEF ListenerType, ListenerSteps
    <3> QED
      BY <1>1, <3>2, <3>3 DEF Publishing, Disconnected, Types, none
  <2> QED
    BY <2>1, <2>2, <2>3
<1>3. Types'
  BY <1>1, <1>2, EmptyNames DEF Types
<1>4. NotesTrue' /\ FoundTrue'
  BY <1>1, <1>2, EmptyNames DEF NotesTrue, NoteTrue, FoundTrue, Publishing
<1>5. ListenerTrue'
  <2>1. listener'.pc \in Disconnected => ~available'
    <3>1. CASE MakeAvailable
      BY <1>1, <3>1 DEF MakeAvailable, Disconnected, ListenerType
    <3>2. CASE Connect \/ NoticeBreak
      BY <1>1, <1>2, <3>2 DEF Connect, NoticeBreak, ListenerTrue
    <3> QED
      BY <3>1, <3>2
  <2> QED
    BY <1>2, <2>1 DEF ListenerTrue
<1>6. \A r \in Runs : stage[r] <= stage'[r] /\ FoundLate(r)
  BY <1>1, <1>2, FeedTypes DEF FoundLate, Publishing
<1>7. ASSUME NEW s \in Streams, NEW r \in Runs PROVE Harmless(s, r)
  <2>1. CASE Connect
    BY <2>1 DEF Connect, Harmless, Disconnected, FeedInv, StreamTrue, LinkTrue
  <2>2. CASE MakeAvailable
    <3>1. OnItsWay(r) => OnItsWay(r)'
      BY <1>1, <2>2 DEF MakeAvailable, OnItsWay, ListenerType
    <3>2. OutOfWindow(r) => OutOfWindow(r)'
      BY <1>2 DEF OutOfWindow, Newest
    <3> QED
      BY <1>2, <2>2, <3>1, <3>2 DEF MakeAvailable, Harmless
  <2>3. CASE NoticeBreak
    BY <2>3 DEF NoticeBreak, Harmless
  <2> QED
    BY <2>1, <2>2, <2>3
<1> QED
  BY <1>2, <1>3, <1>4, <1>5, <1>6, <1>7, StreamsStay

(* Gathering only moves notifications from the channel to the batch, and a *)
(* publish starts when nothing else is read.                               *)
LEMMA GatherInv ==
    ASSUME FeedInv, Gather PROVE FeedInv'
<1> DEFINE new == Merge(listener.batch, Head(channel))
           more == listener.taken + 1
<1>1. /\ Types /\ NotesTrue /\ ListenerTrue /\ listener \in ListenerType
      /\ channel \in Seq(Change) /\ channel # <<>> /\ listener.batch \in Seq(Change)
      /\ listener.pc \notin Publishing /\ listener.pc \notin Disconnected
      /\ listener.taken < BatchLimit /\ channel' = Tail(channel)
      /\ UNCHANGED <<stage, link, available, reads, stream, view, active, expired, budget>>
  BY FeedTypes DEF FeedInv, Types, Gather, Publishing, Disconnected
<1>2. /\ Tail(channel) \in Seq(Change) /\ Head(channel) \in Change /\ NoteTrue(Head(channel))
      /\ \A i \in DOMAIN Tail(channel) : NoteTrue(Tail(channel)[i])
      /\ \A r : Names(channel, r) => r = Head(channel).run \/ Names(Tail(channel), r)
  BY <1>1, TailNames DEF NotesTrue
<1>3. /\ new \in Seq(Change) /\ new # <<>>
      /\ \A r : Names(listener.batch, r) \/ r = Head(channel).run => Names(new, r)
      /\ \A i \in DOMAIN new : NoteTrue(new[i])
  BY <1>1, <1>2, MergeNames DEF NotesTrue
<1>4. more \in 0..BatchLimit
  BY <1>1, Constants DEF ListenerType
<1>5. listener' = [listener EXCEPT !.pc = "gather", !.taken = more, !.batch = new]
  <2> DEFINE a == [listener EXCEPT !.pc = "gather"]
             b == [a EXCEPT !.taken = more]
  <2>1. a.taken = listener.taken /\ a.batch = listener.batch
    BY <1>1 DEF ListenerType
  <2>2. b.batch = a.batch
    BY <1>1 DEF ListenerType
  <2> QED
    BY <1>1 DEF Gather, ListenerType
<1> HIDE DEF new, more
<1>6. /\ listener' \in ListenerType /\ listener'.pc = "gather" /\ listener'.batch = new
  BY <1>1, <1>3, <1>4, <1>5 DEF ListenerType, ListenerSteps
<1>7. Types' /\ ListenerTrue'
  BY <1>1, <1>2, <1>3, <1>6 DEF Types, ListenerTrue, Publishing, Disconnected
<1>8. NotesTrue' /\ FoundTrue'
  BY <1>1, <1>2, <1>3, <1>6 DEF NotesTrue, NoteTrue, FoundTrue
<1>9. \A r \in Runs : stage[r] <= stage'[r] /\ FoundLate(r)
  BY <1>1, <1>6, FeedTypes DEF FoundLate
<1>10. ASSUME NEW s \in Streams, NEW r \in Runs PROVE Harmless(s, r)
  <2>1. OnItsWay(r) => OnItsWay(r)'
    <3> SUFFICES ASSUME OnItsWay(r) PROVE OnItsWay(r)'
      OBVIOUS
    <3>1. Names(channel, r) \/ Names(listener.batch, r)
      BY WayIs
    <3>2. Names(Tail(channel), r) \/ Names(new, r)
      BY <1>2, <1>3, <3>1
    <3> QED
      BY <1>1, <1>6, <3>2 DEF OnItsWay, Names
  <2>2. OutOfWindow(r) => OutOfWindow(r)'
    BY <1>1 DEF OutOfWindow, Newest
  <2> QED
    BY <1>1, <2>1, <2>2 DEF Harmless
<1> QED
  BY <1>1, <1>6, <1>7, <1>8, <1>9, <1>10, StreamsStay DEF Disconnected

(* Publish keeps the invariant.                                            *)
LEMMA PublishInv ==
    ASSUME FeedInv, Publish PROVE FeedInv'
<1> DEFINE no == FALSE
<1>1. /\ Types /\ NotesTrue /\ ListenerTrue /\ listener \in ListenerType
      /\ listener.pc = "gather" /\ reads = "free" /\ reads' = "listener"
      /\ listener' = [listener EXCEPT !.pc = "watch", !.taken = 0, !.store_failed = no]
      /\ UNCHANGED <<stage, channel, link, available, stream, view, active, expired, budget>>
  BY FeedTypes DEF FeedInv, Publish
<1>2. no \in BOOLEAN /\ 0 \in 0..BatchLimit
  BY Constants
<1> HIDE DEF no
<1>3. listener' \in ListenerType /\ listener'.pc = "watch" /\ listener'.batch = listener.batch
  BY <1>1, <1>2 DEF ListenerType, ListenerSteps
<1>4. Types' /\ ListenerTrue'
  BY <1>1, <1>3 DEF Types, ListenerTrue, Publishing, Disconnected
<1>5. NotesTrue' /\ FoundTrue'
  BY <1>1, <1>3 DEF NotesTrue, NoteTrue, FoundTrue
<1>6. \A r \in Runs : stage[r] <= stage'[r] /\ FoundLate(r)
  BY <1>1, <1>3, FeedTypes DEF FoundLate
<1>7. \A s \in Streams : reads = s <=> reads' = s
  BY <1>1, Constants
<1>8. ASSUME NEW s \in Streams, NEW r \in Runs PROVE Harmless(s, r)
  BY <1>1, <1>3 DEF Harmless, OutOfWindow, Newest, OnItsWay
<1> QED
  BY <1>1, <1>3, <1>4, <1>5, <1>6, <1>7, <1>8, StreamsStay DEF Disconnected

(* The rest of a batch: what leaves it is the first change.                *)
LEMMA ContinueIs ==
    ASSUME FeedInv, listener.pc \in Publishing, NEW rest \in Seq(Change), NEW failed \in BOOLEAN,
           Continue(rest, failed)
    PROVE  /\ listener' \in ListenerType /\ listener'.batch = rest
           /\ listener'.pc = IF rest = <<>> THEN "idle" ELSE "watch"
           /\ reads' \in {"free", "listener"}
           /\ reads' = "listener" <=> listener'.pc \in Publishing
           /\ \A s \in Streams : reads # s /\ reads' # s
           /\ FoundTrue' /\ \A r \in Runs : FoundLate(r)
           /\ \A r : Names(rest, r) => OnItsWay(r)'
<1> DEFINE pc == IF rest = <<>> THEN "idle" ELSE "watch"
<1>1. /\ listener \in ListenerType /\ reads = "listener"
      /\ listener' = [listener EXCEPT !.pc = pc, !.batch = rest, !.found = 0, !.store_failed = failed]
      /\ reads' = IF rest = <<>> THEN "free" ELSE reads
  BY FeedTypes DEF FeedInv, Types, Continue
<1>2. pc \in {"idle", "watch"} /\ 0 \in Stages
  BY Constants
<1> HIDE DEF pc
<1>3. listener' \in ListenerType /\ listener'.batch = rest /\ listener'.pc = pc
  BY <1>1, <1>2 DEF ListenerType, ListenerSteps
<1>4. pc = IF rest = <<>> THEN "idle" ELSE "watch"
  BY DEF pc
<1>5. /\ reads' \in {"free", "listener"} /\ (reads' = "listener" <=> listener'.pc \in Publishing)
      /\ \A s \in Streams : reads # s /\ reads' # s
  BY <1>1, <1>3, <1>4, Constants DEF Publishing
<1>6. FoundTrue' /\ \A r \in Runs : FoundLate(r)
  BY <1>2, <1>3 DEF FoundTrue, FoundLate
<1>7. \A r : Names(rest, r) => OnItsWay(r)'
  BY <1>2, <1>3 DEF Names, OnItsWay
<1> QED
  BY <1>3, <1>4, <1>5, <1>6, <1>7

(* Going on to the next notification keeps the listener's part of the      *)
(* invariant.                                                              *)
LEMMA ContinueTypes ==
    ASSUME FeedInv, listener.pc \in Publishing, NEW rest \in Seq(Change), NEW failed \in BOOLEAN,
           Continue(rest, failed), \A i \in DOMAIN rest : NoteTrue(rest[i]),
           stream' \in [Streams -> StreamType],
           UNCHANGED <<stage, channel, link, available, view, active, expired, budget>>
    PROVE  Types' /\ NotesTrue' /\ FoundTrue' /\ ListenerTrue'
<1>1. /\ listener' \in ListenerType /\ listener'.batch = rest
      /\ listener'.pc = (IF rest = <<>> THEN "idle" ELSE "watch")
      /\ reads' \in {"free", "listener"}
      /\ (reads' = "listener" <=> listener'.pc \in Publishing)
      /\ FoundTrue'
  BY ContinueIs
<1>2. Types'
  BY <1>1 DEF FeedInv, Types
<1>3. NotesTrue'
  BY <1>1 DEF FeedInv, NotesTrue, NoteTrue
<1>4. ListenerTrue'
  BY <1>1 DEF ListenerTrue, Publishing, Disconnected
<1> QED
  BY <1>1, <1>2, <1>3, <1>4

(* A change is passed over for the streams that are not of its owner.      *)
LEMMA PassOver ==
    ASSUME FeedInv, listener.pc \in Publishing, NEW failed \in BOOLEAN,
           Continue(Tail(listener.batch), failed),
           UNCHANGED <<stage, channel, link>>,
           NEW s \in Streams,
           s \in Healthy => Owner[Head(listener.batch).run] # Caller[s],
           NEW r \in Runs
    PROVE  Harmless(s, r)
<1>1. /\ listener.batch # <<>> /\ Tail(listener.batch) \in Seq(Change)
      /\ (Names(listener.batch, r) => r = Head(listener.batch).run \/ Names(Tail(listener.batch), r))
  BY HeadIs DEF FeedInv, ListenerTrue
<1>2. Names(Tail(listener.batch), r) => OnItsWay(r)'
  BY <1>1, ContinueIs
<1>3. OutOfWindow(r) => OutOfWindow(r)'
  BY DEF OutOfWindow, Newest
<1>4. Names(channel, r) => Names(channel, r)'
  BY DEF Names
<1> QED
  BY <1>1, <1>2, <1>3, <1>4, WayIs DEF Harmless

(* PublishWatch keeps the invariant.                                       *)
LEMMA PublishWatchInv ==
    ASSUME FeedInv, PublishWatch PROVE FeedInv'
<1> DEFINE change == Head(listener.batch)
           watched == {Caller[s] : s \in Healthy}
<1>1. /\ Types /\ NotesTrue /\ ListenerTrue /\ listener \in ListenerType /\ listener.pc = "watch"
      /\ listener.pc \in Publishing /\ listener.batch # <<>>
      /\ UNCHANGED <<stage, channel, link, available, stream, view, active, expired, budget>>
      /\ stream' \in [Streams -> StreamType] /\ listener.store_failed \in BOOLEAN
  BY FeedTypes DEF FeedInv, Types, PublishWatch, ListenerTrue, Publishing, ListenerType
<1>2. /\ change \in Change /\ change.run \in Runs /\ NoteTrue(change)
      /\ Tail(listener.batch) \in Seq(Change)
      /\ \A i \in DOMAIN Tail(listener.batch) : NoteTrue(Tail(listener.batch)[i])
  BY <1>1, HeadIs
<1>3. \A r \in Runs : stage[r] <= stage'[r]
  BY <1>1, FeedTypes
<1>4. CASE watched = {} /\ Continue(<<>>, FALSE)
  <2>1. Types' /\ NotesTrue' /\ FoundTrue' /\ ListenerTrue'
    BY <1>1, <1>4, ContinueTypes, EmptyNames
  <2>2. /\ listener'.pc \in {"idle", "watch"} /\ \A r \in Runs : FoundLate(r)
        /\ \A s \in Streams : reads # s /\ reads' # s
    BY <1>1, <1>4, ContinueIs, EmptyNames
  <2>3. \A s \in Streams, r \in Runs : Harmless(s, r)
    BY <1>4 DEF Harmless
  <2> QED
    BY <1>1, <1>3, <2>1, <2>2, <2>3, StreamsStay DEF Disconnected
<1>5. CASE change.owner \notin watched \cup {NoOwner} /\ Continue(Tail(listener.batch), listener.store_failed)
  <2>1. Types' /\ NotesTrue' /\ FoundTrue' /\ ListenerTrue'
    BY <1>1, <1>2, <1>5, ContinueTypes
  <2>2. /\ listener'.pc \in {"idle", "watch"} /\ \A r \in Runs : FoundLate(r)
        /\ \A s \in Streams : reads # s /\ reads' # s
    BY <1>1, <1>2, <1>5, ContinueIs
  <2>3. \A s \in Healthy : Owner[change.run] # Caller[s]
    BY <1>2, <1>5 DEF NoteTrue
  <2>4. \A s \in Streams, r \in Runs : Harmless(s, r)
    BY <1>1, <1>5, <2>3, PassOver
  <2> QED
    BY <1>1, <1>3, <2>1, <2>2, <2>4, StreamsStay DEF Disconnected
<1>6. CASE /\ listener' = [listener EXCEPT !.pc = IF listener.store_failed THEN "resync" ELSE "find"]
           /\ UNCHANGED reads
  <2>1. PICK pc \in {"resync", "find"} : listener' = [listener EXCEPT !.pc = pc]
    BY <1>6
  <2>2. listener' \in ListenerType /\ listener'.pc = pc /\ listener'.batch = listener.batch
    BY <1>1, <2>1 DEF ListenerType, ListenerSteps
  <2>3. Types' /\ ListenerTrue'
    BY <1>1, <1>6, <2>2 DEF Types, ListenerTrue, Publishing, Disconnected
  <2>4. NotesTrue' /\ FoundTrue'
    BY <1>1, <2>2 DEF NotesTrue, NoteTrue, FoundTrue
  <2>5. \A r \in Runs : FoundLate(r)
    BY <2>2 DEF FoundLate
  <2>6. \A s \in Streams, r \in Runs : Harmless(s, r)
    BY <1>1, <2>2 DEF Harmless, OutOfWindow, Newest, OnItsWay
  <2> QED
    BY <1>1, <1>3, <1>6, <2>2, <2>3, <2>4, <2>5, <2>6, StreamsStay DEF Disconnected
<1> QED
  BY <1>4, <1>5, <1>6 DEF PublishWatch

(* A row without owner is of interest to nobody; of any other the last     *)
(* version is read, newer than all that streams have.                      *)
LEMMA PublishFindInv ==
    ASSUME FeedInv, PublishFind PROVE FeedInv'
<1> DEFINE q == Head(listener.batch).run
<1>1. /\ Types /\ NotesTrue /\ ListenerTrue /\ listener \in ListenerType /\ listener.pc = "find"
      /\ listener.pc \in Publishing /\ listener.batch # <<>>
      /\ UNCHANGED <<stage, channel, link, available, stream, view, active, expired, budget>>
      /\ stream' \in [Streams -> StreamType] /\ listener.store_failed \in BOOLEAN
  BY FeedTypes DEF FeedInv, Types, PublishFind, ListenerTrue, Publishing, ListenerType
<1>2. /\ q \in Runs /\ stage[q] # 0 /\ stage[q] \in Stages
      /\ Tail(listener.batch) \in Seq(Change)
      /\ \A i \in DOMAIN Tail(listener.batch) : NoteTrue(Tail(listener.batch)[i])
  BY <1>1, HeadIs DEF NoteTrue, Types
<1>3. \A r \in Runs : stage[r] <= stage'[r] /\ stage[r] \in Nat
  BY <1>1, FeedTypes
<1>4. CASE Owner[q] = NoOwner /\ Continue(Tail(listener.batch), listener.store_failed)
  <2>1. Types' /\ NotesTrue' /\ FoundTrue' /\ ListenerTrue'
    BY <1>1, <1>2, <1>4, ContinueTypes
  <2>2. /\ listener'.pc \in {"idle", "watch"} /\ \A r \in Runs : FoundLate(r)
        /\ \A s \in Streams : reads # s /\ reads' # s
    BY <1>1, <1>2, <1>4, ContinueIs
  <2>3. \A s \in Streams : Owner[q] # Caller[s]
    BY <1>4, Constants
  <2>4. \A s \in Streams, r \in Runs : Harmless(s, r)
    BY <1>1, <1>4, <2>3, PassOver
  <2> QED
    BY <1>1, <1>3, <2>1, <2>2, <2>4, StreamsStay DEF Disconnected
<1>5. CASE listener' = [listener EXCEPT !.pc = "deliver", !.found = stage[q]] /\ UNCHANGED reads
  <2>1. /\ listener' \in ListenerType /\ listener'.pc = "deliver"
        /\ listener'.batch = listener.batch /\ listener'.found = stage[q]
    BY <1>1, <1>2, <1>5 DEF ListenerType, ListenerSteps
  <2>2. Types' /\ ListenerTrue'
    BY <1>1, <1>5, <2>1 DEF Types, ListenerTrue, Publishing, Disconnected
  <2>3. NotesTrue' /\ FoundTrue'
    BY <1>1, <1>2, <1>3, <2>1 DEF NotesTrue, NoteTrue, FoundTrue
  <2>4. \A r \in Runs : FoundLate(r)
    BY <1>2, <1>3, <2>1 DEF FoundLate
  <2>5. ASSUME NEW s \in Streams, NEW r \in Runs PROVE Harmless(s, r)
    <3>1. OnItsWay(r) => OnItsWay(r)'
      <4>1. 1 \in DOMAIN listener.batch => listener.batch[1] = Head(listener.batch)
        BY <1>1, FeedTypes, TailNames
      <4> QED
        BY <1>1, <2>1, <4>1 DEF OnItsWay
    <3>2. OutOfWindow(r) => OutOfWindow(r)'
      BY <1>1 DEF OutOfWindow, Newest
    <3> QED
      BY <1>1, <3>1, <3>2 DEF Harmless
  <2> QED
    BY <1>1, <1>3, <1>5, <2>1, <2>2, <2>3, <2>4, <2>5, StreamsStay DEF Disconnected
<1> QED
  BY <1>4, <1>5 DEF PublishFind

(* PublishFindFails keeps the invariant.                                   *)
LEMMA PublishFindFailsInv ==
    ASSUME FeedInv, PublishFindFails PROVE FeedInv'
<1>1. /\ Types /\ NotesTrue /\ ListenerTrue /\ listener \in ListenerType /\ listener.pc = "find"
      /\ listener' = [listener EXCEPT !.pc = "resync"]
      /\ UNCHANGED <<stage, channel, link, available, reads, stream, view, active, expired>>
      /\ budget' \in [{"break", "read", "revoke"} -> Nat]
  BY FeedTypes, SpendTypes DEF FeedInv, PublishFindFails
<1>2. listener' \in ListenerType /\ listener'.pc = "resync" /\ listener'.batch = listener.batch
  BY <1>1 DEF ListenerType, ListenerSteps
<1>3. Types' /\ ListenerTrue'
  BY <1>1, <1>2 DEF Types, ListenerTrue, Publishing, Disconnected
<1>4. NotesTrue' /\ FoundTrue'
  BY <1>1, <1>2 DEF NotesTrue, NoteTrue, FoundTrue
<1>5. \A r \in Runs : stage[r] <= stage'[r] /\ FoundLate(r)
  BY <1>1, <1>2, FeedTypes DEF FoundLate
<1>6. \A s \in Streams, r \in Runs : Harmless(s, r)
  BY <1>1, <1>2 DEF Harmless, OutOfWindow, Newest, OnItsWay
<1> QED
  BY <1>1, <1>2, <1>3, <1>4, <1>5, <1>6, StreamsStay DEF Disconnected

-----------------------------------------------------------------------------
(* Steps of the listener that reach the streams                            *)

(* A subscription that has failed is owed nothing but its wakeup.          *)
LEMMA FailedTrue ==
    ASSUME FeedInv, NEW s \in Streams, view'[s] = view[s], UNCHANGED stage,
           reads = s <=> reads' = s, listener'.pc # "deliver",
           stream'[s].pc = stream[s].pc, stream'[s].hand = stream[s].hand,
           stream'[s].changed = stream[s].changed, stream'[s].error # "none",
           \/ stream'[s] = stream[s]
           \/ stream'[s].pending = Nothing /\ stream'[s].wakes = stream[s].wakes + 1
    PROVE  StreamTrue(s)'
<1>1. /\ StreamTrue(s) /\ Types /\ stream[s] \in StreamType
  BY FeedTypes DEF FeedInv
<1>2. LinkTrue(s)' /\ HandTrue(s)'
  BY <1>1 DEF StreamTrue, LinkTrue, HandTrue, Healthy
<1>3. Wakeful(s)'
  BY <1>1 DEF StreamTrue, Wakeful, StreamType
<1>4. ASSUME NEW r \in Runs PROVE RunTrue(s, r)'
  <2>1. /\ RunTrue(s, r) /\ stage[r] \in Nat /\ Nothing[r] = 0
        /\ stream[s].hand[r] \in Nat /\ view[s][r] \in Nat /\ stream[s].pending[r] \in Nat
    BY <1>1, FeedTypes, Constants DEF StreamTrue
  <2>2. stream'[s].pending[r] \in {0, stream[s].pending[r]} /\ (Following(s)' <=> Following(s))
    BY <2>1 DEF Following
  <2>3. Ordered(s, r)' /\ Private(s, r)'
    BY <2>1, <2>2 DEF RunTrue, Ordered, Private
  <2>4. SnapshotTrue(s, r)' /\ Kept(s, r)'
    BY DEF SnapshotTrue, Kept
  <2> QED
    BY <2>3, <2>4 DEF RunTrue
<1> QED
  BY <1>2, <1>3, <1>4 DEF StreamTrue

(* Streams that are failed end with an error, and the others are left      *)
(* alone.                                                                  *)
LEMMA FailAllIs ==
    ASSUME FeedInv, NEW subs, NEW code \in {"unavailable", "resync_required"},
           stream' = FailAll(subs, code), UNCHANGED <<view, stage>>,
           listener'.pc # "deliver", \A s \in Streams : reads = s <=> reads' = s
    PROVE  /\ stream' \in [Streams -> StreamType]
           /\ \A s \in Streams : s \in subs => StreamTrue(s)'
           /\ \A s \in Streams : s \notin subs => stream'[s] = stream[s]
<1>1. /\ \A s \in Streams : stream[s] \in StreamType
      /\ \A s \in Streams : stream'[s] = IF s \in subs THEN Fail(stream[s], code) ELSE stream[s]
      /\ stream' = [s \in Streams |-> stream'[s]]
  BY FeedTypes DEF FeedInv, FailAll
<1>2. \A s \in Streams : stream'[s] \in StreamType
  BY <1>1, FailIs
<1>3. ASSUME NEW s \in Streams, s \in subs PROVE StreamTrue(s)'
  <2>1. stream'[s] = Fail(stream[s], code) /\ stream[s] \in StreamType
    BY <1>1, <1>3
  <2>2. /\ stream'[s].pc = stream[s].pc /\ stream'[s].hand = stream[s].hand
        /\ stream'[s].changed = stream[s].changed /\ stream'[s].error # "none"
        /\ \/ stream'[s] = stream[s]
           \/ stream'[s].pending = Nothing /\ stream'[s].wakes = stream[s].wakes + 1
    BY <2>1, FailIs
  <2> QED
    BY <2>2, FailedTrue
<1>4. stream' \in [Streams -> StreamType]
  BY <1>1, <1>2
<1> QED
  BY <1>1, <1>3, <1>4

(* unavailable() and stop(): every stream is told before a new connection  *)
(* can miss anything.                                                      *)
LEMMA UnavailableInv ==
    ASSUME FeedInv, MakeUnavailable \/ Stop PROVE FeedInv'
<1>1. /\ Types /\ NotesTrue /\ listener \in ListenerType /\ listener.pc \notin Publishing
      /\ stream' = FailAll(Subscribed, "unavailable") /\ link' = "down"
      /\ channel' = channel \/ channel' = <<>>
      /\ UNCHANGED <<stage, reads, view, active, expired, budget>>
  BY FeedTypes DEF FeedInv, MakeUnavailable, Stop, Publishing
<1>2. /\ listener' \in ListenerType /\ listener'.pc \in {"connect", "stopped"}
      /\ listener'.batch = listener.batch /\ ~available' /\ available' \in BOOLEAN
  BY <1>1 DEF MakeUnavailable, Stop, ListenerType, ListenerSteps
<1>3. /\ stream' \in [Streams -> StreamType]
      /\ \A s \in Streams : s \in Subscribed => StreamTrue(s)'
      /\ \A s \in Streams : s \notin Subscribed => stream'[s] = stream[s]
  BY <1>1, <1>2, FailAllIs
<1>4. Types' /\ ListenerTrue'
  BY <1>1, <1>2, <1>3, EmptyNames DEF Types, ListenerTrue, Publishing
<1>5. NotesTrue' /\ FoundTrue'
  BY <1>1, <1>2, EmptyNames DEF NotesTrue, NoteTrue, FoundTrue
<1>6. ASSUME NEW s \in Streams, s \notin Subscribed PROVE StreamTrue(s)'
  <2>1. \A r \in Runs : stage'[r] \in Nat /\ stage[r] <= stage'[r] /\ Harmless(s, r) /\ FoundLate(r)
    BY <1>1, <1>2, FeedTypes DEF Harmless, FoundLate
  <2> QED
    BY <1>1, <1>3, <1>6, <2>1, StreamStays
<1> QED
  BY <1>3, <1>4, <1>5, <1>6 DEF FeedInv

(* A read has failed: the streams of the owner, or all if it is not known, *)
(* end, and the others have nothing to do with the run.                    *)
LEMMA PublishResyncInv ==
    ASSUME FeedInv, PublishResync PROVE FeedInv'
<1> DEFINE change == Head(listener.batch)
           subs == {s \in Subscribed : change.owner \in {NoOwner, Caller[s]}}
<1>1. /\ Types /\ listener.pc = "resync" /\ listener.pc \in Publishing /\ listener.batch # <<>>
      /\ stream' = FailAll(subs, "resync_required") /\ Continue(Tail(listener.batch), TRUE)
      /\ UNCHANGED <<stage, channel, link, available, view, active, expired, budget>>
  BY DEF FeedInv, PublishResync, ListenerTrue, Publishing
<1>2. /\ NoteTrue(change) /\ Tail(listener.batch) \in Seq(Change)
      /\ \A i \in DOMAIN Tail(listener.batch) : NoteTrue(Tail(listener.batch)[i])
  BY <1>1, HeadIs
<1>3. /\ listener'.pc \in {"idle", "watch"} /\ \A r \in Runs : FoundLate(r)
      /\ \A s \in Streams : reads # s /\ reads' # s
  BY <1>1, <1>2, ContinueIs
<1>4. /\ stream' \in [Streams -> StreamType]
      /\ \A s \in Streams : s \in subs => StreamTrue(s)'
      /\ \A s \in Streams : s \notin subs => stream'[s] = stream[s]
  BY <1>1, <1>3, FailAllIs
<1>5. Types' /\ NotesTrue' /\ FoundTrue' /\ ListenerTrue'
  BY <1>1, <1>2, <1>4, ContinueTypes
<1>6. ASSUME NEW s \in Streams, s \notin subs PROVE StreamTrue(s)'
  <2>1. s \in Healthy => Owner[change.run] # Caller[s]
    BY <1>2, <1>6 DEF Healthy, NoteTrue
  <2>2. \A r \in Runs : Harmless(s, r)
    BY <1>1, <2>1, PassOver
  <2>3. \A r \in Runs : stage'[r] \in Nat /\ stage[r] <= stage'[r]
    BY <1>1, FeedTypes
  <2> QED
    BY <1>1, <1>3, <1>4, <1>6, <2>2, <2>3, StreamStays DEF Disconnected
<1> QED
  BY <1>4, <1>5, <1>6 DEF FeedInv

(* The update is the newest thing a stream of its owner then has.          *)
LEMMA StoredTrue ==
    ASSUME FeedInv, listener.pc = "deliver", NEW q \in Runs, q = Head(listener.batch).run,
           NEW failed \in BOOLEAN, Continue(Tail(listener.batch), failed),
           UNCHANGED <<stage, channel, link, view>>,
           NEW s \in Streams, s \in Healthy, Owner[q] = Caller[s],
           stream'[s].pc = stream[s].pc, stream'[s].hand = stream[s].hand,
           stream'[s].changed = stream[s].changed, stream'[s].error = "none",
           stream'[s].pending[q] = listener.found,
           \A r \in Runs : r # q => stream'[s].pending[r] = stream[s].pending[r],
           \/ stream'[s].wakes = stream[s].wakes + 1
           \/ stream[s].pending # Nothing /\ stream'[s].wakes = stream[s].wakes
    PROVE  StreamTrue(s)'
<1>1. /\ StreamTrue(s) /\ Types /\ FoundTrue /\ stream[s] \in StreamType /\ listener.found \in Nat
      /\ listener.pc \in Publishing /\ listener.batch # <<>>
      /\ stream[s].pending \in [Runs -> Stages] /\ stream[s].pc # "snapshot"
  <2>1. listener.pc \in Publishing /\ reads = "listener" /\ Types /\ StreamTrue(s) /\ FoundTrue
        /\ listener.batch # <<>>
    BY DEF FeedInv, Types, Publishing, ListenerTrue
  <2>2. stream[s].pc # "snapshot"
    BY <2>1, Constants DEF StreamTrue, LinkTrue
  <2> QED
    BY <2>1, <2>2, FeedTypes DEF StreamType
<1>2. /\ listener'.pc \in {"idle", "watch"} /\ reads # s /\ reads' # s
      /\ \A r : Names(Tail(listener.batch), r) => OnItsWay(r)'
      /\ \A r : Names(listener.batch, r) => r = q \/ Names(Tail(listener.batch), r)
  BY <1>1, HeadIs, ContinueIs
<1>3. LinkTrue(s)' /\ HandTrue(s)'
  BY <1>1, <1>2 DEF StreamTrue, LinkTrue, HandTrue, Disconnected
<1>4. Wakeful(s)'
  BY <1>1 DEF StreamTrue, Wakeful, StreamType
<1>5. ASSUME NEW r \in Runs PROVE RunTrue(s, r)'
  <2>1. /\ RunTrue(s, r) /\ stage[r] \in Nat /\ (Following(s)' <=> Following(s))
        /\ stream[s].hand[r] \in Nat /\ view[s][r] \in Nat /\ stream[s].pending[r] \in Nat
    BY <1>1, FeedTypes DEF StreamTrue, Following
  <2>2. /\ r = q => stream'[s].pending[r] = listener.found
        /\ r # q => stream'[s].pending[r] = stream[s].pending[r]
    BY <1>1
  <2>3. /\ listener.found # 0 /\ listener.found <= stage[q]
        /\ link = "up" => listener.found = stage[q] \/ Names(channel, q)
    BY <1>1 DEF FoundTrue
  <2>4. Ordered(s, r)'
    BY <1>1, <1>2, <2>1, <2>2, <2>3 DEF RunTrue, Ordered
  <2>5. Private(s, r)' /\ SnapshotTrue(s, r)'
    BY <1>1, <2>1, <2>2 DEF RunTrue, Private, SnapshotTrue
  <2>6. Kept(s, r)'
    <3> SUFFICES ASSUME Following(s)', link' = "up", Owner[r] = Caller[s]
                 PROVE  UpToDate(s, r)' \/ OnItsWay(r)'
      BY DEF Kept
    <3>1. Names(channel, r) => OnItsWay(r)'
      BY DEF Names, OnItsWay
    <3>2. CASE r = q
      <4>1. stream'[s].pending[r] = listener.found /\ listener.found # 0
        BY <2>2, <2>3, <3>2
      <4>2. Seen(s, r)' = listener.found
        BY <4>1, SeenNext
      <4> QED
        BY <2>3, <3>1, <3>2, <4>2 DEF UpToDate
    <3>3. CASE r # q
      <4>0. /\ stream'[s].pending[r] = stream[s].pending[r]
            /\ stream'[s].hand[r] = stream[s].hand[r] /\ view'[s][r] = view[s][r]
        BY <2>2, <3>3
      <4>1. Seen(s, r)' = Seen(s, r)
        BY <4>0, SeenNext
      <4>3. OutOfWindow(r) => OutOfWindow(r)'
        BY DEF OutOfWindow, Newest
      <4>2. UpToDate(s, r) \/ OnItsWay(r)
        BY <2>1 DEF RunTrue, Kept, Healthy
      <4> QED
        BY <1>2, <3>1, <3>3, <4>1, <4>2, <4>3, WayIs DEF UpToDate
    <3> QED
      BY <3>2, <3>3
  <2> QED
    BY <2>4, <2>5, <2>6 DEF RunTrue
<1> QED
  BY <1>3, <1>4, <1>5 DEF StreamTrue

(* PublishDeliver keeps the invariant.                                     *)
LEMMA PublishDeliverInv ==
    ASSUME FeedInv, PublishDeliver PROVE FeedInv'
<1> DEFINE q == Head(listener.batch).run
           Owns(s) == s \in Healthy /\ Caller[s] = Owner[q]
<1>1. /\ Types /\ listener.pc = "deliver" /\ listener.pc \in Publishing /\ listener.batch # <<>>
      /\ \A s \in Streams : stream'[s] = IF Owns(s) THEN Store(stream[s], q, listener.found)
                                         ELSE stream[s]
      /\ stream' = [s \in Streams |-> stream'[s]]
      /\ Continue(Tail(listener.batch), listener.store_failed)
      /\ UNCHANGED <<stage, channel, link, available, view, active, expired, budget>>
      /\ listener.store_failed \in BOOLEAN /\ listener.found \in Stages
  BY FeedTypes DEF FeedInv, PublishDeliver, ListenerTrue, Publishing, ListenerType
<1>2. /\ q \in Runs /\ Tail(listener.batch) \in Seq(Change)
      /\ \A i \in DOMAIN Tail(listener.batch) : NoteTrue(Tail(listener.batch)[i])
  BY <1>1, HeadIs
<1> HIDE DEF q
<1>3. /\ listener'.pc \in {"idle", "watch"} /\ \A r \in Runs : FoundLate(r)
      /\ \A s \in Streams : reads # s /\ reads' # s
  BY <1>1, <1>2, ContinueIs
<1>4. ASSUME NEW s \in Streams, Owns(s) PROVE stream'[s] \in StreamType /\ StreamTrue(s)'
  <2>1. /\ stream[s] \in StreamType /\ stream[s].error = "none"
        /\ stream'[s] = Store(stream[s], q, listener.found)
    BY <1>1, <1>4, FeedTypes DEF Healthy
  <2>2. /\ stream'[s] \in StreamType
        /\ stream'[s].pc = stream[s].pc /\ stream'[s].hand = stream[s].hand
        /\ stream'[s].changed = stream[s].changed
        /\ \/ /\ stream'[s].error # "none" /\ stream'[s].pending = Nothing
              /\ stream'[s].wakes = stream[s].wakes + 1
           \/ /\ stream'[s].error = "none"
              /\ stream'[s].pending = [stream[s].pending EXCEPT ![q] = listener.found]
              /\ \/ stream'[s].wakes = stream[s].wakes + 1
                 \/ stream[s].pending # Nothing /\ stream'[s].wakes = stream[s].wakes
    BY <1>1, <1>2, <2>1, StoreIs
  <2>3. CASE stream'[s].error # "none"
    BY <1>1, <1>3, <2>2, <2>3, FailedTrue
  <2>4. CASE stream'[s].error = "none"
    <3>1. /\ stream'[s].pending[q] = listener.found
          /\ \A r \in Runs : r # q => stream'[s].pending[r] = stream[s].pending[r]
      BY <1>2, <2>1, <2>2, <2>4 DEF StreamType
    <3> QED
      BY <1>1, <1>2, <1>4, <2>2, <2>4, <3>1, StoredTrue DEF q
  <2> QED
    BY <2>2, <2>3, <2>4
<1>5. ASSUME NEW s \in Streams, ~Owns(s) PROVE stream'[s] \in StreamType /\ StreamTrue(s)'
  <2>1. stream'[s] = stream[s] /\ stream[s] \in StreamType
    BY <1>1, <1>5, FeedTypes
  <2>2. s \in Healthy => Owner[q] # Caller[s]
    BY <1>5
  <2>3. \A r \in Runs : Harmless(s, r)
    BY <1>1, <2>2, PassOver DEF q
  <2>4. \A r \in Runs : stage'[r] \in Nat /\ stage[r] <= stage'[r]
    BY <1>1, FeedTypes
  <2> QED
    BY <1>1, <1>3, <2>1, <2>3, <2>4, StreamStays DEF Disconnected
<1>6. stream' \in [Streams -> StreamType]
  BY <1>1, <1>4, <1>5
<1>7. Types' /\ NotesTrue' /\ FoundTrue' /\ ListenerTrue'
  BY <1>1, <1>2, <1>6, ContinueTypes
<1> QED
  BY <1>4, <1>5, <1>7 DEF FeedInv

-----------------------------------------------------------------------------
(* The inductive invariant                                                 *)

(* The invariant holds before the first connection.                        *)
LEMMA InitFeedInv == Init => FeedInv
<1> SUFFICES ASSUME Init PROVE FeedInv
  OBVIOUS
<1> DEFINE no == FALSE
           none == <<>>
           new == [pc |-> "new", hand |-> Nothing, pending |-> Nothing,
                   error |-> "none", changed |-> no, wakes |-> 0]
<1>1. /\ stage = Nothing /\ channel = none /\ link = "down"
      /\ listener = [pc |-> "connect", taken |-> 0, batch |-> none, found |-> 0,
                     store_failed |-> no]
      /\ ~available /\ available \in BOOLEAN /\ reads = "free"
      /\ stream = [s \in Streams |-> new] /\ view = [s \in Streams |-> Nothing]
      /\ active = Users /\ expired = {}
  BY DEF Init, Fresh, Nothing
<1>2. /\ no \in BOOLEAN /\ none \in Seq(Change) /\ DOMAIN none = {}
      /\ 0 \in 0..BatchLimit /\ 0 \in Stages
  BY EmptyNames, Constants
<1> HIDE DEF no, none
<1>3. /\ new \in StreamType /\ new.pc = "new" /\ new.hand = Nothing /\ new.pending = Nothing
      /\ new.error = "none"
  BY <1>2, Constants DEF StreamType, StreamSteps
<1>4. /\ listener \in ListenerType /\ listener.pc = "connect" /\ listener.batch = none
  BY <1>1, <1>2 DEF ListenerType, ListenerSteps
<1> HIDE DEF new
<1>5. budget \in [{"break", "read", "revoke"} -> Nat]
  <2>1. MaxBreaks \in Nat /\ MaxReadFailures \in Nat /\ MaxRevocations \in Nat
    BY FeedAssumption
  <2>2. budget = [break |-> MaxBreaks, read |-> MaxReadFailures, revoke |-> MaxRevocations]
    BY DEF Init
  <2> QED
    BY <2>1, <2>2
<1>6. Types
  BY <1>1, <1>2, <1>3, <1>4, <1>5, Constants DEF Types, Publishing
<1>7. NotesTrue /\ FoundTrue /\ ListenerTrue
  BY <1>1, <1>2, <1>4 DEF NotesTrue, FoundTrue, ListenerTrue, Publishing
<1>8. ASSUME NEW s \in Streams PROVE StreamTrue(s)
  <2>1. /\ stream[s].pc = "new" /\ stream[s].hand = Nothing /\ stream[s].pending = Nothing
        /\ stream[s].error = "none" /\ view[s] = Nothing
    BY <1>1, <1>3
  <2>2. LinkTrue(s) /\ HandTrue(s) /\ Wakeful(s)
    BY <1>1, <2>1, Constants DEF LinkTrue, HandTrue, Wakeful, Healthy, Subscribed
  <2>3. ASSUME NEW r \in Runs PROVE RunTrue(s, r)
    <3>1. /\ stage[r] = 0 /\ view[s][r] = 0 /\ stream[s].hand[r] = 0 /\ stream[s].pending[r] = 0
          /\ ~Following(s)
      BY <1>1, <2>1, Constants DEF Following
    <3> QED
      BY <1>4, <2>1, <3>1 DEF RunTrue, Ordered, SnapshotTrue, Kept, Private
  <2> QED
    BY <2>2, <2>3 DEF StreamTrue
<1> QED
  BY <1>6, <1>7, <1>8 DEF FeedInv

(* Every step keeps the invariant.                                         *)
LEMMA NextFeedInv == FeedInv /\ [Next]_vars => FeedInv'
<1> SUFFICES ASSUME FeedInv, [Next]_vars PROVE FeedInv'
  OBVIOUS
<1>1. CASE \E r \in Runs, v \in Stages : CommitRun(r, v)
  BY <1>1, CommitRunInv
<1>2. CASE (\E u \in Users : Deactivate(u)) \/ (\E s \in Streams : Expire(s)) \/ BreakLink
  BY <1>2, EnvironmentInv
<1>3. CASE Stop \/ MakeUnavailable
  BY <1>3, UnavailableInv
<1>4. CASE PublishFindFails
  BY <1>4, PublishFindFailsInv
<1>5. CASE Connect \/ MakeAvailable \/ NoticeBreak
  BY <1>5, ConnectInv
<1>6. CASE Gather \/ Publish
  BY <1>6, GatherInv, PublishInv
<1>7. CASE PublishWatch \/ PublishFind
  BY <1>7, PublishWatchInv, PublishFindInv
<1>8. CASE PublishResync \/ PublishDeliver
  BY <1>8, PublishResyncInv, PublishDeliverInv
<1>9. ASSUME NEW s \in Streams,
             \/ SnapshotFails(s) \/ CheckFails(s) \/ Disconnect(s)
             \/ CheckAccess(s) \/ Wake(s) \/ Timeout(s)
      PROVE  FeedInv'
  BY <1>9, GotoStepsInv
<1>10. ASSUME NEW s \in Streams,
              \/ Subscribe(s) \/ SnapshotRead(s) \/ SnapshotReturn(s) \/ RunWake(s)
       PROVE  FeedInv'
  BY <1>10, SubscribeInv, SnapshotReadInv, SnapshotReturnInv, RunWakeInv
<1>11. ASSUME NEW s \in Streams,
              \/ OpenStream(s) \/ SendUpdates(s) \/ Drain(s) \/ Unsubscribe(s)
       PROVE  FeedInv'
  BY <1>11, OpenStreamInv, DrainInv, UnsubscribeInv
<1>12. CASE UNCHANGED vars
  <2>1. /\ Types' /\ NotesTrue' /\ FoundTrue' /\ ListenerTrue' /\ Shared
        /\ UNCHANGED <<reads, stream, view>>
    BY <1>12 DEF vars, FeedInv, Types, NotesTrue, NoteTrue, FoundTrue, ListenerTrue, Names, Shared
  <2>2. \A s \in Streams : StreamTrue(s)'
    BY <2>1, StreamKept DEF FeedInv
  <2> QED
    BY <2>1, <2>2 DEF FeedInv
<1>13. CASE Next
  <2>1. CASE Listen
    BY <1>3, <1>5, <1>6, <1>7, <1>8, <2>1 DEF Listen
  <2>2. CASE \E s \in Streams :
               \/ Subscribe(s) \/ SnapshotRead(s) \/ SnapshotFails(s)
               \/ CheckFails(s) \/ RunWake(s) \/ Timeout(s) \/ Disconnect(s)
               \/ Serve(s)
    BY <1>9, <1>10, <1>11, <2>2 DEF Serve
  <2> QED
    BY <1>1, <1>2, <1>3, <1>4, <1>13, <2>1, <2>2 DEF Next
<1> QED
  BY <1>12, <1>13

(* Between the database, the listener, RunFeed and the streams, everything *)
(* a healthy stream lacks is in the channel or the batch, versions get     *)
(* newer only on their way to the client, and _reads keeps snapshots and   *)
(* publications apart (feed.py, run_notifications.py, run_events).         *)
THEOREM FeedInvariant == Spec => []FeedInv
<1>1. Init => FeedInv
  BY InitFeedInv
<1>2. FeedInv /\ [Next]_vars => FeedInv'
  BY NextFeedInv
<1> QED
  BY <1>1, <1>2, PTL DEF Spec

-----------------------------------------------------------------------------
(* What it promises                                                        *)

(* The invariant contains what the properties say.                         *)
LEMMA FeedInvIs ==
    FeedInv => TypeOK /\ NothingMissed /\ NoLostWakeup /\ OwnRunsOnly
<1> SUFFICES ASSUME FeedInv PROVE TypeOK /\ NothingMissed /\ NoLostWakeup /\ OwnRunsOnly
  OBVIOUS
<1>1. TypeOK
  BY DEF FeedInv, Types, ListenerType, StreamType, StreamTrue, LinkTrue, Publishing, TypeOK
<1>2. NothingMissed
  BY DEF FeedInv, StreamTrue, RunTrue, Kept, NothingMissed
<1>3. NoLostWakeup
  BY DEF FeedInv, StreamTrue, Wakeful, NoLostWakeup
<1>4. OwnRunsOnly
  <2> SUFFICES ASSUME NEW s \in Streams,
                      NEW r \in Known(view[s]) \cup Known(stream[s].hand) \cup
                                Known(stream[s].pending)
               PROVE  r \in Runs /\ Owner[r] = Caller[s]
    BY DEF OwnRunsOnly
  <2>1. /\ view[s] \in [Runs -> Stages] /\ stream[s].hand \in [Runs -> Stages]
        /\ stream[s].pending \in [Runs -> Stages]
    BY FeedTypes DEF FeedInv, StreamType
  <2>2. r \in Runs /\ (view[s][r] # 0 \/ stream[s].hand[r] # 0 \/ stream[s].pending[r] # 0)
    BY <2>1 DEF Known
  <2>3. Private(s, r)
    BY <2>2 DEF FeedInv, StreamTrue, RunTrue
  <2> QED
    BY <2>2, <2>3 DEF Private
<1> QED
  BY <1>1, <1>2, <1>3, <1>4

(* Whatever the interleaving of commits, snapshots, publications, failed   *)
(* reads, lost connections and closing clients: a healthy stream that is   *)
(* out of date has a notification still to be processed, and one that      *)
(* waits with something to send or to report has its wakeup set or         *)
(* scheduled (RunFeed.publish, snapshot, _deliver and drain;               *)
(* RunNotifications._run).                                                 *)
THEOREM FeedStaysComplete == Spec => []FeedComplete
<1>1. FeedInv => FeedComplete
  BY FeedInvIs DEF FeedComplete
<1> QED
  BY <1>1, FeedInvariant, PTL

(* A stream is given the runs of its own user, all of them and no other,   *)
(* whatever mixture of owners the notifications of a batch carry           *)
(* (RunFeed.publish, RunFeed._deliver, SqlAlchemyRunFeed.snapshot).        *)
THEOREM OwnRunsArrive == Spec => []OwnRunsInFull
<1>1. FeedInv => OwnRunsInFull
  BY FeedInvIs DEF OwnRunsInFull
<1> QED
  BY <1>1, FeedInvariant, PTL

(* What is sent is no older than what was sent before.                     *)
LEMMA SendForward ==
    ASSUME FeedInv, NEW t \in Streams, NEW step, Send(t, step),
           stream[t].pc \in {"open", "send"}, NEW s \in Streams, NEW r \in Runs
    PROVE  view'[s][r] >= view[s][r]
<1>1. /\ view \in [Streams -> [Runs -> Stages]]
      /\ view[s][r] \in Nat /\ stream[s].hand[r] \in Nat
      /\ view' = [view EXCEPT ![t] = [q \in Runs |-> IF stream[t].hand[q] # 0 THEN stream[t].hand[q]
                                                     ELSE view[t][q]]]
  BY FeedTypes DEF FeedInv, Types, Send
<1>2. CASE s # t
  BY <1>1, <1>2
<1>3. CASE s = t
  <2>1. view'[s][r] = IF stream[s].hand[r] # 0 THEN stream[s].hand[r] ELSE view[s][r]
    BY <1>1, <1>3
  <2>2. stream[s].hand[r] # 0 => view[s][r] <= stream[s].hand[r]
    BY <1>3 DEF FeedInv, StreamTrue, RunTrue, Ordered, Following
  <2> QED
    BY <1>1, <2>1, <2>2
<1> QED
  BY <1>2, <1>3

(* No client is taken back to an older state of a run: the promise of the  *)
(* comment on RunFeed._reads, that a snapshot and a publication never      *)
(* overtake each other.                                                    *)
THEOREM StreamsNeverGoBack == Spec => NeverBackwards
<1> DEFINE Forward == \A s \in Streams, r \in Runs :
                        view'[s][r] >= view[s][r] \/ stream'[s].pc = "closed"
<1>1. FeedInv /\ [Next]_vars => [Forward]_view
  <2> SUFFICES ASSUME FeedInv, [Next]_vars, view' # view,
                      NEW s \in Streams, NEW r \in Runs
               PROVE  view'[s][r] >= view[s][r] \/ stream'[s].pc = "closed"
    OBVIOUS
  <2>1. PICK t \in Streams : OpenStream(t) \/ SendUpdates(t) \/ Unsubscribe(t)
    <3>1. Next
      BY DEF vars
    <3>2. ~Listen
      BY DEF Listen, Connect, MakeAvailable, Gather, Publish, PublishWatch, PublishFind,
             PublishResync, PublishDeliver, NoticeBreak, MakeUnavailable
    <3>3. /\ ~BreakLink /\ ~Stop /\ ~PublishFindFails
          /\ \A q \in Runs, v \in Stages : ~CommitRun(q, v)
          /\ \A u \in Users : ~Deactivate(u)
          /\ \A t \in Streams : ~Expire(t)
      BY DEF BreakLink, Stop, PublishFindFails, CommitRun, Deactivate, Expire
    <3>4. \A t \in Streams : /\ ~Subscribe(t) /\ ~SnapshotRead(t) /\ ~SnapshotFails(t)
                             /\ ~CheckFails(t) /\ ~RunWake(t) /\ ~Timeout(t) /\ ~Disconnect(t)
                             /\ ~SnapshotReturn(t) /\ ~Drain(t) /\ ~CheckAccess(t) /\ ~Wake(t)
      BY DEF Subscribe, SnapshotRead, SnapshotFails, CheckFails, RunWake, Timeout, Disconnect,
             SnapshotReturn, Drain, CheckAccess, Wake
    <3> QED
      BY <3>1, <3>2, <3>3, <3>4 DEF Next, Serve
  <2>2. CASE \E step : Send(t, step) /\ stream[t].pc \in {"open", "send"}
    BY <2>2, SendForward
  <2>3. CASE Unsubscribe(t)
    <3>1. /\ stream \in [Streams -> StreamType] /\ view \in [Streams -> [Runs -> Stages]]
          /\ view[s][r] \in Nat
          /\ stream' = [stream EXCEPT ![t] = Fresh("closed")]
          /\ view' = [view EXCEPT ![t] = Nothing]
      BY <2>3, FeedTypes DEF FeedInv, Types, Unsubscribe
    <3>2. CASE s = t
      BY <3>1, <3>2 DEF Fresh
    <3>3. CASE s # t
      BY <3>1, <3>3
    <3> QED
      BY <3>2, <3>3
  <2> QED
    BY <2>1, <2>2, <2>3 DEF OpenStream, SendUpdates
<1> QED
  BY <1>1, FeedInvariant, PTL DEF Spec, NeverBackwards
=============================================================================
