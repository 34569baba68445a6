------------------------ MODULE TokenValidationProofs ------------------------
(***************************************************************************)
(* Proofs about TokenValidation for any number of threads, keys and tokens *)
(* and any lifespan, cooldown and fetch time: the client is made once, a   *)
(* withdrawn key is trusted for a bounded time, and a good token is        *)
(* refused only while its key is new.                                      *)
(***************************************************************************)
EXTENDS TokenValidation, TLAPS

(* A key set read at time t or later is right about every key whose        *)
(* publication has not changed since t.                                    *)
RightSince(keys, t) ==
    \A k \in Keys : (k \in keys <=> published[k].on) \/ published[k].at >= t

(* A fetch began not longer than FetchTime ago and is right since then.    *)
ThreadTrue(p) ==
    /\ thread[p].pc # "idle" => thread[p].token \in Tokens
    /\ thread[p].pc \in {"fetch", "store"} => now <= thread[p].since + FetchTime
    /\ thread[p].pc = "store" => RightSince(thread[p].keys, thread[p].since)

(* So the cached set is right since FetchTime before it was stored.        *)
CacheTrue == cache # NULL => RightSince(cache.keys, cache.at - FetchTime)

(* Only the first discovery holds the lock.                                *)
OneDiscovery == lock \in Threads => client = 0

ValidatorInv ==
    /\ TypeOK
    /\ OneDiscovery
    /\ CacheTrue
    /\ \A p \in Threads : ThreadTrue(p)

-----------------------------------------------------------------------------
(* Types                                                                   *)

ThreadType ==
    [pc : {"idle", "enter", "discover", "lookup", "fetch", "store"},
     token : Tokens \cup {NULL}, keys : SUBSET Keys, since : 0..now,
     answer : {NULL, 200, 401, 503}]

LockTrue(p) == thread[p].pc = "discover" <=> lock = p

(* What a step of p leaves to the other threads.                           *)
OnlyMoves(p) == \A q \in Threads \ {p} : thread'[q] = thread[q]

(* The times are numbers.                                                  *)
LEMMA NaturalBounds ==
    /\ Lifespan \in Nat /\ Cooldown \in Nat /\ Leeway \in Nat
    /\ FetchTime \in Nat /\ MaxTime \in Nat /\ MaxRotations \in Nat
BY TokenAssumption

(* A thread without a request is a thread.                                 *)
LEMMA IdleIsThread ==
    ASSUME now \in Nat
    PROVE  Idle \in ThreadType
BY DEF Idle, ThreadType

(* The invariant holds before the first request.                           *)
LEMMA InitInv == Init => ValidatorInv
<1> SUFFICES ASSUME Init PROVE ValidatorInv
  OBVIOUS
<1> USE NaturalBounds
<1>1. thread \in [Threads -> ThreadType]
  BY IdleIsThread DEF Init
<1>2. TypeOK
  BY <1>1, TokenAssumption DEF Init, TypeOK, ThreadType, Idle
<1>3. OneDiscovery /\ CacheTrue
  BY TokenAssumption DEF Init, OneDiscovery, CacheTrue
<1>4. \A p \in Threads : ThreadTrue(p)
  BY DEF Init, ThreadTrue, Idle
<1> QED
  BY <1>2, <1>3, <1>4 DEF ValidatorInv

(* p answers, and is idle again.                                           *)
LEMMA ReplyMoves ==
    ASSUME NEW p \in Threads, NEW answer \in {200, 401, 503},
           TypeOK, Reply(p, answer)
    PROVE  /\ thread' \in [Threads -> ThreadType]
           /\ OnlyMoves(p)
           /\ thread'[p].pc = "idle"
           /\ thread'[p].answer = answer
BY DEF Reply, TypeOK, ThreadType, OnlyMoves, Idle

(* p goes on to another label, and keeps what it has.                      *)
LEMMA StepMoves ==
    ASSUME NEW p \in Threads,
           NEW pc \in {"enter", "discover", "lookup", "fetch", "store"},
           TypeOK, Step(p, pc)
    PROVE  /\ thread' \in [Threads -> ThreadType]
           /\ OnlyMoves(p)
           /\ thread'[p].pc = pc
           /\ thread'[p].token = thread[p].token
BY DEF Step, TypeOK, ThreadType, OnlyMoves

(* Decoding accepts or refuses.                                            *)
LEMMA DecodeAnswers ==
    ASSUME NEW t \in Tokens
    PROVE  Decode(t) \in {200, 401}
BY DEF Decode

(* A lookup answers, or begins a fetch now.                                *)
LEMMA LookupMoves ==
    ASSUME NEW p \in Threads, NEW keys, NEW mayRefresh \in BOOLEAN,
           TypeOK, ThreadTrue(p), thread[p].pc # "idle",
           LookupIn(p, keys, mayRefresh)
    PROVE  /\ thread' \in [Threads -> ThreadType]
           /\ OnlyMoves(p)
           /\ \/ /\ thread'[p].pc = "idle"
                 /\ thread'[p].answer \in {200, 401}
                 /\ thread'[p].answer =
                      IF thread[p].token.kid \in keys THEN Decode(thread[p].token) ELSE 401
                 /\ thread[p].token.kid \in keys \/ ~mayRefresh
              \/ /\ thread'[p].pc = "fetch"
                 /\ thread'[p].token = thread[p].token
                 /\ thread'[p].since = now
                 /\ mayRefresh
<1>1. thread[p].token \in Tokens
  BY DEF ThreadTrue
<1>2. CASE thread[p].token.kid \in keys
  <2>1. Reply(p, Decode(thread[p].token))
    BY <1>2 DEF LookupIn
  <2> QED
    BY <2>1, <1>1, <1>2, DecodeAnswers, ReplyMoves
<1>3. CASE thread[p].token.kid \notin keys /\ mayRefresh
  <2>1. thread' = [thread EXCEPT ![p].pc = "fetch", ![p].since = now]
    BY <1>3 DEF LookupIn
  <2> DEFINE mid == [thread EXCEPT ![p].pc = "fetch"]
  <2>2. /\ mid \in [Threads -> ThreadType]
        /\ \A q \in Threads \ {p} : mid[q] = thread[q]
        /\ mid[p].pc = "fetch" /\ mid[p].token = thread[p].token
    BY DEF TypeOK, ThreadType
  <2>3. thread' = [mid EXCEPT ![p].since = now]
    BY <2>1
  <2> HIDE DEF mid
  <2>4. now \in Nat
    BY NaturalBounds DEF TypeOK
  <2>5. /\ thread' \in [Threads -> ThreadType]
        /\ \A q \in Threads \ {p} : thread'[q] = mid[q]
        /\ thread'[p].since = now
        /\ thread'[p].pc = mid[p].pc /\ thread'[p].token = mid[p].token
    BY <2>2, <2>3, <2>4 DEF ThreadType
  <2> QED
    BY <2>2, <2>5, <1>3 DEF OnlyMoves
<1>4. CASE thread[p].token.kid \notin keys /\ ~mayRefresh
  <2>1. Reply(p, 401)
    BY <1>4 DEF LookupIn
  <2> QED
    BY <2>1, <1>4, ReplyMoves
<1> QED
  BY <1>2, <1>3, <1>4

-----------------------------------------------------------------------------
(* Steps of one thread                                                     *)

CacheType == cache = NULL \/ cache \in [keys : SUBSET Keys, at : 0..now]

(* The parts of the invariant.                                             *)
LEMMA InvParts ==
    ASSUME ValidatorInv
    PROVE  /\ TypeOK /\ OneDiscovery /\ CacheTrue /\ CacheType
           /\ now \in Nat
           /\ thread \in [Threads -> ThreadType]
           /\ \A p \in Threads : ThreadTrue(p) /\ LockTrue(p)
BY NaturalBounds DEF ValidatorInv, TypeOK, ThreadType, CacheType, LockTrue

(* What has to be shown of a step of p.                                    *)
LEMMA ThreadMoves ==
    ASSUME ValidatorInv, NEW p \in Threads,
           UNCHANGED <<now, provider>>,
           thread' \in [Threads -> ThreadType], OnlyMoves(p),
           ThreadTrue(p)', LockTrue(p)',
           \A q \in Threads \ {p} : lock' = q <=> lock = q,
           client' \in 0..1, OneDiscovery', CacheType', CacheTrue'
    PROVE  ValidatorInv'
<1>1. \A q \in Threads : ThreadTrue(q)'
  <2> SUFFICES ASSUME NEW q \in Threads \ {p} PROVE ThreadTrue(q)'
    OBVIOUS
  <2>1. thread'[q] = thread[q] /\ ThreadTrue(q)
    BY DEF OnlyMoves, ValidatorInv
  <2> QED
    BY <2>1 DEF ThreadTrue, RightSince, provider
<1>2. \A q \in Threads : LockTrue(q)'
  <2> SUFFICES ASSUME NEW q \in Threads \ {p} PROVE LockTrue(q)'
    OBVIOUS
  <2>1. thread'[q] = thread[q] /\ LockTrue(q)
    BY InvParts DEF OnlyMoves
  <2> QED
    BY <2>1 DEF LockTrue
<1>3. thread' \in [Threads -> ThreadType']
  BY DEF ThreadType
<1>4. TypeOK'
  BY <1>2, <1>3 DEF ValidatorInv, TypeOK, ThreadType, LockTrue, CacheType, provider
<1> QED
  BY <1>1, <1>4 DEF ValidatorInv

(* A step of p that touches neither the client, nor the lock, nor the      *)
(* cached set.                                                             *)
LEMMA QuietMoves ==
    ASSUME ValidatorInv, NEW p \in Threads,
           UNCHANGED <<now, provider, client, lock, cache>>,
           thread' \in [Threads -> ThreadType], OnlyMoves(p),
           thread[p].pc # "discover", thread'[p].pc # "discover",
           ThreadTrue(p)'
    PROVE  ValidatorInv'
<1>1. LockTrue(p)'
  BY InvParts DEF LockTrue
<1>2. client' \in 0..1 /\ OneDiscovery' /\ CacheType' /\ CacheTrue'
  BY InvParts DEF TypeOK, OneDiscovery, CacheType, CacheTrue, RightSince, provider
<1> QED
  BY <1>1, <1>2, ThreadMoves

(* Receive keeps the invariant.                                            *)
LEMMA ReceiveInv ==
    ASSUME ValidatorInv, NEW p \in Threads, Receive(p)
    PROVE  ValidatorInv'
<1>1. PICK t \in Tokens :
        thread' = [thread EXCEPT ![p] =
            IF t.kid = NULL
            THEN [Idle EXCEPT !.answer = 401]
            ELSE [Idle EXCEPT !.token = t,
                              !.pc = IF client = 0 THEN "enter" ELSE "lookup"]]
  BY DEF Receive
<1>2. CASE t.kid = NULL
  <2>1. Reply(p, 401)
    BY <1>1, <1>2 DEF Reply
  <2>2. /\ thread' \in [Threads -> ThreadType] /\ OnlyMoves(p)
        /\ thread'[p].pc = "idle"
    BY <2>1, InvParts, ReplyMoves
  <2> QED
    BY <2>2, QuietMoves DEF Receive, ThreadTrue
<1>3. CASE t.kid # NULL
  <2> DEFINE pc == IF client = 0 THEN "enter" ELSE "lookup"
  <2>3. thread' = [thread EXCEPT ![p] = [Idle EXCEPT !.token = t, !.pc = pc]]
        /\ pc \in {"enter", "lookup"}
    BY <1>1, <1>3
  <2> HIDE DEF pc
  <2>4. [Idle EXCEPT !.token = t, !.pc = pc] =
          [pc |-> pc, token |-> t, keys |-> {}, since |-> 0, answer |-> NULL]
    <3>1. [Idle EXCEPT !.token = t] =
            [pc |-> "idle", token |-> t, keys |-> {}, since |-> 0, answer |-> NULL]
      BY DEF Idle
    <3>2. [[pc |-> "idle", token |-> t, keys |-> {}, since |-> 0, answer |-> NULL]
              EXCEPT !.pc = pc] =
            [pc |-> pc, token |-> t, keys |-> {}, since |-> 0, answer |-> NULL]
      OBVIOUS
    <3> QED
      BY <3>1, <3>2, Zenon
  <2>1. thread' = [thread EXCEPT ![p] =
              [pc |-> pc, token |-> t, keys |-> {}, since |-> 0, answer |-> NULL]]
    BY <2>3, <2>4
  <2>2. /\ thread' \in [Threads -> ThreadType] /\ OnlyMoves(p)
        /\ thread'[p].pc \in {"enter", "lookup"} /\ thread'[p].token = t
    BY <2>1, <2>3, InvParts DEF ThreadType, OnlyMoves
  <2> QED
    BY <2>2, QuietMoves DEF Receive, ThreadTrue
<1> QED
  BY <1>2, <1>3

(* EnterDiscovery keeps the invariant.                                     *)
LEMMA EnterDiscoveryInv ==
    ASSUME ValidatorInv, NEW p \in Threads, EnterDiscovery(p)
    PROVE  ValidatorInv'
<1>1. thread[p].pc = "enter" /\ lock = NULL /\ ThreadTrue(p)
  BY InvParts DEF EnterDiscovery
<1>2. CASE client = 0
  <2>1. lock' = p /\ Step(p, "discover") /\ UNCHANGED <<now, provider, client, cache>>
    BY <1>2 DEF EnterDiscovery
  <2>2. /\ thread' \in [Threads -> ThreadType] /\ OnlyMoves(p)
        /\ thread'[p].pc = "discover" /\ thread'[p].token = thread[p].token
    BY <2>1, InvParts, StepMoves
  <2>3. ThreadTrue(p)' /\ LockTrue(p)'
    BY <1>1, <2>1, <2>2 DEF ThreadTrue, LockTrue
  <2>4. \A q \in Threads \ {p} : lock' = q <=> lock = q
    BY <1>1, <2>1, TokenAssumption
  <2>5. client' \in 0..1 /\ OneDiscovery' /\ CacheType' /\ CacheTrue'
    BY <1>2, <2>1, InvParts
       DEF TypeOK, OneDiscovery, CacheType, CacheTrue, RightSince, provider
  <2> QED
    BY <2>1, <2>2, <2>3, <2>4, <2>5, ThreadMoves
<1>3. CASE client # 0
  <2>1. Step(p, "lookup") /\ UNCHANGED <<now, provider, client, lock, cache>>
    BY <1>3 DEF EnterDiscovery
  <2>2. /\ thread' \in [Threads -> ThreadType] /\ OnlyMoves(p)
        /\ thread'[p].pc = "lookup" /\ thread'[p].token = thread[p].token
    BY <2>1, InvParts, StepMoves
  <2> QED
    BY <1>1, <2>1, <2>2, QuietMoves DEF ThreadTrue
<1> QED
  BY <1>2, <1>3

(* Discover keeps the invariant.                                           *)
LEMMA DiscoverInv ==
    ASSUME ValidatorInv, NEW p \in Threads, Discover(p)
    PROVE  ValidatorInv'
<1>1. lock = p /\ client = 0 /\ ThreadTrue(p) /\ thread[p].pc = "discover"
  BY InvParts DEF Discover, LockTrue, OneDiscovery
<1>2. /\ thread' \in [Threads -> ThreadType] /\ OnlyMoves(p)
      /\ thread'[p].pc = "lookup" /\ thread'[p].token = thread[p].token
  BY InvParts, StepMoves DEF Discover
<1>3. ThreadTrue(p)' /\ LockTrue(p)'
  BY <1>1, <1>2, TokenAssumption DEF Discover, ThreadTrue, LockTrue
<1>4. \A q \in Threads \ {p} : lock' = q <=> lock = q
  BY <1>1, TokenAssumption DEF Discover
<1>5. client' \in 0..1 /\ OneDiscovery' /\ CacheType' /\ CacheTrue'
  BY <1>1, TokenAssumption DEF Discover, OneDiscovery, CacheType, CacheTrue
<1> QED
  BY <1>2, <1>3, <1>4, <1>5, ThreadMoves DEF Discover

(* DiscoveryFails keeps the invariant.                                     *)
LEMMA DiscoveryFailsInv ==
    ASSUME ValidatorInv, NEW p \in Threads, DiscoveryFails(p)
    PROVE  ValidatorInv'
<1>1. lock = p
  BY InvParts DEF DiscoveryFails, LockTrue
<1>2. /\ thread' \in [Threads -> ThreadType] /\ OnlyMoves(p)
      /\ thread'[p].pc = "idle"
  BY InvParts, ReplyMoves DEF DiscoveryFails
<1>3. ThreadTrue(p)' /\ LockTrue(p)'
  BY <1>2, TokenAssumption DEF DiscoveryFails, ThreadTrue, LockTrue
<1>4. \A q \in Threads \ {p} : lock' = q <=> lock = q
  BY <1>1, TokenAssumption DEF DiscoveryFails
<1>5. client' \in 0..1 /\ OneDiscovery' /\ CacheType' /\ CacheTrue'
  BY InvParts, TokenAssumption
     DEF DiscoveryFails, TypeOK, OneDiscovery, CacheType, CacheTrue, RightSince, provider
<1> QED
  BY <1>2, <1>3, <1>4, <1>5, ThreadMoves DEF DiscoveryFails

(* Lookup keeps the invariant.                                             *)
LEMMA LookupInv ==
    ASSUME ValidatorInv, NEW p \in Threads, Lookup(p)
    PROVE  ValidatorInv'
<1> DEFINE keys == IF Fresh THEN cache.keys ELSE {}
           may == ~Fresh \/ CooledDown
<1>1. /\ LookupIn(p, keys, may) /\ thread[p].pc = "lookup"
      /\ UNCHANGED <<now, provider, client, lock, cache>>
  BY DEF Lookup
<1>2. /\ thread' \in [Threads -> ThreadType] /\ OnlyMoves(p)
      /\ \/ thread'[p].pc = "idle"
         \/ /\ thread'[p].pc = "fetch" /\ thread'[p].token = thread[p].token
            /\ thread'[p].since = now
  <2>1. TypeOK /\ ThreadTrue(p) /\ thread[p].pc # "idle"
    BY <1>1, InvParts
  <2>2. may \in BOOLEAN
    OBVIOUS
  <2> HIDE DEF keys, may
  <2> QED
    BY <1>1, <2>1, <2>2, LookupMoves
<1>3. ThreadTrue(p)'
  BY <1>1, <1>2, InvParts, NaturalBounds DEF ThreadTrue
<1> QED
  BY <1>1, <1>2, <1>3, QuietMoves

(* FetchRead keeps the invariant.                                          *)
LEMMA FetchReadInv ==
    ASSUME ValidatorInv, NEW p \in Threads, FetchRead(p)
    PROVE  ValidatorInv'
<1> DEFINE on == {k \in Keys : published[k].on}
           mid == [thread EXCEPT ![p].pc = "store"]
<1>1. /\ mid \in [Threads -> ThreadType]
      /\ \A q \in Threads \ {p} : mid[q] = thread[q]
      /\ mid[p].pc = "store" /\ mid[p].token = thread[p].token
      /\ mid[p].since = thread[p].since
  BY InvParts DEF ThreadType
<1>2. thread' = [mid EXCEPT ![p].keys = on]
  BY DEF FetchRead
<1>3. on \in SUBSET Keys /\ RightSince(on, thread[p].since)
  BY DEF RightSince
<1> HIDE DEF mid, on
<1>4. /\ thread' \in [Threads -> ThreadType]
      /\ \A q \in Threads \ {p} : thread'[q] = mid[q]
      /\ thread'[p].keys = on
      /\ thread'[p].pc = mid[p].pc /\ thread'[p].token = mid[p].token
      /\ thread'[p].since = mid[p].since
  BY <1>1, <1>2, <1>3 DEF ThreadType
<1>5. ThreadTrue(p) /\ thread[p].pc = "fetch"
      /\ UNCHANGED <<now, provider, client, lock, cache>>
  BY InvParts DEF FetchRead
<1>6. ThreadTrue(p)'
  <2>1. thread'[p].token \in Tokens /\ now' <= thread'[p].since + FetchTime
    BY <1>1, <1>4, <1>5 DEF ThreadTrue
  <2>2. RightSince(thread[p].keys, thread[p].since)'
    BY <1>1, <1>3, <1>4, <1>5 DEF RightSince, provider
  <2> QED
    BY <2>1, <2>2 DEF ThreadTrue
<1> QED
  BY <1>1, <1>4, <1>5, <1>6, QuietMoves DEF OnlyMoves

(* A set that is stored was read at most FetchTime ago.                    *)
LEMMA FetchStoreInv ==
    ASSUME ValidatorInv, NEW p \in Threads, FetchStore(p)
    PROVE  ValidatorInv'
<1>1. /\ thread[p].pc = "store" /\ ThreadTrue(p) /\ TypeOK /\ now \in Nat
      /\ thread[p] \in ThreadType
  BY InvParts DEF FetchStore
<1>2. /\ thread' \in [Threads -> ThreadType] /\ OnlyMoves(p)
      /\ thread'[p].pc = "idle"
  <2>1. CASE thread[p].keys = {}
    BY <1>1, <2>1, ReplyMoves DEF FetchStore
  <2>2. CASE thread[p].keys # {}
    <3>1. LookupIn(p, thread[p].keys, FALSE)
      BY <2>2 DEF FetchStore
    <3> QED
      BY <1>1, <3>1, LookupMoves
  <2> QED
    BY <2>1, <2>2
<1>3. ThreadTrue(p)'
  BY <1>2 DEF ThreadTrue
<1>4. LockTrue(p)'
  BY <1>1, <1>2, InvParts DEF FetchStore, LockTrue
<1>5. CacheType'
  BY <1>1 DEF FetchStore, CacheType, ThreadType
<1>6. CacheTrue'
  <2>1. RightSince(thread[p].keys, thread[p].since) /\ now <= thread[p].since + FetchTime
    BY <1>1 DEF ThreadTrue
  <2>2. thread[p].since \in Nat /\ \A k \in Keys : published[k].at \in Nat
    BY <1>1 DEF ThreadType, TypeOK
  <2>3. RightSince(thread[p].keys, now - FetchTime)
    BY <1>1, <2>1, <2>2, NaturalBounds DEF RightSince
  <2>4. cache'.keys = thread[p].keys /\ cache'.at = now /\ published' = published
    BY DEF FetchStore, provider
  <2> QED
    BY <2>3, <2>4 DEF CacheTrue, RightSince
<1>7. client' \in 0..1 /\ OneDiscovery'
  BY InvParts DEF FetchStore, TypeOK, OneDiscovery
<1> QED
  BY <1>2, <1>3, <1>4, <1>5, <1>6, <1>7, ThreadMoves DEF FetchStore

(* FetchFails keeps the invariant.                                         *)
LEMMA FetchFailsInv ==
    ASSUME ValidatorInv, NEW p \in Threads, FetchFails(p)
    PROVE  ValidatorInv'
<1>1. /\ thread' \in [Threads -> ThreadType] /\ OnlyMoves(p)
      /\ thread'[p].pc = "idle"
  BY InvParts, ReplyMoves DEF FetchFails
<1>2. ThreadTrue(p)' /\ LockTrue(p)'
  BY <1>1, InvParts DEF FetchFails, ThreadTrue, LockTrue
<1>3. client' \in 0..1 /\ OneDiscovery' /\ CacheType' /\ CacheTrue'
  BY InvParts
     DEF FetchFails, TypeOK, OneDiscovery, CacheType, CacheTrue, RightSince, provider
<1> QED
  BY <1>1, <1>2, <1>3, ThreadMoves DEF FetchFails

-----------------------------------------------------------------------------
(* Steps of the provider and of time                                       *)

(* A change of the published set is made now, after every read.            *)
LEMMA RotateInv ==
    ASSUME ValidatorInv, NEW k \in Keys, Rotate(k)
    PROVE  ValidatorInv'
<1>1. /\ now \in Nat /\ UNCHANGED <<now, client, lock, cache, thread>>
      /\ published \in [Keys -> [on : BOOLEAN, at : 0..now]]
      /\ published' = [published EXCEPT ![k] = [on |-> ~@.on, at |-> now]]
  BY InvParts DEF Rotate, TypeOK
<1>2. /\ published' \in [Keys -> [on : BOOLEAN, at : 0..now]]
      /\ published'[k].at = now
      /\ \A j \in Keys \ {k} : published'[j] = published[j]
  BY <1>1
<1>3. ASSUME NEW keys, NEW t \in Int, t <= now, RightSince(keys, t)
      PROVE  RightSince(keys, t)'
  <2>1. \A j \in Keys \ {k} : published'[j] = published[j]
    BY <1>2
  <2>2. published'[k].at >= t
    BY <1>1, <1>2, <1>3
  <2> QED
    BY <1>3, <2>1, <2>2 DEF RightSince
<1>4. TypeOK'
  BY <1>1, <1>2, InvParts, NaturalBounds DEF Rotate, TypeOK
<1>5. OneDiscovery' /\ CacheTrue'
  <2>1. cache # NULL => cache.at - FetchTime \in Int /\ cache.at - FetchTime <= now
    BY <1>1, InvParts, NaturalBounds DEF CacheType
  <2> QED
    BY <1>1, <1>3, <2>1, InvParts DEF OneDiscovery, CacheTrue, RightSince
<1>6. ASSUME NEW p \in Threads PROVE ThreadTrue(p)'
  <2>1. /\ ThreadTrue(p) /\ thread[p].since \in Int /\ thread[p].since <= now
    BY <1>1, InvParts DEF ThreadType
  <2>2. thread[p].pc = "store" => RightSince(thread[p].keys, thread[p].since)'
    BY <1>1, <1>3, <2>1 DEF ThreadTrue, RightSince
  <2> QED
    BY <1>1, <2>1, <2>2 DEF ThreadTrue, RightSince
<1> QED
  BY <1>4, <1>5, <1>6 DEF ValidatorInv

(* Time passes and the cache stays true, because a fetch takes no longer   *)
(* than FetchTime.                                                         *)
LEMMA TickInv ==
    ASSUME ValidatorInv, Tick
    PROVE  ValidatorInv'
<1>1. /\ now \in Nat /\ now < MaxTime /\ now' = now + 1 /\ 0..now \subseteq 0..now'
      /\ UNCHANGED <<published, rotations, client, lock, cache, thread>>
  BY InvParts DEF Tick, provider
<1>2. thread' \in [Threads -> ThreadType']
  BY <1>1, InvParts DEF ThreadType
<1>3. published' \in [Keys -> [on : BOOLEAN, at : 0..now']]
  BY <1>1, InvParts DEF TypeOK
<1>4. CacheType'
  BY <1>1, InvParts DEF CacheType
<1>5. TypeOK'
  BY <1>1, <1>2, <1>3, <1>4, InvParts, NaturalBounds DEF TypeOK, ThreadType, CacheType
<1>6. OneDiscovery' /\ CacheTrue'
  BY <1>1, InvParts DEF OneDiscovery, CacheTrue, RightSince
<1>7. ASSUME NEW p \in Threads PROVE ThreadTrue(p)'
  <2>1. ThreadTrue(p) /\ thread[p].since \in Nat
    BY InvParts DEF ThreadType
  <2>2. thread[p].pc \in {"fetch", "store"} => now' <= thread[p].since + FetchTime
    BY <1>1, <2>1, NaturalBounds DEF Tick
  <2> QED
    BY <1>1, <2>1, <2>2 DEF ThreadTrue, RightSince
<1> QED
  BY <1>5, <1>6, <1>7 DEF ValidatorInv

(* Every step keeps the invariant.                                         *)
LEMMA NextInv ==
    ASSUME ValidatorInv, [Next]_vars
    PROVE  ValidatorInv'
<1>1. CASE Next
  BY <1>1, RotateInv, TickInv, ReceiveInv, EnterDiscoveryInv, DiscoverInv,
     DiscoveryFailsInv, LookupInv, FetchReadInv, FetchStoreInv, FetchFailsInv
     DEF Next, Serve
<1>2. CASE UNCHANGED vars
  BY <1>2 DEF vars, ValidatorInv, TypeOK, OneDiscovery, CacheTrue, ThreadTrue, RightSince
<1> QED
  BY <1>1, <1>2

(* The inductive invariant of the validator that request threads share:    *)
(* one discovery under the lock, and key sets that are right about every   *)
(* key whose publication has not changed since they were asked for         *)
(* (OidcAccessTokenValidator and its PyJWKClient).                         *)
THEOREM ValidatorInvariant == Spec => []ValidatorInv
<1> QED
  BY InitInv, NextInv, PTL DEF Spec

(* However many first requests race, the client is made once, and the one  *)
(* thread that discovers is the holder of the lock (_get_jwks_client).     *)
THEOREM OneClient == Spec => []TypeOK
<1>1. ValidatorInv => TypeOK
  BY DEF ValidatorInv
<1> QED
  BY <1>1, ValidatorInvariant, PTL

-----------------------------------------------------------------------------
(* Answers                                                                 *)

(* A thread's step leaves the other threads alone.                         *)
LEMMA MovesOne ==
    ASSUME ValidatorInv, NEW q \in Threads, Receive(q) \/ Serve(q)
    PROVE  OnlyMoves(q)
<1> USE InvParts DEF OnlyMoves
<1>1. CASE Receive(q)
  BY <1>1 DEF Receive
<1>2. CASE EnterDiscovery(q)
  BY <1>2 DEF EnterDiscovery, Step
<1>3. CASE Discover(q)
  BY <1>3 DEF Discover, Step
<1>4. CASE DiscoveryFails(q)
  BY <1>4 DEF DiscoveryFails, Reply
<1>5. CASE Lookup(q)
  BY <1>5 DEF Lookup, LookupIn, Reply
<1>6. CASE FetchRead(q)
  BY <1>6 DEF FetchRead
<1>7. CASE FetchStore(q)
  BY <1>7 DEF FetchStore, LookupIn, Reply
<1>8. CASE FetchFails(q)
  BY <1>8 DEF FetchFails, Reply
<1> QED
  BY <1>1, <1>2, <1>3, <1>4, <1>5, <1>6, <1>7, <1>8 DEF Serve

(* A verdict on the token comes from a lookup in the cached set or in one  *)
(* that was just fetched; every other way to end is an outage.             *)
LEMMA VerdictsComeFromKeys ==
    ASSUME ValidatorInv, [Next]_vars, NEW p \in Threads,
           NEW answer \in {200, 401}, Answers(p, answer)
    PROVE  /\ thread[p].token \in Tokens
           /\ \/ /\ Lookup(p)
                 /\ LookupIn(p, IF Fresh THEN cache.keys ELSE {}, ~Fresh \/ CooledDown)
              \/ /\ FetchStore(p)
                 /\ LookupIn(p, thread[p].keys, FALSE)
<1>1. thread[p].pc # "idle" /\ thread'[p].pc = "idle" /\ thread'[p].answer = answer
  BY DEF Answers
<1>2. thread'[p] # thread[p]
  BY <1>1
<1>3. Receive(p) \/ Serve(p)
  <2>1. CASE Next
    <3>1. ~(\E k \in Keys : Rotate(k)) /\ ~Tick
      BY <1>2 DEF Rotate, Tick
    <3>2. PICK q \in Threads : Receive(q) \/ Serve(q)
      BY <2>1, <3>1 DEF Next
    <3> QED
      BY <1>2, <3>2, MovesOne DEF OnlyMoves
  <2> QED
    BY <1>2, <2>1 DEF vars
<1>4. ~Receive(p)
  BY <1>1 DEF Receive
<1>5. ~EnterDiscovery(p) /\ ~Discover(p)
  <2>1. ASSUME NEW pc \in {"discover", "lookup"}, Step(p, pc) PROVE FALSE
    BY <1>1, <2>1, InvParts, StepMoves
  <2> QED
    BY <2>1 DEF EnterDiscovery, Discover
<1>6. ~DiscoveryFails(p) /\ ~FetchFails(p)
  <2>1. ASSUME Reply(p, 503) PROVE FALSE
    BY <1>1, <2>1, InvParts, ReplyMoves
  <2> QED
    BY <2>1 DEF DiscoveryFails, FetchFails
<1>7. ~FetchRead(p)
  <2>1. ASSUME FetchRead(p) PROVE FALSE
    <3> DEFINE on == {k \in Keys : published[k].on}
               mid == [thread EXCEPT ![p].pc = "store"]
    <3>1. mid \in [Threads -> ThreadType] /\ mid[p].pc = "store"
      BY InvParts DEF ThreadType
    <3>2. thread' = [mid EXCEPT ![p].keys = on]
      BY <2>1 DEF FetchRead
    <3> HIDE DEF mid, on
    <3>3. thread'[p].pc = mid[p].pc
      BY <3>1, <3>2 DEF ThreadType
    <3> QED
      BY <1>1, <3>1, <3>3
  <2> QED
    BY <2>1
<1>8. CASE FetchStore(p)
  <2>1. thread[p].keys # {}
    <3> SUFFICES ASSUME thread[p].keys = {} PROVE FALSE
      OBVIOUS
    <3>1. Reply(p, 503)
      BY <1>8 DEF FetchStore
    <3> QED
      BY <1>1, <3>1, InvParts, ReplyMoves
  <2> QED
    BY <1>1, <1>8, <2>1, InvParts DEF FetchStore, ThreadTrue
<1>9. CASE Lookup(p)
  BY <1>1, <1>9, InvParts DEF Lookup, ThreadTrue
<1> QED
  BY <1>3, <1>4, <1>5, <1>6, <1>7, <1>8, <1>9 DEF Serve

(* The age of what is known of a key that the set is wrong about.          *)
LEMMA CachedSetAge ==
    ASSUME ValidatorInv, cache # NULL, NEW k \in Keys
    PROVE  /\ cache.at \in Nat /\ published[k].at \in Nat
           /\ \/ k \in cache.keys <=> published[k].on
              \/ now - published[k].at <= (now - cache.at) + FetchTime
<1>1. cache.at \in Nat /\ published[k].at \in Nat /\ now \in Nat
  BY InvParts DEF CacheType, TypeOK
<1> QED
  BY <1>1, InvParts, NaturalBounds DEF CacheTrue, RightSince

(* A set that was fetched agrees with the provider, or differs in a        *)
(* change during the fetch.                                                *)
LEMMA FetchedSetAge ==
    ASSUME ValidatorInv, NEW p \in Threads, thread[p].pc = "store", NEW k \in Keys
    PROVE  /\ published[k].at \in Nat
           /\ \/ k \in thread[p].keys <=> published[k].on
              \/ now - published[k].at <= FetchTime
<1>1. /\ thread[p].since \in Nat /\ published[k].at \in Nat /\ now \in Nat
  BY InvParts DEF ThreadType, TypeOK
<1>2. ThreadTrue(p)
  BY InvParts
<1> QED
  BY <1>1, <1>2, NaturalBounds DEF ThreadTrue, RightSince

(* A token is accepted only with a key that is published or was withdrawn  *)
(* recently.                                                               *)
LEMMA AcceptedSigner ==
    ASSUME ValidatorInv, [Next]_vars, NEW p \in Threads, Answers(p, 200)
    PROVE  LET signer == published[thread[p].token.signer]
           IN  signer.on \/ now - signer.at <= Lifespan + FetchTime
<1> DEFINE t == thread[p].token
<1>1. TypeOK /\ ThreadTrue(p) /\ thread[p].pc # "idle" /\ now \in Nat
      /\ thread'[p].pc = "idle" /\ thread'[p].answer = 200
  BY InvParts DEF Answers
<1>2. t \in Tokens /\ t.signer \in Keys
  BY VerdictsComeFromKeys, TokenAssumption DEF Token
<1>3. ASSUME NEW keys, NEW may \in BOOLEAN, LookupIn(p, keys, may)
      PROVE  t.kid \in keys /\ t.signer = t.kid
  <2>1. 200 = IF t.kid \in keys THEN Decode(t) ELSE 401
    BY <1>1, <1>3, LookupMoves
  <2> QED
    BY <2>1 DEF Decode
<1>4. CASE Lookup(p) /\ LookupIn(p, IF Fresh THEN cache.keys ELSE {}, ~Fresh \/ CooledDown)
  <2>1. (~Fresh \/ CooledDown) \in BOOLEAN
    OBVIOUS
  <2>2. t.signer \in (IF Fresh THEN cache.keys ELSE {})
    BY <1>3, <1>4, <2>1, Zenon
  <2>3. Fresh /\ t.signer \in cache.keys
    BY <2>2
  <2>4. cache # NULL /\ now - cache.at <= Lifespan
    BY <2>3 DEF Fresh
  <2> QED
    BY <1>1, <1>2, <2>3, <2>4, CachedSetAge, NaturalBounds
<1>5. CASE FetchStore(p) /\ LookupIn(p, thread[p].keys, FALSE)
  <2>1. t.signer \in thread[p].keys
    BY <1>3, <1>5
  <2>2. thread[p].pc = "store"
    BY <1>5 DEF FetchStore
  <2> QED
    BY <1>1, <1>2, <2>1, <2>2, FetchedSetAge, NaturalBounds
<1> QED
  BY <1>4, <1>5, VerdictsComeFromKeys

(* A withdrawn key is trusted for a bounded time, whatever threads store   *)
(* over each other (validate, get_signing_key_from_jwt).                   *)
THEOREM WithdrawnKeysAreForgotten == Spec => WithdrawnKeysExpire
<1>1. ValidatorInv /\ [Next]_vars =>
        [\A p \in Threads : Answers(p, 200) =>
           LET signer == published[thread[p].token.signer] IN
           signer.on \/ now - signer.at <= Lifespan + FetchTime]_vars
  BY AcceptedSigner
<1> QED
  BY <1>1, ValidatorInvariant, PTL DEF Spec, WithdrawnKeysExpire

(* PyJWKClient's pause is not zero; were it zero, a key published in the   *)
(* same instant could be missed by a fetch that lasted FetchTime.          *)
LEMMA RefusedSigner ==
    ASSUME Cooldown > 0, ValidatorInv, [Next]_vars, NEW p \in Threads,
           Answers(p, 401),
           thread[p].token.signer = thread[p].token.kid,
           thread[p].token.claims = "good", now < thread[p].token.exp,
           published[thread[p].token.signer].on
    PROVE  now - published[thread[p].token.signer].at < Cooldown + FetchTime
<1> DEFINE t == thread[p].token
<1>1. TypeOK /\ ThreadTrue(p) /\ thread[p].pc # "idle" /\ now \in Nat
      /\ thread'[p].pc = "idle" /\ thread'[p].answer = 401
  BY InvParts DEF Answers
<1>2. t \in Tokens /\ t.signer \in Keys /\ t.exp \in Nat
  BY VerdictsComeFromKeys, TokenAssumption DEF Token
<1>3. Decode(t) = 200
  BY <1>1, <1>2, NaturalBounds DEF Decode
<1>4. ASSUME NEW keys, NEW may \in BOOLEAN, LookupIn(p, keys, may)
      PROVE  t.kid \notin keys /\ ~may
  <2>1. /\ 401 = IF t.kid \in keys THEN Decode(t) ELSE 401
        /\ t.kid \in keys \/ ~may
    BY <1>1, <1>4, LookupMoves
  <2> QED
    BY <1>3, <2>1
<1>5. CASE Lookup(p) /\ LookupIn(p, IF Fresh THEN cache.keys ELSE {}, ~Fresh \/ CooledDown)
  <2>1. (~Fresh \/ CooledDown) \in BOOLEAN
    OBVIOUS
  <2>2. t.signer \notin (IF Fresh THEN cache.keys ELSE {}) /\ ~(~Fresh \/ CooledDown)
    BY <1>4, <1>5, <2>1, Zenon
  <2>3. Fresh /\ ~CooledDown /\ t.signer \notin cache.keys
    BY <2>2
  <2>4. cache # NULL /\ ~(now - cache.at >= Cooldown)
    BY <2>3 DEF Fresh, CooledDown
  <2> QED
    BY <1>1, <1>2, <2>3, <2>4, CachedSetAge, NaturalBounds
<1>6. CASE FetchStore(p) /\ LookupIn(p, thread[p].keys, FALSE)
  <2>1. t.signer \notin thread[p].keys
    BY <1>4, <1>6
  <2>2. thread[p].pc = "store"
    BY <1>6 DEF FetchStore
  <2> QED
    BY <1>1, <1>2, <2>1, <2>2, FetchedSetAge, NaturalBounds
<1> QED
  BY <1>5, <1>6, VerdictsComeFromKeys

(* A good token is refused only while its key is new, whatever rotations,  *)
(* refreshes and outages come together (validate's except clauses).        *)
THEOREM GoodTokensAreAccepted ==
    ASSUME Cooldown > 0
    PROVE  Spec => GoodTokensWork
<1>1. ValidatorInv /\ [Next]_vars =>
        [\A p \in Threads :
           LET t == thread[p].token IN
           /\ Answers(p, 401)
           /\ t.signer = t.kid /\ t.claims = "good" /\ now < t.exp
           /\ published[t.signer].on
           => now - published[t.signer].at < Cooldown + FetchTime]_vars
  BY RefusedSigner
<1> QED
  BY <1>1, ValidatorInvariant, PTL DEF Spec, GoodTokensWork
=============================================================================
