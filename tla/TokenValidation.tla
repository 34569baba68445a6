--------------------------- MODULE TokenValidation ---------------------------
(***************************************************************************)
(* How the API decides whether a bearer token is good: the dependency      *)
(* get_validated_identity and OidcAccessTokenValidator, which request      *)
(* threads share.  The validator discovers the provider's key address once *)
(* and then owns a PyJWKClient, which caches the provider's key set.       *)
(*                                                                         *)
(* PyJWKClient is a library.  It is modelled from the arguments the code   *)
(* gives it (one cached key set with a lifespan) and from the test         *)
(* test_refreshes_jwks_after_key_rotation_cooldown: an unknown key makes   *)
(* it fetch again, but not within Cooldown of its last fetch.              *)
(***************************************************************************)
EXTENDS Integers, FiniteSets

CONSTANTS
    NULL,
    Threads,     \* request threads of the API
    Keys,        \* signing keys, each with its kid
    FirstKeys,   \* the ones published when the API starts
    Tokens,      \* tokens that clients present
    Lifespan,    \* OIDC_JWKS_CACHE_SECONDS
    Cooldown,    \* PyJWT's pause between refreshes for unknown keys
    Leeway,      \* OIDC_CLOCK_SKEW_SECONDS
    FetchTime,   \* the longest time a fetch of the key set takes
    MaxTime,     \* bound: the clock stops here
    MaxRotations \* bound: changes of the published key set

(* A token names a kid, or none when it is absent, malformed or has a      *)
(* header that is refused; it was signed by some key, and has good or bad  *)
(* claims and an expiry.                                                   *)
Token == [kid : Keys \cup {NULL}, signer : Keys, claims : {"good", "bad"},
          exp : Nat]

ASSUME TokenAssumption ==
    /\ Tokens \subseteq Token
    /\ {Lifespan, Cooldown, Leeway, FetchTime, MaxTime, MaxRotations} \subseteq Nat
    /\ FirstKeys \subseteq Keys
    /\ NULL \notin Threads \cup Keys

VARIABLES
    now,        \* the clock, monotonic and shared
    published,  \* published[k]: whether the provider publishes k, and since when
    rotations,  \* changes of the published set so far
    client,     \* _jwks_client: how many were made; 0 is None
    lock,       \* holder of _discovery_lock
    cache,      \* the cached key set and when it was stored, or NULL
    thread      \* thread[p]: the request p is serving

vars == <<now, published, rotations, client, lock, cache, thread>>
provider == <<published, rotations>>

Idle == [pc |-> "idle", token |-> NULL, keys |-> {}, since |-> 0, answer |-> NULL]

Init ==
    /\ now = 0
    /\ published = [k \in Keys |-> [on |-> k \in FirstKeys, at |-> 0]]
    /\ rotations = 0
    /\ client = 0 /\ lock = NULL /\ cache = NULL
    /\ thread = [p \in Threads |-> Idle]

Step(p, pc) == thread' = [thread EXCEPT ![p].pc = pc]

(* validate returns (200) or raises; the dependency answers 401 or 503.    *)
Reply(p, answer) ==
    thread' = [thread EXCEPT ![p] = [Idle EXCEPT !.answer = answer]]

-----------------------------------------------------------------------------
(* The provider, and time                                                  *)

Rotate(k) ==
    /\ rotations < MaxRotations
    /\ rotations' = rotations + 1
    /\ published' = [published EXCEPT ![k] = [on |-> ~@.on, at |-> now]]
    /\ UNCHANGED <<now, client, lock, cache, thread>>

(* The clock advances, but no fetch takes longer than FetchTime.           *)
Tick ==
    /\ now < MaxTime
    /\ \A p \in Threads :
        thread[p].pc \in {"fetch", "store"} => now < thread[p].since + FetchTime
    /\ now' = now + 1
    /\ UNCHANGED <<provider, client, lock, cache, thread>>

-----------------------------------------------------------------------------
(* OidcAccessTokenValidator.validate                                       *)

(* A request arrives.  A missing or malformed token, an algorithm that is  *)
(* not allowed or a missing kid is refused before anything is looked up.   *)
Receive(p) ==
    /\ thread[p].pc = "idle"
    /\ \E t \in Tokens :
        thread' = [thread EXCEPT ![p] =
            IF t.kid = NULL
            THEN [Idle EXCEPT !.answer = 401]
            ELSE [Idle EXCEPT !.token = t,
                              !.pc = IF client = 0 THEN "enter" ELSE "lookup"]]
    /\ UNCHANGED <<now, provider, client, lock, cache>>

(* Faulty variant: no second look at _jwks_client under the lock.          *)
EnterDiscovery_NoRecheck(p) ==
    /\ thread[p].pc = "enter" /\ lock = NULL
    /\ lock' = p /\ Step(p, "discover")
    /\ UNCHANGED <<now, provider, client, cache>>

(* Wait for the lock and look again: another thread may have discovered.   *)
EnterDiscovery(p) ==
    /\ thread[p].pc = "enter" /\ lock = NULL
    /\ IF client = 0 THEN lock' = p /\ Step(p, "discover")
       ELSE Step(p, "lookup") /\ UNCHANGED lock
    /\ UNCHANGED <<now, provider, client, cache>>

(* The discovery document is good: the client is made, with no keys yet.   *)
Discover(p) ==
    /\ thread[p].pc = "discover"
    /\ client' = client + 1
    /\ cache' = NULL
    /\ lock' = NULL
    /\ Step(p, "lookup")
    /\ UNCHANGED <<now, provider>>

(* Faulty variant: a failed discovery leaves the lock held.                *)
DiscoveryFails_KeepsLock(p) ==
    /\ thread[p].pc = "discover"
    /\ Reply(p, 503)
    /\ UNCHANGED <<now, provider, client, lock, cache>>

(* Unreachable, too large, not JSON, another issuer, no usable address:    *)
(* nothing is kept and the next request tries again.                       *)
DiscoveryFails(p) ==
    /\ thread[p].pc = "discover"
    /\ Reply(p, 503)
    /\ lock' = NULL
    /\ UNCHANGED <<now, provider, client, cache>>

(* jwt.decode with the key found, and the checks of sub and iss after it.  *)
Decode(t) ==
    IF t.signer = t.kid /\ t.claims = "good" /\ now < t.exp + Leeway
    THEN 200 ELSE 401

Fresh == cache # NULL /\ now - cache.at <= Lifespan

(* Look the kid up among these keys; an unknown one may be refreshed.      *)
LookupIn(p, keys, mayRefresh) ==
    IF thread[p].token.kid \in keys
    THEN Reply(p, Decode(thread[p].token))
    ELSE IF mayRefresh
    THEN thread' = [thread EXCEPT ![p].pc = "fetch", ![p].since = now]
    ELSE Reply(p, 401)

CooledDown == now - cache.at >= Cooldown

(* Faulty variant: a cached key set never grows old.                       *)
Lookup_Forever(p) ==
    /\ thread[p].pc = "lookup"
    /\ LET keys == IF cache # NULL THEN cache.keys ELSE {}
       IN LookupIn(p, keys, cache = NULL \/ CooledDown)
    /\ UNCHANGED <<now, provider, client, lock, cache>>

(* get_signing_key_from_jwt: the cached set while it is fresh, else fetch. *)
Lookup(p) ==
    /\ thread[p].pc = "lookup"
    /\ LET keys == IF Fresh THEN cache.keys ELSE {}
       IN LookupIn(p, keys, ~Fresh \/ CooledDown)
    /\ UNCHANGED <<now, provider, client, lock, cache>>

(* The provider answers with the keys it publishes at that moment ...      *)
FetchRead(p) ==
    /\ thread[p].pc = "fetch"
    /\ thread' = [thread EXCEPT ![p].pc = "store",
                               ![p].keys = {k \in Keys : published[k].on}]
    /\ UNCHANGED <<now, provider, client, lock, cache>>

(* ... and the answer is stored when it arrives, whatever other threads    *)
(* have stored in between.  A set without keys is a PyJWKSetError.         *)
FetchStore(p) ==
    /\ thread[p].pc = "store"
    /\ cache' = [keys |-> thread[p].keys, at |-> now]
    /\ IF thread[p].keys = {} THEN Reply(p, 503)
       ELSE LookupIn(p, thread[p].keys, FALSE)
    /\ UNCHANGED <<now, provider, client, lock>>

(* Faulty variant: the handler of PyJWKClientError, the parent class, is   *)
(* reached before the one of PyJWKClientConnectionError.                   *)
FetchFails_Refuses(p) ==
    /\ thread[p].pc \in {"fetch", "store"}
    /\ Reply(p, 401)
    /\ cache' \in {cache, NULL}
    /\ UNCHANGED <<now, provider, client, lock>>

(* PyJWKClientConnectionError: the provider cannot be reached.  Whether    *)
(* the library then keeps an older set is left open.                       *)
FetchFails(p) ==
    /\ thread[p].pc \in {"fetch", "store"}
    /\ Reply(p, 503)
    /\ cache' \in {cache, NULL}
    /\ UNCHANGED <<now, provider, client, lock>>

-----------------------------------------------------------------------------

Serve(p) ==
    \/ EnterDiscovery(p) \/ Discover(p) \/ DiscoveryFails(p) \/ Lookup(p)
    \/ FetchRead(p) \/ FetchStore(p) \/ FetchFails(p)

Next ==
    \/ \E k \in Keys : Rotate(k)
    \/ Tick
    \/ \E p \in Threads : Receive(p) \/ Serve(p)

Spec == Init /\ [][Next]_vars

(* Threads run on, and calls to the provider return or time out.  A        *)
(* released Lock is given to each thread that waits for it in the end.     *)
Fairness == \A p \in Threads : WF_vars(Serve(p)) /\ SF_vars(EnterDiscovery(p))

FairSpec == Spec /\ Fairness

-----------------------------------------------------------------------------

(* Types; the holder of _discovery_lock is the one thread that discovers;  *)
(* and however many first requests race, the client and the key cache      *)
(* inside it are made once (_get_jwks_client).                             *)
TypeOK ==
    /\ now \in 0..MaxTime
    /\ published \in [Keys -> [on : BOOLEAN, at : 0..now]]
    /\ rotations \in 0..MaxRotations
    /\ client \in 0..1
    /\ cache = NULL \/ cache \in [keys : SUBSET Keys, at : 0..now]
    /\ thread \in [Threads ->
            [pc : {"idle", "enter", "discover", "lookup", "fetch", "store"},
             token : Tokens \cup {NULL}, keys : SUBSET Keys, since : 0..now,
             answer : {NULL, 200, 401, 503}]]
    /\ \A p \in Threads : thread[p].pc = "discover" <=> lock = p

(* p is given this answer in the present step.                             *)
Answers(p, answer) ==
    thread[p].pc # "idle" /\ thread'[p].pc = "idle" /\ thread'[p].answer = answer

(* A withdrawn key is trusted no longer than the lifespan of a cached set  *)
(* and the time its fetch took, even when an older answer is stored over a *)
(* newer one; and no other key is trusted at all (validate).               *)
WithdrawnKeysExpire ==
    [][\A p \in Threads : Answers(p, 200) =>
         LET signer == published[thread[p].token.signer] IN
         signer.on \/ now - signer.at <= Lifespan + FetchTime]_vars

(* A good token is refused with 401 only while its key is new: within      *)
(* Cooldown and FetchTime of its publication.  An outage of the provider   *)
(* is a 503, never a verdict on the token (validate's except clauses).     *)
GoodTokensWork ==
    [][\A p \in Threads :
         LET t == thread[p].token IN
         /\ Answers(p, 401)
         /\ t.signer = t.kid /\ t.claims = "good" /\ now < t.exp
         /\ published[t.signer].on
         => now - published[t.signer].at < Cooldown + FetchTime]_vars

(* Every request is answered: a failed discovery holds nobody up.          *)
EveryRequestAnswered ==
    \A p \in Threads : thread[p].pc # "idle" ~> thread[p].pc = "idle"
=============================================================================
