---------------------------- MODULE UserAccounts ----------------------------
(***************************************************************************)
(* Local accounts: the requests that resolve a validated identity to a     *)
(* user and provision the user on first sight, the command that grants the *)
(* admin role, and the races between them.  Transactions run at READ       *)
(* COMMITTED and are split where they can wait: for the unique key of an   *)
(* identity another transaction has inserted, or for the row of a user.    *)
(*                                                                         *)
(* The id of a user is the request that created it: an id is a fresh UUID  *)
(* and a request creates at most one user.                                 *)
(***************************************************************************)
EXTENDS Integers, FiniteSets

CONSTANTS Requests,    \* authenticated API requests
          Operators,   \* runs of the command that grants the admin role
          Identities,  \* (issuer, subject) pairs
          Fields,      \* profile columns: email, display_name
          Values,      \* what a token may say in them
          MaxAborts,   \* bound: transactions that fail
          NULL

Claims == [Fields -> Values \cup {NULL}]
Procs == Requests \cup Operators

(* What a request ends with, and what an operator ends with.               *)
Ended == {"answered", "inactive", "misconfigured", "unresolved", "failed",
          "granted", "refused"}
Labels == Ended \cup {"idle", "find", "create", "insert", "created",
                      "findAgain", "update", "updated", "granting"}

ASSUME AccountsAssumption ==
    /\ NULL \notin Procs \cup Values
    /\ Requests \cap Operators = {}
    /\ MaxAborts \in Nat

VARIABLES
    seeded,    \* roles table: the names that migrations have inserted
    users,     \* users table: ids of the rows
    active,    \* active[u]: is_active
    profile,   \* profile[u]: email and display_name
    roles,     \* user_roles table
    identity,  \* user_identities table: identity[i] is a user or NULL
    key,       \* key[i]: transaction with an uncommitted identity row, or NULL
    row,       \* row[u]: transaction that holds the row lock of u, or NULL
    pc,        \* pc[p]: where the request or the operator is
    token,     \* token[p]: identity and claims of the request, or NULL
    account,   \* account[p]: the user it found or is about, or NULL
    updates,   \* updates[p]: profile values it is going to store
    late,      \* requests that began when their account was already inactive
    aborts     \* transactions that have failed

table == <<seeded, users, active, profile, roles, identity>>
locals == <<pc, token, account, updates>>
vars == <<table, key, row, locals, late, aborts>>

Unset == [f \in Fields |-> NULL]

(* Types, and locks held by exactly the transactions that are past them    *)
(* (the primary key of user_identities, FOR UPDATE and UPDATE on users).   *)
TypeOK ==
    /\ seeded \subseteq {"member", "admin"}
    /\ users \subseteq Requests
    /\ active \in [Requests -> BOOLEAN]
    /\ profile \in [Requests -> Claims]
    /\ roles \in [Requests -> SUBSET {"member", "admin"}]
    /\ identity \in [Identities -> Requests \cup {NULL}]
    /\ key \in [Identities -> Requests \cup {NULL}]
    /\ row \in [Requests -> Procs \cup {NULL}]
    /\ pc \in [Procs -> Labels]
    /\ token \in [Requests -> [identity : Identities, claims : Claims] \cup {NULL}]
    /\ account \in [Procs -> Requests \cup {NULL}]
    /\ updates \in [Requests -> Claims]
    /\ late \subseteq Requests
    /\ aborts \in 0..MaxAborts
    /\ \A p \in Requests, i \in Identities :
         key[i] = p <=> pc[p] = "created" /\ token[p].identity = i
    /\ \A p \in Procs, u \in Requests :
         row[u] = p <=> pc[p] \in {"updated", "granting"} /\ account[p] = u

Init ==
    /\ seeded \in {{}, {"member"}, {"member", "admin"}}
    /\ users = {}
    /\ active = [u \in Requests |-> TRUE]
    /\ profile = [u \in Requests |-> Unset]
    /\ roles = [u \in Requests |-> {}]
    /\ identity = [i \in Identities |-> NULL]
    /\ key = [i \in Identities |-> NULL]
    /\ row = [u \in Requests |-> NULL]
    /\ pc = [p \in Procs |-> "idle"]
    /\ token = [p \in Requests |-> NULL]
    /\ account = [p \in Procs |-> NULL]
    /\ updates = [p \in Requests |-> Unset]
    /\ late = {} /\ aborts = 0

Goto(p, label) == pc' = [pc EXCEPT ![p] = label]

(* COMMIT and ROLLBACK drop the locks of p.                                *)
Release(p) ==
    /\ key' = [i \in Identities |-> IF key[i] = p THEN NULL ELSE key[i]]
    /\ row' = [u \in Requests |-> IF row[u] = p THEN NULL ELSE row[u]]

-----------------------------------------------------------------------------
(* ResolveCurrentUser.execute                                              *)

Inactive(i) == identity[i] # NULL /\ ~active[identity[i]]

(* A request arrives with a token that has been validated.                 *)
Begin(p, i) ==
    /\ pc[p] = "idle"
    /\ \E claims \in Claims :
         token' = [token EXCEPT ![p] = [identity |-> i, claims |-> claims]]
    /\ late' = IF Inactive(i) THEN late \cup {p} ELSE late
    /\ Goto(p, "find")
    /\ UNCHANGED <<table, key, row, account, updates, aborts>>

(* _synchronize_profile: claims that are present and differ.               *)
Changes(p, u) ==
    [f \in Fields |-> IF token[p].claims[f] # profile[u][f]
                      THEN token[p].claims[f] ELSE NULL]

(* The account exists: refuse it if inactive, update it if the token says  *)
(* something new, or answer at once.                                       *)
Found(p, u) ==
    /\ account' = [account EXCEPT ![p] = u]
    /\ updates' = [updates EXCEPT ![p] = Changes(p, u)]
    /\ Goto(p, CASE ~active[u] -> "inactive"
                 [] active[u] /\ Changes(p, u) = Unset -> "answered"
                 [] OTHER -> "update")

(* find_by_identity, in the first transaction or in the one that follows a *)
(* conflict.                                                               *)
Find(p) ==
    /\ pc[p] \in {"find", "findAgain"}
    /\ LET u == identity[token[p].identity] IN
       \/ u # NULL /\ Found(p, u)
       \/ /\ u = NULL
          /\ Goto(p, IF pc[p] = "find" THEN "create" ELSE "unresolved")
          /\ UNCHANGED <<account, updates>>
    /\ UNCHANGED <<table, key, row, token, late, aborts>>

(* create_with_identity_and_role: the role must be there; the user row is  *)
(* inserted and stays invisible.                                           *)
Create(p) ==
    /\ pc[p] = "create"
    /\ Goto(p, IF "member" \in seeded THEN "insert" ELSE "misconfigured")
    /\ UNCHANGED <<table, key, row, token, account, updates, late, aborts>>

(* Faulty variant: a conflict repeats the insert instead of looking again. *)
InsertIdentity_Retries(p) ==
    LET i == token[p].identity IN
    /\ pc[p] = "insert"
    /\ key[i] = NULL
    /\ identity[i] = NULL
    /\ key' = [key EXCEPT ![i] = p]
    /\ Goto(p, "created")
    /\ UNCHANGED <<table, row, token, account, updates, late, aborts>>

(* Faulty variant: the user row outlives the conflict over its identity.   *)
InsertIdentity_KeepsUser(p) ==
    LET i == token[p].identity IN
    /\ pc[p] = "insert"
    /\ key[i] = NULL
    /\ \/ /\ identity[i] # NULL
          /\ users' = users \cup {p}
          /\ Goto(p, "findAgain")
          /\ UNCHANGED key
       \/ /\ identity[i] = NULL
          /\ key' = [key EXCEPT ![i] = p]
          /\ Goto(p, "created")
          /\ UNCHANGED users
    /\ UNCHANGED <<seeded, active, profile, roles, identity, row, token,
                   account, updates, late, aborts>>

(* The flush of the identity waits for another transaction that holds the  *)
(* key.  If the identity is assigned by then, the transaction rolls back   *)
(* with IdentityAlreadyAssignedError.                                      *)
InsertIdentity(p) ==
    LET i == token[p].identity IN
    /\ pc[p] = "insert"
    /\ key[i] = NULL
    /\ \/ /\ identity[i] # NULL
          /\ Goto(p, "findAgain")
          /\ UNCHANGED key
       \/ /\ identity[i] = NULL
          /\ key' = [key EXCEPT ![i] = p]
          /\ Goto(p, "created")
    /\ UNCHANGED <<table, row, token, account, updates, late, aborts>>

(* The user, the identity and the member role become visible together.     *)
CommitCreate(p) ==
    /\ pc[p] = "created"
    /\ users' = users \cup {p}
    /\ profile' = [profile EXCEPT ![p] = token[p].claims]
    /\ roles' = [roles EXCEPT ![p] = {"member"}]
    /\ identity' = [identity EXCEPT ![token[p].identity] = p]
    /\ account' = [account EXCEPT ![p] = p]
    /\ Release(p)
    /\ Goto(p, "answered")
    /\ UNCHANGED <<seeded, active, token, updates, late, aborts>>

(* update_profile waits for the row.                                       *)
UpdateProfile(p) ==
    /\ pc[p] = "update"
    /\ row[account[p]] = NULL
    /\ row' = [row EXCEPT ![account[p]] = p]
    /\ Goto(p, "updated")
    /\ UNCHANGED <<table, key, token, account, updates, late, aborts>>

(* Faulty variant: the whole profile is written.                           *)
CommitUpdate_WholeProfile(p) ==
    /\ pc[p] = "updated"
    /\ profile' = [profile EXCEPT ![account[p]] = updates[p]]
    /\ Release(p)
    /\ Goto(p, "answered")
    /\ UNCHANGED <<seeded, users, active, roles, identity, token, account,
                   updates, late, aborts>>

(* Only columns that the application marked as changed are written.        *)
CommitUpdate(p) ==
    /\ pc[p] = "updated"
    /\ profile' = [profile EXCEPT ![account[p]] =
         [f \in Fields |-> IF updates[p][f] # NULL THEN updates[p][f] ELSE @[f]]]
    /\ Release(p)
    /\ Goto(p, "answered")
    /\ UNCHANGED <<seeded, users, active, roles, identity, token, account,
                   updates, late, aborts>>

-----------------------------------------------------------------------------
(* GrantAdmin.execute, and changes made in the database by hand            *)

(* Faulty variant: grants to whoever exists.                               *)
GrantFind_AnyUser(a, u) ==
    /\ pc[a] = "idle"
    /\ row[u] = NULL
    /\ account' = [account EXCEPT ![a] = u]
    /\ \/ /\ u \in users /\ "admin" \in seeded
          /\ row' = [row EXCEPT ![u] = a]
          /\ Goto(a, "granting")
       \/ /\ ~(u \in users /\ "admin" \in seeded)
          /\ Goto(a, "refused")
          /\ UNCHANGED row
    /\ UNCHANGED <<table, key, token, updates, late, aborts>>

(* find_for_grant locks the row and the checks read it under that lock.    *)
GrantFind(a, u) ==
    /\ pc[a] = "idle"
    /\ row[u] = NULL
    /\ account' = [account EXCEPT ![a] = u]
    /\ \/ /\ u \in users /\ active[u] /\ "admin" \in seeded
          /\ row' = [row EXCEPT ![u] = a]
          /\ Goto(a, "granting")
       \/ /\ ~(u \in users /\ active[u] /\ "admin" \in seeded)
          /\ Goto(a, "refused")
          /\ UNCHANGED row
    /\ UNCHANGED <<table, key, token, updates, late, aborts>>

(* add_role: once, whoever else grants it.                                 *)
GrantCommit(a) ==
    /\ pc[a] = "granting"
    /\ roles' = [roles EXCEPT ![account[a]] = @ \cup {"admin"}]
    /\ Release(a)
    /\ Goto(a, "granted")
    /\ UNCHANGED <<seeded, users, active, profile, identity, token, account,
                   updates, late, aborts>>

(* An account is disabled in the database.                                 *)
Deactivate(u) ==
    /\ u \in users /\ active[u]
    /\ row[u] = NULL
    /\ active' = [active EXCEPT ![u] = FALSE]
    /\ UNCHANGED <<seeded, users, profile, roles, identity, key, row, locals,
                   late, aborts>>

(* A statement or the connection fails: the transaction rolls back and the *)
(* request is answered with 503.                                           *)
Abort(p) ==
    /\ pc[p] \notin Ended \cup {"idle"}
    /\ aborts < MaxAborts /\ aborts' = aborts + 1
    /\ Release(p)
    /\ Goto(p, "failed")
    /\ UNCHANGED <<table, token, account, updates, late>>

-----------------------------------------------------------------------------
Resolve(p) ==
    \/ Find(p) \/ Create(p) \/ InsertIdentity(p) \/ CommitCreate(p)
    \/ UpdateProfile(p) \/ CommitUpdate(p)

Next ==
    \/ \E p \in Requests :
         \/ \E i \in Identities : Begin(p, i)
         \/ Resolve(p)
    \/ \E a \in Operators :
         \/ \E u \in Requests : GrantFind(a, u)
         \/ GrantCommit(a)
    \/ \E u \in Requests : Deactivate(u)
    \/ \E p \in Procs : Abort(p)

Spec == Init /\ [][Next]_vars

(* A request that has begun goes on: each has a thread of its own, and     *)
(* PostgreSQL lets a waiting transaction pass when the lock is free.       *)
FairSpec ==
    /\ Spec
    /\ \A p \in Requests : WF_vars(Resolve(p))
    /\ \A a \in Operators : WF_vars(GrantCommit(a))

-----------------------------------------------------------------------------
(* Properties                                                              *)

(* Every user row belongs to exactly one identity and every identity to an *)
(* existing member: a provisioning that loses the race leaves nothing      *)
(* behind (ResolveCurrentUser._resolve_once inside one transaction).       *)
NoOrphanUsers ==
    /\ \A u \in users : Cardinality({i \in Identities : identity[i] = u}) = 1
    /\ \A i \in Identities : identity[i] # NULL =>
         identity[i] \in users /\ "member" \in roles[identity[i]]

(* Whoever presents the same identity is the same user, whichever request  *)
(* won the race to create it (pk_user_identities).                         *)
OneUserPerIdentity ==
    \A p \in Requests :
        pc[p] = "answered" => account[p] = identity[token[p].identity]

(* The second look after a conflict always finds the account, so no        *)
(* request is answered with IdentityProvisioningError                      *)
(* (_resolve_after_concurrent_assignment).                                 *)
ConflictsResolve == \A p \in Requests : pc[p] # "unresolved"

(* A request that began after its account was disabled is not answered,    *)
(* whatever path it takes (_synchronize_profile, _as_current_user).        *)
InactiveNeverAnswered == \A p \in late : pc[p] # "answered"

(* However requests race to create, find and update an account, there is   *)
(* one, it is whole, everybody finds it, and nobody is let in with it once *)
(* it is disabled (resolve_current_user.py, user_accounts.py).             *)
AccountsConsistent ==
    /\ TypeOK
    /\ NoOrphanUsers /\ OneUserPerIdentity
    /\ ConflictsResolve /\ InactiveNeverAnswered

(* The admin role goes only to a user that is active when the grant        *)
(* commits, and provisioning never gives it (GrantAdmin.execute).          *)
GrantsOnlyActive ==
    [][\A u \in Requests : "admin" \in roles'[u] \ roles[u] =>
         active'[u] /\ \E a \in Operators : pc'[a] = "granted" /\ account[a] = u]_roles

(* A token that lacks a claim never erases what is stored, even when it    *)
(* races another update of the profile (UserProfileUpdates).               *)
ProfileNeverErased ==
    [][\A u \in Requests, f \in Fields :
         profile[u][f] # NULL => profile'[u][f] # NULL]_profile

(* Every request ends, the ones that wait for another's key or row too.    *)
EveryRequestEnds ==
    \A p \in Requests : pc[p] # "idle" ~> pc[p] \in Ended
=============================================================================
