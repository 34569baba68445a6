------------------------- MODULE UserAccountsProofs -------------------------
(***************************************************************************)
(* Proofs about UserAccounts for any number of requests, operators and     *)
(* identities: however provisioning, updates, grants and deactivations     *)
(* interleave, every identity has one account, it is whole, nobody is      *)
(* answered with a disabled one, only active users become admins, and no   *)
(* stored claim is erased.                                                 *)
(***************************************************************************)
EXTENDS UserAccounts, FiniteSetTheorems, TLAPS

RequestLabels == Labels \ {"granting", "granted", "refused"}
OperatorLabels == {"idle", "granting", "granted", "refused", "failed"}

Told(p) == token[p] \in [identity : Identities, claims : Claims]
Mine(p) == identity[token[p].identity]

(* A request that found the account's identity free holds the key that     *)
(* keeps it free; one that lost the race finds the winner's account; and   *)
(* whoever was late has nowhere to go but to the refusal.  The user that a *)
(* request created is the one its identity names.                          *)
RequestTrue(p) ==
    /\ pc[p] \in RequestLabels
    /\ pc[p] # "idle" => Told(p)
    /\ pc[p] = "created" => Mine(p) = NULL
    /\ pc[p] = "findAgain" => Mine(p) # NULL
    /\ pc[p] # "unresolved"
    /\ pc[p] \in {"update", "updated", "answered"} =>
         account[p] = Mine(p) /\ Mine(p) # NULL
    /\ p \in late =>
         pc[p] \in {"find", "inactive", "failed"} /\ Mine(p) # NULL /\ ~active[Mine(p)]
    /\ p \in users => pc[p] = "answered" /\ Mine(p) = p /\ "member" \in roles[p]
    /\ p \notin users => profile[p] = Unset

(* The row lock keeps the account active while a grant is under way.       *)
OperatorTrue(a) ==
    /\ pc[a] \in OperatorLabels
    /\ pc[a] = "granting" => account[a] \in users /\ active[account[a]]

(* An identity leads to a user who presented it.                           *)
IdentityTrue(i) ==
    identity[i] # NULL => identity[i] \in users /\ token[identity[i]].identity = i

AccountsInv ==
    /\ TypeOK
    /\ \A p \in Requests : RequestTrue(p)
    /\ \A a \in Operators : OperatorTrue(a)
    /\ \A i \in Identities : IdentityTrue(i)

(* NULL is told apart from requests and operators.                         *)
LEMMA NullIsNoValue ==
    /\ \A p \in Procs : p # NULL
    /\ \A p \in Requests : p \in Procs /\ p # NULL /\ p \notin Operators
    /\ \A a \in Operators : a \in Procs /\ a # NULL /\ a \notin Requests
BY AccountsAssumption DEF Procs

(* The invariant holds before the first request.                           *)
LEMMA InitInv == Init => AccountsInv
<1> SUFFICES ASSUME Init PROVE AccountsInv
  OBVIOUS
<1>1. TypeOK
  BY NullIsNoValue, AccountsAssumption DEF Init, TypeOK, Labels, Ended, Unset, Claims
<1>2. \A p \in Requests : RequestTrue(p)
  BY NullIsNoValue DEF Init, RequestTrue, RequestLabels, Labels, Ended
<1>3. \A a \in Operators : OperatorTrue(a)
  BY NullIsNoValue DEF Init, OperatorTrue, OperatorLabels
<1>4. \A i \in Identities : IdentityTrue(i)
  BY DEF Init, IdentityTrue
<1> QED
  BY <1>1, <1>2, <1>3, <1>4 DEF AccountsInv

-----------------------------------------------------------------------------
(* Types and locks                                                         *)

Types ==
    /\ seeded \subseteq {"member", "admin"}
    /\ users \subseteq Requests
    /\ active \in [Requests -> BOOLEAN]
    /\ profile \in [Requests -> Claims]
    /\ roles \in [Requests -> SUBSET {"member", "admin"}]
    /\ identity \in [Identities -> Requests \cup {NULL}]
    /\ key \in [Identities -> Requests \cup {NULL}]
    /\ row \in [Requests -> Procs \cup {NULL}]
    /\ pc \in [Procs -> Labels]
    /\ token \in [Requests -> [identity : Identities, claims : Claims] \cup {NULL}]
    /\ account \in [Procs -> Requests \cup {NULL}]
    /\ updates \in [Requests -> Claims]
    /\ late \subseteq Requests
    /\ aborts \in 0..MaxAborts

KeysHeld ==
    \A p \in Requests, i \in Identities :
        key[i] = p <=> pc[p] = "created" /\ token[p].identity = i
RowsHeld ==
    \A p \in Procs, u \in Requests :
        row[u] = p <=> pc[p] \in {"updated", "granting"} /\ account[p] = u

(* The type invariant in parts.                                            *)
LEMMA TypeParts == TypeOK <=> Types /\ KeysHeld /\ RowsHeld
BY DEF TypeOK, Types, KeysHeld, RowsHeld

(* The same for the next state.                                            *)
LEMMA NextTypeParts == Types' /\ KeysHeld' /\ RowsHeld' => TypeOK'
BY DEF TypeOK, Types, KeysHeld, RowsHeld

(* A transaction that ends lets its locks go and takes no others.          *)
LEMMA ReleaseLocks ==
    ASSUME Types, KeysHeld, RowsHeld, NEW p \in Procs, NEW label \in Labels,
           label \notin {"created", "updated", "granting"},
           Release(p), Goto(p, label), UNCHANGED token,
           \A q \in Procs \ {p} : account'[q] = account[q]
    PROVE  KeysHeld' /\ RowsHeld'
<1>1. pc'[p] = label /\ \A q \in Procs \ {p} : pc'[q] = pc[q]
  BY DEF Types, Goto
<1>2. \A i \in Identities : key'[i] = IF key[i] = p THEN NULL ELSE key[i]
  BY DEF Release
<1>3. \A u \in Requests : row'[u] = IF row[u] = p THEN NULL ELSE row[u]
  BY DEF Release
<1>4. KeysHeld'
  BY <1>1, <1>2, NullIsNoValue DEF KeysHeld
<1>5. RowsHeld'
  BY <1>1, <1>3, NullIsNoValue DEF RowsHeld
<1> QED
  BY <1>4, <1>5

(* The end of a transaction frees locks and keeps the types.               *)
LEMMA ReleaseTypes ==
    ASSUME Types, NEW p \in Procs, NEW label \in Labels, Release(p), Goto(p, label)
    PROVE  /\ key' \in [Identities -> Requests \cup {NULL}]
           /\ row' \in [Requests -> Procs \cup {NULL}]
           /\ pc' \in [Procs -> Labels]
BY DEF Types, Release, Goto

(* A step outside the lock labels on both sides keeps all locks.           *)
LEMMA NoLockChange ==
    ASSUME Types, KeysHeld, RowsHeld, NEW p \in Procs, NEW label \in Labels,
           pc[p] \notin {"created", "updated", "granting"},
           label \notin {"created", "updated", "granting"},
           Goto(p, label), UNCHANGED <<key, row>>,
           \A q \in Procs \ {p} : account'[q] = account[q],
           \A q \in Requests \ {p} : token'[q] = token[q]
    PROVE  KeysHeld' /\ RowsHeld'
<1>1. pc'[p] = label /\ \A q \in Procs \ {p} : pc'[q] = pc[q]
  BY DEF Types, Goto
<1> QED
  BY <1>1, NullIsNoValue DEF KeysHeld, RowsHeld

(* Requests keep the types.                                                *)
LEMMA RequestTypes ==
    ASSUME AccountsInv, NEW p \in Requests,
           (\E i \in Identities : Begin(p, i)) \/ Resolve(p)
    PROVE  TypeOK'
<1>0. /\ Types /\ KeysHeld /\ RowsHeld /\ p \in Procs /\ RequestTrue(p)
      /\ pc[p] # "idle" => Told(p)
  BY TypeParts, NullIsNoValue DEF AccountsInv, RequestTrue
<1>1. ASSUME NEW i \in Identities, Begin(p, i)
      PROVE  TypeOK'
  <2>1. Types'
    <3>1. pc' \in [Procs -> Labels]
      BY <1>0, <1>1 DEF Begin, Goto, Types, Labels
    <3>2. token' \in [Requests -> [identity : Identities, claims : Claims] \cup {NULL}]
      BY <1>0, <1>1 DEF Begin, Types
    <3> QED
      BY <1>0, <1>1, <3>1, <3>2 DEF Begin, Types, table
  <2>2. KeysHeld' /\ RowsHeld'
    <3>1. "find" \in Labels
      BY DEF Labels
    <3>2. \A q \in Requests \ {p} : token'[q] = token[q]
      BY <1>0, <1>1 DEF Begin, Types
    <3> QED
      BY <1>0, <1>1, <3>1, <3>2, NoLockChange DEF Begin
  <2> QED
    BY <2>1, <2>2, NextTypeParts
<1>2. CASE Find(p)
  <2> DEFINE u == identity[token[p].identity]
  <2>1. u \in Requests \cup {NULL} /\ token[p].claims \in Claims
    BY <1>0, <1>2 DEF Find, Told, Types
  <2>2. PICK label \in Labels \ {"created", "updated", "granting"} : Goto(p, label)
    BY <1>2 DEF Find, Found, Labels, Ended
  <2>3. /\ account' \in [Procs -> Requests \cup {NULL}]
        /\ updates' \in [Requests -> Claims]
        /\ \A q \in Procs \ {p} : account'[q] = account[q]
    <3>1. CASE u # NULL /\ Found(p, u)
      <4>1. Changes(p, u) \in Claims
        <5>1. profile[u] \in Claims /\ NULL \in Values \cup {NULL}
          BY <2>1, <3>1, <1>0 DEF Types
        <5> QED
          BY <2>1, <5>1 DEF Changes, Claims
      <4>2. /\ account' = [account EXCEPT ![p] = u]
            /\ updates' = [updates EXCEPT ![p] = Changes(p, u)]
        BY <3>1 DEF Found
      <4> HIDE DEF u
      <4> QED
        BY <1>0, <2>1, <4>1, <4>2 DEF Types
    <3>2. CASE UNCHANGED <<account, updates>>
      BY <1>0, <3>2 DEF Types
    <3> QED
      BY <1>2, <3>1, <3>2 DEF Find
  <2>4. pc' \in [Procs -> Labels]
    BY <1>0, <2>2 DEF Goto, Types
  <2>5. Types'
    BY <1>0, <1>2, <2>3, <2>4 DEF Find, Types, table
  <2>6. KeysHeld' /\ RowsHeld'
    BY <1>0, <1>2, <2>2, <2>3, NoLockChange DEF Find
  <2> QED
    BY <2>5, <2>6, NextTypeParts
<1>3. CASE Create(p)
  <2>1. PICK label \in Labels \ {"created", "updated", "granting"} : Goto(p, label)
    BY <1>3 DEF Create, Labels, Ended
  <2>2. Types'
    BY <1>0, <1>3, <2>1 DEF Create, Goto, Types, table
  <2>3. KeysHeld' /\ RowsHeld'
    BY <1>0, <1>3, <2>1, NoLockChange DEF Create
  <2> QED
    BY <2>2, <2>3, NextTypeParts
<1>4. CASE InsertIdentity(p)
  <2> DEFINE i == token[p].identity
  <2>1. /\ i \in Identities /\ pc[p] = "insert" /\ key[i] = NULL
        /\ UNCHANGED <<table, row, token, account, updates, late, aborts>>
    BY <1>0, <1>4 DEF InsertIdentity, Told
  <2>2. CASE Goto(p, "findAgain") /\ UNCHANGED key
    <3>1. "findAgain" \in Labels
      BY DEF Labels
    <3>2. Types'
      BY <1>0, <2>1, <2>2, <3>1 DEF Goto, Types, table
    <3>3. KeysHeld' /\ RowsHeld'
      BY <1>0, <2>1, <2>2, <3>1, NoLockChange
    <3> QED
      BY <3>2, <3>3, NextTypeParts
  <2>3. CASE key' = [key EXCEPT ![i] = p] /\ Goto(p, "created")
    <3>1. pc'[p] = "created" /\ \A q \in Procs \ {p} : pc'[q] = pc[q]
      BY <1>0, <2>3 DEF Goto, Types
    <3>2. \A j \in Identities : key'[j] = IF j = i THEN p ELSE key[j]
      BY <1>0, <2>1, <2>3 DEF Types
    <3>3. Types'
      <4>1. "created" \in Labels
        BY DEF Labels
      <4>2. key' \in [Identities -> Requests \cup {NULL}] /\ pc' \in [Procs -> Labels]
        BY <1>0, <2>1, <2>3, <4>1 DEF Goto, Types
      <4> QED
        BY <1>0, <2>1, <4>2 DEF Types, table
    <3>4. KeysHeld'
      <4>1. \A q \in Requests, j \in Identities :
              key'[j] = q <=> pc'[q] = "created" /\ token[q].identity = j
        BY <1>0, <2>1, <3>1, <3>2, NullIsNoValue DEF KeysHeld
      <4> QED
        BY <2>1, <4>1 DEF KeysHeld
    <3>5. RowsHeld'
      BY <1>0, <2>1, <3>1 DEF RowsHeld
    <3> QED
      BY <3>3, <3>4, <3>5, NextTypeParts
  <2> QED
    BY <1>4, <2>2, <2>3 DEF InsertIdentity
<1>5. CASE CommitCreate(p)
  <2>1. "answered" \in Labels /\ token[p].identity \in Identities /\ token[p].claims \in Claims
    BY <1>0, <1>5 DEF CommitCreate, Told, Labels, Ended
  <2>2. /\ users' \subseteq Requests /\ profile' \in [Requests -> Claims]
        /\ roles' \in [Requests -> SUBSET {"member", "admin"}]
        /\ identity' \in [Identities -> Requests \cup {NULL}]
        /\ account' \in [Procs -> Requests \cup {NULL}]
        /\ \A q \in Procs \ {p} : account'[q] = account[q]
    BY <1>0, <1>5, <2>1 DEF CommitCreate, Types
  <2>3. Types'
    BY <1>0, <1>5, <2>1, <2>2, ReleaseTypes DEF CommitCreate, Types
  <2>4. KeysHeld' /\ RowsHeld'
    BY <1>0, <1>5, <2>1, <2>2, ReleaseLocks DEF CommitCreate
  <2> QED
    BY <2>3, <2>4, NextTypeParts
<1>6. CASE UpdateProfile(p)
  <2> DEFINE u == account[p]
  <2>1. /\ pc[p] = "update" /\ u \in Requests /\ row[u] = NULL
        /\ row' = [row EXCEPT ![u] = p]
        /\ UNCHANGED <<table, key, token, account, updates, late, aborts>>
    BY <1>0, <1>6 DEF UpdateProfile, RequestTrue, Types
  <2>2. /\ pc'[p] = "updated" /\ \A q \in Procs \ {p} : pc'[q] = pc[q]
        /\ \A v \in Requests : row'[v] = IF v = u THEN p ELSE row[v]
    BY <1>0, <1>6, <2>1 DEF UpdateProfile, Goto, Types
  <2>3. Types'
    <3>1. row' \in [Requests -> Procs \cup {NULL}] /\ pc' \in [Procs -> Labels]
      BY <1>0, <1>6, <2>1 DEF UpdateProfile, Goto, Types, Labels
    <3> QED
      BY <1>0, <2>1, <3>1 DEF Types, table
  <2>4. KeysHeld'
    BY <1>0, <2>1, <2>2, NullIsNoValue DEF KeysHeld
  <2>5. RowsHeld'
    <3>1. \A q \in Procs, v \in Requests :
            row'[v] = q <=> pc'[q] \in {"updated", "granting"} /\ account[q] = v
      BY <1>0, <2>1, <2>2, NullIsNoValue DEF RowsHeld
    <3> QED
      BY <2>1, <3>1 DEF RowsHeld
  <2> QED
    BY <2>3, <2>4, <2>5, NextTypeParts
<1>7. CASE CommitUpdate(p)
  <2>1. "answered" \in Labels /\ account[p] \in Requests
    BY <1>0, <1>7 DEF CommitUpdate, RequestTrue, Types, Labels, Ended
  <2>2. profile' \in [Requests -> Claims]
    <3> DEFINE new == [f \in Fields |-> IF updates[p][f] # NULL
                                        THEN updates[p][f] ELSE profile[account[p]][f]]
    <3>1. new \in Claims
      <4>1. updates[p] \in Claims /\ profile[account[p]] \in Claims
        BY <1>0, <2>1 DEF Types
      <4> QED
        BY <4>1 DEF Claims
    <3>2. profile' = [profile EXCEPT ![account[p]] = new]
      BY <1>7 DEF CommitUpdate
    <3> HIDE DEF new
    <3> QED
      BY <1>0, <2>1, <3>1, <3>2 DEF Types
  <2>3. Types'
    BY <1>0, <1>7, <2>1, <2>2, ReleaseTypes DEF CommitUpdate, Types
  <2>4. KeysHeld' /\ RowsHeld'
    BY <1>0, <1>7, <2>1, ReleaseLocks DEF CommitUpdate
  <2> QED
    BY <2>3, <2>4, NextTypeParts
<1> QED
  BY <1>1, <1>2, <1>3, <1>4, <1>5, <1>6, <1>7 DEF Resolve

(* Grants, deactivations and aborts keep the types.                        *)
LEMMA OtherTypes ==
    ASSUME AccountsInv,
           \/ \E a \in Operators : (\E u \in Requests : GrantFind(a, u)) \/ GrantCommit(a)
           \/ \E u \in Requests : Deactivate(u)
           \/ \E p \in Procs : Abort(p)
    PROVE  TypeOK'
<1>0. Types /\ KeysHeld /\ RowsHeld
  BY TypeParts DEF AccountsInv
<1>1. ASSUME NEW a \in Operators, NEW u \in Requests, GrantFind(a, u)
      PROVE  TypeOK'
  <2>1. /\ a \in Procs /\ pc[a] = "idle" /\ row[u] = NULL
        /\ account' = [account EXCEPT ![a] = u]
        /\ UNCHANGED <<table, key, token, updates, late, aborts>>
    BY <1>1, NullIsNoValue DEF GrantFind
  <2>2. /\ account' \in [Procs -> Requests \cup {NULL}]
        /\ account'[a] = u /\ \A q \in Procs \ {a} : account'[q] = account[q]
    BY <1>0, <2>1 DEF Types
  <2>3. CASE Goto(a, "refused") /\ UNCHANGED row
    <3>1. "refused" \in Labels
      BY DEF Labels, Ended
    <3>2. Types'
      BY <1>0, <2>1, <2>2, <2>3, <3>1 DEF Goto, Types, table
    <3>3. KeysHeld' /\ RowsHeld'
      BY <1>0, <2>1, <2>2, <2>3, <3>1, NoLockChange
    <3> QED
      BY <3>2, <3>3, NextTypeParts
  <2>4. CASE Goto(a, "granting") /\ row' = [row EXCEPT ![u] = a]
    <3>1. /\ pc'[a] = "granting" /\ \A q \in Procs \ {a} : pc'[q] = pc[q]
          /\ \A v \in Requests : row'[v] = IF v = u THEN a ELSE row[v]
      BY <1>0, <2>1, <2>4 DEF Goto, Types
    <3>2. Types'
      <4>1. row' \in [Requests -> Procs \cup {NULL}] /\ pc' \in [Procs -> Labels]
        BY <1>0, <2>1, <2>4 DEF Goto, Types, Labels
      <4> QED
        BY <1>0, <2>1, <2>2, <4>1 DEF Types, table
    <3>3. KeysHeld'
      BY <1>0, <2>1, <3>1, NullIsNoValue DEF KeysHeld
    <3>4. RowsHeld'
      <4>1. \A q \in Procs, v \in Requests :
              row'[v] = q <=> pc'[q] \in {"updated", "granting"} /\ account'[q] = v
        BY <1>0, <2>1, <2>2, <3>1, NullIsNoValue DEF RowsHeld
      <4> QED
        BY <4>1 DEF RowsHeld
    <3> QED
      BY <3>2, <3>3, <3>4, NextTypeParts
  <2> QED
    BY <1>1, <2>3, <2>4 DEF GrantFind
<1>2. ASSUME NEW a \in Operators, GrantCommit(a)
      PROVE  TypeOK'
  <2>1. "granted" \in Labels /\ a \in Procs
    BY NullIsNoValue DEF Labels, Ended
  <2>2. roles' \in [Requests -> SUBSET {"member", "admin"}]
    BY <1>0, <1>2 DEF GrantCommit, Types
  <2>3. Types'
    BY <1>0, <1>2, <2>1, <2>2, ReleaseTypes DEF GrantCommit, Types
  <2>4. KeysHeld' /\ RowsHeld'
    BY <1>0, <1>2, <2>1, ReleaseLocks DEF GrantCommit
  <2> QED
    BY <2>3, <2>4, NextTypeParts
<1>3. ASSUME NEW u \in Requests, Deactivate(u)
      PROVE  TypeOK'
  <2>1. Types'
    BY <1>0, <1>3 DEF Deactivate, Types, locals
  <2>2. KeysHeld' /\ RowsHeld'
    BY <1>0, <1>3 DEF Deactivate, KeysHeld, RowsHeld, locals
  <2> QED
    BY <2>1, <2>2, NextTypeParts
<1>4. ASSUME NEW p \in Procs, Abort(p)
      PROVE  TypeOK'
  <2>1. "failed" \in Labels
    BY DEF Labels, Ended
  <2>2. aborts' \in 0..MaxAborts
    BY <1>0, <1>4, AccountsAssumption DEF Abort, Types
  <2>3. Types'
    BY <1>0, <1>4, <2>1, <2>2, ReleaseTypes DEF Abort, Types, table
  <2>4. KeysHeld' /\ RowsHeld'
    BY <1>0, <1>4, <2>1, ReleaseLocks DEF Abort
  <2> QED
    BY <2>3, <2>4, NextTypeParts
<1> QED
  BY <1>1, <1>2, <1>3, <1>4

-----------------------------------------------------------------------------
(* Accounts                                                                *)

(* What other actors may do to the tables meanwhile: identities are only   *)
(* assigned, never reassigned; accounts are only disabled.                 *)
TablesMove ==
    /\ \A i \in Identities : identity[i] # NULL => identity'[i] = identity[i]
    /\ \A u \in Requests : active'[u] => active[u]

(* Nothing of a request q changes but the tables around it.                *)
RequestKept(q) ==
    /\ pc'[q] = pc[q] /\ token'[q] = token[q] /\ account'[q] = account[q]
    /\ q \in late' <=> q \in late
    /\ q \in users' <=> q \in users
    /\ q \in users => roles[q] \subseteq roles'[q]
    /\ q \notin users => profile'[q] = profile[q]
    /\ pc[q] = "created" => identity'[token[q].identity] = identity[token[q].identity]

(* What a request knows stays true while identities are only assigned and  *)
(* accounts only disabled.                                                 *)
LEMMA KeepRequest ==
    ASSUME TypeOK, TablesMove, NEW q \in Requests, RequestTrue(q), RequestKept(q)
    PROVE  RequestTrue(q)'
<1>1. pc[q] # "idle" => token[q].identity \in Identities
  BY DEF RequestTrue, Told
<1>2. pc[q] # "idle" => Mine(q) \in Requests \cup {NULL}
  BY <1>1 DEF TypeOK, Mine
<1>3. pc[q] # "idle" /\ Mine(q) # NULL => Mine(q)' = Mine(q)
  BY <1>1 DEF Mine, TablesMove, RequestKept
<1>4. pc[q] = "created" => Mine(q)' = Mine(q)
  BY DEF Mine, RequestKept
<1>5. Told(q)' <=> Told(q)
  BY DEF Told, RequestKept
<1>6. q \in late => pc'[q] # "idle" /\ ~active'[Mine(q)]
  <2>1. q \in late => Mine(q) \in Requests /\ ~active[Mine(q)]
    BY <1>2 DEF RequestTrue
  <2> QED
    BY <2>1 DEF TablesMove, RequestTrue, RequestKept
<1>7. q \in users' => pc'[q] = "answered" /\ Mine(q)' = q /\ "member" \in roles'[q]
  BY <1>3, NullIsNoValue DEF RequestTrue, RequestKept
<1>8. q \notin users' => profile'[q] = Unset
  BY DEF RequestTrue, RequestKept
<1>9. q \in late' =>
        pc'[q] \in {"find", "inactive", "failed"} /\ Mine(q)' # NULL /\ ~active'[Mine(q)']
  BY <1>3, <1>6 DEF RequestTrue, RequestKept
<1> QED
  BY <1>3, <1>4, <1>5, <1>7, <1>8, <1>9 DEF RequestTrue, RequestKept

(* A step of request p keeps every other request.                          *)
LEMMA RequestStepKeeps ==
    ASSUME AccountsInv, NEW p \in Requests,
           (\E i \in Identities : Begin(p, i)) \/ Resolve(p)
    PROVE  /\ TablesMove /\ users \subseteq users' /\ UNCHANGED active
           /\ \A q \in Procs \ {p} : pc'[q] = pc[q] /\ account'[q] = account[q]
           /\ \A q \in Requests \ {p} : RequestKept(q)
<1> USE DEF AccountsInv
<1>0. /\ Types /\ KeysHeld /\ p \in Procs /\ RequestTrue(p)
      /\ pc[p] # "idle" => token[p].identity \in Identities
      /\ Requests \subseteq Procs
  BY TypeParts, NullIsNoValue DEF RequestTrue, Told
<1>1. ASSUME NEW i \in Identities, Begin(p, i)
      PROVE  /\ TablesMove /\ users \subseteq users' /\ UNCHANGED active
             /\ \A q \in Procs \ {p} : pc'[q] = pc[q] /\ account'[q] = account[q]
             /\ \A q \in Requests \ {p} : RequestKept(q)
  BY <1>0, <1>1 DEF Begin, Goto, Types, TablesMove, RequestKept, table
<1>2. ASSUME Find(p) \/ Create(p) \/ InsertIdentity(p) \/ UpdateProfile(p)
      PROVE  /\ TablesMove /\ users \subseteq users' /\ UNCHANGED active
             /\ \A q \in Procs \ {p} : pc'[q] = pc[q] /\ account'[q] = account[q]
             /\ \A q \in Requests \ {p} : RequestKept(q)
  BY <1>0, <1>2 DEF Find, Found, Create, InsertIdentity, UpdateProfile, Goto,
     Types, TablesMove, RequestKept, table
<1>3. ASSUME CommitCreate(p)
      PROVE  /\ TablesMove /\ users \subseteq users' /\ UNCHANGED active
             /\ \A q \in Procs \ {p} : pc'[q] = pc[q] /\ account'[q] = account[q]
             /\ \A q \in Requests \ {p} : RequestKept(q)
  <2> DEFINE i == token[p].identity
  <2>1. i \in Identities /\ identity[i] = NULL /\ key[i] = p
    BY <1>0, <1>3 DEF CommitCreate, RequestTrue, Mine, KeysHeld
  <2>2. \A j \in Identities : identity'[j] = IF j = i THEN p ELSE identity[j]
    BY <1>0, <1>3, <2>1 DEF CommitCreate, Types
  <2>3. ASSUME NEW q \in Requests \ {p}, pc[q] = "created"
        PROVE  identity'[token[q].identity] = identity[token[q].identity]
    <3>1. token[q].identity \in Identities /\ token[q].identity # i
      BY <2>1, <2>3 DEF RequestTrue, Told, KeysHeld, TypeOK
    <3> QED
      BY <2>2, <3>1
  <2>4. ASSUME NEW q \in Requests \ {p}
        PROVE  RequestKept(q)
    <3>1. /\ pc'[q] = pc[q] /\ token'[q] = token[q] /\ account'[q] = account[q]
          /\ profile'[q] = profile[q] /\ roles'[q] = roles[q]
          /\ users' = users \cup {p} /\ UNCHANGED late
      BY <1>0, <1>3 DEF CommitCreate, Goto, Types
    <3> QED
      BY <2>3, <3>1 DEF RequestKept
  <2>5. TablesMove
    BY <1>3, <2>1, <2>2 DEF CommitCreate, TablesMove
  <2>6. \A q \in Procs \ {p} : pc'[q] = pc[q] /\ account'[q] = account[q]
    BY <1>0, <1>3 DEF CommitCreate, Goto, Types
  <2> QED
    BY <1>3, <2>4, <2>5, <2>6 DEF CommitCreate
<1>4. ASSUME CommitUpdate(p)
      PROVE  /\ TablesMove /\ users \subseteq users' /\ UNCHANGED active
             /\ \A q \in Procs \ {p} : pc'[q] = pc[q] /\ account'[q] = account[q]
             /\ \A q \in Requests \ {p} : RequestKept(q)
  <2>1. account[p] \in users
    BY <1>0, <1>4 DEF CommitUpdate, RequestTrue, Mine, IdentityTrue
  <2>2. \A q \in Requests : q \notin users => profile'[q] = profile[q]
    BY <1>0, <1>4, <2>1 DEF CommitUpdate, Types
  <2>3. \A q \in Procs \ {p} : pc'[q] = pc[q]
    BY <1>0, <1>4 DEF CommitUpdate, Goto, Types
  <2> QED
    BY <1>0, <1>4, <2>2, <2>3 DEF CommitUpdate, TablesMove, RequestKept
<1> QED
  BY <1>1, <1>2, <1>3, <1>4 DEF Resolve

(* The request that takes the step.                                        *)
LEMMA OwnRequest ==
    ASSUME AccountsInv, NEW p \in Requests,
           (\E i \in Identities : Begin(p, i)) \/ Resolve(p)
    PROVE  RequestTrue(p)'
<1> USE DEF AccountsInv
<1>0. /\ Types /\ KeysHeld /\ p \in Procs /\ RequestTrue(p) /\ p # NULL
      /\ pc[p] # "idle" => Told(p) /\ token[p].identity \in Identities
      /\ pc[p] # "idle" => Mine(p) \in Requests \cup {NULL}
  BY TypeParts, NullIsNoValue DEF RequestTrue, Told, Mine, Types
<1>1. ASSUME NEW i \in Identities, Begin(p, i)
      PROVE  RequestTrue(p)'
  <2>1. /\ pc'[p] = "find" /\ Told(p)' /\ token'[p].identity = i
        /\ UNCHANGED <<table>> /\ p \notin late /\ p \notin users
    BY <1>0, <1>1 DEF Begin, Goto, Types, Told, RequestTrue
  <2>2. p \in late' => Mine(p)' # NULL /\ ~active'[Mine(p)']
    BY <1>1, <2>1 DEF Begin, Inactive, Mine, table
  <2> QED
    BY <1>0, <2>1, <2>2 DEF RequestTrue, RequestLabels, Labels, Ended, table
<1>2. ASSUME Find(p) PROVE RequestTrue(p)'
  <2>1. /\ UNCHANGED <<table, key, row, token, late, aborts>>
        /\ Mine(p)' = Mine(p) /\ Told(p)' /\ pc[p] \in {"find", "findAgain"}
        /\ p \notin users
    BY <1>0, <1>2 DEF Find, Told, Mine, table, RequestTrue
  <2>2. CASE Mine(p) = NULL
    <3>1. pc'[p] = "create"
      BY <1>0, <1>2, <2>2 DEF Find, Goto, Types, RequestTrue, Mine
    <3> QED
      BY <1>0, <2>1, <2>2, <3>1 DEF RequestTrue, RequestLabels, Labels, Ended, table
  <2>3. CASE Mine(p) # NULL
    <3>1. Found(p, Mine(p)) /\ Mine(p) \in Requests
      BY <1>0, <1>2, <2>1, <2>3 DEF Find, Mine
    <3>2. account'[p] = Mine(p)
      BY <1>0, <3>1 DEF Found, Types
    <3>3. /\ pc'[p] \in {"inactive", "answered", "update"}
          /\ ~active[Mine(p)] => pc'[p] = "inactive"
      BY <1>0, <3>1 DEF Found, Goto, Types
    <3> QED
      BY <1>0, <2>1, <2>3, <3>2, <3>3
         DEF RequestTrue, RequestLabels, Labels, Ended, table
  <2> QED
    BY <2>2, <2>3
<1>3. ASSUME Create(p) PROVE RequestTrue(p)'
  <2>1. /\ UNCHANGED <<table, token, late>> /\ Told(p)' /\ pc[p] = "create"
        /\ pc'[p] \in {"insert", "misconfigured"}
    BY <1>0, <1>3 DEF Create, Goto, Types, Told
  <2> QED
    BY <1>0, <2>1 DEF RequestTrue, RequestLabels, Labels, Ended, table
<1>4. ASSUME InsertIdentity(p) PROVE RequestTrue(p)'
  <2>1. /\ UNCHANGED <<table, token, late>> /\ Told(p)' /\ pc[p] = "insert"
        /\ \/ pc'[p] = "findAgain" /\ Mine(p) # NULL
           \/ pc'[p] = "created" /\ Mine(p) = NULL
    BY <1>0, <1>4 DEF InsertIdentity, Goto, Types, Told, Mine
  <2> QED
    BY <1>0, <2>1 DEF RequestTrue, RequestLabels, Labels, Ended, table, Mine
<1>5. ASSUME CommitCreate(p) PROVE RequestTrue(p)'
  <2>1. /\ pc[p] = "created" /\ pc'[p] = "answered" /\ UNCHANGED <<token, late>>
        /\ account'[p] = p /\ Told(p)' /\ p \in users' /\ "member" \in roles'[p]
        /\ Mine(p)' = p
    BY <1>0, <1>5 DEF CommitCreate, Goto, Types, Told, Mine
  <2> QED
    BY <1>0, <2>1 DEF RequestTrue, RequestLabels, Labels, Ended
<1>6. ASSUME UpdateProfile(p) PROVE RequestTrue(p)'
  <2>1. /\ UNCHANGED <<table, token, late, account>> /\ Told(p)' /\ pc[p] = "update"
        /\ pc'[p] = "updated"
    BY <1>0, <1>6 DEF UpdateProfile, Goto, Types, Told
  <2> QED
    BY <1>0, <2>1 DEF RequestTrue, RequestLabels, Labels, Ended, table, Mine
<1>7. ASSUME CommitUpdate(p) PROVE RequestTrue(p)'
  <2>1. /\ UNCHANGED <<users, active, roles, identity, token, late, account>>
        /\ Told(p)' /\ pc[p] = "updated" /\ pc'[p] = "answered"
    BY <1>0, <1>7 DEF CommitUpdate, Goto, Types, Told
  <2>2. account[p] \in users /\ p \notin users /\ account[p] # p
    BY <1>0, <2>1 DEF RequestTrue, Mine, IdentityTrue
  <2>3. profile'[p] = profile[p]
    BY <1>0, <1>7, <2>2 DEF CommitUpdate, Types
  <2> QED
    BY <1>0, <2>1, <2>2, <2>3 DEF RequestTrue, RequestLabels, Labels, Ended, Mine
<1> QED
  BY <1>1, <1>2, <1>3, <1>4, <1>5, <1>6, <1>7 DEF Resolve

(* A request's own step keeps the invariant.                               *)
LEMMA RequestStepInv ==
    ASSUME AccountsInv, NEW p \in Requests,
           (\E i \in Identities : Begin(p, i)) \/ Resolve(p)
    PROVE  AccountsInv'
<1> USE DEF AccountsInv
<1>0. /\ TablesMove /\ users \subseteq users' /\ UNCHANGED active
      /\ \A q \in Procs \ {p} : pc'[q] = pc[q] /\ account'[q] = account[q]
      /\ \A q \in Requests \ {p} : RequestKept(q)
  BY RequestStepKeeps
<1>1. \A q \in Requests : RequestTrue(q)'
  BY <1>0, KeepRequest, OwnRequest
<1>2. \A a \in Operators : OperatorTrue(a)'
  BY <1>0, NullIsNoValue DEF OperatorTrue
<1>3. ASSUME NEW i \in Identities
      PROVE  IdentityTrue(i)'
  <2>1. CASE identity'[i] # identity[i]
    <3>1. CommitCreate(p)
      BY <2>1 DEF Begin, Resolve, Find, Create, InsertIdentity, UpdateProfile,
         CommitUpdate, table
    <3>2. /\ identity'[i] = p /\ token[p].identity = i /\ p \in users'
          /\ UNCHANGED token
      BY <2>1, <3>1 DEF CommitCreate, TypeOK, RequestTrue, Told
    <3> QED
      BY <3>2 DEF IdentityTrue
  <2>2. CASE identity'[i] = identity[i]
    <3>1. SUFFICES ASSUME identity[i] # NULL
                   PROVE  /\ identity[i] \in users'
                          /\ token'[identity[i]].identity = i
      BY <2>2 DEF IdentityTrue
    <3>2. identity[i] \in Requests /\ identity[i] \in users /\ token[identity[i]].identity = i
      BY <3>1 DEF IdentityTrue, TypeOK
    <3>3. CASE identity[i] = p
      <4>1. ~ \E j \in Identities : Begin(p, j)
        BY <3>2, <3>3 DEF Begin, RequestTrue
      <4>2. UNCHANGED token
        BY <4>1 DEF Resolve, Find, Create, InsertIdentity, CommitCreate,
           UpdateProfile, CommitUpdate
      <4> QED
        BY <1>0, <3>2, <4>2
    <3>4. CASE identity[i] # p
      BY <1>0, <3>2, <3>4 DEF RequestKept
    <3> QED
      BY <3>3, <3>4
  <2> QED
    BY <2>1, <2>2
<1> QED
  BY <1>1, <1>2, <1>3, RequestTypes

(* Grants, deactivations and aborts.                                       *)
LEMMA OtherStepInv ==
    ASSUME AccountsInv,
           \/ \E a \in Operators : (\E u \in Requests : GrantFind(a, u)) \/ GrantCommit(a)
           \/ \E u \in Requests : Deactivate(u)
           \/ \E p \in Procs : Abort(p)
    PROVE  AccountsInv'
<1> USE DEF AccountsInv
<1>0. Types /\ RowsHeld /\ Requests \subseteq Procs /\ Operators \subseteq Procs
  BY TypeParts, NullIsNoValue
<1>1. UNCHANGED <<users, profile, identity, token, late>>
  BY DEF GrantFind, GrantCommit, Deactivate, Abort, table, locals
<1>2. ASSUME NEW a \in Operators,
             (\E u \in Requests : GrantFind(a, u)) \/ GrantCommit(a)
      PROVE  /\ \A q \in Requests : RequestTrue(q)'
             /\ \A b \in Operators : OperatorTrue(b)'
  <2>1. /\ UNCHANGED active /\ a \notin Requests
        /\ \A q \in Procs \ {a} : pc'[q] = pc[q] /\ account'[q] = account[q]
        /\ \A u \in Requests : roles[u] \subseteq roles'[u]
    <3>1. CASE \E u \in Requests : GrantFind(a, u)
      BY <1>0, <1>2, <3>1, NullIsNoValue DEF GrantFind, Goto, Types, table
    <3>2. CASE GrantCommit(a)
      BY <1>0, <1>2, <3>2, NullIsNoValue DEF GrantCommit, Goto, Types
    <3> QED
      BY <1>2, <3>1, <3>2
  <2>2. ASSUME NEW q \in Requests
        PROVE  RequestTrue(q)'
    BY <1>0, <1>1, <2>1, KeepRequest DEF TablesMove, RequestKept
  <2>3. OperatorTrue(a)'
    <3>1. ASSUME NEW u \in Requests, GrantFind(a, u)
          PROVE  OperatorTrue(a)'
      <4>1. /\ account'[a] = u
            /\ \/ pc'[a] = "granting" /\ u \in users /\ active[u]
               \/ pc'[a] = "refused"
        BY <1>0, <3>1 DEF GrantFind, Goto, Types
      <4> QED
        BY <1>1, <2>1, <4>1 DEF OperatorTrue, OperatorLabels
    <3>2. ASSUME GrantCommit(a)
          PROVE  OperatorTrue(a)'
      BY <1>0, <3>2 DEF GrantCommit, Goto, Types, OperatorTrue, OperatorLabels
    <3> QED
      BY <1>2, <3>1, <3>2
  <2>4. ASSUME NEW b \in Operators \ {a}
        PROVE  OperatorTrue(b)'
    BY <1>0, <1>1, <2>1 DEF OperatorTrue
  <2> QED
    BY <2>2, <2>3, <2>4
<1>3. ASSUME NEW u \in Requests, Deactivate(u)
      PROVE  /\ \A q \in Requests : RequestTrue(q)'
             /\ \A b \in Operators : OperatorTrue(b)'
  <2>1. /\ UNCHANGED <<roles, pc, account>> /\ row[u] = NULL
        /\ \A v \in Requests : active'[v] = (active[v] /\ v # u)
    BY <1>0, <1>3 DEF Deactivate, Types, locals
  <2>2. ASSUME NEW q \in Requests
        PROVE  RequestTrue(q)'
    BY <1>1, <2>1, KeepRequest DEF TablesMove, RequestKept
  <2>3. ASSUME NEW b \in Operators
        PROVE  OperatorTrue(b)'
    <3>1. pc[b] = "granting" => account[b] # u
      BY <1>0, <1>3, <2>1, <2>3, NullIsNoValue DEF RowsHeld
    <3>2. pc[b] = "granting" => account[b] \in Requests
      BY <2>3 DEF OperatorTrue, TypeOK
    <3> QED
      BY <1>1, <2>1, <2>3, <3>1, <3>2 DEF OperatorTrue
  <2> QED
    BY <2>2, <2>3
<1>4. ASSUME NEW p \in Procs, Abort(p)
      PROVE  /\ \A q \in Requests : RequestTrue(q)'
             /\ \A b \in Operators : OperatorTrue(b)'
  <2>1. /\ UNCHANGED <<active, roles, account>> /\ pc'[p] = "failed"
        /\ pc[p] \notin Ended \cup {"idle"}
        /\ \A q \in Procs \ {p} : pc'[q] = pc[q]
    BY <1>0, <1>4 DEF Abort, Goto, Types, table
  <2>2. ASSUME NEW q \in Requests \ {p}
        PROVE  RequestTrue(q)'
    BY <1>0, <1>1, <2>1, KeepRequest DEF TablesMove, RequestKept
  <2>3. p \in Requests => RequestTrue(p)'
    BY <1>1, <2>1 DEF RequestTrue, RequestLabels, Labels, Ended, Told, Mine
  <2>4. ASSUME NEW b \in Operators
        PROVE  OperatorTrue(b)'
    BY <1>0, <1>1, <2>1 DEF OperatorTrue, OperatorLabels
  <2> QED
    BY <2>2, <2>3, <2>4
<1>5. \A i \in Identities : IdentityTrue(i)'
  BY <1>1 DEF IdentityTrue
<1> QED
  BY <1>2, <1>3, <1>4, <1>5, OtherTypes

(* Every step keeps the invariant.                                         *)
LEMMA NextInv == AccountsInv /\ [Next]_vars => AccountsInv'
<1> SUFFICES ASSUME AccountsInv, [Next]_vars PROVE AccountsInv'
  OBVIOUS
<1>1. CASE Next
  BY <1>1, RequestStepInv, OtherStepInv DEF Next
<1>2. CASE UNCHANGED vars
  BY <1>2 DEF vars, table, locals, AccountsInv, TypeOK, RequestTrue, OperatorTrue,
     IdentityTrue, Told, Mine
<1> QED
  BY <1>1, <1>2

(* The inductive invariant of provisioning, profile updates and grants     *)
(* (ResolveCurrentUser and GrantAdmin, application/users).                 *)
THEOREM AccountsInvariant == Spec => []AccountsInv
<1> QED
  BY InitInv, NextInv, PTL DEF Spec

-----------------------------------------------------------------------------
(* What the reader should know                                             *)

(* The invariant contains what the property says.                          *)
LEMMA InvMeansConsistent == AccountsInv => AccountsConsistent
<1> SUFFICES ASSUME AccountsInv PROVE AccountsConsistent
  OBVIOUS
<1> USE DEF AccountsInv
<1>1. NoOrphanUsers
  <2>1. ASSUME NEW u \in users
        PROVE  Cardinality({i \in Identities : identity[i] = u}) = 1
    <3> DEFINE i == token[u].identity
    <3>1. u \in Requests /\ i \in Identities /\ identity[i] = u /\ u # NULL
      BY <2>1, NullIsNoValue DEF TypeOK, RequestTrue, Told, Mine
    <3>2. \A j \in Identities : identity[j] = u => j = i
      BY <3>1 DEF IdentityTrue
    <3>3. {j \in Identities : identity[j] = u} = {i}
      BY <3>1, <3>2
    <3> QED
      BY <3>3, FS_Singleton
  <2>2. ASSUME NEW i \in Identities, identity[i] # NULL
        PROVE  identity[i] \in users /\ "member" \in roles[identity[i]]
    BY <2>2 DEF IdentityTrue, TypeOK, RequestTrue
  <2> QED
    BY <2>1, <2>2 DEF NoOrphanUsers
<1>2. OneUserPerIdentity
  BY DEF OneUserPerIdentity, RequestTrue, Mine
<1>3. ConflictsResolve
  BY DEF ConflictsResolve, RequestTrue
<1>4. InactiveNeverAnswered
  BY DEF InactiveNeverAnswered, RequestTrue, TypeOK
<1> QED
  BY <1>1, <1>2, <1>3, <1>4 DEF AccountsConsistent

(* However requests race to create, find and update an account, there is   *)
(* one, it is whole, everybody finds it, a conflict over the unique key    *)
(* always resolves, and no request that began after the account was        *)
(* disabled is answered (ResolveCurrentUser.execute).                      *)
THEOREM AccountsStayConsistent == Spec => []AccountsConsistent
<1> QED
  BY AccountsInvariant, InvMeansConsistent, PTL

(* The admin role goes only to a user that is active when the grant        *)
(* commits: find_for_grant checks and locks the row in one statement.      *)
THEOREM OnlyActiveAreGranted == Spec => GrantsOnlyActive
<1>1. AccountsInv /\ [Next]_vars =>
        [\A u \in Requests : "admin" \in roles'[u] \ roles[u] =>
           active'[u] /\ \E a \in Operators : pc'[a] = "granted" /\ account[a] = u]_roles
  <2> SUFFICES ASSUME AccountsInv, Next, NEW u \in Requests,
                      "admin" \in roles'[u] \ roles[u]
               PROVE  active'[u] /\ \E a \in Operators :
                        pc'[a] = "granted" /\ account[a] = u
    BY DEF vars, table
  <2>1. ASSUME NEW p \in Requests, CommitCreate(p)
        PROVE  FALSE
    BY <2>1 DEF CommitCreate, AccountsInv, TypeOK
  <2>2. ASSUME NEW a \in Operators, GrantCommit(a)
        PROVE  active'[u] /\ pc'[a] = "granted" /\ account[a] = u
    <3>1. account[a] = u
      BY <2>2 DEF GrantCommit, AccountsInv, TypeOK
    <3>2. active[u] /\ UNCHANGED active
      BY <2>2, <3>1 DEF GrantCommit, AccountsInv, OperatorTrue
    <3>3. pc'[a] = "granted"
      BY <2>2, NullIsNoValue DEF GrantCommit, Goto, AccountsInv, TypeOK
    <3> QED
      BY <3>1, <3>2, <3>3
  <2>3. ASSUME UNCHANGED roles
        PROVE  FALSE
    BY <2>3
  <2> QED
    BY <2>1, <2>2, <2>3 DEF Next, Begin, Resolve, Find, Create, InsertIdentity,
       UpdateProfile, CommitUpdate, GrantFind, Deactivate, Abort, table
<1> QED
  BY <1>1, AccountsInvariant, PTL DEF Spec, GrantsOnlyActive

(* No update erases a stored claim: only the columns that the token        *)
(* changed are written, and a new user has a row of its own.               *)
THEOREM ProfilesKeepClaims == Spec => ProfileNeverErased
<1>1. AccountsInv /\ [Next]_vars =>
        [\A u \in Requests, f \in Fields :
           profile[u][f] # NULL => profile'[u][f] # NULL]_profile
  <2> SUFFICES ASSUME AccountsInv, Next, NEW u \in Requests, NEW f \in Fields,
                      profile[u][f] # NULL
               PROVE  profile'[u][f] # NULL
    BY DEF vars, table
  <2>1. ASSUME NEW p \in Requests, CommitCreate(p)
        PROVE  profile'[u][f] # NULL
    <3>1. p # u
      <4>1. p \notin users
        BY <2>1 DEF CommitCreate, AccountsInv, RequestTrue
      <4>2. profile[p][f] = NULL
        BY <4>1 DEF AccountsInv, RequestTrue, Unset
      <4> QED
        BY <4>2
    <3> QED
      BY <2>1, <3>1 DEF CommitCreate, AccountsInv, TypeOK
  <2>2. ASSUME NEW p \in Requests, CommitUpdate(p)
        PROVE  profile'[u][f] # NULL
    <3> DEFINE new == [g \in Fields |-> IF updates[p][g] # NULL
                                        THEN updates[p][g] ELSE profile[account[p]][g]]
    <3>1. profile' = [profile EXCEPT ![account[p]] = new]
      BY <2>2 DEF CommitUpdate
    <3>2. account[p] = u => new[f] # NULL
      OBVIOUS
    <3> HIDE DEF new
    <3> QED
      BY <3>1, <3>2 DEF AccountsInv, TypeOK
  <2>3. ASSUME UNCHANGED profile
        PROVE  profile'[u][f] # NULL
    BY <2>3
  <2> QED
    BY <2>1, <2>2, <2>3 DEF Next, Begin, Resolve, Find, Create, InsertIdentity,
       UpdateProfile, GrantFind, GrantCommit, Deactivate, Abort, table
<1> QED
  BY <1>1, AccountsInvariant, PTL DEF Spec, ProfileNeverErased
=============================================================================
