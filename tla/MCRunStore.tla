----------------------------- MODULE MCRunStore -----------------------------
(* Finite instances of RunStore for TLC.                                   *)
EXTENDS RunStore, TLC

CONSTANTS m1, m2

Inv(c, q) == [computation |-> c, required |-> q]

(* Definitions that differ in a computation, in required outputs only, and *)
(* in the modes they offer.                                                *)
CatalogProposals ==
    { (m1 :> Inv("c1", "q1")),
      (m1 :> Inv("c1", "q2")),
      (m1 :> Inv("c2", "q1")) @@ (m2 :> Inv("c1", "q1")),
      (m2 :> Inv("c1", "q1")) }

(* Processes of one kind, and users, are interchangeable.                  *)
Interchangeable ==
    Permutations(Users) \cup Permutations(Clients)
        \cup Permutations(Operators) \cup Permutations(Executors)

OneProposal == { (m1 :> Inv("c1", "q1")) }

(* Bounds of StoreAdmission.  At most three transactions are open at the   *)
(* same time: both submissions of the API and one of the command line or   *)
(* of a worker.  At most one run has ended: its slot can be given away     *)
(* again.  At most one run came from the command line, without limits.     *)
ThreeAtOnce == Cardinality({p \in Procs : pc[p] # "idle"}) <= 3
OneEnded == Cardinality({r \in Runs : status[r] \in TERMINAL_STATUSES}) <= 1
OneUnlimited == Cardinality({r \in Runs : request[r] # NULL
                                           /\ ~request[r].limited}) <= 1

AdmissionBounds == ThreeAtOnce /\ OneEnded /\ OneUnlimited
=============================================================================
