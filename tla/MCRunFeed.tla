----------------------------- MODULE MCRunFeed -----------------------------
(* Finite instances of RunFeed for TLC.                                    *)
EXTENDS RunFeed, TLC

CONSTANTS u1, u2, s1

(* Two runs of one user.                                                   *)
OneUserRuns == (1 :> u1) @@ (2 :> u1)
(* A run of another user, one that nobody requested, a run of the user.    *)
MixedRuns == (1 :> u2) @@ (2 :> NoOwner) @@ (3 :> u1)

OneStream == (s1 :> u1)
=============================================================================
