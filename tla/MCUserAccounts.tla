--------------------------- MODULE MCUserAccounts ---------------------------
(* Finite instances of UserAccounts for TLC: Accounts.cfg.                 *)
EXTENDS UserAccounts
=============================================================================
