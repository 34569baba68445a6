----------------------------- MODULE MCDelivery -----------------------------
(* Finite instances of Delivery for TLC.                                   *)
EXTENDS Delivery, TLC

CONSTANTS r1, k1

OneRun == (r1 :> k1)
=============================================================================
