--------------------------- MODULE MCRunExecution ---------------------------
(* Finite instances of RunExecution for TLC.                               *)
EXTENDS RunExecution, TLC

(* Workers are interchangeable.                                            *)
Interchangeable == Permutations(Workers)
=============================================================================
