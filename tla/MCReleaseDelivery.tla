------------------------- MODULE MCReleaseDelivery -------------------------
(* The workflow runs in progress are interchangeable.                      *)
EXTENDS ReleaseDelivery

CONSTANTS s1, s2

SlotSymmetry == Permutations({s1, s2})
=============================================================================
