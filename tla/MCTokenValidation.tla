------------------------- MODULE MCTokenValidation -------------------------
(* Finite instances of TokenValidation for TLC.                            *)
EXTENDS TokenValidation, TLC

CONSTANTS k1, k2

Make(kid, signer, claims, exp) ==
    [kid |-> kid, signer |-> signer, claims |-> claims, exp |-> exp]

(* A good token of each key, of which one expires; a token for somebody    *)
(* else, signed by another key than it names; and no token at all.         *)
SomeTokens ==
    { Make(k1, k1, "good", 2), Make(k2, k2, "good", 9),
      Make(k1, k2, "bad", 9), Make(NULL, k1, "good", 9) }
=============================================================================
