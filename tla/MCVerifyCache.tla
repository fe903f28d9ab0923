--------------------------- MODULE MCVerifyCache ---------------------------
(* Small instances of VerifyCache for TLC. *)
EXTENDS VerifyCache, TLC

CONSTANTS tokA, tokB

TwoTokens == {tokA, tokB}
\* One token expires a tick after the other.
Staggered == (tokA :> 1) @@ (tokB :> 2)
RequestSymmetry == Permutations(Requests)
=============================================================================
