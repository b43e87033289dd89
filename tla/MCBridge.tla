------------------------------ MODULE MCBridge ------------------------------
(* Small instances of Bridge. *)
EXTENDS Bridge, TLC

CONSTANTS a1, a2, v1, v2, c1, c2

\* a1 signs a request of 1; the same signature is a bad one for a2's request,
\* and for a request of 2.
Signed1By1 == {[signer |-> a1, amount |-> 1]}

\* Two requests from c1, and none the other way.
TwoAndNone == (c1 :> 2) @@ (c2 :> 0)

ValidatorSymmetry == Permutations(Validators)
=============================================================================
