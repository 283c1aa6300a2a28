----------------------------- MODULE MCNodeSeq -----------------------------
(* NodeSeq with a small reservation step, limit and set of keys.           *)
EXTENDS NodeSeq, TLC

CONSTANTS k1, k2, k3

MCKeys == {k1, k2, k3}

KeySymmetry == Permutations(MCKeys)

=============================================================================
