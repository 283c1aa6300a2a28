----------------------------- MODULE MCDownlink -----------------------------
(* Downlink with two HTTP threads and two parameters.                      *)
EXTENDS Downlink, TLC

CONSTANTS t1, t2

MCCallers == {t1, t2}

CallerSymmetry == Permutations(MCCallers)

=============================================================================
