--------------------------- MODULE MCReplayFilter ---------------------------
(* ReplayFilter on a four-bit word.                                        *)
EXTENDS ReplayFilter

\* Requests below 1 exercise the clamp; 3 is the widest window a four-bit word
\* serves in C.
MCBelowWord == {-1, 1, 2, 3}

\* The documented limit, window = word size (32 in the code).
MCAtWord == {WordBits}

=============================================================================
