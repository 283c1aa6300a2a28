---------------------------- MODULE WindowFilter ----------------------------
(***************************************************************************)
(* What a replay filter promises (sps_proto.h: accepts monotonically       *)
(* increasing SEQ, tolerates reordering within the window, rejects         *)
(* duplicates and stale numbers), with no bitmap: a number is accepted     *)
(* exactly when it has not been accepted before and no accepted number is  *)
(* more than `window` ahead of it.                                         *)
(***************************************************************************)
EXTENDS Integers

CONSTANTS Seqs,      \* the sequence numbers that may be checked
          Windows    \* the reorder windows a filter may be built with

VARIABLES window,    \* the reorder window of this filter
          accepted,  \* every number accepted so far
          answer     \* the last number checked and whether it was accepted

absVars == <<window, accepted, answer>>

NoAnswer == [seq |-> -1, ok |-> FALSE]

Acceptable(seq) ==
    /\ seq \notin accepted
    /\ \A s \in accepted : s - seq <= window

Answer(seq) ==
    /\ answer' = [seq |-> seq, ok |-> Acceptable(seq)]
    /\ accepted' = IF Acceptable(seq) THEN accepted \union {seq} ELSE accepted
    /\ UNCHANGED window

Init == window \in Windows /\ accepted = {} /\ answer = NoAnswer

Next == \E seq \in Seqs : Answer(seq)

Spec == Init /\ [][Next]_absVars

=============================================================================
