---------------------------- MODULE ReplayFilter ----------------------------
(***************************************************************************)
(* The C and the Python replay filter fed the same sequence numbers, in    *)
(* any order, with repetitions and jumps of any length: what a receiver    *)
(* sees of a sender whose frames are lost, retransmitted and reordered.    *)
(***************************************************************************)
EXTENDS ReplayOps

CONSTANTS MaxSeq,           \* sequence numbers are 0 .. MaxSeq (24 bits in the code)
          WindowRequests    \* the windows asked of sps_replay_init / ReplayWindow()

ASSUME ReplayFilterAssumption ==
    /\ MaxSeq \in Nat
    /\ WindowRequests \subseteq Int

Seqs == 0 .. MaxSeq

VARIABLES filter,     \* filter[i]: the state of implementation i
          accepted,   \* accepted[i]: history of the numbers i accepted
          answer      \* answer[i]: the last number checked, and i's verdict

vars == <<filter, accepted, answer>>

NoAnswer == [seq |-> -1, ok |-> FALSE]

Answers == [seq: -1 .. MaxSeq, ok: BOOLEAN]

TypeOK ==
    /\ filter \in [Impls -> ReplayState]
    /\ accepted \in [Impls -> SUBSET Seqs]
    /\ answer \in [Impls -> Answers]

Init ==
    /\ \E w \in WindowRequests : filter = [i \in Impls |-> NewReplay(w)]
    /\ accepted = [i \in Impls |-> {}]
    /\ answer = [i \in Impls |-> NoAnswer]

\* One call of sps_replay_check and one of ReplayWindow.check, on the same number.
Check(seq) ==
    /\ filter' = [i \in Impls |-> AfterCheck(i, filter[i], seq)]
    /\ answer' = [i \in Impls |-> [seq |-> seq, ok |-> Fresh(filter[i], seq)]]
    /\ accepted' = [i \in Impls |-> IF Fresh(filter[i], seq)
                                    THEN accepted[i] \union {seq}
                                    ELSE accepted[i]]

Next == \E seq \in Seqs : Check(seq)

Spec == Init /\ [][Next]_vars

-----------------------------------------------------------------------------
(***************************************************************************)
(* Properties                                                              *)
(***************************************************************************)

\* The filter of each implementation, seen as the abstract one.
ClampedWindows == {ClampWindow(w) : w \in WindowRequests}

CPromise == INSTANCE WindowFilter
              WITH Windows <- ClampedWindows, window <- filter["c"].window,
                   accepted <- accepted["c"], answer <- answer["c"]

PythonPromise == INSTANCE WindowFilter
                   WITH Windows <- ClampedWindows, window <- filter["python"].window,
                        accepted <- accepted["python"], answer <- answer["python"]

\* The Python filter (proto.py ReplayWindow) gives, after every history of
\* checks, the verdict the abstract filter gives: no number is accepted twice
\* and none that is inside the window and new is refused.
PythonImplementsPromise == PythonPromise!Spec

\* The C filter (sps_replay_check) does too, as long as the window is smaller
\* than the word; at window = 32 see CRejectsDuplicates.
CImplementsPromise == CPromise!Spec

\* sps_proto.h: the filter "rejects duplicates and stale sequence numbers", for
\* a window of 1 .. 32.  A step of the C filter never accepts a number twice.
CRejectsDuplicates ==
    [][\A seq \in Seqs :
        answer'["c"] = [seq |-> seq, ok |-> TRUE] => seq \notin accepted["c"]]_vars

(***************************************************************************)
(* The invariant the verdicts rest on: inside the window the bitmap is the *)
(* accepted history, seen from `last`.                                     *)
(***************************************************************************)

\* The filter state r says exactly what the set A of accepted numbers says.
Matches(r, A) ==
    /\ r.seeded <=> A # {}
    /\ r.seeded => /\ r.last \in A
                   /\ \A s \in A : s <= r.last
                   /\ \A b \in 0 .. (r.window - 1) :
                        b \in r.bits <=> r.last - 1 - b \in A

\* The shift of implementation i is exact for the window of r.
Exact(i, r) == i = "python" \/ r.window < WordBits

\* In both filters the window's part of the bitmap always says exactly which
\* of the numbers behind `last` have been accepted (for the C filter, when the
\* window is below the word size).
BitmapIsHistory ==
    \A i \in Impls : Exact(i, filter[i]) => Matches(filter[i], accepted[i])

=============================================================================
