----------------------------- MODULE ReplayOps -----------------------------
(***************************************************************************)
(* The sliding-window replay filter as pure operators: the C one of        *)
(* sps_proto.c (sps_replay_t, used by the node on ACKs) and the Python     *)
(* one of proto.py (ReplayWindow, used by the gateway on every uplink      *)
(* frame).  The two share every branch but the update of the bitmap when   *)
(* a newer sequence number arrives, so they share every operator but       *)
(* ShiftC and ShiftPython.                                                 *)
(*                                                                         *)
(* The 32-bit bitmap is the set of the positions of its one bits: bit b    *)
(* set means that last - 1 - b has been accepted.                          *)
(***************************************************************************)
EXTENDS Integers

CONSTANT WordBits   \* bits of the bitmap: 32 in both programs

ASSUME WordBitsAssumption == WordBits \in Nat \ {0}

Bits == 0 .. (WordBits - 1)

Impls == {"c", "python"}

\* sps_replay_t, and ReplayWindow's four attributes.
ReplayState == [last: Nat, bits: SUBSET Bits, window: 1 .. WordBits,
                seeded: BOOLEAN]

\* The requested window is clamped to 1 .. 32.
ClampWindow(w) == IF w < 1 THEN 1 ELSE IF w > WordBits THEN WordBits ELSE w

NewReplay(w) ==
    [last |-> 0, bits |-> {}, window |-> ClampWindow(w), seeded |-> FALSE]

\* bitmap << n on a word of WordBits bits, with the old `last` marked at n - 1.
ShiftedWord(bits, n) == {b \in Bits : b - n \in bits \/ b = n - 1}

\* Deviation: the old `last` is not marked.
ShiftCUnmarked(bits, n) ==
    IF n >= WordBits THEN {} ELSE {b \in Bits : b - n \in bits}

\* C leaves the shift by 32 or more undefined, so the code answers 0 for it.
ShiftC(bits, n) == IF n >= WordBits THEN {} ELSE ShiftedWord(bits, n)

\* Deviation: the mask is forgotten.
ShiftPythonUnmasked(bits, n) == {b + n : b \in bits} \union {n - 1}

\* Python shifts an unbounded integer and masks the result with 0xFFFFFFFF.
ShiftPython(bits, n) == ({b + n : b \in bits} \union {n - 1}) \cap Bits

Shift(impl, bits, n) ==
    IF impl = "c" THEN ShiftC(bits, n) ELSE ShiftPython(bits, n)

\* Deviation: `<` for `<=` at the far end of the window.
FreshShortWindow(r, seq) ==
    \/ ~r.seeded
    \/ seq > r.last
    \/ /\ r.last - seq \in 1 .. (r.window - 1)
       /\ r.last - seq - 1 \notin r.bits

\* The branches of the check that return SPS_OK (or do not raise).
Fresh(r, seq) ==
    \/ ~r.seeded
    \/ seq > r.last
    \/ /\ r.last - seq \in 1 .. r.window
       /\ r.last - seq - 1 \notin r.bits

\* Deviation: a late number is accepted and not marked.
AfterCheckLateUnmarked(impl, r, seq) ==
    IF ~Fresh(r, seq) \/ (r.seeded /\ seq <= r.last) THEN r
    ELSE IF ~r.seeded THEN [r EXCEPT !.seeded = TRUE, !.last = seq, !.bits = {}]
    ELSE [r EXCEPT !.last = seq, !.bits = Shift(impl, r.bits, seq - r.last)]

\* Deviation: the first number marks everything behind it as seen.
AfterCheckFullBitmap(impl, r, seq) ==
    IF ~Fresh(r, seq) THEN r
    ELSE IF ~r.seeded THEN [r EXCEPT !.seeded = TRUE, !.last = seq, !.bits = Bits]
    ELSE IF seq > r.last
         THEN [r EXCEPT !.last = seq, !.bits = Shift(impl, r.bits, seq - r.last)]
         ELSE [r EXCEPT !.bits = @ \union {r.last - seq - 1}]

\* The state the check leaves; a rejected number leaves it alone.
AfterCheck(impl, r, seq) ==
    IF ~Fresh(r, seq) THEN r
    ELSE IF ~r.seeded THEN [r EXCEPT !.seeded = TRUE, !.last = seq, !.bits = {}]
    ELSE IF seq > r.last
         THEN [r EXCEPT !.last = seq, !.bits = Shift(impl, r.bits, seq - r.last)]
         ELSE [r EXCEPT !.bits = @ \union {r.last - seq - 1}]

=============================================================================
