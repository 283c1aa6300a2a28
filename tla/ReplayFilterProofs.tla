------------------------- MODULE ReplayFilterProofs -------------------------
(***************************************************************************)
(* For every word size, window, sequence-number range and history: the     *)
(* Python filter implements the abstract WindowFilter, and the C filter    *)
(* does whenever its window is smaller than its word.                      *)
(***************************************************************************)
EXTENDS ReplayFilter, TLAPS

USE DEF Seqs

\* A clamped window lies in 1 .. WordBits, so a new filter has its type.
LEMMA NewReplayType ==
    ASSUME NEW w \in Int
    PROVE  /\ NewReplay(w) \in ReplayState
           /\ NewReplay(w).window = ClampWindow(w)
           /\ ~NewReplay(w).seeded
BY WordBitsAssumption DEF NewReplay, ReplayState, ClampWindow, Bits

\* A check keeps the type of the filter's state and never changes its window.
LEMMA AfterCheckType ==
    ASSUME NEW i \in Impls, NEW r \in ReplayState, NEW seq \in Nat
    PROVE  /\ AfterCheck(i, r, seq) \in ReplayState
           /\ AfterCheck(i, r, seq).window = r.window
<1>1. CASE ~Fresh(r, seq)
  BY <1>1 DEF AfterCheck
<1>2. CASE Fresh(r, seq) /\ ~r.seeded
  BY <1>2 DEF AfterCheck, ReplayState
<1>3. CASE Fresh(r, seq) /\ r.seeded /\ seq > r.last
  <2>1. Shift(i, r.bits, seq - r.last) \in SUBSET Bits
    BY DEF Shift, ShiftC, ShiftPython, ShiftedWord
  <2>2. QED
    BY <1>3, <2>1 DEF AfterCheck, ReplayState
<1>4. CASE Fresh(r, seq) /\ r.seeded /\ ~(seq > r.last)
  <2>1. r.last - seq - 1 \in Bits
    BY <1>4, WordBitsAssumption DEF Fresh, Bits, ReplayState
  <2>2. QED
    BY <1>4, <2>1 DEF AfterCheck, ReplayState
<1>5. QED
  BY <1>1, <1>2, <1>3, <1>4

\* TypeOK of ReplayFilter: the four fields the code keeps stay in range.
THEOREM TypeCorrect == Spec => []TypeOK
<1>1. Init => TypeOK
  BY NewReplayType, ReplayFilterAssumption
     DEF Init, TypeOK, NoAnswer, Answers
<1>2. TypeOK /\ [Next]_vars => TypeOK'
  <2>1. ASSUME TypeOK, NEW seq \in Seqs, Check(seq)
        PROVE  TypeOK'
    <3>1. \A i \in Impls : AfterCheck(i, filter[i], seq) \in ReplayState
      BY <2>1, AfterCheckType DEF TypeOK
    <3>2. filter' \in [Impls -> ReplayState]
      BY <2>1, <3>1 DEF Check
    <3>3. answer' \in [Impls -> Answers]
      <4>1. \A i \in Impls : Fresh(filter[i], seq) \in BOOLEAN
        BY <2>1 DEF Fresh, TypeOK, ReplayState
      <4>2. QED
        BY <2>1, <4>1 DEF Check, Answers
    <3>4. accepted' \in [Impls -> SUBSET Seqs]
      BY <2>1 DEF Check, TypeOK
    <3>5. QED
      BY <3>2, <3>3, <3>4 DEF TypeOK
  <2>2. QED
    BY <2>1 DEF Next, vars, TypeOK
<1>3. QED
  BY <1>1, <1>2, PTL DEF Spec

\* When the bitmap says what the history says, the filter's verdict is the
\* abstract one.
LEMMA FreshIsAcceptable ==
    ASSUME NEW r \in ReplayState, NEW A \in SUBSET Nat, Matches(r, A),
           NEW seq \in Nat
    PROVE  Fresh(r, seq) <=> /\ seq \notin A
                             /\ \A s \in A : s - seq <= r.window
<1>1. CASE ~r.seeded
  BY <1>1 DEF Matches, Fresh
<1>2. CASE r.seeded /\ seq > r.last
  BY <1>2 DEF Matches, Fresh, ReplayState
<1>3. CASE r.seeded /\ ~(seq > r.last)
  <2>1. /\ r.last \in A
        /\ \A s \in A : s <= r.last
        /\ \A b \in 0 .. (r.window - 1) : b \in r.bits <=> r.last - 1 - b \in A
    BY <1>3 DEF Matches
  <2>2. /\ r.last \in Nat
        /\ r.window \in Nat
    BY WordBitsAssumption DEF ReplayState
  <2>3. CASE r.last - seq \in 1 .. r.window
    <3>1. r.last - seq - 1 \in 0 .. (r.window - 1)
      BY <2>2, <2>3
    <3>2. r.last - 1 - (r.last - seq - 1) = seq
      BY <2>2
    <3>3. r.last - seq - 1 \in r.bits <=> seq \in A
      BY <2>1, <3>1, <3>2
    <3>4. \A s \in A : s - seq <= r.window
      BY <2>1, <2>2, <2>3
    <3>5. QED
      BY <1>3, <2>2, <2>3, <3>3, <3>4 DEF Fresh
  <2>4. CASE r.last - seq \notin 1 .. r.window
    <3>1. ~Fresh(r, seq)
      BY <1>3, <2>4 DEF Fresh
    <3>2. seq = r.last \/ r.last - seq > r.window
      BY <1>3, <2>2, <2>4
    <3>3. seq \in A \/ ~(r.last - seq <= r.window)
      BY <2>1, <2>2, <3>2
    <3>4. QED
      BY <2>1, <3>1, <3>3
  <2>5. QED
    BY <2>3, <2>4
<1>4. QED
  BY <1>1, <1>2, <1>3

\* A check leaves a bitmap that says what the new history says, provided the
\* shift is exact for this window.
LEMMA AfterCheckMatches ==
    ASSUME NEW i \in Impls, NEW r \in ReplayState, NEW A \in SUBSET Nat,
           Matches(r, A), Exact(i, r), NEW seq \in Nat
    PROVE  Matches(AfterCheck(i, r, seq),
                   IF Fresh(r, seq) THEN A \union {seq} ELSE A)
<1>0. /\ r.last \in Nat
      /\ r.window \in 1 .. WordBits
      /\ r.bits \in SUBSET Bits
      /\ WordBits \in Nat
  BY WordBitsAssumption DEF ReplayState
<1>1. CASE ~Fresh(r, seq)
  BY <1>1 DEF AfterCheck
<1>2. CASE Fresh(r, seq) /\ ~r.seeded
  <2>1. AfterCheck(i, r, seq) = [r EXCEPT !.seeded = TRUE, !.last = seq, !.bits = {}]
    BY <1>2 DEF AfterCheck
  <2>2. A = {}
    BY <1>2 DEF Matches
  <2>3. \A b \in 0 .. (r.window - 1) : seq - 1 - b # seq
    BY <1>0
  <2>4. QED
    BY <1>2, <2>1, <2>2, <2>3 DEF Matches, ReplayState
<1>3. CASE Fresh(r, seq) /\ r.seeded /\ seq > r.last
  <2> DEFINE n == seq - r.last
             B == Shift(i, r.bits, n)
  <2>1. AfterCheck(i, r, seq) = [r EXCEPT !.last = seq, !.bits = B]
    BY <1>3 DEF AfterCheck
  <2>2. n \in Nat \ {0}
    BY <1>0, <1>3
  <2>3. ASSUME NEW b \in 0 .. (r.window - 1)
        PROVE  b \in B <=> seq - 1 - b \in A \union {seq}
    <3>1. b \in Bits /\ b \in Nat
      BY <1>0 DEF Bits
    <3>2. b \in B <=> (b - n \in r.bits \/ b = n - 1)
      <4>1. CASE i = "python"
        <5>1. B = ({c + n : c \in r.bits} \union {n - 1}) \cap Bits
          BY <4>1 DEF Shift, ShiftPython
        <5>2. ASSUME b - n \in r.bits PROVE b \in {c + n : c \in r.bits}
          <6>1. (b - n) + n = b
            BY <2>2, <3>1
          <6>2. QED
            BY <5>2, <6>1
        <5>3. ASSUME NEW c \in r.bits, b = c + n PROVE b - n \in r.bits
          <6>1. c \in Int
            BY <1>0 DEF Bits
          <6>2. b - n = c
            BY <2>2, <5>3, <6>1
          <6>3. QED
            BY <6>2
        <5>4. QED
          BY <3>1, <5>1, <5>2, <5>3
      <4>2. CASE i = "c"
        <5>1. r.window < WordBits
          BY <4>2 DEF Exact
        <5>2. B = IF n >= WordBits THEN {} ELSE ShiftedWord(r.bits, n)
          BY <4>2 DEF Shift, ShiftC
        <5>3. CASE n >= WordBits
          <6>1. b - n \notin Bits /\ b # n - 1
            BY <1>0, <2>2, <3>1, <5>1, <5>3 DEF Bits
          <6>2. QED
            BY <1>0, <5>2, <5>3, <6>1
        <5>4. CASE ~(n >= WordBits)
          BY <3>1, <5>2, <5>4 DEF ShiftedWord
        <5>5. QED
          BY <5>3, <5>4
      <4>3. QED
        BY <4>1, <4>2 DEF Impls
    <3>3. CASE b = n - 1
      <4>1. seq - 1 - b = r.last
        BY <1>0, <3>3
      <4>2. r.last \in A
        BY <1>3 DEF Matches
      <4>3. QED
        BY <3>2, <3>3, <4>1, <4>2
    <3>4. CASE b > n - 1
      <4>1. b - n \in 0 .. (r.window - 1)
        BY <1>0, <2>2, <3>4
      <4>2. r.last - 1 - (b - n) = seq - 1 - b
        BY <1>0, <3>1
      <4>3. b - n \in r.bits <=> seq - 1 - b \in A
        BY <1>3, <4>1, <4>2 DEF Matches
      <4>4. seq - 1 - b # seq /\ b # n - 1
        BY <2>2, <3>1, <3>4
      <4>5. QED
        BY <3>2, <4>3, <4>4
    <3>5. CASE b < n - 1
      <4>1. b - n \notin Bits
        BY <1>0, <2>2, <3>1, <3>5 DEF Bits
      <4>2. seq - 1 - b > r.last /\ seq - 1 - b # seq
        BY <1>0, <3>1, <3>5
      <4>3. seq - 1 - b \notin A
        BY <1>3, <4>2, <1>0 DEF Matches
      <4>4. b # n - 1
        BY <2>2, <3>1, <3>5
      <4>5. QED
        BY <1>0, <3>2, <4>1, <4>2, <4>3, <4>4
    <3>6. QED
      BY <2>2, <3>1, <3>3, <3>4, <3>5
  <2>4. \A s \in A \union {seq} : s <= seq
    BY <1>0, <1>3 DEF Matches
  <2>5. QED
    BY <1>3, <2>1, <2>3, <2>4 DEF Matches, ReplayState
<1>4. CASE Fresh(r, seq) /\ r.seeded /\ ~(seq > r.last)
  <2> DEFINE c == r.last - seq - 1
  <2>1. AfterCheck(i, r, seq) = [r EXCEPT !.bits = @ \union {c}]
    BY <1>4 DEF AfterCheck
  <2>2. c \in 0 .. (r.window - 1)
    BY <1>0, <1>4 DEF Fresh
  <2>3. ASSUME NEW b \in 0 .. (r.window - 1)
        PROVE  b \in r.bits \union {c} <=> r.last - 1 - b \in A \union {seq}
    <3>1. b = c <=> r.last - 1 - b = seq
      BY <1>0
    <3>2. b \in r.bits <=> r.last - 1 - b \in A
      BY <1>4 DEF Matches
    <3>3. QED
      BY <3>1, <3>2
  <2>4. \A s \in A \union {seq} : s <= r.last
    BY <1>0, <1>4 DEF Matches
  <2>5. QED
    BY <1>4, <2>1, <2>3, <2>4 DEF Matches, ReplayState
<1>5. QED
  BY <1>1, <1>2, <1>3, <1>4

\* BitmapIsHistory, of the two filters of sps_proto.c and proto.py, for every
\* word size, window and history.
THEOREM BitmapCorrect == Spec => []BitmapIsHistory
<1>1. Init => BitmapIsHistory
  BY NewReplayType, ReplayFilterAssumption DEF Init, BitmapIsHistory, Matches
<1>2. TypeOK /\ BitmapIsHistory /\ [Next]_vars => BitmapIsHistory'
  <2>1. ASSUME TypeOK, BitmapIsHistory, NEW seq \in Seqs, Check(seq)
        PROVE  BitmapIsHistory'
    <3> SUFFICES ASSUME NEW i \in Impls, Exact(i, filter'[i])
                 PROVE  Matches(filter'[i], accepted'[i])
      BY DEF BitmapIsHistory
    <3>1. /\ filter[i] \in ReplayState
          /\ accepted[i] \in SUBSET Nat
          /\ seq \in Nat
      BY <2>1, ReplayFilterAssumption DEF TypeOK
    <3>2. /\ filter'[i] = AfterCheck(i, filter[i], seq)
          /\ accepted'[i] = IF Fresh(filter[i], seq)
                            THEN accepted[i] \union {seq} ELSE accepted[i]
      BY <2>1 DEF Check
    <3>3. Exact(i, filter[i])
      BY <3>1, <3>2, AfterCheckType DEF Exact
    <3>4. Matches(filter[i], accepted[i])
      BY <2>1, <3>3 DEF BitmapIsHistory
    <3>5. QED
      BY <3>1, <3>2, <3>3, <3>4, AfterCheckMatches
  <2>2. QED
    BY <2>1 DEF Next, vars, BitmapIsHistory
<1>3. QED
  BY <1>1, <1>2, TypeCorrect, PTL DEF Spec

-----------------------------------------------------------------------------
(***************************************************************************)
(* The refinements.  Each step of a filter whose shift is exact is a step  *)
(* of the abstract filter on the same number.                              *)
(***************************************************************************)

\* One check is one answer of the abstract filter.
LEMMA CheckIsAnswer ==
    ASSUME TypeOK, BitmapIsHistory, NEW seq \in Seqs, Check(seq),
           NEW i \in Impls, Exact(i, filter[i])
    PROVE  LET ok == /\ seq \notin accepted[i]
                     /\ \A s \in accepted[i] : s - seq <= filter[i].window
           IN  /\ answer'[i] = [seq |-> seq, ok |-> ok]
               /\ accepted'[i] = IF ok THEN accepted[i] \union {seq} ELSE accepted[i]
               /\ filter'[i].window = filter[i].window
<1>1. /\ filter[i] \in ReplayState
      /\ accepted[i] \in SUBSET Nat
      /\ seq \in Nat
  BY ReplayFilterAssumption DEF TypeOK
<1>2. Matches(filter[i], accepted[i])
  BY DEF BitmapIsHistory
<1> DEFINE fresh == Fresh(filter[i], seq)
           ok == /\ seq \notin accepted[i]
                 /\ \A s \in accepted[i] : s - seq <= filter[i].window
<1>3. fresh <=> ok
  BY <1>1, <1>2, FreshIsAcceptable
<1>4. fresh \in BOOLEAN /\ ok \in BOOLEAN
  BY <1>1 DEF Fresh, ReplayState
<1>5. fresh = ok
  BY <1>3, <1>4
<1>6. /\ answer'[i] = [seq |-> seq, ok |-> fresh]
      /\ accepted'[i] = IF fresh THEN accepted[i] \union {seq} ELSE accepted[i]
  BY DEF Check
<1>7. filter'[i].window = filter[i].window
  BY <1>1, AfterCheckType DEF Check
<1> HIDE DEF fresh, ok
<1>8. /\ answer'[i] = [seq |-> seq, ok |-> ok]
      /\ accepted'[i] = IF ok THEN accepted[i] \union {seq} ELSE accepted[i]
  BY <1>5, <1>6
<1>9. QED
  BY <1>7, <1>8 DEF ok

\* PythonImplementsPromise: the gateway's filter implements the abstract one
\* for every word size, window and history.
THEOREM PythonRefines == Spec => PythonImplementsPromise
<1>1. Init => PythonPromise!Init
  BY NewReplayType
     DEF Init, PythonPromise!Init, ClampedWindows, NoAnswer,
         PythonPromise!NoAnswer, Impls, NewReplay
<1>2. TypeOK /\ BitmapIsHistory /\ [Next]_vars
          => [PythonPromise!Next]_(PythonPromise!absVars)
  <2>1. ASSUME TypeOK, BitmapIsHistory, NEW seq \in Seqs, Check(seq)
        PROVE  PythonPromise!Answer(seq)
    <3>1. "python" \in Impls /\ Exact("python", filter["python"])
      BY DEF Impls, Exact
    <3>2. QED
      BY <2>1, <3>1, CheckIsAnswer
         DEF PythonPromise!Answer, PythonPromise!Acceptable
  <2>2. QED
    BY <2>1 DEF Next, vars, PythonPromise!Next, PythonPromise!absVars
<1>3. QED
  BY <1>1, <1>2, TypeCorrect, BitmapCorrect, PTL
     DEF Spec, PythonImplementsPromise, PythonPromise!Spec

\* A C filter built with a window below the word size keeps it.
LEMMA WindowStaysBelowWord ==
    ASSUME \A w \in WindowRequests : ClampWindow(w) < WordBits
    PROVE  Spec => [](filter["c"].window < WordBits)
<1> DEFINE Below == filter["c"].window < WordBits
<1>1. Init => Below
  BY NewReplayType, ReplayFilterAssumption DEF Init, Impls
<1>2. TypeOK /\ Below /\ [Next]_vars => Below'
  <2>1. ASSUME TypeOK, Below, NEW seq \in Seqs, Check(seq)
        PROVE  Below'
    <3>1. filter'["c"].window = filter["c"].window
      BY <2>1, AfterCheckType, ReplayFilterAssumption DEF Check, TypeOK, Impls
    <3>2. QED
      BY <2>1, <3>1
  <2>2. QED
    BY <2>1 DEF Next, vars
<1>3. QED
  BY <1>1, <1>2, TypeCorrect, PTL DEF Spec

\* CImplementsPromise: sps_replay_check implements the abstract filter for
\* every window below the word size (every caller in the code asks for 8).
THEOREM CRefines ==
    ASSUME \A w \in WindowRequests : ClampWindow(w) < WordBits
    PROVE  Spec => CImplementsPromise
<1>1. Init => CPromise!Init
  BY NewReplayType
     DEF Init, CPromise!Init, ClampedWindows, NoAnswer, CPromise!NoAnswer,
         Impls, NewReplay
<1>2. TypeOK /\ BitmapIsHistory /\ filter["c"].window < WordBits /\ [Next]_vars
          => [CPromise!Next]_(CPromise!absVars)
  <2>1. ASSUME TypeOK, BitmapIsHistory, filter["c"].window < WordBits,
               NEW seq \in Seqs, Check(seq)
        PROVE  CPromise!Answer(seq)
    <3>1. "c" \in Impls /\ Exact("c", filter["c"])
      BY <2>1 DEF Impls, Exact
    <3>2. QED
      BY <2>1, <3>1, CheckIsAnswer DEF CPromise!Answer, CPromise!Acceptable
  <2>2. QED
    BY <2>1 DEF Next, vars, CPromise!Next, CPromise!absVars
<1>3. QED
  BY <1>1, <1>2, TypeCorrect, BitmapCorrect, WindowStaysBelowWord, PTL
     DEF Spec, CImplementsPromise, CPromise!Spec

=============================================================================
