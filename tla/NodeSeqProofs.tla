--------------------------- MODULE NodeSeqProofs ---------------------------
(***************************************************************************)
(* For every reservation step, limit and set of keys: if NVS can be read   *)
(* at boot and `seqreset` is only typed before a frame leaves under the    *)
(* new key, the numbers of one key only grow, NVS bounds them at every     *)
(* instant, and none exceeds SPS_SEQ_MAX.                                  *)
(***************************************************************************)
EXTENDS NodeSeq, TLAPS

\* Types alone need neither assumption.
THEOREM TypeCorrect == Spec => []TypeOK
<1> USE NodeSeqAssumption
<1>1. Init => TypeOK
  BY DEF Init, TypeOK
<1>2. TypeOK /\ [Next]_vars => TypeOK'
  <2> SUFFICES ASSUME TypeOK, [Next]_vars PROVE TypeOK'
    OBVIOUS
  <2> USE DEF TypeOK, keyVars, SeqReserve, Candidate
  <2>1. CASE Boot
    BY <2>1 DEF Boot, HwRead
  <2>2. CASE FirstReserve
    BY <2>2 DEF FirstReserve
  <2>3. CASE Reserve
    BY <2>3 DEF Reserve
  <2>4. CASE Issue
    BY <2>4 DEF Issue
  <2>5. CASE Reset
    BY <2>5 DEF Reset
  <2>6. CASE GoToSleep
    BY <2>6 DEF GoToSleep
  <2>7. CASE Keygen
    BY <2>7 DEF Keygen
  <2>8. CASE Save
    BY <2>8 DEF Save
  <2>9. CASE SeqResetCmd
    BY <2>9 DEF SeqResetCmd
  <2>10. CASE UNCHANGED vars
    BY <2>10 DEF vars
  <2>11. QED
    BY <2>1, <2>2, <2>3, <2>4, <2>5, <2>6, <2>7, <2>8, <2>9, <2>10 DEF Next
<1>3. QED
  BY <1>1, <1>2, PTL DEF Spec

\* A number issued in a state of the invariant is above all those issued
\* before under the same key, inside 1 .. SeqMax, and below the bound.
LEMMA IssueIsFresh ==
    ASSUME IInv, Issue
    PROVE  /\ Candidate \in 1 .. SeqMax
           /\ Candidate < seqHw
           /\ \A s \in 0 .. SeqMax : <<ramKey, s>> \in issued => s < Candidate
BY NodeSeqAssumption
   DEF IInv, TypeOK, Issue, Candidate, RamAgreesWithNvs

\* IInv is inductive: one step per action.
LEMMA Inductive ==
    ASSUME ~ReadFaults, QuietRotation
    PROVE  IInv /\ [Next]_vars => IInv'
<1> USE NodeSeqAssumption
<1> SUFFICES ASSUME IInv, [Next]_vars PROVE IInv'
  OBVIOUS
<1>0. TypeOK'
  <2>1. TypeOK /\ [Next]_vars => TypeOK'
    BY DEF TypeOK, Next, vars, keyVars, Boot, HwRead, FirstReserve, Reserve,
           SeqReserve, Candidate, Issue, Reset, GoToSleep, Keygen, Save, SeqResetCmd
  <2>2. QED
    BY <2>1 DEF IInv
<1> USE DEF IInv, BoundCoversUsed, NeverWraps, RamAgreesWithNvs
<1>1. CASE Boot
  <2>1. /\ rtcSeq' = IF rtcSeq < seqHw THEN seqHw ELSE rtcSeq
        /\ reserved' = seqHw
        /\ pc' = IF seqHw = 0 THEN "first" ELSE "run"
        /\ ramKey' = nvsKey
        /\ UNCHANGED <<seqHw, nvsKey, issued>>
    BY <1>1 DEF Boot, HwRead
  <2>2. QED
    BY <1>0, <2>1 DEF TypeOK
<1>2. CASE FirstReserve
  \* The bound read was 0, so no number has been used under the saved key.
  <2>1. pc = "first" /\ seqHw = 0
    BY <1>2 DEF FirstReserve
  <2>2. \A s \in 0 .. SeqMax : ~(s < 0)
    OBVIOUS
  <2>3. \A s \in 0 .. SeqMax : <<nvsKey, s>> \notin issued /\ <<ramKey, s>> \notin issued
    BY <2>1, <2>2
  <2>4. QED
    BY <1>0, <1>2, <2>3 DEF FirstReserve, SeqReserve, keyVars
<1>3. CASE Reserve
  <2>1. /\ seqHw' = Candidate + SeqCkpt /\ reserved' = seqHw'
        /\ pc = "run" /\ pc' = "reserved" /\ rtcSeq < SeqMax
        /\ UNCHANGED <<rtcSeq, ramKey, nvsKey, issued>>
    BY <1>3 DEF Reserve, SeqReserve, keyVars
  <2>2. seqHw <= Candidate /\ Candidate < seqHw'
    BY <1>3, <2>1 DEF Reserve, TypeOK, Candidate
  <2>3. QED
    BY <1>0, <2>1, <2>2 DEF TypeOK, Candidate
<1>4. CASE Issue
  <2>1. /\ rtcSeq' = Candidate
        /\ issued' = issued \union {<<ramKey, Candidate>>}
        /\ pc' = "run" /\ pc # "off"
        /\ UNCHANGED <<reserved, seqHw, ramKey, nvsKey>>
    BY <1>4 DEF Issue, keyVars
  <2>2. /\ Candidate \in 1 .. SeqMax
        /\ Candidate < seqHw
        /\ \A s \in 0 .. SeqMax : <<ramKey, s>> \in issued => s < Candidate
    BY <1>4, IssueIsFresh
  <2>3. BoundCoversUsed' /\ NeverWraps'
    BY <2>1, <2>2
  <2>4. RamAgreesWithNvs'
    BY <2>1, <2>2
  <2>5. QED
    BY <1>0, <2>1, <2>3, <2>4
<1>5. CASE Reset
  BY <1>0, <1>5 DEF Reset, keyVars
<1>6. CASE GoToSleep
  BY <1>0, <1>6 DEF GoToSleep, keyVars
<1>7. CASE Keygen
  \* A key just drawn has no number yet.
  <2>1. \A s \in 0 .. SeqMax : <<ramKey', s>> \notin issued
    BY <1>7 DEF Keygen, TypeOK
  <2>2. QED
    BY <1>0, <1>7, <2>1 DEF Keygen
<1>8. CASE Save
  BY <1>0, <1>8 DEF Save
<1>9. CASE SeqResetCmd
  \* The bound is lowered, but no number has been used under the new key.
  <2>1. \A s \in 0 .. SeqMax : <<ramKey, s>> \notin issued /\ <<nvsKey, s>> \notin issued
    BY <1>9 DEF SeqResetCmd, AfterRotation
  <2>2. QED
    BY <1>0, <1>9, <2>1 DEF SeqResetCmd, SeqReserve
<1>10. CASE UNCHANGED vars
  BY <1>0, <1>10 DEF vars, Candidate
<1>11. QED
  BY <1>1, <1>2, <1>3, <1>4, <1>5, <1>6, <1>7, <1>8, <1>9, <1>10 DEF Next

\* BoundCoversUsed, NeverWraps and RamAgreesWithNvs for all constants.
THEOREM SeqSafe ==
    ASSUME ~ReadFaults, QuietRotation
    PROVE  Spec => [](BoundCoversUsed /\ NeverWraps /\ RamAgreesWithNvs)
<1>1. Init => IInv
  BY NodeSeqAssumption
     DEF Init, IInv, TypeOK, BoundCoversUsed, NeverWraps, RamAgreesWithNvs
<1>2. IInv => BoundCoversUsed /\ NeverWraps /\ RamAgreesWithNvs
  BY DEF IInv
<1>3. QED
  BY <1>1, <1>2, Inductive, PTL DEF Spec

\* NeverWraps: the counter stops at SPS_SEQ_MAX, however far resets have
\* fast-forwarded it.
THEOREM CounterStops ==
    ASSUME ~ReadFaults, QuietRotation
    PROVE  Spec => []NeverWraps
BY SeqSafe, PTL

\* RamAgreesWithNvs: what the running node takes for reserved is what NVS says,
\* and its counter is past every number used.
THEOREM ReservationIsSaved ==
    ASSUME ~ReadFaults, QuietRotation
    PROVE  Spec => []RamAgreesWithNvs
BY SeqSafe, PTL

\* IncreasingUnderKey: no number is ever used twice under one key, whatever
\* resets, sleeps, failed writes and quiet rotations the node goes through.
THEOREM NoReuse ==
    ASSUME ~ReadFaults, QuietRotation
    PROVE  Spec => IncreasingUnderKey
<1>1. Init => IInv
  BY NodeSeqAssumption
     DEF Init, IInv, TypeOK, BoundCoversUsed, NeverWraps, RamAgreesWithNvs
<1>2. IInv /\ [Next]_vars
        => [Issue => \A s \in 0 .. SeqMax : <<ramKey, s>> \in issued => s < rtcSeq']_vars
  <2>1. ASSUME IInv, Issue
        PROVE  \A s \in 0 .. SeqMax : <<ramKey, s>> \in issued => s < rtcSeq'
    BY <2>1, IssueIsFresh DEF Issue
  <2>2. QED
    BY <2>1
<1>3. QED
  BY <1>1, <1>2, Inductive, PTL DEF Spec, IncreasingUnderKey

=============================================================================
