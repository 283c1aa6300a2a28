------------------------ MODULE AlertDeliveryProofs ------------------------
(***************************************************************************)
(* For every word size, window, number of attempts, faults and sequence    *)
(* numbers: as long as the gateway knows one key only, the uplink          *)
(* implements the abstract log and a duplicate was seen; while the node    *)
(* keeps its key an awaited ACK passes its filter; and without faults an   *)
(* acknowledged alert has its row.  Types need none of this.               *)
(***************************************************************************)
EXTENDS AlertDelivery, TLAPS

Busy == {"ack", "save", "log", "store"}

\* What the stages of the node and of handle_frame say of the frame in hand.
StageInv ==
    /\ nodeKey = rotations
    /\ rows \in Seq(Frames)
    /\ pc # "idle" => sending \in raised
    /\ pc = "wait" => Listens
    /\ gwPc \in Busy => /\ job.frame \in raised
                        /\ ~job.dup => job.frame \in verified
    /\ gwPc = "store" => ~job.dup

\* lastSeq bounds the numbers used under the key, and the frame being sent has
\* it.
SeqInv ==
    /\ \A f \in raised : f.key <= nodeKey /\ (f.key = nodeKey => f.seq <= lastSeq)
    /\ \A f, g \in raised : f.key = g.key /\ f.seq = g.seq => f = g
    /\ pc # "idle" => sending.key = nodeKey /\ sending.seq = lastSeq

\* Under its first key the node's filter is behind the alert it waits for.
AckInv ==
    nodeKey = 0 /\ ackWin.seeded => /\ ackWin.last <= lastSeq
                                    /\ pc # "idle" => ackWin.last < lastSeq

\* Either the key is not rotated or the daemon is not restarted to learn the
\* new one.
OneKey == MaxRotations = 0 \/ MaxFailures = 0

KeyInv ==
    /\ gwKey = 0
    /\ MaxFailures = 0 => gwPc # "down"
    /\ \A f \in verified \union acks : f.key = 0
    /\ gwPc \in Busy => job.frame.key = 0

SeqsOf(V) == {f.seq : f \in V}

\* Whatever a window marks is in A.
Within(r, A) ==
    r.seeded => r.last \in A /\ \A b \in r.bits : r.last - 1 - b \in A

\* Seen, or further behind than the window.
SeenOrOld(f) ==
    \/ f \in verified
    \/ \E g \in verified : g.key = f.key /\ g.seq - f.seq > Window

\* The windows mark nothing that was not verified, and only what was seen or is
\* old is called a duplicate or acknowledged.
WindowInv ==
    /\ mem.window = Window /\ dbWin.window = Window
    /\ Within(mem, SeqsOf(verified)) /\ Within(dbWin, SeqsOf(verified))
    /\ gwPc \in Busy /\ job.dup => SeenOrOld(job.frame)
    /\ \A a \in acks : SeenOrOld(a)

\* Both windows refuse what has a row, and from SaveReplay on the frame in hand.
RowInv ==
    /\ \A f \in ToSet(rows) : ~Fresh(mem, f.seq) /\ ~Fresh(dbWin, f.seq)
    /\ gwPc \in Busy => ~Fresh(mem, job.frame.seq)
    /\ gwPc \in {"log", "store"} => ~Fresh(dbWin, job.frame.seq)
    /\ gwPc \in Busy /\ ~job.dup => job.frame \notin ToSet(rows)

TypeInv == TypeOK /\ StageInv

IInv ==
    /\ TypeInv /\ SeqInv /\ AckInv /\ KeyInv /\ WindowInv /\ RowInv
    /\ Confirmed \subseteq verified

\* Without faults, what is verified is stored or in hand.
StoreInv ==
    \A f \in verified : f \in ToSet(rows) \/ (gwPc \in Busy /\ ~job.dup /\ job.frame = f)

-----------------------------------------------------------------------------
(* The filter                                                              *)

\* A new filter has its type and has seen nothing.
LEMMA NewFilter ==
    /\ NewReplay(Window) \in ReplayState
    /\ NewReplay(Window).window = Window
    /\ ~NewReplay(Window).seeded
BY WordBitsAssumption, AlertDeliveryAssumption DEF NewReplay, ReplayState, ClampWindow

\* A check keeps type and window.
LEMMA CheckTyped ==
    ASSUME NEW i \in Impls, NEW r \in ReplayState, NEW seq \in Nat
    PROVE  /\ AfterCheck(i, r, seq) \in ReplayState
           /\ AfterCheck(i, r, seq).window = r.window
<1>1. CASE ~Fresh(r, seq)
  BY <1>1 DEF AfterCheck
<1>2. CASE Fresh(r, seq) /\ ~r.seeded
  BY <1>2 DEF AfterCheck, ReplayState
<1>3. CASE Fresh(r, seq) /\ r.seeded /\ seq > r.last
  <2>1. Shift(i, r.bits, seq - r.last) \in SUBSET Bits
    BY DEF Shift, ShiftC, ShiftPython, ShiftedWord
  <2>2. QED
    BY <1>3, <2>1 DEF AfterCheck, ReplayState
<1>4. CASE Fresh(r, seq) /\ r.seeded /\ ~(seq > r.last)
  <2>1. r.last - seq - 1 \in Bits
    BY <1>4, WordBitsAssumption DEF Fresh, Bits, ReplayState
  <2>2. QED
    BY <1>4, <2>1 DEF AfterCheck, ReplayState
<1>5. QED
  BY <1>1, <1>2, <1>3, <1>4

\* The Python filter refuses the number just checked, and whatever it refused
\* before.
LEMMA RefusedForGood ==
    ASSUME NEW r \in ReplayState, NEW seq \in Nat, NEW s \in Nat,
           s = seq \/ ~Fresh(r, s)
    PROVE  ~Fresh(AfterCheck("python", r, seq), s)
<1> DEFINE q == AfterCheck("python", r, seq)
<1>0. /\ r.last \in Nat /\ r.window \in 1 .. WordBits /\ r.bits \subseteq Bits
      /\ WordBits \in Nat
  BY WordBitsAssumption DEF ReplayState
<1>1. CASE ~Fresh(r, seq)
  BY <1>1 DEF AfterCheck
<1>2. CASE Fresh(r, seq) /\ ~r.seeded
  <2>1. s = seq
    BY <1>2 DEF Fresh
  <2>2. q.seeded /\ q.last = seq
    BY <1>2 DEF AfterCheck, ReplayState
  <2>3. QED
    BY <1>0, <2>1, <2>2 DEF Fresh
<1>3. CASE Fresh(r, seq) /\ r.seeded /\ seq > r.last
  <2>1. /\ q.seeded /\ q.last = seq /\ q.window = r.window
        /\ q.bits = ({b + (seq - r.last) : b \in r.bits} \union {seq - r.last - 1}) \cap Bits
    BY <1>3 DEF AfterCheck, ReplayState, Shift, ShiftPython
  <2>2. CASE s = seq
    BY <1>0, <2>1, <2>2 DEF Fresh
  <2>3. CASE s # seq
    <3>1. /\ s <= r.last
          /\ r.last - s \in 1 .. r.window => r.last - s - 1 \in r.bits
      BY <1>0, <1>3, <2>3 DEF Fresh
    <3>2. CASE seq - s > r.window
      BY <1>0, <1>3, <2>1, <3>1, <3>2 DEF Fresh
    <3>3. CASE seq - s <= r.window
      <4>1. seq - s - 1 \in Bits
        BY <1>0, <1>3, <3>1, <3>3 DEF Bits
      <4>2. s = r.last \/ r.last - s - 1 \in r.bits
        BY <1>0, <1>3, <3>1, <3>3
      <4>3. seq - s - 1 \in q.bits
        <5>1. CASE s = r.last
          BY <1>0, <2>1, <4>1, <5>1
        <5>2. CASE r.last - s - 1 \in r.bits
          <6>1. seq - s - 1 = (r.last - s - 1) + (seq - r.last)
            BY <1>0
          <6>2. QED
            BY <2>1, <4>1, <5>2, <6>1
        <5>3. QED
          BY <4>2, <5>1, <5>2
      <4>4. QED
        BY <1>0, <1>3, <2>1, <3>1, <4>3 DEF Fresh
    <3>4. QED
      BY <1>0, <3>2, <3>3
  <2>4. QED
    BY <2>2, <2>3
<1>4. CASE Fresh(r, seq) /\ r.seeded /\ ~(seq > r.last)
  <2>1. /\ q.seeded /\ q.last = r.last /\ q.window = r.window
        /\ q.bits = r.bits \union {r.last - seq - 1}
    BY <1>4 DEF AfterCheck, ReplayState
  <2>2. QED
    BY <1>0, <1>4, <2>1 DEF Fresh
<1>5. QED
  BY <1>1, <1>2, <1>3, <1>4

\* A window that marks only what is in A marks only that and the number checked.
LEMMA WithinGrows ==
    ASSUME NEW r \in ReplayState, NEW seq \in Nat, NEW A \in SUBSET Nat, Within(r, A)
    PROVE  Within(AfterCheck("python", r, seq), IF Fresh(r, seq) THEN A \union {seq} ELSE A)
<1> DEFINE q == AfterCheck("python", r, seq)
<1>0. r.last \in Nat /\ r.bits \subseteq Bits /\ \A b \in Bits : b \in Nat
  BY WordBitsAssumption DEF ReplayState, Bits
<1>1. CASE ~Fresh(r, seq)
  BY <1>1 DEF AfterCheck
<1>2. CASE Fresh(r, seq) /\ ~r.seeded
  <2>1. q.last = seq /\ q.bits = {}
    BY <1>2 DEF AfterCheck, ReplayState
  <2>2. QED
    BY <1>2, <2>1 DEF Within
<1>3. CASE Fresh(r, seq) /\ r.seeded /\ seq > r.last
  <2>1. /\ q.last = seq
        /\ q.bits = ({b + (seq - r.last) : b \in r.bits} \union {seq - r.last - 1}) \cap Bits
    BY <1>3 DEF AfterCheck, ReplayState, Shift, ShiftPython
  <2>2. r.last \in A /\ \A b \in r.bits : r.last - 1 - b \in A
    BY <1>3 DEF Within
  <2>3. ASSUME NEW c \in q.bits
        PROVE  seq - 1 - c \in A
    <3>1. CASE c = seq - r.last - 1
      <4>1. seq - 1 - c = r.last
        BY <1>0, <3>1
      <4>2. QED
        BY <2>2, <4>1
    <3>2. CASE \E b \in r.bits : c = b + (seq - r.last)
      <4>1. PICK b \in r.bits : c = b + (seq - r.last)
        BY <3>2
      <4>2. seq - 1 - c = r.last - 1 - b
        BY <1>0, <4>1
      <4>3. QED
        BY <2>2, <4>2
    <3>3. QED
      BY <2>1, <2>3, <3>1, <3>2
  <2>4. QED
    BY <1>3, <2>1, <2>3 DEF Within
<1>4. CASE Fresh(r, seq) /\ r.seeded /\ ~(seq > r.last)
  <2>1. q.last = r.last /\ q.bits = r.bits \union {r.last - seq - 1}
    BY <1>4 DEF AfterCheck, ReplayState
  <2>2. r.last - 1 - (r.last - seq - 1) = seq
    BY <1>0
  <2>3. QED
    BY <1>4, <2>1, <2>2 DEF Within
<1>5. QED
  BY <1>1, <1>2, <1>3, <1>4

\* What such a window refuses is in A, or further behind than the window.
LEMMA RefusedIsSeenOrOld ==
    ASSUME NEW r \in ReplayState, NEW s \in Nat, NEW A \in SUBSET Nat,
           Within(r, A), ~Fresh(r, s)
    PROVE  s \in A \/ \E x \in A : x - s > r.window
<1>1. /\ r.seeded /\ s <= r.last
      /\ r.last \in A /\ \A b \in r.bits : r.last - 1 - b \in A
      /\ r.last \in Nat /\ r.window \in Nat
  BY WordBitsAssumption DEF Fresh, Within, ReplayState
<1>2. CASE s = r.last
  BY <1>1, <1>2
<1>3. CASE r.last - s \in 1 .. r.window
  <2>1. r.last - s - 1 \in r.bits
    BY <1>3 DEF Fresh
  <2>2. r.last - 1 - (r.last - s - 1) = s
    BY <1>1
  <2>3. QED
    BY <1>1, <2>1, <2>2
<1>4. CASE r.last - s > r.window
  BY <1>1, <1>4
<1>5. QED
  BY <1>1, <1>2, <1>3, <1>4

\* A filter behind m lets m through, and stays behind it when it checks a number
\* before m.
LEMMA Behind ==
    ASSUME NEW i \in Impls, NEW r \in ReplayState, NEW m \in Nat, NEW seq \in Nat,
           r.seeded => r.last < m
    PROVE  /\ Fresh(r, m)
           /\ seq < m /\ AfterCheck(i, r, seq).seeded => AfterCheck(i, r, seq).last < m
           /\ AfterCheck(i, r, m).last <= m
<1>1. r.last \in Nat
  BY DEF ReplayState
<1>2. Fresh(r, m)
  BY <1>1 DEF Fresh
<1>3. ASSUME NEW x \in Nat
      PROVE  AfterCheck(i, r, x).last \in {r.last, x} /\
             (AfterCheck(i, r, x).seeded /\ ~r.seeded => AfterCheck(i, r, x).last = x)
  BY <1>3 DEF AfterCheck, ReplayState, Fresh
<1>4. QED
  BY <1>1, <1>2, <1>3 DEF AfterCheck, ReplayState, Fresh

-----------------------------------------------------------------------------
(* Types                                                                   *)

\* What a new row adds.
LEMMA AppendSet ==
    ASSUME NEW S, NEW s \in Seq(S), NEW e \in S
    PROVE  /\ Append(s, e) \in Seq(S)
           /\ ToSet(Append(s, e)) = ToSet(s) \union {e}
<1>1. /\ DOMAIN s = 1 .. Len(s)
      /\ Len(s) \in Nat
      /\ DOMAIN Append(s, e) = 1 .. (Len(s) + 1)
      /\ Append(s, e)[Len(s) + 1] = e
      /\ \A i \in 1 .. Len(s) : Append(s, e)[i] = s[i]
  OBVIOUS
<1>2. QED
  BY <1>1 DEF ToSet

\* The next attempt, or the end of the send.
LEMMA AttemptTyped ==
    ASSUME TypeInv, NextAttempt, pc # "idle"
    PROVE  /\ attempt' \in 0 .. (RetxCount - 1)
           /\ pc' \in {"idle", "send"}
           /\ sending' \in {sending, NoFrame}
           /\ pc' = "send" => sending' = sending
BY AlertDeliveryAssumption
   DEF TypeInv, TypeOK, NextAttempt, LastAttempt, EndSend

\* Types and stages: one step per action.
LEMMA TypeInductive == TypeInv /\ [Next]_vars => TypeInv'
<1> USE AlertDeliveryAssumption
<1> SUFFICES ASSUME TypeInv, [Next]_vars PROVE TypeInv'
  OBVIOUS
<1>0. \A f \in Frames : f.seq \in Nat /\ f.seq \in Seqs /\ f.key \in Keys /\ f.kind \in Kinds
  BY DEF Frames, Seqs
<1> USE DEF TypeInv, TypeOK, StageInv, Busy, Listens
<1>1. ASSUME NEW kind \in Kinds, Begin(kind)
      PROVE  TypeInv'
  <2>1. PICK s \in Seqs : /\ lastSeq' = s
                          /\ sending' = [kind |-> kind, key |-> nodeKey, seq |-> s]
    BY <1>1 DEF Begin
  <2>2. sending' \in Frames /\ lastSeq' \in 0 .. MaxSeq
    BY <2>1 DEF Frames, Seqs
  <2>3. /\ attempt' \in 0 .. (RetxCount - 1)
        /\ raised' = raised \union {sending'} /\ pc' = "send"
        /\ UNCHANGED <<ackEnable, nodeKey, ackWin, acked, gwVars, air, acks, failures, rotations>>
    BY <1>1 DEF Begin
  <2>4. QED
    BY <2>2, <2>3 DEF gwVars
<1>2. CASE Transmit
  <2>1. CASE Listens
    BY <1>2, <2>1 DEF Transmit, gwVars
  <2>2. CASE ~Listens
    BY <1>2, <2>2, AttemptTyped DEF Transmit, AckedUnheard, gwVars
  <2>3. QED
    BY <2>1, <2>2
<1>3. CASE TransmitFails
  BY <1>3, AttemptTyped DEF TransmitFails, gwVars
<1>4. ASSUME NEW a \in acks, HearAck(a)
      PROVE  TypeInv'
  <2>1. a \in Frames /\ "c" \in Impls
    BY DEF Impls
  <2>2. ackWin' \in ReplayState
    BY <1>0, <1>4, <2>1, CheckTyped DEF HearAck
  <2>3. CASE a.seq = sending.seq
    BY <1>4, <2>2, <2>3 DEF HearAck, EndSend, gwVars
  <2>4. CASE a.seq # sending.seq
    BY <1>4, <2>2, <2>4 DEF HearAck, gwVars
  <2>5. QED
    BY <2>3, <2>4
<1>5. CASE AckWindowEnds
  BY <1>5, AttemptTyped DEF AckWindowEnds, gwVars
<1>6. CASE NodeReset
  BY <1>6, NewFilter DEF NodeReset, EndSend, gwVars
<1>7. CASE RotateKey
  BY <1>7 DEF RotateKey, gwVars, Keys
<1>8. ASSUME NEW f \in air \union acks, LoseFrame(f) \/ LoseAck(f)
      PROVE  TypeInv'
  BY <1>8 DEF LoseFrame, LoseAck, nodeVars, gwVars
<1>9. ASSUME NEW f \in air, Receive(f)
      PROVE  TypeInv'
  <2>1. f \in Frames /\ f \in raised /\ "python" \in Impls
    BY DEF Impls
  <2>2. mem' \in ReplayState
    BY <1>0, <1>9, <2>1, CheckTyped DEF Receive
  <2>3. /\ job'.frame = f /\ job'.dup \in BOOLEAN
        /\ verified' = IF job'.dup THEN verified ELSE verified \union {f}
        /\ gwPc' \in {"ack", "save"}
        /\ UNCHANGED <<nodeVars, gwKey, dbWin, rows, air, acks, failures, rotations>>
    BY <1>9 DEF Receive, Fresh
  <2>4. QED
    BY <2>1, <2>2, <2>3 DEF nodeVars
<1>10. CASE SendAck
  BY <1>10 DEF SendAck, nodeVars
<1>11. CASE SaveReplay
  BY <1>11 DEF SaveReplay, nodeVars
<1>12. CASE AddRaw
  <2>1. CASE job.dup
    <3>1. /\ gwPc' = "idle" /\ job' = NoJob
          /\ UNCHANGED <<nodeVars, gwKey, mem, dbWin, rows, verified, air, acks,
                         failures, rotations>>
      BY <1>12, <2>1 DEF AddRaw, Done
    <3>2. QED
      BY <3>1 DEF NoJob, nodeVars
  <2>2. CASE ~job.dup
    BY <1>12, <2>2 DEF AddRaw, nodeVars
  <2>3. QED
    BY <2>1, <2>2
<1>13. ASSUME rows' = Append(rows, job.frame), gwPc = "store"
       PROVE  rows' \in Seq(Frames) /\ ToSet(rows') \subseteq verified
  <2>1. job.frame \in Frames /\ job.frame \in verified
    BY <1>13
  <2>2. QED
    BY <1>13, <2>1, AppendSet
<1>14. CASE Store
  <2>1. rows' \in Seq(Frames) /\ ToSet(rows') \subseteq verified
    BY <1>13, <1>14 DEF Store
  <2>2. QED
    BY <1>14, <2>1 DEF Store, Done, NoJob, nodeVars
<1>15. CASE DbRaises
  <2>1. rows' \in Seq(Frames) /\ ToSet(rows') \subseteq verified
    BY <1>13, <1>15 DEF DbRaises
  <2>2. dbWin' \in ReplayState /\ failures' \in 0 .. MaxFailures
    BY <1>15 DEF DbRaises
  <2>3. /\ gwPc' = "idle" /\ job' = NoJob
        /\ UNCHANGED <<nodeVars, gwKey, mem, verified, air, acks, rotations>>
    BY <1>15 DEF DbRaises, Done
  <2>4. QED
    BY <2>1, <2>2, <2>3 DEF NoJob, nodeVars
<1>16. CASE Crash
  BY <1>16 DEF Crash, NoJob, nodeVars
<1>17. CASE Restart
  BY <1>17 DEF Restart, nodeVars
<1>18. CASE UNCHANGED vars
  BY <1>18 DEF vars, nodeVars, gwVars
<1>19. QED
  BY <1>1, <1>2, <1>3, <1>4, <1>5, <1>6, <1>7, <1>8, <1>9, <1>10, <1>11, <1>12, <1>14,
     <1>15, <1>16, <1>17, <1>18 DEF Next

\* The initial states are well typed.
LEMMA InitTyped == Init => TypeInv
<1> SUFFICES ASSUME Init PROVE TypeInv
  OBVIOUS
<1>1. ToSet(rows) = {} /\ rows \in Seq(Frames)
  BY DEF Init, ToSet
<1>2. {ackWin, mem, dbWin} \subseteq ReplayState
  BY NewFilter DEF Init
<1>3. /\ {nodeKey, gwKey} \subseteq Keys
      /\ lastSeq \in 0 .. MaxSeq
      /\ attempt \in 0 .. (RetxCount - 1)
      /\ failures \in 0 .. MaxFailures /\ rotations \in 0 .. MaxRotations
  BY AlertDeliveryAssumption DEF Init, Keys
<1>4. /\ ackEnable \in BOOLEAN
      /\ {sending, job.frame} \subseteq Frames \union {NoFrame}
      /\ job.dup \in BOOLEAN
  BY DEF Init, NoJob
<1>5. QED
  BY <1>1, <1>2, <1>3, <1>4 DEF Init, TypeInv, TypeOK, StageInv, Busy

\* TypeOK of AlertDelivery, through faults and rotations: what is on the air,
\* acknowledged or verified has been raised, and rows are of verified frames.
THEOREM TypeCorrect == Spec => []TypeOK
<1>1. TypeInv => TypeOK
  BY DEF TypeInv
<1>2. QED
  BY <1>1, InitTyped, TypeInductive, PTL DEF Spec

-----------------------------------------------------------------------------
(* One key                                                                 *)

\* Numbers: what is raised under the key is not above lastSeq, and names its
\* frame.
LEMMA SeqInductive == TypeInv /\ SeqInv /\ [Next]_vars => SeqInv'
<1> SUFFICES ASSUME TypeInv, SeqInv, [Next]_vars PROVE SeqInv'
  OBVIOUS
<1>0. /\ \A f \in raised : f.seq \in Nat /\ f.key \in Nat
      /\ nodeKey \in Nat /\ lastSeq \in Nat
  BY AlertDeliveryAssumption DEF TypeInv, TypeOK, Frames, Seqs, Keys
<1>1. ASSUME NEW kind \in Kinds, Begin(kind)
      PROVE  SeqInv'
  <2>1. PICK s \in Seqs : /\ s > lastSeq
                          /\ lastSeq' = s
                          /\ sending' = [kind |-> kind, key |-> nodeKey, seq |-> s]
    BY <1>0, <1>1, AlertDeliveryAssumption DEF Begin, NextSeq, Seqs
  <2>2. /\ raised' = raised \union {sending'} /\ nodeKey' = nodeKey
        /\ sending'.seq = s /\ sending'.key = nodeKey
    BY <1>1, <2>1 DEF Begin
  <2>3. s \in Nat
    BY <2>1 DEF Seqs
  <2>4. \A f \in raised : ~(f.key = nodeKey /\ f.seq = s) /\ f.key <= nodeKey
    BY <1>0, <2>1, <2>3 DEF SeqInv
  <2>5. \A f \in raised' : f.key <= nodeKey' /\ (f.key = nodeKey' => f.seq <= lastSeq')
    BY <1>0, <2>1, <2>2, <2>3 DEF SeqInv
  <2>6. \A f, g \in raised' : f.key = g.key /\ f.seq = g.seq => f = g
    BY <2>2, <2>4 DEF SeqInv
  <2>7. QED
    BY <2>1, <2>2, <2>5, <2>6 DEF SeqInv
<1>2. CASE RotateKey
  <2>1. /\ nodeKey' = nodeKey + 1 /\ raised' = raised /\ pc = "idle" /\ pc' = pc
    BY <1>2 DEF RotateKey
  <2>2. \A f \in raised : f.key <= nodeKey + 1 /\ f.key # nodeKey + 1
    BY <1>0 DEF SeqInv
  <2>3. QED
    BY <2>1, <2>2 DEF SeqInv
<1>3. ASSUME UNCHANGED <<nodeKey, lastSeq, raised>>,
             pc' = "idle" \/ (pc # "idle" /\ sending' = sending)
      PROVE  SeqInv'
  BY <1>3 DEF SeqInv
<1>4. CASE UNCHANGED nodeVars
  BY <1>3, <1>4 DEF nodeVars, SeqInv
<1>5. CASE Transmit \/ TransmitFails \/ AckWindowEnds \/ NodeReset
  BY <1>3, <1>5 DEF Transmit, TransmitFails, AckWindowEnds, NodeReset, NextAttempt, EndSend
<1>6. ASSUME NEW a \in acks, HearAck(a)
      PROVE  SeqInv'
  BY <1>3, <1>6 DEF HearAck, EndSend
<1>7. QED
  BY <1>1, <1>2, <1>4, <1>5, <1>6
  DEF Next, LoseFrame, LoseAck, Receive, SendAck, SaveReplay, AddRaw, Store, DbRaises,
      Crash, Restart, vars

\* The node's filter stays behind the number it sends.
LEMMA AckInductive == TypeInv /\ SeqInv /\ AckInv /\ [Next]_vars => AckInv'
<1> SUFFICES ASSUME TypeInv, SeqInv, AckInv, [Next]_vars PROVE AckInv'
  OBVIOUS
<1>0. /\ \A f \in raised : f.seq \in Nat
      /\ nodeKey \in Nat /\ lastSeq \in Nat /\ ackWin \in ReplayState /\ ackWin.last \in Nat
      /\ acks \subseteq raised
  BY AlertDeliveryAssumption DEF TypeInv, TypeOK, Frames, Seqs, Keys, ReplayState
<1>1. ASSUME NEW kind \in Kinds, Begin(kind)
      PROVE  AckInv'
  <2>1. /\ lastSeq' \in Nat /\ lastSeq' > lastSeq
        /\ nodeKey' = nodeKey /\ ackWin' = ackWin
    BY <1>0, <1>1, AlertDeliveryAssumption DEF Begin, NextSeq, Seqs
  <2>2. QED
    BY <1>0, <2>1 DEF AckInv
<1>2. CASE RotateKey
  BY <1>0, <1>2 DEF RotateKey, AckInv
<1>3. CASE NodeReset
  <2>1. ~ackWin'.seeded
    BY <1>3, NewFilter DEF NodeReset
  <2>2. QED
    BY <2>1 DEF AckInv
<1>4. ASSUME UNCHANGED <<nodeKey, lastSeq, ackWin>>,
             pc' = "idle" \/ pc # "idle"
      PROVE  AckInv'
  BY <1>4 DEF AckInv
<1>5. CASE UNCHANGED nodeVars
  BY <1>5 DEF nodeVars, AckInv
<1>6. CASE Transmit \/ TransmitFails \/ AckWindowEnds
  BY <1>4, <1>6 DEF Transmit, TransmitFails, AckWindowEnds
<1>7. ASSUME NEW a \in acks, HearAck(a)
      PROVE  AckInv'
  <2> SUFFICES ASSUME nodeKey = 0
               PROVE  AckInv'
    BY <1>7 DEF HearAck, AckInv
  <2>1. /\ pc # "idle" /\ a.key = nodeKey /\ ackWin' = AfterCheck("c", ackWin, a.seq)
        /\ UNCHANGED <<nodeKey, lastSeq>>
    BY <1>7 DEF HearAck
  <2>2. a.seq \in Nat /\ a.seq <= lastSeq /\ sending.seq = lastSeq
    BY <1>0, <2>1 DEF SeqInv
  <2>3. ackWin.seeded => ackWin.last < lastSeq
    BY <2>1 DEF AckInv
  <2>4. ackWin' \in ReplayState /\ ackWin'.last \in Nat
    BY <1>0, <2>1, <2>2, CheckTyped DEF Impls, ReplayState
  <2>5. CASE a.seq = lastSeq
    <3>1. ackWin'.last <= lastSeq
      BY <1>0, <2>1, <2>3, <2>5, Behind DEF Impls
    <3>2. pc' = "idle"
      BY <1>7, <2>2, <2>5 DEF HearAck, EndSend
    <3>3. QED
      BY <2>1, <3>1, <3>2 DEF AckInv
  <2>6. CASE a.seq # lastSeq
    <3>1. a.seq < lastSeq
      BY <1>0, <2>2, <2>6
    <3>2. ackWin'.seeded => ackWin'.last < lastSeq
      BY <1>0, <2>1, <2>2, <2>3, <3>1, Behind DEF Impls
    <3>3. QED
      BY <1>0, <2>1, <2>4, <3>2 DEF AckInv
  <2>7. QED
    BY <2>5, <2>6
<1>8. QED
  BY <1>1, <1>2, <1>3, <1>5, <1>6, <1>7
  DEF Next, LoseFrame, LoseAck, Receive, SendAck, SaveReplay, AddRaw, Store, DbRaises,
      Crash, Restart, vars

\* The gateway knows key 0 only.
LEMMA KeyInductive ==
    ASSUME OneKey, TypeInv, KeyInv, [Next]_vars
    PROVE  KeyInv'
<1>0. failures \in 0 .. MaxFailures /\ MaxFailures \in Nat /\ nodeKey \in Keys
  BY AlertDeliveryAssumption DEF TypeInv, TypeOK
<1>1. ASSUME NEW f \in air, Receive(f)
      PROVE  KeyInv'
  <2>1. /\ f.key = 0 /\ job'.frame = f /\ verified' \subseteq verified \union {f}
        /\ gwPc' \in {"ack", "save"} /\ UNCHANGED <<gwKey, acks>>
    BY <1>1 DEF Receive, KeyInv
  <2>2. QED
    BY <2>1 DEF KeyInv
<1>2. CASE SendAck
  BY <1>2 DEF SendAck, KeyInv, Busy
<1>3. CASE SaveReplay \/ AddRaw \/ Store
  BY <1>3 DEF SaveReplay, AddRaw, Store, Done, NoJob, KeyInv, Busy
<1>4. CASE DbRaises
  BY <1>4 DEF DbRaises, Done, KeyInv, Busy
<1>5. CASE Crash
  BY <1>0, <1>5 DEF Crash, KeyInv, Busy
<1>6. CASE Restart
  <2>1. MaxFailures # 0
    BY <1>6 DEF Restart, KeyInv
  <2>2. nodeKey = 0
    BY <1>0, <2>1 DEF OneKey, Keys
  <2>3. QED
    BY <1>6, <2>2 DEF Restart, KeyInv, Busy
<1>7. ASSUME UNCHANGED <<gwPc, gwKey, job, verified>>, acks' \subseteq acks
      PROVE  KeyInv'
  BY <1>7 DEF KeyInv
<1>8. QED
  BY <1>1, <1>2, <1>3, <1>4, <1>5, <1>6, <1>7
  DEF Next, Begin, Transmit, TransmitFails, HearAck, AckWindowEnds, NodeReset, RotateKey,
      LoseFrame, LoseAck, gwVars, vars

\* What a check leaves: a new number is marked and verified, another one was seen
\* or is old.
LEMMA ReceiveWindow ==
    ASSUME TypeInv, SeqInv, KeyInv, WindowInv, NEW f \in air, Receive(f)
    PROVE  WindowInv'
<1> DEFINE A == SeqsOf(verified)
<1>0. /\ f \in raised /\ f.key = 0 /\ f.seq \in Nat /\ mem \in ReplayState
      /\ verified \subseteq raised /\ A \in SUBSET Nat
      /\ \A g \in verified : g.key = 0 /\ g.seq \in Nat
  BY AlertDeliveryAssumption
  DEF TypeInv, TypeOK, KeyInv, Receive, Frames, Seqs, SeqsOf
<1>1. /\ mem' = AfterCheck("python", mem, f.seq)
      /\ job'.frame = f /\ job'.dup = ~Fresh(mem, f.seq)
      /\ verified' = IF Fresh(mem, f.seq) THEN verified \union {f} ELSE verified
      /\ UNCHANGED <<dbWin, acks>>
  BY DEF Receive
<1>2. verified \subseteq verified'
  BY <1>1
<1>3. mem'.window = Window
  BY <1>0, <1>1, CheckTyped DEF WindowInv, Impls
<1>4. Within(mem', SeqsOf(verified'))
  <2>1. Within(mem', IF Fresh(mem, f.seq) THEN A \union {f.seq} ELSE A)
    BY <1>0, <1>1, WithinGrows DEF WindowInv
  <2>2. SeqsOf(verified \union {f}) = A \union {f.seq}
    BY DEF SeqsOf
  <2>3. QED
    BY <1>1, <2>1, <2>2
<1>5. Within(dbWin', SeqsOf(verified'))
  BY <1>1, <1>2 DEF WindowInv, Within, SeqsOf
<1>6. job'.dup => SeenOrOld(f)'
  <2>1. SUFFICES ASSUME ~Fresh(mem, f.seq) PROVE SeenOrOld(f)'
    BY <1>1
  <2>2. f.seq \in A \/ \E x \in A : x - f.seq > mem.window
    BY <1>0, <2>1, RefusedIsSeenOrOld DEF WindowInv
  <2>3. CASE f.seq \in A
    <3>1. PICK g \in verified : g.seq = f.seq
      BY <2>3 DEF SeqsOf
    <3>2. g = f
      BY <1>0, <3>1 DEF SeqInv
    <3>3. QED
      BY <1>2, <3>1, <3>2 DEF SeenOrOld
  <2>4. CASE \E x \in A : x - f.seq > mem.window
    <3>1. PICK g \in verified : g.seq - f.seq > Window
      BY <2>4 DEF SeqsOf, WindowInv
    <3>2. QED
      BY <1>0, <1>2, <3>1 DEF SeenOrOld
  <2>5. QED
    BY <2>2, <2>3, <2>4
<1>7. \A a \in acks' : SeenOrOld(a)'
  BY <1>1, <1>2 DEF WindowInv, SeenOrOld
<1>8. QED
  BY <1>1, <1>3, <1>4, <1>5, <1>6, <1>7 DEF WindowInv

LEMMA WindowInductive ==
    ASSUME TypeInv, SeqInv, KeyInv, WindowInv, [Next]_vars
    PROVE  WindowInv'
<1>1. ASSUME NEW f \in air, Receive(f)
      PROVE  WindowInv'
  BY <1>1, ReceiveWindow
<1>2. CASE SendAck
  <2>1. SeenOrOld(job.frame)
    BY <1>2 DEF SendAck, TypeInv, StageInv, WindowInv, Busy, SeenOrOld
  <2>2. /\ UNCHANGED <<mem, dbWin, verified, job>> /\ acks' = acks \union {job.frame}
        /\ gwPc = "ack"
    BY <1>2 DEF SendAck
  <2>3. QED
    BY <2>1, <2>2 DEF WindowInv, SeenOrOld, Busy
<1>3. ASSUME UNCHANGED verified, acks' \subseteq acks, {mem', dbWin'} \subseteq {mem, dbWin},
             gwPc' \in Busy /\ job'.dup => gwPc \in Busy /\ job' = job
      PROVE  WindowInv'
  BY <1>3 DEF WindowInv, SeenOrOld
<1>4. CASE SaveReplay \/ AddRaw \/ Store \/ DbRaises \/ Crash \/ Restart
  BY <1>3, <1>4
  DEF SaveReplay, AddRaw, Store, DbRaises, Crash, Restart, Done, NoJob, Busy
<1>5. ASSUME UNCHANGED <<gwPc, job, mem, dbWin, verified>>, acks' \subseteq acks
      PROVE  WindowInv'
  BY <1>3, <1>5
<1>6. QED
  BY <1>1, <1>2, <1>4, <1>5
  DEF Next, Begin, Transmit, TransmitFails, HearAck, AckWindowEnds, NodeReset, RotateKey,
      LoseFrame, LoseAck, gwVars, vars

\* What has a row stays refused, and a frame on its way to its row has none.
LEMMA RowInductive ==
    ASSUME TypeInv, RowInv, [Next]_vars
    PROVE  RowInv'
<1>0. /\ rows \in Seq(Frames) /\ \A f \in Frames : f.seq \in Nat
      /\ ToSet(rows) \subseteq Frames /\ mem \in ReplayState
      /\ gwPc \in Busy => job.frame \in Frames
  BY DEF TypeInv, TypeOK, StageInv, Frames, Seqs
<1>1. ASSUME NEW f \in air, Receive(f)
      PROVE  RowInv'
  <2>1. /\ f \in Frames
        /\ mem' = AfterCheck("python", mem, f.seq)
        /\ job'.frame = f /\ job'.dup = ~Fresh(mem, f.seq)
        /\ gwPc' \in {"ack", "save"}
        /\ UNCHANGED <<dbWin, rows>>
    BY <1>1 DEF Receive, TypeInv, TypeOK
  <2>2. ~Fresh(mem', f.seq)
    BY <1>0, <2>1, RefusedForGood
  <2>3. \A g \in ToSet(rows) : ~Fresh(mem', g.seq)
    <3> TAKE g \in ToSet(rows)
    <3>1. g.seq \in Nat /\ f.seq \in Nat /\ ~Fresh(mem, g.seq)
      BY <1>0, <2>1 DEF RowInv
    <3>2. QED
      BY <1>0, <2>1, <3>1, RefusedForGood
  <2>4. ~job'.dup => f \notin ToSet(rows)
    BY <2>1 DEF RowInv
  <2>5. QED
    BY <2>1, <2>2, <2>3, <2>4 DEF RowInv
<1>2. CASE SendAck
  BY <1>2 DEF SendAck, RowInv, Busy
<1>3. CASE SaveReplay
  BY <1>3 DEF SaveReplay, RowInv, Busy
<1>4. CASE AddRaw
  <2>1. CASE job.dup
    BY <1>4, <2>1 DEF AddRaw, Done, RowInv, Busy
  <2>2. CASE ~job.dup
    BY <1>4, <2>2 DEF AddRaw, RowInv, Busy
  <2>3. QED
    BY <2>1, <2>2
<1>5. ASSUME rows' = Append(rows, job.frame), gwPc = "store"
      PROVE  ToSet(rows') = ToSet(rows) \union {job.frame}
  BY <1>0, <1>5, AppendSet DEF Busy
<1>6. ASSUME ToSet(rows') \subseteq ToSet(rows) \union {job.frame}, gwPc = "store",
             UNCHANGED <<mem, dbWin>>, gwPc' = "idle"
      PROVE  RowInv'
  BY <1>6 DEF RowInv, Busy
<1>7. CASE Store
  BY <1>5, <1>6, <1>7 DEF Store, Done
<1>8. CASE DbRaises
  <2>1. gwPc' = "idle" /\ mem' = mem
    BY <1>8 DEF DbRaises, Done
  <2>2. CASE gwPc = "store"
    <3>1. rows' \in {rows, Append(rows, job.frame)} /\ dbWin' = dbWin
      BY <1>8, <2>2 DEF DbRaises
    <3>2. QED
      BY <1>5, <1>6, <2>1, <2>2, <3>1
  <2>3. CASE gwPc # "store"
    <3>1. dbWin' \in {dbWin, mem} /\ rows' = rows
      BY <1>8, <2>3 DEF DbRaises
    <3>2. QED
      BY <2>1, <3>1 DEF RowInv, Busy
  <2>4. QED
    BY <2>2, <2>3
<1>9. CASE Crash \/ Restart
  BY <1>9 DEF Crash, Restart, RowInv, Busy
<1>10. ASSUME UNCHANGED <<gwPc, job, mem, dbWin, rows>>
       PROVE  RowInv'
  BY <1>10 DEF RowInv
<1>11. QED
  BY <1>1, <1>2, <1>3, <1>4, <1>7, <1>8, <1>9, <1>10
  DEF Next, Begin, Transmit, TransmitFails, HearAck, AckWindowEnds, NodeReset, RotateKey,
      LoseFrame, LoseAck, gwVars, vars

\* An ACK that ends the send names the alert being sent, and that was verified.
LEMMA AckNamesVerified ==
    ASSUME TypeInv, SeqInv, KeyInv, WindowInv,
           NEW a \in acks, HearAck(a), a.seq = sending.seq
    PROVE  sending \in verified
<1>1. /\ a \in raised /\ sending \in raised /\ verified \subseteq raised
      /\ a.key = nodeKey /\ sending.key = nodeKey /\ sending.seq = lastSeq
      /\ lastSeq \in Nat /\ Window \in Nat /\ \A f \in raised : f.seq \in Nat
  BY AlertDeliveryAssumption, WordBitsAssumption
  DEF HearAck, TypeInv, TypeOK, StageInv, SeqInv, Frames, Seqs
<1>2. a = sending
  BY <1>1 DEF SeqInv
<1>3. \A g \in verified : ~(g.key = a.key /\ g.seq - a.seq > Window)
  BY <1>1 DEF SeqInv
<1>4. QED
  BY <1>2, <1>3 DEF WindowInv, SeenOrOld

\* A transmission that nobody listens to confirms nothing.
LEMMA TransmitConfirmsNothing ==
    ASSUME Transmit
    PROVE  Confirmed' = Confirmed
<1>1. ackEnable' = ackEnable
  BY DEF Transmit
<1>2. CASE ackEnable
  <2>1. acked' = acked
    BY <1>2 DEF Transmit, AckedUnheard, Listens
  <2>2. QED
    BY <1>1, <2>1 DEF Confirmed
<1>3. CASE ~ackEnable
  BY <1>1, <1>3 DEF Confirmed
<1>4. QED
  BY <1>2, <1>3

\* An ACK that ends the wait confirms the alert; no other does.
LEMMA HearAckConfirms ==
    ASSUME TypeInv, NEW a \in acks, HearAck(a)
    PROVE  Confirmed' = IF a.seq = sending.seq THEN Confirmed \union {sending} ELSE Confirmed
<1>1. ackEnable /\ ackEnable' = ackEnable
  BY DEF HearAck, TypeInv, StageInv, Listens
<1>2. acked' = IF a.seq = sending.seq THEN acked \union {sending} ELSE acked
  BY DEF HearAck
<1>3. QED
  BY <1>1, <1>2 DEF Confirmed

LEMMA AckedInductive ==
    ASSUME IInv, [Next]_vars
    PROVE  (Confirmed \subseteq verified)'
<1> USE DEF IInv
<1>1. ASSUME NEW a \in acks, HearAck(a)
      PROVE  Confirmed' \subseteq verified'
  <2>1. verified' = verified
    BY <1>1 DEF HearAck, gwVars
  <2>2. QED
    BY <1>1, <2>1, AckNamesVerified, HearAckConfirms
<1>2. CASE Transmit
  BY <1>2, TransmitConfirmsNothing DEF Transmit, gwVars
<1>3. ASSUME UNCHANGED <<ackEnable, acked>>, verified \subseteq verified'
      PROVE  Confirmed' \subseteq verified'
  BY <1>3 DEF Confirmed
<1>4. QED
  BY <1>1, <1>2, <1>3
  DEF Next, Begin, TransmitFails, AckWindowEnds, NodeReset, RotateKey,
      LoseFrame, LoseAck, Receive, SendAck, SaveReplay, AddRaw, Store, DbRaises, Crash,
      Restart, nodeVars, gwVars, vars

\* All of it, from the start on.
LEMMA Invariance ==
    ASSUME OneKey
    PROVE  Spec => []IInv
<1>1. Init => IInv
  <2> SUFFICES ASSUME Init PROVE IInv
    OBVIOUS
  <2>1. ToSet(rows) = {}
    BY DEF Init, ToSet
  <2>2. SeqInv /\ KeyInv
    BY DEF Init, SeqInv, KeyInv, Busy
  <2>3. AckInv /\ WindowInv
    BY NewFilter DEF Init, AckInv, WindowInv, Within, Busy
  <2>4. RowInv
    BY <2>1 DEF Init, RowInv, Busy
  <2>5. QED
    BY <2>2, <2>3, <2>4, InitTyped DEF Init, IInv, Confirmed
<1>2. IInv /\ [Next]_vars => IInv'
  BY TypeInductive, SeqInductive, AckInductive, KeyInductive, WindowInductive,
     RowInductive, AckedInductive DEF IInv
<1>3. QED
  BY <1>1, <1>2, PTL DEF Spec

-----------------------------------------------------------------------------
(* Theorems                                                                *)

\* DuplicateMeansSeen of AlertDelivery, with faults or with rotations: what the
\* gateway drops as a duplicate it has verified, or the frame is more than the
\* reorder window old.
THEOREM DuplicatesWereSeen == OneKey => (Spec => []DuplicateMeansSeen)
<1> SUFFICES ASSUME OneKey PROVE Spec => []DuplicateMeansSeen
  OBVIOUS
<1>1. IInv => DuplicateMeansSeen
  BY DEF IInv, WindowInv, SeenOrOld, DuplicateMeansSeen, Busy
<1>2. QED
  BY <1>1, Invariance, PTL

\* AwaitedAckPasses of AlertDelivery: under its first key, and whatever happens
\* to the daemon, the node never refuses the ACK it waits for.
THEOREM AwaitedAckIsHeard == MaxRotations = 0 => (Spec => []AwaitedAckPasses)
<1> SUFFICES ASSUME MaxRotations = 0 PROVE Spec => []AwaitedAckPasses
  OBVIOUS
<1>1. IInv => AwaitedAckPasses
  <2> SUFFICES ASSUME IInv, pc = "wait" PROVE Fresh(ackWin, sending.seq)
    BY DEF AwaitedAckPasses
  <2>1. nodeKey = 0
    BY DEF IInv, TypeInv, TypeOK, Keys
  <2>2. ackWin.seeded => ackWin.last < sending.seq
    BY <2>1 DEF IInv, AckInv, SeqInv
  <2>3. QED
    BY <2>2 DEF Fresh
<1>2. Spec => []IInv
  BY Invariance DEF OneKey
<1>3. QED
  BY <1>1, <1>2, PTL

\* Without faults a verified frame is stored or in hand.
LEMMA StoreInductive ==
    ASSUME MaxFailures = 0, TypeInv, KeyInv, StoreInv, [Next]_vars
    PROVE  StoreInv'
<1>1. ~DbRaises /\ ~Crash /\ ~Restart
  BY DEF TypeInv, TypeOK, KeyInv, DbRaises, Crash, Restart
<1>2. ASSUME NEW f \in air, Receive(f)
      PROVE  StoreInv'
  <2>1. \A g \in verified : g \in ToSet(rows)
    BY <1>2 DEF Receive, StoreInv, Busy
  <2>2. /\ job'.frame = f /\ gwPc' \in Busy /\ rows' = rows
        /\ verified' = IF job'.dup THEN verified ELSE verified \union {f}
    BY <1>2 DEF Receive, Busy
  <2>3. QED
    BY <2>1, <2>2 DEF StoreInv
<1>3. CASE SendAck \/ SaveReplay
  BY <1>3 DEF SendAck, SaveReplay, StoreInv, Busy
<1>4. CASE AddRaw
  <2>1. CASE job.dup
    BY <1>4, <2>1 DEF AddRaw, StoreInv
  <2>2. CASE ~job.dup
    BY <1>4, <2>2 DEF AddRaw, StoreInv, Busy
  <2>3. QED
    BY <2>1, <2>2
<1>5. CASE Store
  <2>1. rows \in Seq(Frames) /\ job.frame \in Frames
    BY <1>5 DEF Store, TypeInv, TypeOK, StageInv, Busy
  <2>2. ToSet(rows') = ToSet(rows) \union {job.frame}
    BY <1>5, <2>1, AppendSet DEF Store
  <2>3. QED
    BY <1>5, <2>2 DEF Store, StoreInv
<1>6. ASSUME UNCHANGED <<gwPc, job, verified, rows>>
      PROVE  StoreInv'
  BY <1>6 DEF StoreInv
<1>7. QED
  BY <1>1, <1>2, <1>3, <1>4, <1>5, <1>6
  DEF Next, Begin, Transmit, TransmitFails, HearAck, AckWindowEnds, NodeReset, RotateKey,
      LoseFrame, LoseAck, gwVars, vars

\* AckedIsStored of AlertDelivery: as long as the daemon does not die and the
\* database does not fail, an alert whose node listened for an ACK (ack_enable) and
\* was told ACKED is not lost.
THEOREM AckedAlertHasRow == MaxFailures = 0 => (Spec => []AckedIsStored)
<1> SUFFICES ASSUME MaxFailures = 0 PROVE Spec => []AckedIsStored
  OBVIOUS
<1>1. Init => StoreInv
  BY DEF Init, StoreInv
<1>2. IInv /\ StoreInv /\ [Next]_vars => StoreInv'
  BY StoreInductive DEF IInv
<1>3. IInv /\ StoreInv => AckedIsStored
  BY DEF IInv, StoreInv, AckedIsStored
<1>4. Spec => []IInv
  BY Invariance DEF OneKey
<1>5. QED
  BY <1>1, <1>2, <1>3, <1>4, PTL DEF Spec

\* One step of the uplink is one of the log, or none.
LEMMA StepImplementsLog ==
    ASSUME IInv, [Next]_vars
    PROVE  [Log!Next]_(Log!logVars)
<1> USE DEF IInv
<1> DEFINE Same == UNCHANGED <<raised, verified, rows, Confirmed>>
<1>1. ASSUME NEW kind \in Kinds, Begin(kind)
      PROVE  Log!Next
  <2>1. PICK s \in Seqs : /\ s > lastSeq
                          /\ sending' = [kind |-> kind, key |-> nodeKey, seq |-> s]
    BY <1>1, AlertDeliveryAssumption DEF Begin, NextSeq, Seqs, TypeInv, TypeOK
  <2>2. sending' \in Frames /\ sending'.key = nodeKey /\ sending'.seq = s
    BY <2>1 DEF Frames, TypeInv, TypeOK
  <2>3. sending' \notin raised
    BY <2>1, <2>2, AlertDeliveryAssumption DEF SeqInv, TypeInv, TypeOK, Seqs
  <2>4. raised' = raised \union {sending'} /\ UNCHANGED <<verified, rows, Confirmed>>
    BY <1>1 DEF Begin, gwVars, Confirmed
  <2>5. Log!Raise(sending')
    BY <2>3, <2>4 DEF Log!Raise
  <2>6. QED
    BY <2>2, <2>5 DEF Log!Next
<1>2. ASSUME NEW a \in acks, HearAck(a)
      PROVE  Log!Next \/ Same
  <2>1. UNCHANGED <<raised, verified, rows>>
    BY <1>2 DEF HearAck, gwVars
  <2>2. CASE a.seq = sending.seq
    <3>1. sending \in verified /\ sending \in Frames
      BY <1>2, <2>2, AckNamesVerified DEF TypeInv, TypeOK
    <3>2. Confirmed' = Confirmed \union {sending}
      BY <1>2, <2>2, HearAckConfirms
    <3>3. Log!Acknowledge(sending)
      BY <2>1, <3>1, <3>2 DEF Log!Acknowledge
    <3>4. QED
      BY <3>1, <3>3 DEF Log!Next
  <2>3. CASE a.seq # sending.seq
    BY <1>2, <2>1, <2>3, HearAckConfirms
  <2>4. QED
    BY <2>2, <2>3
<1>3. ASSUME NEW f \in air, Receive(f)
      PROVE  Log!Next \/ Same
  <2>1. f \in raised /\ f \in Frames
    BY <1>3 DEF TypeInv, TypeOK
  <2>2. UNCHANGED <<raised, rows, Confirmed>>
    BY <1>3 DEF Receive, nodeVars, Confirmed
  <2>3. verified' = verified \/ verified' = verified \union {f}
    BY <1>3 DEF Receive
  <2>4. CASE verified' = verified \union {f}
    <3>1. Log!Verify(f)
      BY <2>1, <2>2, <2>4 DEF Log!Verify
    <3>2. QED
      BY <2>1, <3>1 DEF Log!Next
  <2>5. QED
    BY <2>2, <2>3, <2>4
<1>4. ASSUME gwPc = "store", rows' = Append(rows, job.frame),
             UNCHANGED <<raised, verified, Confirmed>>
      PROVE  Log!Next
  <2>1. job.frame \in verified /\ job.frame \notin ToSet(rows) /\ job.frame \in Frames
    BY <1>4 DEF TypeInv, TypeOK, StageInv, RowInv, Busy
  <2>2. Log!Store(job.frame)
    BY <1>4, <2>1 DEF Log!Store, ToSet, Log!ToSet
  <2>3. QED
    BY <2>1, <2>2 DEF Log!Next
<1>5. CASE Store
  BY <1>4, <1>5 DEF Store, nodeVars, Confirmed
<1>6. CASE DbRaises
  BY <1>4, <1>6 DEF DbRaises, nodeVars, Log!logVars, Confirmed
<1>7. CASE Same
  BY <1>7 DEF Log!logVars
<1>8. CASE Transmit
  BY <1>7, <1>8, TransmitConfirmsNothing DEF Transmit, gwVars
<1>9. ASSUME UNCHANGED <<ackEnable, raised, verified, rows, acked>>
      PROVE  Same
  BY <1>9 DEF Confirmed
<1>10. QED
  BY <1>1, <1>2, <1>3, <1>5, <1>6, <1>7, <1>8, <1>9
  DEF Next, TransmitFails, AckWindowEnds, NodeReset, RotateKey, LoseFrame,
      LoseAck, SendAck, SaveReplay, AddRaw, Crash, Restart, nodeVars, gwVars, vars

\* ImplementsLog of AlertDelivery: through losses, repetitions, reordering, node
\* resets, and either faults of the daemon or key rotations, there is at most one
\* row per frame, only verified frames have one, and where the node listens for an
\* ACK (ack_enable), ACKED means verified.
THEOREM Implements == OneKey => (Spec => ImplementsLog)
<1> SUFFICES ASSUME OneKey PROVE Spec => ImplementsLog
  OBVIOUS
<1>1. Init => Log!Init
  BY DEF Init, Log!Init, Confirmed
<1>2. IInv /\ [Next]_vars => [Log!Next]_(Log!logVars)
  BY StepImplementsLog
<1>3. QED
  BY <1>1, <1>2, Invariance, PTL DEF Spec, ImplementsLog, Log!Spec

=============================================================================
