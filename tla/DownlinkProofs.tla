--------------------------- MODULE DownlinkProofs ---------------------------
(***************************************************************************)
(* For every number of HTTP threads, parameters and commands: if the write *)
(* of the node's floor does not fail, the downlink implements the abstract *)
(* channel, a confirmed SET is durable, and a saved parameter never goes   *)
(* back.  The types need no such assumption.                               *)
(***************************************************************************)
EXTENDS Downlink, TLAPS

Busy == {"persist", "act", "save", "confirm"}

\* What the stages of a call and of the node say of the frame in hand.
StageInv ==
    /\ \A t \in Callers :
        /\ callPc[t] = "draw" => call[t].seq = 0 /\ call[t].cmd \in Commands
        /\ callPc[t] = "send" => call[t] \in Frames /\ call[t].seq <= downSeq
    /\ effects \in Seq(Frames)
    /\ pc \in Busy <=> job # NoFrame
    /\ job # NoFrame => job \in sent
    /\ pc = "save" => job.cmd.op \in Params

\* A number names one command: the ones sent and the ones about to be.
NumberInv ==
    /\ \A f \in sent : f.seq <= downSeq
    /\ \A f, g \in sent : f.seq = g.seq => f = g
    /\ \A t \in Callers, f \in sent :
        callPc[t] = "send" /\ f.seq = call[t].seq => f = call[t]
    /\ \A t, u \in Callers :
        callPc[t] = "send" /\ callPc[u] = "send" /\ call[t].seq = call[u].seq => t = u

\* The floor in NVS is above every command acted on, and the one in RAM above
\* the one in NVS while the node is up.
FloorInv ==
    /\ \A f \in ToSet(effects) : f.seq <= nvsFloor
    /\ pc # "off" => nvsFloor <= floor
    /\ pc = "persist" => nvsFloor < job.seq /\ floor = job.seq
    /\ pc \in {"act", "save", "confirm"} => nvsFloor = job.seq
    /\ pc = "act" => \A f \in ToSet(effects) : f.seq < job.seq

\* Neither configuration is ahead of the floor, and the one in RAM is not behind
\* the one in NVS.
ConfigInv ==
    /\ \A p \in Params : cfg[p] <= nvsFloor /\ nvsCfg[p] <= nvsFloor
    /\ pc # "off" => \A p \in Params : nvsCfg[p] <= cfg[p]
    /\ pc = "save" => cfg[job.cmd.op] = job.seq
    /\ pc = "confirm" /\ job.cmd.op \in Params => nvsCfg[job.cmd.op] >= job.seq
    /\ ConfirmedIsDurable

TypeInv == TypeOK /\ StageInv

IInv == TypeInv /\ NumberInv /\ FloorInv /\ ConfigInv

\* What an acted-on frame adds to the history.
LEMMA AppendSet ==
    ASSUME NEW S, NEW s \in Seq(S), NEW e \in S
    PROVE  /\ Append(s, e) \in Seq(S)
           /\ ToSet(Append(s, e)) = ToSet(s) \union {e}
<1>1. /\ DOMAIN s = 1 .. Len(s)
      /\ Len(s) \in Nat
      /\ DOMAIN Append(s, e) = 1 .. (Len(s) + 1)
      /\ Append(s, e)[Len(s) + 1] = e
      /\ \A i \in 1 .. Len(s) : Append(s, e)[i] = s[i]
  OBVIOUS
<1>2. QED
  BY <1>1 DEF ToSet

\* Types and stages: one step per action.
LEMMA TypeInductive == TypeInv /\ [Next]_vars => TypeInv'
<1> USE DownlinkAssumption
<1> SUFFICES ASSUME TypeInv, [Next]_vars PROVE TypeInv'
  OBVIOUS
<1> USE DEF TypeInv, TypeOK, StageInv, Busy
<1>1. ASSUME NEW t \in Callers, NEW cmd \in Commands, Request(t, cmd)
      PROVE  TypeInv'
  BY <1>1 DEF Request, nodeVars, NoCmd
<1>2. ASSUME NEW t \in Callers, Draw(t)
      PROVE  TypeInv'
  <2>1. /\ callPc[t] = "draw" /\ downSeq < MaxSeq /\ downSeq' = downSeq + 1
        /\ call' = [call EXCEPT ![t].seq = downSeq']
        /\ callPc' = [callPc EXCEPT ![t] = "send"]
        /\ UNCHANGED <<sent, air, nodeVars>>
    BY <1>2 DEF Draw
  <2>2. /\ downSeq' \in Seqs /\ downSeq' \in 0 .. MaxSeq
        /\ downSeq <= downSeq'
    BY <2>1 DEF Seqs
  <2>3. /\ call[t] \in [seq: 0 .. MaxSeq, cmd: Commands \union {NoCmd}]
        /\ call[t].cmd \in Commands
    BY <2>1
  <2>4. [call[t] EXCEPT !.seq = downSeq'] \in [seq: Seqs, cmd: Commands]
    BY <2>2, <2>3
  <2>5. [call[t] EXCEPT !.seq = downSeq'].seq = downSeq'
    BY <2>3
  <2>6. \A u \in Callers :
            call'[u] = IF u = t THEN [call[t] EXCEPT !.seq = downSeq'] ELSE call[u]
    BY <2>1
  <2>7. call' \in [Callers -> [seq: 0 .. MaxSeq, cmd: Commands \union {NoCmd}]]
    <3>1. [seq: Seqs, cmd: Commands] \subseteq [seq: 0 .. MaxSeq, cmd: Commands \union {NoCmd}]
      BY DEF Seqs
    <3>2. QED
      BY <2>1, <2>4, <3>1
  <2>8. \A u \in Callers : callPc'[u] = "draw" => call'[u].seq = 0 /\ call'[u].cmd \in Commands
    BY <2>1, <2>6
  <2>9. \A u \in Callers : callPc'[u] = "send" => call'[u] \in Frames /\ call'[u].seq <= downSeq'
    <3>1. \A u \in Callers : u # t /\ callPc'[u] = "send" => call[u] \in Frames /\ call[u].seq <= downSeq
      BY <2>1
    <3>2. \A f \in Frames : f.seq \in Nat
      BY DEF Frames, Seqs
    <3>3. QED
      BY <2>2, <2>4, <2>5, <2>6, <3>1, <3>2 DEF Frames
  <2>10. QED
    BY <2>1, <2>2, <2>7, <2>8, <2>9 DEF nodeVars
<1>3. ASSUME NEW t \in Callers, SendCopy(t)
      PROVE  TypeInv'
  BY <1>3 DEF SendCopy, nodeVars
<1>4. ASSUME NEW t \in Callers, CallEnds(t)
      PROVE  TypeInv'
  BY <1>4 DEF CallEnds, nodeVars, NoFrame
<1>5. ASSUME NEW f \in air, LoseFrame(f)
      PROVE  TypeInv'
  BY <1>5 DEF LoseFrame, gwVars, nodeVars
<1>6. ASSUME NEW f \in air, Take(f)
      PROVE  TypeInv'
  BY <1>6 DEF Take, gwVars, Frames, NoFrame, Seqs
<1>7. CASE Reset
  BY <1>7 DEF Reset, gwVars
<1>8. CASE Boot
  BY <1>8 DEF Boot, gwVars
<1>9. CASE Persist
  BY <1>9 DEF Persist, gwVars, Frames, NoFrame, Seqs
<1>10. CASE ActSet
  <2>1. /\ job \in sent /\ job \in Frames
        /\ effects' = Append(effects, job)
    BY <1>10 DEF ActSet
  <2>2. /\ effects' \in Seq(Frames)
        /\ ToSet(effects') = ToSet(effects) \union {job}
    BY <2>1, AppendSet
  <2>3. cfg' \in Configs
    BY <1>10, <2>1 DEF ActSet, Configs, Frames, Seqs
  <2>4. /\ ToSet(effects') \subseteq sent
        /\ job.cmd.op \in Params /\ pc = "act" /\ pc' = "save"
        /\ UNCHANGED <<gwVars, air, floor, nvsFloor, job, nvsCfg, csiOn, confirmed>>
    BY <1>10, <2>1, <2>2 DEF ActSet
  <2>5. QED
    BY <2>2, <2>3, <2>4 DEF gwVars
<1>11. CASE ActRecal
  <2>1. /\ job \in sent /\ job \in Frames
        /\ effects' = Append(effects, job)
    BY <1>11 DEF ActRecal
  <2>2. /\ effects' \in Seq(Frames)
        /\ ToSet(effects') = ToSet(effects) \union {job}
    BY <2>1, AppendSet
  <2>3. /\ ToSet(effects') \subseteq sent
        /\ pc = "act" /\ pc' = "confirm"
        /\ UNCHANGED <<gwVars, air, floor, nvsFloor, job, cfg, nvsCfg, csiOn, confirmed>>
    BY <1>11, <2>1, <2>2 DEF ActRecal
  <2>4. QED
    BY <2>2, <2>3 DEF gwVars
<1>12. CASE Ignore
  BY <1>12 DEF Ignore, Finished, gwVars
<1>13. CASE Save
  <2>1. CASE /\ nvsCfg' = cfg /\ csiOn' \in {csiOn, FALSE}
             /\ pc' = "confirm" /\ UNCHANGED job
    BY <1>13, <2>1 DEF Save, gwVars
  <2>2. CASE Finished /\ UNCHANGED <<nvsCfg, csiOn>>
    BY <1>13, <2>2 DEF Save, Finished, gwVars
  <2>3. QED
    BY <1>13, <2>1, <2>2 DEF Save
<1>14. CASE Confirm
  BY <1>14 DEF Confirm, Finished, gwVars
<1>15. CASE UNCHANGED vars
  BY <1>15 DEF vars, gwVars, nodeVars
<1>16. QED
  BY <1>1, <1>2, <1>3, <1>4, <1>5, <1>6, <1>7, <1>8, <1>9, <1>10, <1>11, <1>12, <1>13,
     <1>14, <1>15 DEF Next

\* The initial states are well typed.
LEMMA InitTyped == Init => TypeInv
<1>1. ToSet(<< >>) = {}
  BY DEF ToSet
<1>2. << >> \in Seq(Frames)
  OBVIOUS
<1>3. Init => TypeOK
  <2> SUFFICES ASSUME Init PROVE TypeOK
    OBVIOUS
  <2>1. cfg \in Configs /\ nvsCfg = cfg
    BY DownlinkAssumption DEF Init, Configs
  <2>2. call \in [Callers -> [seq: 0 .. MaxSeq, cmd: Commands \union {NoCmd}]]
    <3>1. 0 \in 0 .. MaxSeq
      BY DownlinkAssumption
    <3>2. NoFrame \in [seq: 0 .. MaxSeq, cmd: Commands \union {NoCmd}]
      BY <3>1 DEF NoFrame
    <3>3. call = [t \in Callers |-> NoFrame]
      BY DEF Init
    <3>4. QED
      BY <3>2, <3>3, Zenon
  <2>3. air \union ToSet(effects) \union confirmed \subseteq sent
    BY <1>1 DEF Init
  <2>4. {downSeq, floor, nvsFloor} \subseteq 0 .. MaxSeq
    BY DownlinkAssumption DEF Init
  <2>5. /\ callPc \in [Callers -> {"idle", "draw", "send"}]
        /\ pc \in {"off", "listen", "persist", "act", "save", "confirm"}
        /\ job \in Frames \union {NoFrame}
        /\ csiOn \in BOOLEAN
        /\ sent \subseteq Frames
    BY DEF Init
  <2>6. QED
    BY <2>1, <2>2, <2>3, <2>4, <2>5 DEF TypeOK
<1>4. Init => StageInv
  BY <1>2 DEF Init, StageInv, Busy
<1>5. QED
  BY <1>3, <1>4 DEF TypeInv

\* TypeOK of Downlink: numbers and frames stay in range, and what is on the air,
\* acted on or confirmed has been sent.
THEOREM TypeCorrect == Spec => []TypeOK
<1>1. TypeInv => TypeOK
  BY DEF TypeInv
<1>2. QED
  BY <1>1, InitTyped, TypeInductive, PTL DEF Spec

\* The number drawn is above every one in use, so it names no other command.
LEMMA NumberInductive == TypeInv /\ NumberInv /\ [Next]_vars => NumberInv'
<1> SUFFICES ASSUME TypeInv, NumberInv, [Next]_vars PROVE NumberInv'
  OBVIOUS
<1> USE DEF NumberInv
<1>0. /\ \A f \in Frames : f.seq \in Nat
      /\ sent \subseteq Frames
      /\ downSeq \in Nat
      /\ \A t \in Callers : callPc[t] = "send" => call[t] \in Frames /\ call[t].seq <= downSeq
      /\ DOMAIN callPc = Callers /\ DOMAIN call = Callers
  BY DownlinkAssumption DEF TypeInv, TypeOK, StageInv, Frames, Seqs
<1>1. ASSUME NEW t \in Callers, NEW cmd \in Commands, Request(t, cmd)
      PROVE  NumberInv'
  BY <1>0, <1>1 DEF Request
<1>2. ASSUME NEW t \in Callers, Draw(t)
      PROVE  NumberInv'
  <2>1. /\ downSeq' = downSeq + 1 /\ sent' = sent
        /\ \A u \in Callers : u # t => callPc'[u] = callPc[u] /\ call'[u] = call[u]
        /\ callPc'[t] = "send"
    BY <1>0, <1>2 DEF Draw
  <2>2. call'[t].seq = downSeq + 1
    BY <1>0, <1>2 DEF Draw, TypeInv, TypeOK
  <2>3. QED
    BY <1>0, <2>1, <2>2
<1>3. ASSUME NEW t \in Callers, SendCopy(t)
      PROVE  NumberInv'
  BY <1>0, <1>3 DEF SendCopy
<1>4. ASSUME NEW t \in Callers, CallEnds(t)
      PROVE  NumberInv'
  BY <1>0, <1>4 DEF CallEnds
<1>5. CASE UNCHANGED gwVars
  BY <1>5 DEF gwVars
<1>6. QED
  BY <1>1, <1>2, <1>3, <1>4, <1>5
     DEF Next, vars, LoseFrame, Take, Reset, Boot, Persist, ActSet, ActRecal, Ignore, Save, Confirm

\* The floor is written before the command is acted on, and survives a reset.
LEMMA FloorInductive ==
    ASSUME ~FloorFaults
    PROVE  TypeInv /\ FloorInv /\ [Next]_vars => FloorInv'
<1> SUFFICES ASSUME TypeInv, FloorInv, [Next]_vars PROVE FloorInv'
  OBVIOUS
<1> USE DEF FloorInv
<1>0. /\ floor \in Nat /\ nvsFloor \in Nat
      /\ \A f \in Frames : f.seq \in Nat
      /\ effects \in Seq(Frames) /\ ToSet(effects) \subseteq Frames
      /\ air \subseteq Frames
      /\ pc \in Busy => job \in Frames
  BY DownlinkAssumption DEF TypeInv, TypeOK, StageInv, Frames, Seqs
<1>1. CASE UNCHANGED nodeVars
  BY <1>1 DEF nodeVars
<1>2. ASSUME NEW f \in air, Take(f)
      PROVE  FloorInv'
  BY <1>0, <1>2 DEF Take
<1>3. CASE Reset
  BY <1>3 DEF Reset
<1>4. CASE Boot
  BY <1>0, <1>4 DEF Boot
<1>5. CASE Persist
  <2>1. /\ pc = "persist" /\ pc' = "act" /\ nvsFloor' = job.seq
        /\ UNCHANGED <<floor, job, effects>>
    BY <1>5 DEF Persist
  <2>2. QED
    BY <1>0, <2>1 DEF Busy
<1>6. ASSUME ActSet \/ ActRecal
      PROVE  FloorInv'
  <2>1. /\ pc = "act" /\ pc' \in {"save", "confirm"}
        /\ effects' = Append(effects, job)
        /\ UNCHANGED <<floor, nvsFloor, job>>
    BY <1>6 DEF ActSet, ActRecal
  <2>2. ToSet(effects') = ToSet(effects) \union {job}
    BY <1>0, <2>1, AppendSet DEF Busy
  <2>3. QED
    BY <1>0, <2>1, <2>2 DEF Busy
<1>7. CASE Ignore \/ Save \/ Confirm
  BY <1>7 DEF Ignore, Save, Confirm, Finished
<1>8. QED
  BY <1>1, <1>2, <1>3, <1>4, <1>5, <1>6, <1>7
     DEF Next, vars, nodeVars, Request, Draw, SendCopy, CallEnds, LoseFrame

\* What a step may do to a saved parameter: only a successful save changes it,
\* to the value in RAM, which is not behind it.
LEMMA SavedGrows ==
    ASSUME TypeInv, ConfigInv, [Next]_vars, NEW p \in Params
    PROVE  nvsCfg'[p] >= nvsCfg[p]
<1>0. cfg[p] \in Nat /\ nvsCfg[p] \in Nat
  BY DownlinkAssumption DEF TypeInv, TypeOK, Configs
<1>1. CASE Save
  <2>1. pc = "save" /\ nvsCfg' \in {cfg, nvsCfg}
    BY <1>1 DEF Save
  <2>2. nvsCfg[p] <= cfg[p]
    BY <2>1 DEF ConfigInv
  <2>3. QED
    BY <1>0, <2>1, <2>2
<1>2. CASE UNCHANGED nvsCfg
  BY <1>0, <1>2
<1>3. QED
  BY <1>1, <1>2
     DEF Next, vars, nodeVars, Request, Draw, SendCopy, CallEnds, LoseFrame, Take, Reset, Boot,
         Persist, ActSet, ActRecal, Ignore, Confirm

\* The number of the command in hand bounds both configurations from above, so
\* setting and saving it moves no parameter back.
LEMMA ConfigInductive ==
    ASSUME ~FloorFaults
    PROVE  TypeInv /\ FloorInv /\ ConfigInv /\ [Next]_vars => ConfigInv'
<1> SUFFICES ASSUME TypeInv, FloorInv, ConfigInv, [Next]_vars PROVE ConfigInv'
  OBVIOUS
<1>0. /\ nvsFloor \in Nat
      /\ \A p \in Params : cfg[p] \in Nat /\ nvsCfg[p] \in Nat
      /\ DOMAIN cfg = Params
      /\ \A f \in Frames : f.seq \in Nat
      /\ pc \in Busy => job \in Frames
      /\ pc = "save" => job.cmd.op \in Params
      /\ confirmed \subseteq Frames
      /\ "recal" \notin Params
  BY DownlinkAssumption DEF TypeInv, TypeOK, StageInv, Frames, Seqs, Configs
<1> USE DEF ConfigInv, ConfirmedIsDurable
<1>1. CASE UNCHANGED nodeVars
  BY <1>1 DEF nodeVars
<1>2. ASSUME NEW f \in air, Take(f)
      PROVE  ConfigInv'
  BY <1>0, <1>2 DEF Take
<1>3. CASE Reset
  BY <1>3 DEF Reset
<1>4. CASE Boot
  BY <1>0, <1>4 DEF Boot
<1>5. CASE Persist
  <2>1. /\ pc = "persist" /\ pc' = "act" /\ nvsFloor' = job.seq /\ nvsFloor < job.seq
        /\ UNCHANGED <<cfg, nvsCfg, job, confirmed>>
    BY <1>5 DEF Persist, FloorInv
  <2>2. job.seq \in Nat
    BY <1>0, <2>1 DEF Busy
  <2>3. \A p \in Params : cfg'[p] <= nvsFloor' /\ nvsCfg'[p] <= nvsFloor'
    BY <1>0, <2>1, <2>2
  <2>4. QED
    BY <2>1, <2>3
<1>6. CASE ActSet
  <2>1. /\ pc = "act" /\ pc' = "save" /\ nvsFloor = job.seq
        /\ job.cmd.op \in Params
        /\ cfg' = [cfg EXCEPT ![job.cmd.op] = job.seq]
        /\ UNCHANGED <<nvsCfg, nvsFloor, job, confirmed>>
    BY <1>6 DEF ActSet, FloorInv
  <2>2. \A p \in Params : cfg'[p] = IF p = job.cmd.op THEN job.seq ELSE cfg[p]
    BY <1>0, <2>1
  <2>3. \A p \in Params : /\ cfg'[p] <= nvsFloor' /\ nvsCfg'[p] <= nvsFloor'
                          /\ nvsCfg'[p] <= cfg'[p]
    BY <1>0, <2>1, <2>2
  <2>4. QED
    BY <2>1, <2>2, <2>3
<1>7. CASE ActRecal
  BY <1>0, <1>7 DEF ActRecal
<1>8. CASE Ignore
  BY <1>8 DEF Ignore, Finished
<1>9. CASE Save
  <2>1. /\ pc = "save" /\ nvsFloor = job.seq
        /\ UNCHANGED <<cfg, nvsFloor, confirmed>>
    BY <1>9 DEF Save, FloorInv
  <2>2. CASE nvsCfg' = cfg /\ pc' = "confirm" /\ UNCHANGED job
    <3>1. ConfirmedIsDurable'
      <4>1. \A p \in Params : nvsCfg'[p] >= nvsCfg[p]
        BY SavedGrows
      <4>2. QED
        BY <1>0, <2>1, <2>2, <4>1
    <3>2. QED
      BY <1>0, <2>1, <2>2, <3>1
  <2>3. CASE Finished /\ UNCHANGED <<nvsCfg, csiOn>>
    BY <2>1, <2>3 DEF Finished
  <2>4. QED
    BY <1>9, <2>2, <2>3 DEF Save
<1>10. CASE Confirm
  BY <1>0, <1>10 DEF Confirm, Finished
<1>11. QED
  BY <1>1, <1>2, <1>3, <1>4, <1>5, <1>6, <1>7, <1>8, <1>9, <1>10
     DEF Next, vars, nodeVars, Request, Draw, SendCopy, CallEnds, LoseFrame

\* The invariant holds, if the floor's write never fails unnoticed.
LEMMA Invariance ==
    ASSUME ~FloorFaults
    PROVE  Spec => []IInv
<1>1. Init => IInv
  <2>1. Init => TypeInv
    BY InitTyped
  <2>2. ToSet(<< >>) = {}
    BY DEF ToSet
  <2>3. Init => NumberInv
    BY DEF Init, NumberInv
  <2>4. Init => FloorInv
    BY <2>2 DEF Init, FloorInv
  <2>5. Init => ConfigInv
    BY DEF Init, ConfigInv, ConfirmedIsDurable
  <2>6. QED
    BY <2>1, <2>3, <2>4, <2>5 DEF IInv
<1>2. IInv /\ [Next]_vars => IInv'
  BY TypeInductive, NumberInductive, FloorInductive, ConfigInductive DEF IInv
<1>3. QED
  BY <1>1, <1>2, PTL DEF Spec

\* ConfirmedIsDurable: a heartbeat confirms a SET only if NVS has that value or
\* one of a later command, through every reset and failed save.
THEOREM ConfirmedSetLasts ==
    ASSUME ~FloorFaults
    PROVE  Spec => []ConfirmedIsDurable
<1>1. IInv => ConfirmedIsDurable
  BY DEF IInv, ConfigInv
<1>2. QED
  BY <1>1, Invariance, PTL

\* ConfigNeverGoesBack: no reset, overtaking or failed save brings back the value
\* of an older command.
THEOREM ConfigGrows ==
    ASSUME ~FloorFaults
    PROVE  Spec => ConfigNeverGoesBack
<1>1. IInv /\ [Next]_vars => [\A p \in Params : nvsCfg'[p] >= nvsCfg[p]]_vars
  BY SavedGrows DEF IInv
<1>2. QED
  BY <1>1, Invariance, PTL DEF Spec, ConfigNeverGoesBack

\* ImplementsChannel: the HTTP threads, the counter in SQLite, the copies on the
\* air and the node's two floors together are one channel that acts on each
\* command at most once and in order.
THEOREM Implements ==
    ASSUME ~FloorFaults
    PROVE  Spec => ImplementsChannel
<1>1. Init => Channel!Init
  BY DEF Init, Channel!Init
<1>2. IInv /\ [Next]_vars => [Channel!Next]_Channel!chanVars
  <2> SUFFICES ASSUME IInv, [Next]_vars
               PROVE  Channel!Next \/ UNCHANGED <<sent, effects>>
    BY DEF Channel!chanVars
  <2>1. ASSUME NEW t \in Callers, SendCopy(t)
        PROVE  Channel!Next
    <3>1. call[t] \in Frames /\ \A g \in sent : g.seq = call[t].seq => g = call[t]
      BY <2>1 DEF SendCopy, IInv, TypeInv, StageInv, NumberInv
    <3>2. Channel!Transmit(call[t])
      BY <2>1, <3>1 DEF SendCopy, Channel!Transmit, nodeVars
    <3>3. QED
      BY <3>1, <3>2 DEF Channel!Next
  <2>2. CASE ActSet \/ ActRecal
    <3>1. /\ pc = "act" /\ job \in sent /\ job \in Frames
          /\ \A g \in ToSet(effects) : g.seq < job.seq
      BY <2>2 DEF ActSet, ActRecal, IInv, TypeInv, TypeOK, StageInv, FloorInv, Busy
    <3>2. Channel!ActOn(job)
      BY <2>2, <3>1 DEF ActSet, ActRecal, gwVars, Channel!ActOn, ToSet, Channel!ToSet
    <3>3. QED
      BY <3>1, <3>2 DEF Channel!Next
  <2>3. QED
    BY <2>1, <2>2
       DEF Next, vars, gwVars, nodeVars, Request, Draw, CallEnds, LoseFrame, Take, Reset, Boot,
           Persist, Ignore, Save, Confirm
<1>3. QED
  BY <1>1, <1>2, Invariance, PTL DEF Spec, ImplementsChannel, Channel!Spec

=============================================================================
