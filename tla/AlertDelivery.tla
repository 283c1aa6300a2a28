--------------------------- MODULE AlertDelivery ---------------------------
(***************************************************************************)
(* One node and the gateway, end to end: sendReliable / sendOnce and       *)
(* waitForAck on the node (LoRaLink.cpp), a medium that loses, delays,     *)
(* repeats and reorders frames, the stages of Ingest.handle_frame          *)
(* (ingest.py) with the replay window in memory and in SQLite, crashes and *)
(* restarts of the daemon at any stage, failed database writes, resets of  *)
(* the node, and the rotation of the node's key.                           *)
(*                                                                         *)
(* handle_frame runs in the one serial reader thread, so the gateway has   *)
(* one frame in hand at a time.  The nodes of a gateway share nothing but  *)
(* that thread: keys, windows and rows are kept per node.                  *)
(***************************************************************************)
EXTENDS ReplayOps, Sequences, SequencesExt

CONSTANTS
    Kinds,          \* the message types the node sends, of {"alert", "hb"}
    MaxSeq,         \* sequence numbers are 1 .. MaxSeq
    Window,         \* reorder window of both replay filters, 8 in the code
    RetxCount,      \* cfg.retx_count
    MaxFailures,    \* how often the daemon may die or a database call raise
    MaxRotations    \* how often the key may be rotated

ASSUME AlertDeliveryAssumption ==
    /\ Kinds \subseteq {"alert", "hb"}
    /\ MaxSeq \in Nat
    /\ Window \in 1 .. WordBits
    /\ RetxCount \in Nat \ {0}
    /\ MaxFailures \in Nat
    /\ MaxRotations \in Nat

Seqs == 1 .. MaxSeq

Keys == 0 .. MaxRotations

\* A sealed frame: the message type, the key it is sealed under, and SEQ.  An
\* ACK carries key and SEQ of the alert it answers, so the alert stands for it.
Frames == [kind: Kinds, key: Keys, seq: Seqs]

NoFrame == [kind |-> "none", key |-> 0, seq |-> 0]

NoJob == [frame |-> NoFrame, dup |-> FALSE]

VARIABLES
    ackEnable,   \* cfg.ack_enable of the node
    nodeKey,     \* the key the node seals with
    lastSeq,     \* the last number nextSeq returned (0: none since seqreset)
    pc,          \* "idle"; "send": about to transmit; "wait": in waitForAck
    sending,     \* the frame being sent
    attempt,     \* index of the current transmission
    ackWin,      \* the node's replay filter on ACKs
    air,         \* uplink frames on their way
    acks,        \* ACKs on their way
    gwPc,        \* stage of handle_frame: "idle", "ack", "save", "log", "store",
                 \* or "down"
    gwKey,       \* the key the running daemon has for the node
    job,         \* the frame in hand and whether it is a duplicate
    mem,         \* the daemon's replay window in memory
    dbWin,       \* the replay window in SQLite
    rows,        \* rows of the alerts and heartbeats tables
    raised,      \* history: frames sealed
    verified,    \* history: frames that passed the replay check as new
    acked,       \* history: alerts for which sendReliable returned ACKED
    failures, rotations   \* bounded counters

nodeVars == <<ackEnable, nodeKey, lastSeq, pc, sending, attempt, ackWin, raised, acked>>
gwVars == <<gwPc, gwKey, job, mem, dbWin, rows, verified>>
vars == <<nodeVars, gwVars, air, acks, failures, rotations>>

TypeOK ==
    /\ ackEnable \in BOOLEAN
    /\ {nodeKey, gwKey} \subseteq Keys
    /\ lastSeq \in 0 .. MaxSeq
    /\ pc \in {"idle", "send", "wait"}
    /\ gwPc \in {"idle", "ack", "save", "log", "store", "down"}
    /\ {sending, job.frame} \subseteq Frames \union {NoFrame}
    /\ job.dup \in BOOLEAN
    /\ attempt \in 0 .. (RetxCount - 1)
    /\ {ackWin, mem, dbWin} \subseteq ReplayState
    /\ air \union acks \union verified \union acked \subseteq raised
    /\ raised \subseteq Frames
    /\ ToSet(rows) \subseteq verified
    /\ failures \in 0 .. MaxFailures
    /\ rotations \in 0 .. MaxRotations

Init ==
    /\ ackEnable \in BOOLEAN
    /\ nodeKey = 0 /\ lastSeq = 0
    /\ pc = "idle" /\ sending = NoFrame /\ attempt = 0
    /\ ackWin = NewReplay(Window)
    /\ air = {} /\ acks = {}
    /\ gwPc = "idle" /\ gwKey = 0 /\ job = NoJob
    /\ mem = NewReplay(Window) /\ dbWin = NewReplay(Window)
    /\ rows = <<>>
    /\ raised = {} /\ verified = {} /\ acked = {}
    /\ failures = 0 /\ rotations = 0

-----------------------------------------------------------------------------
(***************************************************************************)
(* The node                                                                *)
(***************************************************************************)

\* Deviation: the last number may be used again.
NextSeqRepeats(s) == s \in (IF lastSeq = 0 THEN 1 ELSE lastSeq) .. MaxSeq

\* nextSeq: above every number used under this key (NodeSeq), with gaps where a
\* reset burnt a reservation.
NextSeq(s) == s \in (lastSeq + 1) .. MaxSeq

\* sendAlert or sendHeartbeat seals a frame.
Begin(kind) ==
    /\ pc = "idle"
    /\ \E s \in Seqs :
        /\ NextSeq(s)
        /\ lastSeq' = s
        /\ sending' = [kind |-> kind, key |-> nodeKey, seq |-> s]
    /\ raised' = raised \union {sending'}
    /\ attempt' = 0
    /\ pc' = "send"
    /\ UNCHANGED <<ackEnable, nodeKey, ackWin, acked, gwVars, air, acks,
                   failures, rotations>>

\* Deviation: one attempt too many.
LastAttemptLate == sending.kind = "hb" \/ attempt = RetxCount

\* sendOnce transmits once, sendReliable retx_count times.
LastAttempt == sending.kind = "hb" \/ attempt + 1 = RetxCount

EndSend == pc' = "idle" /\ attempt' = 0 /\ sending' = NoFrame

\* Deviation: the attempt is not counted.
NextAttemptUncounted ==
    IF LastAttempt THEN EndSend ELSE pc' = "send" /\ UNCHANGED <<attempt, sending>>

NextAttempt ==
    IF LastAttempt THEN EndSend
                   ELSE pc' = "send" /\ attempt' = attempt + 1 /\ UNCHANGED sending

Listens == ackEnable /\ sending.kind = "alert"

\* Without ack_enable sendReliable starts from the outcome ACKED, and only a radio
\* error of the last attempt takes it back: it is returned though nobody answered.
AckedUnheard ==
    acked' = IF sending.kind = "alert" /\ LastAttempt THEN acked \union {sending} ELSE acked

\* guardedTransmit succeeds.
Transmit ==
    /\ pc = "send"
    /\ air' = air \union {sending}
    /\ IF Listens THEN pc' = "wait" /\ UNCHANGED <<attempt, sending, acked>>
                  ELSE NextAttempt /\ AckedUnheard
    /\ UNCHANGED <<ackEnable, nodeKey, lastSeq, ackWin, raised,
                   gwVars, acks, failures, rotations>>

\* guardedTransmit reports a radio error: no ACK window for this attempt.
TransmitFails ==
    /\ pc = "send"
    /\ NextAttempt
    /\ UNCHANGED <<ackEnable, nodeKey, lastSeq, ackWin, raised, acked,
                   gwVars, air, acks, failures, rotations>>

\* Deviation: any genuine ACK ends the wait.
HearAnyAck(a) ==
    /\ pc = "wait"
    /\ a \in acks
    /\ a.key = nodeKey
    /\ Fresh(ackWin, a.seq)
    /\ ackWin' = AfterCheck("c", ackWin, a.seq)
    /\ EndSend /\ acked' = acked \union {sending}
    /\ UNCHANGED <<ackEnable, nodeKey, lastSeq, raised, gwVars, air, acks,
                   failures, rotations>>

\* An ACK arrives inside the window of waitForAck.  It must open under the
\* node's key and pass the replay filter; then it ends the send if it names
\* this alert, and otherwise the wait goes on.
HearAck(a) ==
    /\ pc = "wait"
    /\ a \in acks
    /\ a.key = nodeKey
    /\ Fresh(ackWin, a.seq)
    /\ ackWin' = AfterCheck("c", ackWin, a.seq)
    /\ IF a.seq = sending.seq
       THEN EndSend /\ acked' = acked \union {sending}
       ELSE UNCHANGED <<pc, attempt, sending, acked>>
    /\ UNCHANGED <<ackEnable, nodeKey, lastSeq, raised, gwVars, air, acks,
                   failures, rotations>>

\* The ACK window closes with no ACK for this alert.
AckWindowEnds ==
    /\ pc = "wait"
    /\ NextAttempt
    /\ UNCHANGED <<ackEnable, nodeKey, lastSeq, ackWin, raised, acked,
                   gwVars, air, acks, failures, rotations>>

\* A reset or a deep sleep: the frame being sent is forgotten, and
\* LoRaLink::begin makes a new ACK filter.
NodeReset ==
    /\ EndSend
    /\ ackWin' = NewReplay(Window)
    /\ UNCHANGED <<ackEnable, nodeKey, lastSeq, raised, acked, gwVars,
                   air, acks, failures, rotations>>

\* `keygen`, `save` and `seqreset` with nothing sent in between.  The filter on
\* ACKs is left as it is.
RotateKey ==
    /\ pc = "idle"
    /\ rotations < MaxRotations
    /\ rotations' = rotations + 1
    /\ nodeKey' = nodeKey + 1
    /\ lastSeq' = 0
    /\ UNCHANGED <<ackEnable, pc, sending, attempt, ackWin, raised, acked,
                   gwVars, air, acks, failures>>

-----------------------------------------------------------------------------
(***************************************************************************)
(* The medium: radio, bridge and serial line in both directions            *)
(***************************************************************************)

LoseFrame(f) ==
    /\ f \in air
    /\ air' = air \ {f}
    /\ UNCHANGED <<nodeVars, gwVars, acks, failures, rotations>>

\* An ACK that finds no open window is lost too.
LoseAck(a) ==
    /\ a \in acks
    /\ acks' = acks \ {a}
    /\ UNCHANGED <<nodeVars, gwVars, air, failures, rotations>>

-----------------------------------------------------------------------------
(***************************************************************************)
(* The gateway: handle_frame, stage by stage                               *)
(***************************************************************************)

Done == gwPc' = "idle" /\ job' = NoJob

\* Deviation: `duplicate` is computed after the check has marked the frame.
ReceiveLate(f) ==
    /\ gwPc = "idle"
    /\ f \in air
    /\ f.key = gwKey
    /\ mem' = AfterCheck("python", mem, f.seq)
    /\ LET dup == ~Fresh(mem', f.seq) IN
        /\ job' = [frame |-> f, dup |-> dup]
        /\ verified' = IF dup THEN verified ELSE verified \union {f}
    /\ gwPc' = IF f.kind = "alert" THEN "ack" ELSE "save"
    /\ UNCHANGED <<nodeVars, gwKey, dbWin, rows, air, acks, failures, rotations>>

\* Header, key lookup, AEAD open, replay check.  A frame sealed under another
\* key is logged as auth-fail and dropped.  The medium may repeat the frame until
\* it is lost (LoseFrame), and likewise an ACK.
Receive(f) ==
    /\ gwPc = "idle"
    /\ f \in air
    /\ f.key = gwKey
    /\ LET dup == ~Fresh(mem, f.seq) IN
        /\ job' = [frame |-> f, dup |-> dup]
        /\ verified' = IF dup THEN verified ELSE verified \union {f}
    /\ mem' = AfterCheck("python", mem, f.seq)
    /\ gwPc' = IF f.kind = "alert" THEN "ack" ELSE "save"
    /\ UNCHANGED <<nodeVars, gwKey, dbWin, rows, air, acks, failures, rotations>>

\* Alerts are acknowledged at once, duplicates included; a failure of the link
\* is swallowed (and is the loss of the ACK).
SendAck ==
    /\ gwPc = "ack"
    /\ acks' = acks \union {job.frame}
    /\ gwPc' = "save"
    /\ UNCHANGED <<nodeVars, gwKey, job, mem, dbWin, rows, verified, air,
                   failures, rotations>>

SaveReplay ==
    /\ gwPc = "save"
    /\ dbWin' = mem
    /\ gwPc' = "log"
    /\ UNCHANGED <<nodeVars, gwKey, job, mem, rows, verified, air, acks,
                   failures, rotations>>

\* Deviation: every frame stops here.
AddRawReturns ==
    /\ gwPc = "log"
    /\ Done
    /\ UNCHANGED <<nodeVars, gwKey, mem, dbWin, rows, verified, air, acks,
                   failures, rotations>>

\* add_raw (a table nothing reads back); a duplicate goes no further.
AddRaw ==
    /\ gwPc = "log"
    /\ IF job.dup THEN Done ELSE gwPc' = "store" /\ UNCHANGED job
    /\ UNCHANGED <<nodeVars, gwKey, mem, dbWin, rows, verified, air, acks,
                   failures, rotations>>

\* _on_alert / _on_heartbeat.
Store ==
    /\ gwPc = "store"
    /\ rows' = Append(rows, job.frame)
    /\ Done
    /\ UNCHANGED <<nodeVars, gwKey, mem, dbWin, verified, air, acks,
                   failures, rotations>>

\* A database call raises: whatever stage it is, the exception ends the
\* handling of this frame (in handle_frame or in SerialLink._dispatch).  Each
\* stage is several statements and commits, so its effect may be there or not.
DbRaises ==
    /\ failures < MaxFailures
    /\ failures' = failures + 1
    /\ \/ gwPc = "save" /\ dbWin' \in {dbWin, mem} /\ UNCHANGED rows
       \/ gwPc = "log" /\ UNCHANGED <<dbWin, rows>>
       \/ gwPc = "store" /\ rows' \in {rows, Append(rows, job.frame)} /\ UNCHANGED dbWin
    /\ Done
    /\ UNCHANGED <<nodeVars, gwKey, mem, verified, air, acks, rotations>>

Crash ==
    /\ gwPc # "down"
    /\ failures < MaxFailures
    /\ failures' = failures + 1
    /\ gwPc' = "down" /\ job' = NoJob
    /\ UNCHANGED <<nodeVars, gwKey, mem, dbWin, rows, verified, air, acks,
                   rotations>>

\* Deviation: the daemon starts with an empty window.
RestartEmpty ==
    /\ gwPc = "down"
    /\ gwPc' = "idle"
    /\ gwKey' = nodeKey
    /\ mem' = NewReplay(Window)
    /\ UNCHANGED <<nodeVars, job, dbWin, rows, verified, air, acks, failures,
                   rotations>>

\* Ingest.__init__ loads the window; main() has read keys.json, where the
\* operator has registered the node's key by now.
Restart ==
    /\ gwPc = "down"
    /\ gwPc' = "idle"
    /\ gwKey' = nodeKey
    /\ mem' = dbWin
    /\ UNCHANGED <<nodeVars, job, dbWin, rows, verified, air, acks, failures,
                   rotations>>

-----------------------------------------------------------------------------
Next ==
    \/ \E kind \in Kinds : Begin(kind)
    \/ Transmit
    \/ TransmitFails
    \/ \E a \in acks : HearAck(a)
    \/ AckWindowEnds
    \/ NodeReset
    \/ RotateKey
    \/ \E f \in air : LoseFrame(f)
    \/ \E a \in acks : LoseAck(a)
    \/ \E f \in air : Receive(f)
    \/ SendAck
    \/ SaveReplay
    \/ AddRaw
    \/ Store
    \/ DbRaises
    \/ Crash
    \/ Restart

Spec == Init /\ [][Next]_vars

\* The sketch and the reader thread keep running, waits are bounded by millis(),
\* and systemd restarts the daemon.  Nothing is asked of the medium.
Fairness ==
    /\ WF_vars(Transmit \/ TransmitFails)
    /\ WF_vars(AckWindowEnds)
    /\ WF_vars(SendAck \/ SaveReplay \/ AddRaw \/ Store \/ DbRaises)
    /\ WF_vars(Restart)

FairSpec == Spec /\ Fairness

-----------------------------------------------------------------------------
(***************************************************************************)
(* Properties                                                              *)
(***************************************************************************)

\* The alerts whose outcome ACKED stands for an ACK that was heard.  With
\* ack_enable off it says no more than that the last attempt was transmitted, and
\* the uplink promises nothing of it.
Confirmed == IF ackEnable THEN acked ELSE {}

Log == INSTANCE AlertLog WITH acked <- Confirmed

\* The uplink keeps the promises of AlertLog through losses, repetitions,
\* reordering, crashes at any stage, failed writes and node resets: at most one
\* row per frame, only verified frames stored, and, where ack_enable closes the
\* loop, ACKED only if verified.
ImplementsLog == Log!Spec

\* While the node waits for the ACK of an alert its replay filter on ACKs lets
\* that ACK through: an old ACK heard before, or one for an earlier attempt,
\* never makes waitForAck refuse the one it is waiting for.
AwaitedAckPasses == pc = "wait" => Fresh(ackWin, sending.seq)

\* The gateway calls a frame a duplicate (and drops it after the ACK) only if it
\* verified that very frame before, or verified one of the same key that is more
\* than the reorder window ahead of it.
DuplicateMeansSeen ==
    gwPc \in {"ack", "save", "log"} /\ job.dup =>
        \/ job.frame \in verified
        \/ \E g \in verified : /\ g.key = job.frame.key
                               /\ g.seq - job.frame.seq > Window

\* With ack_enable an alert whose sender was told ACKED has its row, or the gateway
\* still has it in hand: the closed loop loses no alert.  (Not with crashes or
\* failed writes, because the ACK precedes the store; and not without ack_enable,
\* where ACKED is returned unheard.)
AckedIsStored ==
    \A f \in Confirmed : f \in ToSet(rows) \/ job.frame = f

\* A send always ends, whatever the radio and the gateway do, so the sketch gets
\* back to sampling.
SendTerminates == pc # "idle" ~> pc = "idle"

\* Every frame the gateway verified as new gets its row, if the daemon and the
\* database stay up: no stage of handle_frame is left for good.
VerifiedIsStored ==
    \A f \in Frames : f \in verified ~> f \in ToSet(rows)

=============================================================================
