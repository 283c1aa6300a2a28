------------------------------ MODULE Downlink ------------------------------
(***************************************************************************)
(* Commands from the web GUI to one node: send_cmd in several HTTP threads *)
(* (ingest.py, web.py), the downlink counter in SQLite (db.py), a lossy    *)
(* and repeating medium, and the node that takes a command, writes its     *)
(* floor to NVS, acts on it, saves its configuration and answers with a    *)
(* heartbeat (main.cpp, LoRaLink.cpp, config.cpp), while the daemon and    *)
(* the node are reset at any point.                                        *)
(*                                                                         *)
(* A SET command carries its number as the value it sets, so a             *)
(* configuration tells which command each parameter comes from.            *)
(***************************************************************************)
EXTENDS Integers, Sequences, SequencesExt

CONSTANTS
    Callers,       \* the HTTP threads that serve POST requests for this node
    Params,        \* parameters a SET may name
    MaxSeq,        \* bound on the downlink counter
    FloorFaults    \* may cmdSeqPersist fail? (its result is not looked at)

ASSUME DownlinkAssumption ==
    /\ MaxSeq \in Nat
    /\ FloorFaults \in BOOLEAN
    /\ "recal" \notin Params
    /\ "none" \notin Params

Seqs == 1 .. MaxSeq

\* A command is CSI_RECAL or a SET of one parameter to an acceptable value or to
\* one that configSet refuses (the ranges of proto.py and config.cpp differ).
Commands == [op: Params \union {"recal"}, valid: BOOLEAN]

Frames == [seq: Seqs, cmd: Commands]

NoCmd == [op |-> "none", valid |-> FALSE]

NoFrame == [seq |-> 0, cmd |-> NoCmd]

Configs == [Params -> 0 .. MaxSeq]

VARIABLES
    callPc,      \* each HTTP thread: "idle", "draw" or "send"
    call,        \* the frame it is working on (seq 0 until drawn)
    downSeq,     \* nodes.down_seq in SQLite
    air,         \* command frames on their way
    pc,          \* the node: "off", "listen", "persist", "act", "save", "confirm"
    floor,       \* LoRaLink::_cmdLastSeq
    nvsFloor,    \* cmd_seq in NVS
    job,         \* the command taken
    cfg,         \* the configuration in RAM ...
    nvsCfg,      \* ... and in NVS
    csiOn,       \* is the WiFi radar running?
    sent,        \* history: frames handed to the radio link
    effects,     \* history: frames acted on
    confirmed    \* history: frames confirmed by a heartbeat

gwVars == <<callPc, call, downSeq, sent>>
nodeVars == <<pc, floor, nvsFloor, job, cfg, nvsCfg, csiOn, effects, confirmed>>
vars == <<gwVars, air, nodeVars>>

TypeOK ==
    /\ callPc \in [Callers -> {"idle", "draw", "send"}]
    /\ call \in [Callers -> [seq: 0 .. MaxSeq, cmd: Commands \union {NoCmd}]]
    /\ {downSeq, floor, nvsFloor} \subseteq 0 .. MaxSeq
    /\ pc \in {"off", "listen", "persist", "act", "save", "confirm"}
    /\ job \in Frames \union {NoFrame}
    /\ {cfg, nvsCfg} \subseteq Configs
    /\ csiOn \in BOOLEAN
    /\ sent \subseteq Frames
    /\ air \union ToSet(effects) \union confirmed \subseteq sent

Init ==
    /\ callPc = [t \in Callers |-> "idle"]
    /\ call = [t \in Callers |-> NoFrame]
    /\ downSeq = 0
    /\ air = {}
    /\ pc = "off" /\ floor = 0 /\ nvsFloor = 0 /\ job = NoFrame
    /\ cfg = [p \in Params |-> 0] /\ nvsCfg = cfg
    /\ csiOn = FALSE
    /\ sent = {} /\ effects = <<>> /\ confirmed = {}

-----------------------------------------------------------------------------
(* The gateway                                                             *)

\* do_POST passes authorisation and the range check and calls send_cmd.
Request(t, cmd) ==
    /\ callPc[t] = "idle"
    /\ callPc' = [callPc EXCEPT ![t] = "draw"]
    /\ call' = [call EXCEPT ![t] = [seq |-> 0, cmd |-> cmd]]
    /\ UNCHANGED <<downSeq, sent, air, nodeVars>>

\* Deviation: the counter is read and written back in two transactions, and
\* another thread drew the same number in between.
DrawUnlocked(t) ==
    /\ callPc[t] = "draw"
    /\ downSeq < MaxSeq
    /\ downSeq' \in {downSeq, downSeq + 1} \ {0}
    /\ call' = [call EXCEPT ![t].seq = downSeq']
    /\ callPc' = [callPc EXCEPT ![t] = "send"]
    /\ UNCHANGED <<sent, air, nodeVars>>

\* next_down_seq, one transaction.
Draw(t) ==
    /\ callPc[t] = "draw"
    /\ downSeq < MaxSeq
    /\ downSeq' = downSeq + 1
    /\ call' = [call EXCEPT ![t].seq = downSeq']
    /\ callPc' = [callPc EXCEPT ![t] = "send"]
    /\ UNCHANGED <<sent, air, nodeVars>>

\* Deviation: sends before the number is drawn.
SendCopyEarly(t) ==
    /\ callPc[t] # "idle"
    /\ air' = air \union {call[t]}
    /\ sent' = sent \union {call[t]}
    /\ UNCHANGED <<callPc, call, downSeq, nodeVars>>

\* One of the identical copies goes out, the last one or not.
SendCopy(t) ==
    /\ callPc[t] = "send"
    /\ air' = air \union {call[t]}
    /\ sent' = sent \union {call[t]}
    /\ UNCHANGED <<callPc, call, downSeq, nodeVars>>

\* send_cmd returns after the copies, or at the first exception of the link or of
\* the database; or the daemon dies and every call with it.
CallEnds(t) ==
    /\ callPc[t] \in {"draw", "send"}
    /\ callPc' = [callPc EXCEPT ![t] = "idle"]
    /\ call' = [call EXCEPT ![t] = NoFrame]
    /\ UNCHANGED <<downSeq, sent, air, nodeVars>>

\* A frame is repeated by the medium until it is lost.
LoseFrame(f) ==
    /\ f \in air
    /\ air' = air \ {f}
    /\ UNCHANGED <<gwVars, nodeVars>>

-----------------------------------------------------------------------------
(* The node                                                                *)

\* Any reset or sleep: RAM is lost.
Reset ==
    /\ pc # "off"
    /\ pc' = "off"
    /\ floor' = 0 /\ job' = NoFrame
    /\ UNCHANGED <<gwVars, air, nvsFloor, cfg, nvsCfg, csiOn, effects, confirmed>>

\* Deviation: the floor is not loaded before listening.
BootWithoutFloor ==
    /\ pc = "off"
    /\ pc' = "listen"
    /\ cfg' = nvsCfg
    /\ csiOn' \in BOOLEAN
    /\ UNCHANGED <<gwVars, air, floor, nvsFloor, job, nvsCfg, effects, confirmed>>

\* setup loads the configuration and may start the WiFi radar; the first turn of
\* loop sets the floor from NVS and starts to listen.
Boot ==
    /\ pc = "off"
    /\ pc' = "listen"
    /\ cfg' = nvsCfg
    /\ csiOn' \in BOOLEAN
    /\ floor' = IF nvsFloor > floor THEN nvsFloor ELSE floor
    /\ UNCHANGED <<gwVars, air, nvsFloor, job, nvsCfg, effects, confirmed>>

\* receiveCommand: only a number above the floor is taken, and raises it.
Take(f) ==
    /\ pc = "listen"
    /\ f \in air
    /\ f.seq > floor
    /\ floor' = f.seq
    /\ job' = f
    /\ pc' = "persist"
    /\ UNCHANGED <<gwVars, air, nvsFloor, cfg, nvsCfg, csiOn, effects, confirmed>>

\* cmdSeqPersist, before the command is looked at; a failure goes unnoticed.
Persist ==
    /\ pc = "persist"
    /\ nvsFloor' \in {job.seq} \union (IF FloorFaults THEN {nvsFloor} ELSE {})
    /\ pc' = "act"
    /\ UNCHANGED <<gwVars, air, floor, job, cfg, nvsCfg, csiOn, effects, confirmed>>

Finished == pc' = "listen" /\ job' = NoFrame

\* configSet changes RAM if the value passes.
ActSet ==
    /\ pc = "act"
    /\ job.cmd.op \in Params
    /\ job.cmd.valid
    /\ cfg' = [cfg EXCEPT ![job.cmd.op] = job.seq]
    /\ effects' = Append(effects, job)
    /\ pc' = "save"
    /\ UNCHANGED <<gwVars, air, floor, nvsFloor, job, nvsCfg, csiOn, confirmed>>

\* CSI_RECAL restarts the calibration of a running radar.
ActRecal ==
    /\ pc = "act"
    /\ job.cmd.op = "recal"
    /\ csiOn
    /\ effects' = Append(effects, job)
    /\ pc' = "confirm"
    /\ UNCHANGED <<gwVars, air, floor, nvsFloor, job, cfg, nvsCfg, csiOn, confirmed>>

\* A value out of range, or a recalibration without a radar, is dropped.
Ignore ==
    /\ pc = "act"
    /\ IF job.cmd.op = "recal" THEN ~csiOn ELSE ~job.cmd.valid
    /\ Finished
    /\ UNCHANGED <<gwVars, air, floor, nvsFloor, cfg, nvsCfg, csiOn, effects, confirmed>>

\* Deviation: the result of configSave is not looked at.
SaveUnchecked ==
    /\ pc = "save"
    /\ nvsCfg' \in {cfg, nvsCfg}
    /\ pc' = "confirm"
    /\ UNCHANGED <<gwVars, air, floor, nvsFloor, job, cfg, csiOn, effects, confirmed>>

\* configSave writes the whole configuration.  If that fails the new value stays
\* in RAM and there is no confirmation.  A running radar is restarted for a
\* parameter of its own, which may fail.
Save ==
    /\ pc = "save"
    /\ \/ /\ nvsCfg' = cfg
          /\ csiOn' \in {csiOn, FALSE}
          /\ pc' = "confirm"
          /\ UNCHANGED job
       \/ Finished /\ UNCHANGED <<nvsCfg, csiOn>>
    /\ UNCHANGED <<gwVars, air, floor, nvsFloor, cfg, effects, confirmed>>

\* sendHeartbeat, which may find no number or fail in the radio.
Confirm ==
    /\ pc = "confirm"
    /\ confirmed' \in {confirmed \union {job}, confirmed}
    /\ Finished
    /\ UNCHANGED <<gwVars, air, floor, nvsFloor, cfg, nvsCfg, csiOn, effects>>

-----------------------------------------------------------------------------
Next ==
    \/ \E t \in Callers, cmd \in Commands : Request(t, cmd)
    \/ \E t \in Callers : Draw(t) \/ SendCopy(t) \/ CallEnds(t)
    \/ \E f \in air : LoseFrame(f) \/ Take(f)
    \/ Reset
    \/ Boot
    \/ Persist
    \/ ActSet
    \/ ActRecal
    \/ Ignore
    \/ Save
    \/ Confirm

Spec == Init /\ [][Next]_vars

-----------------------------------------------------------------------------
(***************************************************************************)
(* Properties                                                              *)
(***************************************************************************)

Channel == INSTANCE CommandChannel

\* Over concurrent requests, repeated copies, losses, overtaking and resets on
\* both sides, a number names one command and the node acts on commands once
\* each, in order ("write-ahead: floor survives reboot").
ImplementsChannel == Channel!Spec

\* The heartbeat that confirms a SET tells the truth across reboots: the saved
\* configuration has that value or one set by a later command.
ConfirmedIsDurable ==
    \A f \in confirmed :
        f.cmd.op \in Params => nvsCfg[f.cmd.op] >= f.seq

\* A parameter saved in NVS never goes back to the value of an older command,
\* also when commands overtake each other or an earlier save has failed.
ConfigNeverGoesBack == [][\A p \in Params : nvsCfg'[p] >= nvsCfg[p]]_vars

=============================================================================
