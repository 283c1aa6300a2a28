----------------------------- MODULE BridgeSync -----------------------------
(***************************************************************************)
(* The radio bridge (gateway-bridge/src/main.cpp) and what the daemon's    *)
(* reader thread does with its messages (serial_link.py): the radio        *)
(* configuration, the frames received, the frames to transmit.             *)
(*                                                                         *)
(* The bridge may reset without its USB port going away; the bytes on      *)
(* their way to it are lost then.  The SX1262 has one buffer, written by   *)
(* what it receives and by what it is to send.                             *)
(***************************************************************************)
EXTENDS Naturals, Sequences

CONSTANTS
    MaxFrames,   \* bound: frames that come over the air
    MaxSends,    \* bound: frames the daemon hands over
    MaxResets,   \* bound: resets of the bridge
    MaxFailures  \* bound: how often radio.begin fails

BridgeSyncAssumption == {MaxFrames, MaxSends, MaxResets, MaxFailures} \subseteq Nat

VARIABLES
    place,     \* where the bridge is: setup, loop, or reading a frame
    radioUp, rxDone,
    cfg,       \* the configuration the radio was begun with
    buffer,    \* the radio's buffer
    toBridge,  \* on the wire
    toPi,
    recent,    \* was a CFG sent within the last second?
    strayed,   \* history: has the daemon missed that the bridge needs a CFG?
    used       \* bounded counters

wire == <<toBridge, toPi>>

radio == <<radioUp, rxDone, cfg, buffer>>

bridgeVars == <<place, radio, wire, recent, strayed, used>>

Counters == [frames : 0 .. MaxFrames, sends : 0 .. MaxSends,
             resets : 0 .. MaxResets, failures : 0 .. MaxFailures]

BridgeTypeOK ==
    /\ place \in {"setup", "loop", "reading"}
    /\ {radioUp, rxDone, recent, strayed} \subseteq BOOLEAN
    /\ cfg \in {"none", "default", "ours"}
    /\ buffer \in {"nothing", "received", "sent"}
    /\ toBridge \in Seq({"CFG", "TX"})
    /\ toPi \in Seq({"RDY", "ERR", "OK", "received", "sent", "nothing"})
    /\ used \in Counters

\* The daemon has opened the port, and so has written its configuration.
BridgeInit ==
    /\ place = "setup" /\ radioUp = FALSE /\ rxDone = FALSE
    /\ cfg = "none" /\ buffer = "nothing"
    /\ toBridge = <<"CFG">> /\ toPi = <<>>
    /\ recent = TRUE /\ strayed = FALSE
    /\ used = [frames |-> 0, sends |-> 0, resets |-> 0, failures |-> 0]

-----------------------------------------------------------------------------
(* The bridge                                                              *)

\* applyCfg and its answer, for a configuration and the rest of the wire.
applyCfg(c) ==
    \/ /\ radioUp' = TRUE /\ rxDone' = FALSE /\ cfg' = c /\ buffer' = "nothing"
       /\ toPi' = Append(toPi, "RDY")
       /\ strayed' = (strayed /\ c # "ours")
       /\ UNCHANGED used
    \/ /\ used.failures < MaxFailures
       /\ used' = [used EXCEPT !.failures = @ + 1]
       /\ radioUp' = FALSE
       /\ toPi' = Append(toPi, "ERR")
       /\ strayed' = TRUE
       /\ UNCHANGED <<rxDone, cfg, buffer>>

Setup ==
    /\ place = "setup" /\ place' = "loop"
    /\ applyCfg("default")
    /\ UNCHANGED <<toBridge, recent>>

HandleCfg ==
    /\ place = "loop" /\ toBridge # <<>> /\ Head(toBridge) = "CFG"
    /\ toBridge' = Tail(toBridge)
    /\ applyCfg("ours")
    /\ UNCHANGED <<place, recent>>

\* The flag after a transmission: cleared, with any frame that was waiting.
AfterTransmit == FALSE

HandleTx ==
    /\ place = "loop" /\ toBridge # <<>> /\ Head(toBridge) = "TX"
    /\ toBridge' = Tail(toBridge)
    /\ IF radioUp
       THEN /\ rxDone' = AfterTransmit
            /\ buffer' = "sent"
            /\ \E answer \in {"OK", "ERR"} : toPi' = Append(toPi, answer)
       ELSE toPi' = Append(toPi, "ERR") /\ UNCHANGED <<rxDone, buffer>>
    /\ UNCHANGED <<place, radioUp, cfg, recent, strayed, used>>

\* The interrupt: a frame has come, also while the loop reads another.
onRxDone ==
    /\ place # "setup" /\ radioUp /\ used.frames < MaxFrames
    /\ used' = [used EXCEPT !.frames = @ + 1]
    /\ rxDone' = TRUE /\ buffer' = "received"
    /\ UNCHANGED <<place, radioUp, cfg, wire, recent, strayed>>

\* loop() reads serial bytes as long as there are any.
BeginRead ==
    /\ place = "loop" /\ toBridge = <<>> /\ radioUp /\ rxDone
    /\ place' = "reading" /\ rxDone' = FALSE
    /\ UNCHANGED <<radioUp, cfg, buffer, wire, recent, strayed, used>>

\* A frame with a bad checksum is not passed on.
EndRead ==
    /\ place = "reading" /\ place' = "loop"
    /\ \/ toPi' = Append(toPi, buffer)
       \/ UNCHANGED toPi
    /\ UNCHANGED <<radio, toBridge, recent, strayed, used>>

Reset ==
    /\ used.resets < MaxResets
    /\ used' = [used EXCEPT !.resets = @ + 1]
    /\ place' = "setup" /\ radioUp' = FALSE /\ rxDone' = FALSE
    /\ cfg' = "none" /\ buffer' = "nothing" /\ toBridge' = <<>>
    /\ UNCHANGED <<toPi, recent, strayed>>

-----------------------------------------------------------------------------
(* The daemon                                                              *)

\* Deviation: a RDY is logged and no more.
_dispatch_logged ==
    /\ toPi # <<>>
    /\ toPi' = Tail(toPi)
    /\ UNCHANGED <<place, radio, toBridge, recent, strayed, used>>

\* _dispatch: a RDY more than a second after the last CFG is answered by one;
\* an earlier one is ignored, although it may tell of a boot after that CFG was
\* lost.  An ERR is logged.
_dispatch ==
    /\ toPi # <<>>
    /\ toPi' = Tail(toPi)
    /\ IF Head(toPi) = "RDY" /\ ~recent
       THEN toBridge' = Append(toBridge, "CFG") /\ recent' = TRUE /\ UNCHANGED strayed
       ELSE /\ strayed' = (strayed \/ (Head(toPi) = "RDY" /\ cfg # "ours"))
            /\ UNCHANGED <<toBridge, recent>>
    /\ UNCHANGED <<place, radio, used>>

\* A second has passed since the last CFG.
SecondPasses ==
    /\ recent /\ recent' = FALSE
    /\ UNCHANGED <<place, radio, wire, strayed, used>>

send_frame ==
    /\ used.sends < MaxSends
    /\ used' = [used EXCEPT !.sends = @ + 1]
    /\ toBridge' = Append(toBridge, "TX")
    /\ UNCHANGED <<place, radio, toPi, recent, strayed>>

BridgeLoop == Setup \/ HandleCfg \/ HandleTx \/ BeginRead \/ EndRead

BridgeNext == BridgeLoop \/ onRxDone \/ Reset \/ _dispatch \/ SecondPasses \/ send_frame

-----------------------------------------------------------------------------

\* The daemon is handed frames from the air only, never what it sent itself or
\* an empty buffer, however receptions, transmissions and resets interleave.  (A
\* frame may be handed over twice, and one that waits during a transmission is
\* lost.)
NoEcho == \A i \in DOMAIN toPi : toPi[i] \notin {"sent", "nothing"}

\* A bridge ends up with the daemon's configuration, whatever resets and lost
\* CFGs come before, unless the daemon ignored the RDY of a boot for coming
\* within a second of a CFG that was lost, or the radio could not be begun.
ConfigSyncs == <>[]~strayed => <>[](radioUp /\ cfg = "ours")

=============================================================================
