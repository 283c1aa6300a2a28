------------------------------ MODULE NodeSeq ------------------------------
(***************************************************************************)
(* The sequence numbers of one node (esp32/node/src/main.cpp): RTC copy,   *)
(* upper bound in NVS, reservation in steps of SEQ_CKPT, restoration at    *)
(* every boot, and the rotation of the key from the CLI.  A number is the  *)
(* nonce of its frame, so the comment on SEQ management asks that none is  *)
(* used twice under one key "across ANY reset cause".                      *)
(*                                                                         *)
(* The sketch runs in one thread, so calls do not interleave, but the CPU  *)
(* may be reset between any two of the steps below.  A failed NVS write    *)
(* before a frame leaves every variable as it was (nextSeq returns 0 and   *)
(* the frame is not sent), which is a stuttering step.                     *)
(***************************************************************************)
EXTENDS Integers

CONSTANTS
    SeqCkpt,        \* SEQ_CKPT, 64 in the code
    SeqMax,         \* SPS_SEQ_MAX, 0xFFFFF0 in the code
    Keys,           \* the keys `keygen` may draw
    QuietRotation,  \* the operator types `seqreset` before any frame leaves
                    \* under the new key
    ReadFaults      \* may seqRestore fail to read NVS?

ASSUME NodeSeqAssumption ==
    /\ SeqCkpt \in Nat \ {0}
    /\ SeqMax \in Nat \ {0}
    /\ QuietRotation \in BOOLEAN
    /\ ReadFaults \in BOOLEAN

VARIABLES
    pc,         \* "off": in reset or deep sleep; "first": seqRestore is about to
                \* make its reservation; "run"; "reserved": inside nextSeq
    rtcSeq,     \* rtc_seq
    reserved,   \* seq_reserved, the RAM copy of seq_hw
    seqHw,      \* seq_hw in NVS
    ramKey,     \* cfg.psk
    nvsKey,     \* the psk saved in NVS
    drawn,      \* history: the keys this node has had
    resetKey,   \* history: the key in force at the last `seqreset`
    issued      \* history: the <<key, seq>> pairs nextSeq has returned

vars == <<pc, rtcSeq, reserved, seqHw, ramKey, nvsKey, drawn, resetKey, issued>>

keyVars == <<ramKey, nvsKey, drawn, resetKey>>

TypeOK ==
    /\ pc \in {"off", "first", "run", "reserved"}
    /\ rtcSeq \in Nat
    /\ reserved \in Nat
    /\ seqHw \in Nat
    /\ {ramKey, nvsKey, resetKey} \subseteq drawn
    /\ drawn \subseteq Keys
    /\ issued \subseteq drawn \X Nat

\* A provisioned node that has never sent: NVS holds its key and no seq_hw.
Init ==
    /\ pc = "off" /\ rtcSeq = 0 /\ reserved = 0 /\ seqHw = 0
    /\ nvsKey \in Keys /\ ramKey = nvsKey /\ resetKey = nvsKey
    /\ drawn = {nvsKey}
    /\ issued = {}

-----------------------------------------------------------------------------
(* Boot: seqRestore, then configLoad.                                      *)

\* What Preferences.getULong returns; a failed begin() is read as 0.
HwRead == {seqHw} \union (IF ReadFaults THEN {0} ELSE {})

\* Deviation: rtc_seq is not moved up to the bound.
BootWithoutJump ==
    /\ pc = "off"
    /\ \E hw \in HwRead : reserved' = hw /\ pc' = IF hw = 0 THEN "first" ELSE "run"
    /\ ramKey' = nvsKey
    /\ UNCHANGED <<rtcSeq, seqHw, nvsKey, drawn, resetKey, issued>>

Boot ==
    /\ pc = "off"
    /\ \E hw \in HwRead :
        /\ rtcSeq' = IF rtcSeq < hw THEN hw ELSE rtcSeq
        /\ reserved' = hw
        /\ pc' = IF hw = 0 THEN "first" ELSE "run"
    /\ ramKey' = nvsKey
    /\ UNCHANGED <<seqHw, nvsKey, drawn, resetKey, issued>>

\* Deviation: the RAM copy moves though the write failed.
SeqReserveRamOnly(upto) == reserved' = upto /\ UNCHANGED seqHw

\* seqReserve: the bound goes to NVS, and to RAM only if the write succeeded.
SeqReserve(upto) == seqHw' = upto /\ reserved' = upto

\* "first boot: reserve before any SEQ use"; the result is not looked at.
FirstReserve ==
    /\ pc = "first"
    /\ SeqReserve(SeqCkpt) \/ UNCHANGED <<seqHw, reserved>>
    /\ pc' = "run"
    /\ UNCHANGED <<rtcSeq, keyVars, issued>>

-----------------------------------------------------------------------------
(* nextSeq                                                                 *)

\* Deviation: counts down.
CandidateDown == rtcSeq - 1

Candidate == rtcSeq + 1

\* Deviation: no halt at SPS_SEQ_MAX.
ReserveForEver ==
    /\ pc = "run"
    /\ Candidate >= reserved
    /\ SeqReserve(Candidate + SeqCkpt)
    /\ pc' = "reserved"
    /\ UNCHANGED <<rtcSeq, keyVars, issued>>

\* A candidate at or above the bound moves the bound first.
Reserve ==
    /\ pc = "run"
    /\ rtcSeq < SeqMax
    /\ Candidate >= reserved
    /\ SeqReserve(Candidate + SeqCkpt)
    /\ pc' = "reserved"
    /\ UNCHANGED <<rtcSeq, keyVars, issued>>

\* Deviation: the bound itself is used.
IssueAtBound ==
    /\ \/ pc = "run" /\ rtcSeq < SeqMax /\ Candidate <= reserved
       \/ pc = "reserved"
    /\ rtcSeq' = Candidate
    /\ issued' = issued \union {<<ramKey, Candidate>>}
    /\ pc' = "run"
    /\ UNCHANGED <<reserved, seqHw, keyVars>>

\* The candidate becomes the number of the next frame.
Issue ==
    /\ \/ pc = "run" /\ rtcSeq < SeqMax /\ Candidate < reserved
       \/ pc = "reserved"
    /\ rtcSeq' = Candidate
    /\ issued' = issued \union {<<ramKey, Candidate>>}
    /\ pc' = "run"
    /\ UNCHANGED <<reserved, seqHw, keyVars>>

-----------------------------------------------------------------------------
(* Loss of RAM                                                             *)

\* Any reset: RAM is lost, and RTC memory is either kept or initialised again.
Reset ==
    /\ pc # "off"
    /\ pc' = "off"
    /\ rtcSeq' \in {rtcSeq, 0}
    /\ reserved' = 0
    /\ UNCHANGED <<seqHw, keyVars, issued>>

\* goToSleep: RTC memory is kept.
GoToSleep ==
    /\ pc = "run"
    /\ pc' = "off"
    /\ reserved' = 0
    /\ UNCHANGED <<rtcSeq, seqHw, keyVars, issued>>

-----------------------------------------------------------------------------
(* The key rotation commands of handleCli                                  *)

\* `keygen`: a random key, so never one this node has had.
Keygen ==
    /\ pc = "run"
    /\ \E k \in Keys \ drawn : ramKey' = k /\ drawn' = drawn \union {k}
    /\ UNCHANGED <<pc, rtcSeq, reserved, seqHw, nvsKey, resetKey, issued>>

\* `save`; a failure is printed and changes nothing.
Save ==
    /\ pc = "run"
    /\ nvsKey' = ramKey
    /\ UNCHANGED <<pc, rtcSeq, reserved, seqHw, ramKey, drawn, resetKey, issued>>

\* When the operator types `seqreset`: "ONLY after rotating the PSK", with the
\* new key saved.  The detector and the heartbeats run between two commands, so
\* frames may have left under the new key, unless the operator keeps it quiet.
AfterRotation ==
    /\ ramKey = nvsKey
    /\ ramKey # resetKey
    /\ QuietRotation => \A s \in 0 .. SeqMax : <<ramKey, s>> \notin issued

\* `seqreset`: the result of the reservation is not looked at.
SeqResetCmd ==
    /\ pc = "run"
    /\ AfterRotation
    /\ rtcSeq' = 0
    /\ SeqReserve(SeqCkpt) \/ UNCHANGED <<seqHw, reserved>>
    /\ resetKey' = ramKey
    /\ UNCHANGED <<pc, ramKey, nvsKey, drawn, issued>>

-----------------------------------------------------------------------------
Next ==
    \/ Boot
    \/ FirstReserve
    \/ Reserve
    \/ Issue
    \/ Reset
    \/ GoToSleep
    \/ Keygen
    \/ Save
    \/ SeqResetCmd

Spec == Init /\ [][Next]_vars

-----------------------------------------------------------------------------
(***************************************************************************)
(* Properties                                                              *)
(***************************************************************************)

\* "SEQ ... must NEVER repeat under the same key, across ANY reset cause":
\* each number nextSeq returns is above every number it returned before under
\* the key in force, whatever resets, sleeps, failed writes and rotations lie
\* between.  (The gateway's replay filter needs the order, the nonce only the
\* difference.)
IncreasingUnderKey ==
    [][Issue => \A s \in 0 .. SeqMax : <<ramKey, s>> \in issued => s < rtcSeq']_vars

\* "NVS holds seq_hw, an upper bound on every SEQ ever used": it is above every
\* number used under the key a reboot comes back with, at every instant.
BoundCoversUsed == \A s \in 0 .. SeqMax : <<nvsKey, s>> \in issued => s < seqHw

\* "At SPS_SEQ_MAX the node halts TX": restoring the bound after a reset may
\* push rtc_seq past SPS_SEQ_MAX, and still no number outside 1 .. SeqMax is
\* used, so none wraps in its 24 bits.
NeverWraps == \A p \in issued : p[2] \in 1 .. SeqMax

\* While the node runs its RAM copy of the bound is the one in NVS, and rtc_seq
\* has reached every number used under the key in force, saved or not: what
\* seqRestore and seqReserve together have to re-establish after every reset.
RamAgreesWithNvs ==
    pc # "off" =>
        /\ reserved = seqHw
        /\ \A s \in 0 .. SeqMax :
              <<ramKey, s>> \in issued => s <= rtcSeq /\ s < seqHw

\* The inductive invariant: the above, and what holds inside seqRestore and
\* inside nextSeq.
IInv ==
    /\ TypeOK
    /\ BoundCoversUsed
    /\ NeverWraps
    /\ RamAgreesWithNvs
    /\ pc = "first" => seqHw = 0
    /\ pc = "reserved" => rtcSeq < SeqMax /\ Candidate < seqHw

=============================================================================
