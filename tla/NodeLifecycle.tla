--------------------------- MODULE NodeLifecycle ---------------------------
(***************************************************************************)
(* A node between its bench and the field (node/src/main.cpp: setup, loop, *)
(* goToSleep, sendHeartbeat): auto-arm and what cancels it, the wakes by   *)
(* motion and by the heartbeat timer, and the tamper flag.  Detection, the *)
(* radio link and commands are elsewhere.  The front end and motion_wake   *)
(* are those of one configuration.                                         *)
(***************************************************************************)
EXTENDS Naturals

CONSTANTS
    auto_arm_s,  \* the configuration, in units of time
    DeployDelay, \* the 30 s between a deploy TAP and arming
    Interval,    \* between two heartbeats of a sleeping node
    MaxTime,     \* bound: how long a node is awake
    MaxEvents    \* bound: motions, resets and touches

NodeLifecycleAssumption ==
    /\ {auto_arm_s, MaxTime, MaxEvents} \subseteq Nat
    /\ {DeployDelay, Interval} \subseteq Nat \ {0}

VARIABLES
    awake,      \* in loop(), or in deep sleep
    adxl, motion_wake_enable,   \* the configuration: FE_ADXL355 or the geophone
    sensorOk, radioOk,          \* found at this boot
    csiHoldsAwake,
    millis,     \* since this boot
    armed,      \* asleep: is the accelerometer on and able to wake the node?
    autoArmCancelled, armAtMs,
    touched,    \* history: has somebody used the node since its boot or TAP?
    timer,      \* until the heartbeat wakes the node
    rtc_tamper,
    motion,     \* history: the last motion that woke the node is "untold", "told" by a
                \* heartbeat transmitted with the flag, or was "lost" with its flag
    events      \* bounded counter

arming == <<autoArmCancelled, armAtMs, touched>>

profile == <<adxl, motion_wake_enable>>

health == <<sensorOk, radioOk, csiHoldsAwake>>

tamper == <<rtc_tamper, motion>>

lifeVars == <<awake, profile, health, millis, arming, armed, timer, tamper, events>>

LifeTypeOK ==
    /\ {awake, adxl, motion_wake_enable, sensorOk, radioOk, csiHoldsAwake,
        autoArmCancelled, touched, armed, rtc_tamper} \subseteq BOOLEAN
    /\ motion \in {"told", "untold", "lost"}
    /\ millis \in 0 .. MaxTime
    /\ armAtMs \in 0 .. MaxTime + DeployDelay + auto_arm_s
    /\ timer \in 0 .. Interval
    /\ events \in 0 .. MaxEvents

\* setup() after anything but a wake.
ColdBoot ==
    /\ awake' = TRUE
    /\ sensorOk' \in BOOLEAN /\ radioOk' \in BOOLEAN /\ csiHoldsAwake' \in BOOLEAN
    /\ millis' = 0
    /\ autoArmCancelled' = FALSE /\ armAtMs' = auto_arm_s
    /\ touched' = FALSE
    /\ armed' = FALSE /\ timer' = 0

LifeInit ==
    /\ awake = TRUE
    /\ adxl \in BOOLEAN /\ motion_wake_enable \in BOOLEAN
    /\ sensorOk \in BOOLEAN /\ radioOk \in BOOLEAN /\ csiHoldsAwake \in BOOLEAN
    /\ millis = 0
    /\ autoArmCancelled = FALSE /\ armAtMs = auto_arm_s
    /\ touched = FALSE /\ armed = FALSE /\ timer = 0
    /\ rtc_tamper = FALSE /\ motion = "told" /\ events = 0

Happens == events < MaxEvents /\ events' = events + 1

\* Deviation: the flag is cleared before the heartbeat is made.
sendHeartbeat_cleared == rtc_tamper' = FALSE /\ UNCHANGED <<motion, events>>

\* What a heartbeat says is the flag as it was; the flag is cleared whether or not
\* the radio sent it, and stays if there was no sequence number to send it with.
sendHeartbeat ==
    \/ /\ rtc_tamper' = FALSE
       /\ \E outcome \in {"told", "lost"} : motion' = IF rtc_tamper THEN outcome ELSE motion
       /\ UNCHANGED events
    \/ Happens /\ UNCHANGED tamper

\* For a boot that found the sensor as sensorFound: the accelerometer stays on if it
\* can wake the node, the time to the next heartbeat starts again, and all but RTC
\* memory is lost.
goToSleep(sensorFound) ==
    /\ awake' = FALSE
    /\ armed' = (adxl /\ motion_wake_enable /\ sensorFound)
    /\ timer' = Interval
    /\ sensorOk' = FALSE /\ radioOk' = FALSE /\ csiHoldsAwake' = FALSE /\ millis' = 0
    /\ autoArmCancelled' = FALSE /\ armAtMs' = 0 /\ touched' = FALSE
    /\ UNCHANGED profile

-----------------------------------------------------------------------------
(* Awake                                                                   *)

Tick ==
    /\ awake /\ millis < MaxTime
    /\ millis' = millis + 1
    /\ UNCHANGED <<awake, profile, health, arming, armed, timer, tamper, events>>

\* It cancels only if the configuration has auto-arm on.
Keystroke ==
    /\ awake /\ Happens
    /\ autoArmCancelled' = (autoArmCancelled \/ auto_arm_s > 0)
    /\ touched' = TRUE
    /\ UNCHANGED <<awake, profile, health, millis, armAtMs, armed, timer, tamper>>

Hold ==
    /\ awake /\ Happens
    /\ autoArmCancelled' = TRUE
    /\ touched' = TRUE
    /\ UNCHANGED <<awake, profile, health, millis, armAtMs, armed, timer, tamper>>

Tap ==
    /\ awake
    /\ sendHeartbeat
    /\ touched' = FALSE
    /\ IF sensorOk /\ radioOk /\ adxl
       THEN autoArmCancelled' = FALSE /\ armAtMs' = millis + DeployDelay
       ELSE UNCHANGED <<autoArmCancelled, armAtMs>>
    /\ UNCHANGED <<awake, profile, health, millis, armed, timer>>

\* The heartbeats of loop(): the `hb` command, the confirmation of a command from
\* the gateway, the end of a calibration of the radar.
Report ==
    /\ awake
    /\ sendHeartbeat
    /\ UNCHANGED <<awake, profile, health, millis, arming, armed, timer>>

AutoArm ==
    /\ awake /\ sensorOk /\ radioOk /\ adxl /\ ~csiHoldsAwake
    /\ ~autoArmCancelled /\ armAtMs > 0 /\ millis >= armAtMs
    /\ goToSleep(sensorOk)
    /\ UNCHANGED <<tamper, events>>

\* The button held for eight seconds, or the `sleep` command.
Sleep ==
    /\ awake /\ Happens
    /\ goToSleep(sensorOk)
    /\ UNCHANGED tamper

-----------------------------------------------------------------------------
(* Asleep, and resets                                                      *)

TimePasses ==
    /\ ~awake /\ timer > 0
    /\ timer' = timer - 1
    /\ UNCHANGED <<awake, profile, health, millis, arming, armed, tamper, events>>

\* A wake begins the hardware again, and may find a sensor that does not answer.
SleepAgain == \E sensorFound \in BOOLEAN : goToSleep(sensorFound)

\* The accelerometer wakes the node: detect, alert, sleep again.
MotionWake ==
    /\ ~awake /\ armed /\ Happens
    /\ rtc_tamper' = TRUE /\ motion' = "untold"
    /\ SleepAgain

TimerWake ==
    /\ ~awake /\ timer = 0
    /\ sendHeartbeat
    /\ SleepAgain

\* RTC memory may outlive a reset, but not the loss of power.
Reset ==
    /\ Happens
    /\ ColdBoot
    /\ UNCHANGED profile
    /\ rtc_tamper' \in {rtc_tamper, FALSE}
    /\ motion' = IF rtc_tamper /\ ~rtc_tamper' THEN "lost" ELSE motion

\* What goes on by itself.
Runs == Tick \/ AutoArm \/ TimePasses \/ TimerWake

LifeNext == Runs \/ Keystroke \/ Hold \/ Tap \/ Report \/ Sleep \/ MotionWake \/ Reset

-----------------------------------------------------------------------------

\* A node that was touched after its boot or its last TAP does not put itself to
\* sleep in front of its user.  (With auto_arm_s = 0 the arming that a TAP
\* announces cannot be cancelled by a keystroke.)
TouchHoldsBench ==
    [][auto_arm_s > 0 /\ touched /\ awake /\ ~awake' => events' # events]_lifeVars

\* A motion that woke the node keeps its flag until a heartbeat has carried it to
\* the radio: no heartbeat without a number, no wake and no reset drops it.  (A
\* transmission that fails and a loss of power do: such a motion is "lost".)
FlagIsKept == motion = "untold" => rtc_tamper

\* In the field a heartbeat comes to be transmitted with the flag of the last motion,
\* although each wake by motion puts the heartbeat off, once the motions end; unless
\* that transmission failed, after which the code has nothing left to repeat.
MotionIsReported == <>[]~awake => <>[](motion # "untold")

=============================================================================
