----------------------------- MODULE CsiSensor -----------------------------
(***************************************************************************)
(* The WiFi radar of a node (CsiSensor.cpp, CsiSensor.h): the WiFi task    *)
(* puts the turbulence of each frame into a ring, the loop drains it       *)
(* through a calibration and a detector with hysteresis and hold-off.      *)
(*                                                                         *)
(* Of the metric only its place among the thresholds is kept, and of the   *)
(* ring how full it is.  millis() wraps after Wrap units of time.          *)
(***************************************************************************)
EXTENDS Naturals

CONSTANTS
    Ring,       \* RING: the ring holds one less
    Window,     \* _window
    Needed,     \* _calibNeededCfg
    Timeout,    \* _calibTimeoutMs
    Holdoff,    \* _holdoffMs
    Wrap,       \* 2^32: where millis() starts again
    Start,      \* when begin() is called
    MaxTime,    \* bound: how long the node runs
    MaxRecals   \* bound: how often it is told to calibrate again

CsiSensorAssumption ==
    /\ {Ring, Window, Needed, Wrap} \subseteq Nat \ {0}
    /\ {Timeout, Holdoff, MaxTime, MaxRecals} \subseteq Nat
    /\ Holdoff < Wrap    \* csi_holdoff_s is a uint16_t
    /\ Start \in 0 .. MaxTime

VARIABLES
    time,         \* the true time
    ring,         \* frames between _tail and _head
    draining,     \* the head poll has read, as a number of frames; none: 0
    winLen,       \* _winLen
    calibSamples, calibNeeded, calibStart,
    inEvent,      \* _inEvent
    holdoffUntil, \* _holdoffUntil
    released,     \* history: the true time of the last release, or Never
    trigger,      \* history: [at, since]: the last event and the release before
    recals        \* bounded counter

window == <<winLen, calibSamples, calibNeeded, calibStart>>

event == <<inEvent, holdoffUntil, released, trigger>>

csiVars == <<time, ring, draining, window, event, recals>>

Never == MaxTime + 1

millis == time % Wrap

\* Differences of millis() are right across a wrap.
Elapsed(since) == (millis + Wrap - since) % Wrap

Levels == {"quiet", "between", "motion"}

CsiTypeOK ==
    /\ time \in Start .. MaxTime
    /\ ring \in 0 .. Ring - 1 /\ draining \in 0 .. ring
    /\ winLen \in 0 .. Window
    /\ calibSamples \in 0 .. Needed /\ calibNeeded \in 0 .. Needed
    /\ calibSamples <= calibNeeded
    /\ calibStart \in 0 .. Wrap - 1
    /\ inEvent \in BOOLEAN /\ holdoffUntil \in 0 .. Wrap - 1
    /\ released \in 0 .. Never /\ recals \in 0 .. MaxRecals

calibrating == calibSamples < calibNeeded

\* begin()
CsiInit ==
    /\ time = Start /\ ring = 0 /\ draining = 0
    /\ winLen = 0 /\ calibSamples = 0 /\ calibNeeded = Needed /\ calibStart = millis
    /\ inEvent = FALSE /\ holdoffUntil = 0
    /\ released = Never /\ trigger = [at |-> Start, since |-> Never]
    /\ recals = 0

-----------------------------------------------------------------------------

Tick ==
    /\ time < MaxTime
    /\ time' = time + 1
    /\ UNCHANGED <<ring, draining, window, event, recals>>

\* The WiFi task: a full ring drops the frame.
ingestTurbulence ==
    /\ ring' = IF ring = Ring - 1 THEN ring ELSE ring + 1
    /\ UNCHANGED <<time, draining, window, event, recals>>

\* Deviation: the calibration waits for its frames however few come.
Enough_all == calibNeeded

\* A calibration that takes too long is done with what it has, if that is a window.
Enough ==
    IF calibrating /\ Elapsed(calibStart) > Timeout /\ calibSamples >= Window
    THEN calibSamples ELSE calibNeeded

\* The beginning of poll.
PollBegin ==
    /\ draining = 0
    /\ calibNeeded' = Enough
    /\ draining' = ring
    /\ UNCHANGED <<time, ring, winLen, calibSamples, calibStart, event, recals>>

Release(metric) == inEvent /\ metric = "quiet"

HoldoffAfter == (millis + Holdoff) % Wrap

Triggered(metric) == ~inEvent /\ millis >= holdoffUntil /\ metric = "motion"

Detect(metric) ==
    /\ inEvent' = IF Triggered(metric) THEN TRUE ELSE inEvent /\ ~Release(metric)
    /\ trigger' = IF Triggered(metric) THEN [at |-> time, since |-> released] ELSE trigger
    /\ holdoffUntil' = IF Release(metric) THEN HoldoffAfter ELSE holdoffUntil
    /\ released' = IF Release(metric) THEN time ELSE released

\* One frame of poll's loop: fill the window, calibrate, or detect.
Drain(metric) ==
    /\ draining > 0
    /\ draining' = draining - 1 /\ ring' = ring - 1
    /\ \/ winLen < Window /\ winLen' = winLen + 1 /\ UNCHANGED <<calibSamples, event>>
       \/ /\ winLen = Window /\ calibrating
          /\ calibSamples' = calibSamples + 1
          /\ UNCHANGED <<winLen, event>>
       \/ /\ winLen = Window /\ ~calibrating
          /\ Detect(metric)
          /\ UNCHANGED <<winLen, calibSamples>>
    /\ UNCHANGED <<time, calibNeeded, calibStart, recals>>

\* A CSI_RECAL command; the loop handles commands between two polls.
recalibrate ==
    /\ draining = 0 /\ recals < MaxRecals
    /\ recals' = recals + 1
    /\ calibSamples' = 0 /\ calibNeeded' = Needed /\ calibStart' = millis
    /\ winLen' = 0 /\ inEvent' = FALSE /\ holdoffUntil' = 0
    /\ released' = Never
    /\ UNCHANGED <<time, ring, draining, trigger>>

CsiPoll == PollBegin \/ \E metric \in Levels : Drain(metric)

CsiNext == Tick \/ ingestTurbulence \/ CsiPoll \/ recalibrate

-----------------------------------------------------------------------------

\* One event per passing person: nothing triggers within the hold-off after the
\* last release, in true time, but in one place: where the deadline lies behind a
\* wrap of millis(), the rest of the time before that wrap is open at once.  After
\* the wrap the hold-off is kept again.  (The comparison of absolute times also
\* errs the other way: a node that wraps within a hold-off that began before it
\* stays deaf until millis() comes back to the deadline.)
HoldoffIsKept ==
    LET apart == trigger.at - trigger.since
        left == Wrap - (trigger.since % Wrap)
    IN  trigger.since # Never /\ apart < Holdoff => Holdoff >= left /\ apart < left

\* A calibration that has collected a window of samples ends, whether or not
\* more frames come, so that the radar arms: at the latest when the time is up.
ArmsInTheEnd ==
    (calibSamples >= Window /\ time < MaxTime - Timeout) ~> (~calibrating \/ calibSamples = 0)

=============================================================================
