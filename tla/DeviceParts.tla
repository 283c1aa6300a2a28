---------------------------- MODULE DeviceParts ----------------------------
(***************************************************************************)
(* Parts of the gateway, the bridge and the node that share no state with  *)
(* each other: the threads of the serial link, the live feed, the status   *)
(* publications, the bridge and its serial messages, the WiFi radar, the   *)
(* life of a node, and the dedupe ring of a relay.  A behaviour is one of  *)
(* a single part; the others stay as they begin, so that each is explored  *)
(* by itself in one run.                                                   *)
(***************************************************************************)
EXTENDS Naturals, Sequences

CONSTANTS
    Senders, MaxFd, MaxUnplugs,
    Cap, MaxTicks, MaxPushes,
    MaxChanges, MaxDrops,
    MaxFrames, MaxSends, MaxResets, MaxFailures,
    Ring, Window, Needed, Timeout, Holdoff, Wrap, Start, MaxTime, MaxRecals,
    auto_arm_s, DeployDelay, Interval, MaxEvents,
    Slots, SeqCount, Nodes, MaxForwards

VARIABLES
    part,   \* the part that runs
    plugged, unplugs, table, fd, wlock, at, arg, ret,
    clock, buf, pushed, polls, shown, lastEvt, unseen,
    tamper, silent, cached, pc, key, sock, retained, changes, drops,
    place, radioUp, rxDone, cfg, buffer, toBridge, toPi, recent, strayed, used,
    time, ring, draining, winLen, calibSamples, calibNeeded, calibStart, inEvent,
    holdoffUntil, released, trigger, recals,
    awake, adxl, motion_wake_enable, sensorOk, radioOk, csiHoldsAwake, millis,
    autoArmCancelled, armAtMs, touched, armed, timer, rtc_tamper, motion, events,
    slot, head, forwarded, refused

Serial == INSTANCE SerialLink WITH pc <- at
Feed == INSTANCE EventFeed
Status == INSTANCE StatusMqtt
Bridge == INSTANCE BridgeSync
Csi == INSTANCE CsiSensor
Life == INSTANCE NodeLifecycle
Dedupe == INSTANCE RelayDedupe

ASSUME DevicePartsAssumption ==
    /\ Serial!SerialLinkAssumption
    /\ Feed!EventFeedAssumption
    /\ Status!StatusMqttAssumption
    /\ Bridge!BridgeSyncAssumption
    /\ Csi!CsiSensorAssumption
    /\ Life!NodeLifecycleAssumption
    /\ Dedupe!RelayDedupeAssumption

serialVars == <<plugged, unplugs, table, fd, wlock, at, arg, ret>>

feedVars == <<clock, buf, pushed, polls, shown, lastEvt, unseen>>

statusVars == <<tamper, silent, cached, pc, key, sock, retained, changes, drops>>

bridgeVars == <<place, radioUp, rxDone, cfg, buffer, toBridge, toPi, recent, strayed, used>>

csiVars == <<time, ring, draining, winLen, calibSamples, calibNeeded, calibStart, inEvent,
             holdoffUntil, released, trigger, recals>>

lifeVars == <<awake, adxl, motion_wake_enable, sensorOk, radioOk, csiHoldsAwake, millis,
              autoArmCancelled, armAtMs, touched, armed, timer, rtc_tamper, motion, events>>

dedupeVars == <<slot, head, forwarded, refused>>

vars == <<part, serialVars, feedVars, statusVars, bridgeVars, csiVars, lifeVars, dedupeVars>>

\* A node that does not run has one of its configurations.
Init ==
    /\ part \in {"serial", "feed", "status", "bridge", "csi", "life", "dedupe"}
    /\ Serial!Init
    /\ part # "serial" => plugged
    /\ Feed!FeedInit
    /\ Status!StatusInit
    /\ Bridge!BridgeInit
    /\ Csi!CsiInit
    /\ Life!LifeInit
    /\ part # "life" => adxl /\ motion_wake_enable /\ sensorOk /\ radioOk /\ ~csiHoldsAwake
    /\ Dedupe!DedupeInit

-----------------------------------------------------------------------------

\* A step of one part.
SerialLinkDoes(A) ==
    /\ part = "serial" /\ A
    /\ UNCHANGED <<part, feedVars, statusVars, bridgeVars, csiVars, lifeVars, dedupeVars>>

EventFeedDoes(A) ==
    /\ part = "feed" /\ A
    /\ UNCHANGED <<part, serialVars, statusVars, bridgeVars, csiVars, lifeVars, dedupeVars>>

StatusMqttDoes(A) ==
    /\ part = "status" /\ A
    /\ UNCHANGED <<part, serialVars, feedVars, bridgeVars, csiVars, lifeVars, dedupeVars>>

BridgeSyncDoes(A) ==
    /\ part = "bridge" /\ A
    /\ UNCHANGED <<part, serialVars, feedVars, statusVars, csiVars, lifeVars, dedupeVars>>

CsiSensorDoes(A) ==
    /\ part = "csi" /\ A
    /\ UNCHANGED <<part, serialVars, feedVars, statusVars, bridgeVars, lifeVars, dedupeVars>>

NodeLifecycleDoes(A) ==
    /\ part = "life" /\ A
    /\ UNCHANGED <<part, serialVars, feedVars, statusVars, bridgeVars, csiVars, dedupeVars>>

RelayDedupeDoes(A) ==
    /\ part = "dedupe" /\ A
    /\ UNCHANGED <<part, serialVars, feedVars, statusVars, bridgeVars, csiVars, lifeVars>>

Next ==
    \/ SerialLinkDoes(Serial!Next)
    \/ EventFeedDoes(Feed!FeedNext)
    \/ StatusMqttDoes(Status!StatusNext)
    \/ BridgeSyncDoes(Bridge!BridgeNext)
    \/ CsiSensorDoes(Csi!CsiNext)
    \/ NodeLifecycleDoes(Life!LifeNext)
    \/ RelayDedupeDoes(Dedupe!DedupeNext)

\* A thread that has started a call goes on with it, and the reader's loop runs;
\* the main thread's hour comes and the daemon's threads run; the loops of the
\* bridge and of the node run, and time passes for them.
Fairness ==
    /\ \A t \in Serial!Threads : WF_vars(SerialLinkDoes(Serial!CallSteps(t)))
    /\ WF_vars(SerialLinkDoes(Serial!ReaderSteps))
    /\ WF_vars(StatusMqttDoes(Status!Hour))
    /\ WF_vars(StatusMqttDoes(Status!PublishHeartbeat))
    /\ \A t \in {"serial", "main"} : WF_vars(StatusMqttDoes(Status!Round(t)))
    /\ WF_vars(BridgeSyncDoes(Bridge!BridgeLoop))
    /\ WF_vars(BridgeSyncDoes(Bridge!_dispatch \/ Bridge!SecondPasses))
    /\ WF_vars(CsiSensorDoes(Csi!Tick))
    /\ WF_vars(CsiSensorDoes(Csi!CsiPoll))
    /\ WF_vars(NodeLifecycleDoes(Life!TimePasses \/ Life!TimerWake))

Spec == Init /\ [][Next]_vars /\ Fairness

-----------------------------------------------------------------------------


\* EventFeed: the page goes past no event it has not shown, but for those pushed
\* before its first answer that was empty.
NothingSkipped == Feed!FeedTypeOK /\ Feed!NothingSkipped

\* StatusMqtt: the color of a node reaches the cache, also without heartbeats.
CacheCatchesUp ==
    /\ []Status!StatusTypeOK
    /\ part = "status" => Status!CacheCatchesUp

\* BridgeSync: the daemon is handed only what came over the air, never its own
\* frame back; and a bridge that loses a CFG to a boot comes to use the daemon's
\* configuration, unless the daemon ignored the RDY of that boot for coming within a
\* second of the lost CFG, or the radio could not be begun, and no CFG has got
\* through since.  (In those cases the code leaves it with the default.)
BridgePromise ==
    /\ [](Bridge!BridgeTypeOK /\ Bridge!NoEcho)
    /\ part = "bridge" => Bridge!ConfigSyncs

\* CsiSensor: ring and calibration window are never overrun; an event is at least a
\* hold-off after the release of the one before it, unless that hold-off reaches past
\* a wrap of the clock that has not come yet; and a calibration that has its window
\* ends.
RadarPromise ==
    /\ [](Csi!CsiTypeOK /\ Csi!HoldoffIsKept)
    /\ Csi!ArmsInTheEnd

\* NodeLifecycle: who touches a node keeps it awake; the flag of a motion is kept
\* for the heartbeat that tells of it; and in the field that heartbeat is transmitted,
\* or its transmission was tried and failed.
NodePromise ==
    /\ [](Life!LifeTypeOK /\ Life!FlagIsKept)
    /\ Life!TouchHoldsBench
    /\ Life!MotionIsReported

\* RelayDedupe: the ring refuses exactly what went out recently.
RingIsRecent == Dedupe!DedupeTypeOK /\ Dedupe!RingIsRecent

=============================================================================
