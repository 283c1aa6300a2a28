SPECIFICATION Spec
CONSTANTS
    Senders = {"http"}
    MaxFd = 3
    MaxUnplugs = 2
    Cap = 2
    MaxTicks = 3
    MaxPushes = 3
    MaxEvents = 4
    MaxChanges = 3
    MaxDrops = 1
    MaxFrames = 1
    MaxSends = 1
    MaxResets = 2
    MaxFailures = 1
    Ring = 3
    Window = 2
    Needed = 4
    Timeout = 2
    Holdoff = 2
    Wrap = 8
    Start = 4
    MaxTime = 11
    MaxRecals = 1
    auto_arm_s = 2
    DeployDelay = 1
    Interval = 2
    Slots = 2
    SeqCount = 2
    Nodes = {0, 1}
    MaxForwards = 6
INVARIANTS NothingSkipped RingIsRecent
PROPERTIES  CacheCatchesUp BridgePromise RadarPromise NodePromise
CHECK_DEADLOCK FALSE
