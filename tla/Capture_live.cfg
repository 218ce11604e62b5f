SPECIFICATION FairSpec
CONSTANTS
    Spot = spot
    Perp = perp
    Clients = {spot, perp}
    MaxFrames = 1
    MaxFailures = 1
    RingCapacity = 1
    MaxTotalFrames = 1
    MaxWriteFailures = 0
PROPERTY
    StopEndsProcess
CHECK_DEADLOCK FALSE
