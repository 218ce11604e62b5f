SPECIFICATION SilentSpec
CONSTANTS
    Spot = spot
    Perp = perp
    Clients = {spot, perp}
    MaxFrames = 1
    MaxFailures = 0
    RingCapacity = 1
    MaxTotalFrames = 2
    MaxWriteFailures = 0
PROPERTY
    TimedRunExits
CHECK_DEADLOCK FALSE
