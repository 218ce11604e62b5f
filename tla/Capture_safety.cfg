SPECIFICATION Spec
CONSTANTS
    Spot = spot
    Perp = perp
    Clients = {spot, perp}
    MaxFrames = 3
    MaxFailures = 0
    RingCapacity = 2
    MaxTotalFrames = 3
    MaxWriteFailures = 1
INVARIANTS
    TypeOK
    NothingLostBeforeStop
    ExitIsQuiescent
    VenueOrderKept
    EveryFrameAccounted
CHECK_DEADLOCK FALSE
