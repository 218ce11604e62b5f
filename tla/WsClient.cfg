SPECIFICATION LiveNetworkSpec
CONSTANTS
    Clients = {c1}
    MaxFrames = 3
    MaxFailures = 6
INVARIANTS
    AtMostOneFrameAfterStop
    BackoffTracksFailures
PROPERTIES
    RetriesAfterFailure
    StopEndsRun
