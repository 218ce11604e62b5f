SPECIFICATION Spec
CONSTANTS
    spot = spot
    perp = perp
    Spot = spot
    Perp = perp
    None = None
    Venues <- MCVenues
    Prices <- MCPrices
    Contents <- MCContents
    PayloadLen <- MCPayloadLen
    TapeHeaderLen = 1
    FrameHeaderLen = 2
    MaxFrames = 4
    MaxLossyFrames = 3
    MaxFailures = 1
    Scale = 100
    AlphaNum = 2
    AlphaDen = 3
    Threshold = 20
INVARIANTS
    TypeOK
    FramesReadBack
    FlushedFramesSurvive
    BookIsLastWord
    EventsAreCrossings
CHECK_DEADLOCK FALSE
