SPECIFICATION ClientSpec
CONSTANTS
    Clients = {spot}
    MaxFrames = 3
    MaxFailures = 2
INVARIANT
    ServerCloseResetsBackoff
