------------------------------ MODULE MCReplay ------------------------------
(***************************************************************************)
(* A few frames of both venues: tickers near, above and below each other,  *)
(* one with an empty side, one without prices, depth diffs that set and    *)
(* erase levels, an empty frame, and one whose stream has no name.         *)
(***************************************************************************)
EXTENDS Replay

CONSTANTS spot, perp

MCTicker(v, b, a, quoted) ==
    [venue |-> v, kind |-> "ticker", bid |-> b, ask |-> a, quoted |-> quoted]
MCDepth(v, bidDiffs, askDiffs) ==
    [venue |-> v, kind |-> "depth", bidDiffs |-> bidDiffs, askDiffs |-> askDiffs]
MCSet(p) == [px |-> p, qty |-> 1]
MCErase(p) == [px |-> p, qty |-> 0]

MCSpotNear == MCTicker(spot, 9, 11, TRUE)
MCPerpFar == MCTicker(perp, 14, 16, TRUE)
MCPerpLow == MCTicker(perp, 1, 3, TRUE)
MCPerpZero == MCTicker(perp, 0, 0, TRUE)
MCPerpEmpty == MCTicker(perp, 9, 11, FALSE)
MCSpotMove == MCDepth(spot, <<MCErase(9), MCSet(8)>>, <<>>)
MCPerpMove == MCDepth(perp, <<MCSet(14), MCErase(14), MCSet(9)>>, <<MCSet(11)>>)
MCOther == [kind |-> "other"]
MCUnnamed == [kind |-> "unnamed"]

MCContents ==
    {MCSpotNear, MCPerpFar, MCPerpLow, MCPerpZero, MCPerpEmpty, MCSpotMove, MCPerpMove,
     MCOther, MCUnnamed}
MCPayloadLen == [c \in MCContents |-> IF c.kind = "other" THEN 0 ELSE 2]
MCVenues == {spot, perp}
MCPrices == {0, 1, 3, 8, 9, 11, 14, 16}
=============================================================================
