SPECIFICATION Spec
CONSTANTS
    N = 4
    Prices <- MCPrices
    Strategies <- MCStrategies
    SkewCoef <- MCSkewCoef
    DeltaStar <- MCDeltaStar
    Masks <- MCMasks
    DeltaBase = 1
    QMax = 2
    LKill = 2
    NaN = NaN
INVARIANTS
    TypeOK
    InventoryBounded
    KillSwitchHalts
    QuotesExplained
    FillsTellPaths
    DrawdownIsWorstLoss
    ProfitIsCaptureLessDrift
CHECK_DEADLOCK FALSE
