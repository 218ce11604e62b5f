SPECIFICATION Spec
CONSTANTS
    N = 2
    Prices <- MCPrices
    Strategies <- MCStrategies
    SkewCoef <- MCSkewCoef
    DeltaStar <- MCDeltaStar
    Masks <- MCMasks
    DeltaBase = 1
    QMax = 1
    LKill = 1
    NaN = NaN
INVARIANT
    KillHaltsAllQuoting
CHECK_DEADLOCK FALSE
