SPECIFICATION MarketSpec
CONSTANTS
    Scenario <- Scenarios
    MaxTicks = 4
    MaxTime = 2
    MaxTrades = 3
    MaxFaults = 1
INVARIANT CandlesTrue
PROPERTY CopySettles
CHECK_DEADLOCK FALSE
