SPECIFICATION PromptSpec
CONSTANTS
    User = {u1}
    Proc = {p1, p2}
    Engine = engine
    Funder = funder
    Position = {x1, x2}
    Size = {1}
    Leverage = {10}
    Price = {362000, 400000}
    Index = {362000}
    Trigger = {0}
    InitBal = 81000
    MaxSettlements = 1
    MaxUncommitted = 1
    MaxRequests = 2
    Faults = {"db", "crash"}
    None = None
SYMMETRY MCSymmetry
INVARIANT SettledOnce
INVARIANT MarginLocked
INVARIANT LossCapped
INVARIANT SettlesAsStored
INVARIANT FundingIsUniform
CHECK_DEADLOCK FALSE
