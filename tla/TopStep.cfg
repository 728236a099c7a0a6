SPECIFICATION AttemptsSpec
CONSTANTS
    Start = 200
    Target = 16
    MaxLoss = 16
    Dll = 8
    WinDay = 4
    WinDays = 2
    ConsDays = 2
    PayoutMin = 4
    StandardMax = 8
    ConsistencyMax = 12
    MaxBack2Funded = 1
    Gains = {4, 8}
    Losses = {8, 12}
    MaxProfit = 24
    MaxPayouts = 2
    MaxResets = 1
    EvalDays = 3
    FundedDays = 5
    DayTrades = 2
    PayoutCaps = {0, 1}
    Reactivations = 1
INVARIANT MllIsTrailing
PROPERTIES
    Trails
    PayoutKeepsOpen
    PayoutIsEarned
    KeepsContract
\* An account with nothing left to do only closes its days.
CHECK_DEADLOCK FALSE
