SPECIFICATION MCSpec
CONSTANTS
    ApexStart = 100
    ApexTarget = 5
    Drawdown = 4
    SafetyBuffer = 1
    SoftDll = 3
    QualDay = 1
    QualDays = 2
    ApexPayoutMin = 2
    PayoutBuffer = 1
    Caps <- MCCaps
    ApexTrades <- MCApexTrades
    ApexMaxProfit = 10
    ApexMaxPayouts = 3
    LucidStart = 100
    LucidTarget = 8
    LucidMaxLoss = 8
    TrailBalance = 110
    LockedMll = 102
    ProfitDay = 2
    ProfitDays = 2
    LucidPayoutMin = 4
    LucidPayoutMax = 6
    MaxSimPayouts = 2
    LucidTrades <- MCLucidTrades
    LucidMaxProfit = 18
    LucidMaxResets = 1
    EvalDays = 3
    FundedDays = 6
    DayTrades = 2
    PayoutCaps = {0, 1}
    AltSessions <- MCAltSessions
    AltMaxLoss = 4
    AltLock = 5
    AltLockedFloor = 1
    AltGoals <- MCAltGoals
    AltCaps <- MCAltCaps
    AltMinGross = 2
    AltTarget = 6
    AltPayoutAt = 7
    AltMaxProfit = 14
    AltMaxPayouts = 4
    Percents = {20, 70}
    Draws = 5
    Simulations = 2
    Strategies <- MCStrategies
    AccountLimit = 3
    AccountTarget = 3
    AccountPayouts = 2
    Replays <- MCReplays
    BlockSizes = {2, 5}
    NInit = 2
    NStep = 2
    NMax = 5
    PassThreshold = 20
    EvThreshold = 0
INVARIANTS
    ThresholdTrails
    SimulationsReproduce
PROPERTIES
    PayoutTakesProfit
    Trails
    LucidPassAndPayouts
    OthersTrail
    PayoutsAreEarned
    FirmsKeepContract
    TwinsAgree
\* An account with nothing left to do only closes its days.
CHECK_DEADLOCK FALSE
