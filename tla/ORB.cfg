SPECIFICATION MCSpec
CONSTANTS
    OrMinutes = 2
    TimeStop = 1
    TargetR = 2
    Slip = 1
    DojiNum = 1
    DojiDen = 3
    Shapes <- MCShapes
    Minutes = 5
    MaxLaunches = 2
    MaxMissing = 2
    RiskUsd = 10
    PointValue = 1
    MaxContracts = 2
    LossCap = 6
    ReplayShapes <- MCShapes
    ReplayMinutes = 5
    ReplaySessions = 2
    MaxRuns = 2
    Overlaid <- MCOverlaid
    StrangleOffset = 3
    StopOffset = 2
    HoldFrom = 4
    DayShapes <- MCShapes
    DayMinutes = 6
    RawDays <- MCRawDays
    MaxDays = 6
    ExcludedDays = {3}
    MinBarCount = 300
    FilterParams <- MCFilterParams
    GateSpecs <- MCGateSpecs
    NaN = NaN
    Off = Off
    MonthDays <- MCMonthDays
    Months = 8
    StartDays = {1, 3}
    Lengths = {1, 2, 3}
    WarmupMonths = 1
    Grid <- MCGrid
    TopK = 2
    IsScores <- MCIsScores
    Outcomes <- MCOutcomes
    Firms = {1, 2}
    MinTrades = 3
    EvalFee <- MCEvalFee
    Runs = {1, 2, 3}
    Params = {1, 2, 3}
    HashOf <- MCHashOf
    HoldFirms = {1, 2}
INVARIANTS MatchesBacktest PaperBooksAgree OverlaysExitOnTime
INVARIANTS CappedParity ReplayBooksAgree PastDecides AtrIsOfRealDays
INVARIANTS SessionsScoredOnce SelectionSound HoldoutOnce
PROPERTY EntriesEnd
CHECK_DEADLOCK FALSE
