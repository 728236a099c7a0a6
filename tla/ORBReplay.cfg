SPECIFICATION Spec
CONSTANTS
    OrMinutes = 2
    TimeStop = 1
    TargetR = 2
    Slip = 1
    DojiNum = 1
    DojiDen = 3
    Shapes <- MCShapes
    Minutes = 5
    MaxLaunches = 2
    MaxMissing = 1
INVARIANT ExitsFollowEntry
CHECK_DEADLOCK FALSE
