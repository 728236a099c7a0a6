SPECIFICATION FairSpec
CONSTANTS
    Operators = {op}
    Watchdogs = {watchdog}
    Modes = {"live"}
    MaxStarts = 2
    MaxKills = 1
    MaxSplits = 0
INVARIANT OneTrader
PROPERTY StopEndsAll
\* After the day's last command and exit nothing has to happen.
CHECK_DEADLOCK FALSE
