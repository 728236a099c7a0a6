SPECIFICATION Spec
CONSTANTS
    Operators = {op}
    Watchdogs = {}
    Modes = {"paper", "live"}
    MaxStarts = 2
    MaxKills = 1
    MaxSplits = 0
INVARIANT FlatIsConfirmed
\* After the day's last command and exit nothing has to happen.
CHECK_DEADLOCK FALSE
