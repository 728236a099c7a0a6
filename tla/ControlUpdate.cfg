SPECIFICATION Spec
CONSTANTS
    Operators = {op}
    Watchdogs = {}
    Modes = {"paper", "live"}
    MaxStarts = 2
    MaxKills = 2
    MaxSplits = 2
INVARIANTS OneSupervisor StatusMatchesChild
PROPERTY NoStartOverRunner
\* After the day's last command and exit nothing has to happen.
CHECK_DEADLOCK FALSE
