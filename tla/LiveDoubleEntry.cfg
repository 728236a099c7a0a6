SPECIFICATION Spec
CONSTANTS
    Size = 2
    MaxLaunches = 2
    MaxFaults = 0
    Minutes = 2
    OrMinutes = 1
    PollsPerBar = 1
    CancelAttempts = 2
    FlattenAttempts = 2
INVARIANT NeverDoubleEnters
\* The day ends with every process gone: nothing more has to happen.
CHECK_DEADLOCK FALSE
