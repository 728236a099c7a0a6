SPECIFICATION Spec
CONSTANTS
    Size = 2
    MaxLaunches = 1
    MaxFaults = 1
    Minutes = 2
    OrMinutes = 1
    PollsPerBar = 1
    CancelAttempts = 2
    FlattenAttempts = 2
INVARIANT FlattenedFlagHonest
\* The day ends with every process gone: nothing more has to happen.
CHECK_DEADLOCK FALSE
