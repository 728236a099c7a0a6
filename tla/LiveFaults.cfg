SPECIFICATION MCSpec
CONSTANTS
    Size = 2
    MaxLaunches = 1
    MaxFaults = 3
    Minutes = 2
    OrMinutes = 1
    PollsPerBar = 1
    CancelAttempts = 2
    FlattenAttempts = 2
    Accounts = {1, 2}
    Limit = 2
    MaxChanges = 3
    MaxWatchFaults = 2
    MaxRequests = 2
    Per = 5
    Overshoot = 2
INVARIANTS
    FlatOrAlarmed
    EveryTradeJournalledOnce
    OutboxTellsSnapshot
    ChatGetsRowsInTurn
    LimitHolds
PROPERTIES
    ForgetsOnlyWhenDone
    SessionEnds
\* The day ends with every process gone: nothing more has to happen.
CHECK_DEADLOCK FALSE
