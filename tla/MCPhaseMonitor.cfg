\* Every transaction is decided before the script goes on.
CONSTANTS
    MAX_CANDIDATES = 1
    Names = {alice}
    Blank = blank
    Keys = {k1}
    ZeroKey = zeroKey
    Schedules <- MCSchedules
    MaxSlot = 5
    Reliable = TRUE
SPECIFICATION MonitorSpec
INVARIANTS
    NoWastedAttempt
PROPERTY
    VotingOpens
