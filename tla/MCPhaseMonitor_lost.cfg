\* Transactions may be lost or decided late.
CONSTANTS
    MAX_CANDIDATES = 1
    Names = {alice}
    Blank = blank
    Keys = {k1}
    ZeroKey = zeroKey
    Schedules <- MCSchedules
    MaxSlot = 5
    Reliable = FALSE
SPECIFICATION MonitorSpec

PROPERTY
    VotingOpens
