\* Two voters and two candidates; the roster may be changed from one to the
\* other while an audit is under way.
CONSTANTS
    MAX_CANDIDATES = 2
    Names = {alice, bob}
    Blank = blank
    Keys = {k1}
    ZeroKey = zeroKey
    Schedules <- MCSchedules
    MaxSlot = 2
    Voters = {v1, v2}
    StateIds = {1}
    Blindings = {b1}
    COUNTERS_LEN = 8
    MaxLeaves = 2
    MaxDirect = 1
    MaxForeign = 1
SPECIFICATION AuditSpec
INVARIANTS
    AuditWarnsForCause
    NamesOfTheElected
    FinalReportStands
    NullifiersAccountForVotes
    RootOfTheLog
SYMMETRY Symmetry
