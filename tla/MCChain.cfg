\* Two voters, one of them registrable twice, two candidates, two polling
\* units whose states fall in one shard.
CONSTANTS
    MAX_CANDIDATES = 2
    Names = {alice, bob}
    Blank = blank
    Keys = {k1, k2}
    ZeroKey = zeroKey
    Schedules <- MCSchedules
    MaxSlot = 5
    Voters = {v1, v2}
    StateIds = {1, 5}
    Blindings = {b1}
    COUNTERS_LEN = 8
    MaxLeaves = 3
    MaxDirect = 1
SPECIFICATION ChainSpec
INVARIANTS
    TypeOK
    LeavesContiguous
    CountMatchesBallots
    BallotsInOrder
    OnlyRegisteredVote
    VerifyTallyFailsForCause
PROPERTIES
    ElectorateFixed
    FinalisedIsFinal
    ImplementsBallotBox
SYMMETRY Symmetry
