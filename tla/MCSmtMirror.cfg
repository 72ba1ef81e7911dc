\* Two runs of register-voter at once, enclave registrations, losses and restarts.
CONSTANTS
    MAX_CANDIDATES = 1
    Names = {alice}
    Blank = blank
    Keys = {k1}
    ZeroKey = zeroKey
    Schedules <- MCSchedules
    MaxSlot = 1
    Voters = {v1, v2, v3, v4}
    StateIds = {1}
    Blindings = {b1}
    DEPTH = 2
    Relayers = {r1, r2}
    MaxLeaves = 4
    Idle = idle
SPECIFICATION MirrorSpec
INVARIANTS
    MirrorSound
    IndexNamesLeaf
    RootIsReference
    PathsVerify
    OrderKept
SYMMETRY MirrorSymmetry
