\* A registration is retried after an error.
CONSTANTS
    MAX_CANDIDATES = 1
    Names = {alice}
    Blank = blank
    Keys = {k1}
    ZeroKey = zeroKey
    Schedules <- MCSchedules
    MaxSlot = 2
    Voters = {v1}
    StateIds = {1, 5}
    Blindings = {0, 1}
    COUNTERS_LEN = 4
    MaxLeaves = 2
    MaxDirect = 0
    Units = {u1}
    PollingState <- MCPollingState
    HsmKey = k1
    Requests = {r1, r2}
    MaxRestarts = 1
    NoFile = noFile
    NoSession = noSession
    NoLeaf = noLeaf
    Idle = idle
    Done = done
SPECIFICATION EnclaveSpec
INVARIANT
    OneLeafPerUnit
SYMMETRY RequestSymmetry
