\* Two units whose states share a shard, two voters, with clients that wait
\* and clients that do not.  The polls open before the last slot and do not
\* close; MCChain sees them close.
CONSTANTS
    MAX_CANDIDATES = 1
    Names = {alice}
    Blank = blank
    Keys = {k1}
    ZeroKey = zeroKey
    Schedules <- MCSchedules
    MaxSlot = 1
    Voters = {v1, v2}
    StateIds = {1, 5}
    Blindings = {0, 1}
    COUNTERS_LEN = 4
    MaxLeaves = 2
    MaxDirect = 0
    Units = {u1, u2}
    PollingState <- MCPollingState
    HsmKey = k1
    Requests = {r1, r2, r3}
    MaxRestarts = 1
    NoFile = noFile
    NoSession = noSession
    NoLeaf = noLeaf
    Idle = idle
    Done = done
SPECIFICATION EnclaveSpec
INVARIANTS
    EnclaveTypeOK
    LeafIndexOwned
    BallotGeography
    RegisteredCanVote
    WaitingKeepsFilesTrue
PROPERTY
    ImplementsChain
SYMMETRY Symmetry
