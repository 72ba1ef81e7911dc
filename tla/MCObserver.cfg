\* One page, two ballots that count and two that do not, and two faults.
CONSTANTS
    Pages = {p1}
    Elections = {e1, e2}
    Nullifiers = {n1}
    CandidateIds = {0, 1}
    CandidateCount = 1
    Capacity = 2
    SocketBuffer = 1
    MaxFaults = 2
SPECIFICATION ObserverSpec
INVARIANTS
    ObserverTypeOK
    ShownIsOnLedger
PROPERTIES
    NeverGoesBack
    FinalTallyShown
