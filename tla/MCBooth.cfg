\* The field is edited during a scan, or left alone.
CONSTANTS
    Voters = {v1, v2}
    Candidates = {c1, c2}
    NoVoter = noVoter
    NoCandidate = noCandidate
SPECIFICATION BoothSpec
INVARIANTS
    OneRequestOfAKind
    VoteForTheVoterShown
    ReceiptNamesTheVote
SYMMETRY BoothSymmetry
