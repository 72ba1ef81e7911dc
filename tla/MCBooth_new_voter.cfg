\* One voter after the other.
CONSTANTS
    Voters = {v1, v2}
    Candidates = {c1, c2}
    NoVoter = noVoter
    NoCandidate = noCandidate
SPECIFICATION BoothSpec
INVARIANT
    ChoiceCanBeConfirmed
SYMMETRY BoothSymmetry
