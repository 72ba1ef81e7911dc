\* Two requests at once, each with a context of its own.
CONSTANTS
    Clients = {h1, h2}
    Writers = {h1, h2}
    Makers = {m1}
    Blindings = {b1}
    Inodes = {1, 2, 3, 4, 5}
    NoFile = noFile
    Empty = empty
    Garbage = garbage
    MaxRequests = 2
    MaxOutages = 0
SPECIFICATION IssuanceSpec
INVARIANTS
    NoHsmErrors
