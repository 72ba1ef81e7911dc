\* Two handlers, two requests, two ceremonies, and one loss of power.
CONSTANTS
    Clients = {h1, h2}
    Writers = {h1, h2}
    Makers = {m1, m2}
    Blindings = {b1, b2}
    Inodes = {1, 2, 3, 4, 5}
    NoFile = noFile
    Empty = empty
    Garbage = garbage
    MaxRequests = 2
    MaxOutages = 1
SPECIFICATION IssuanceSpec
INVARIANTS
    IssuanceTypeOK
    PublishedKeySigns
    NothingLeftOpen
    AloneSucceeds
    SentIsOnDisk
PROPERTIES
    ImplementsAtomicFile
SYMMETRY IssuanceSymmetry
