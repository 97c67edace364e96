SPECIFICATION Spec
CONSTANTS
    Users = {ana, bob}
    Processes = {p1, p2}
    Cells = {jan, feb}
    Outages = TRUE
SYMMETRY LockSymmetry
CHECK_DEADLOCK FALSE
INVARIANTS
    TypeOK
    EditsExclusive
    WritesHold
PROPERTIES
    SharedLease
    LocalLease
