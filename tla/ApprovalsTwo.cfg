SPECIFICATION Spec
CONSTANTS
    cr = cr
    pb = pb
    rv = rv
    an = an
    Workers = {w1, w2}
    Users <- PublisherPair
    Eligible <- PublisherGate
    Creator = cr
    Generators <- PublisherPair
    Reviewers <- PublisherPair
    NLevels = 2
    RequireSoD = TRUE
    MaxRounds = 2
SYMMETRY WorkerSymmetry
CHECK_DEADLOCK FALSE
INVARIANTS
    TypeOK
    LevelsInOrder
    DecidedByEntitled
PROPERTIES
    DecisionsSurvive
