SPECIFICATION Spec
CONSTANTS
    cr = cr
    pb = pb
    rv = rv
    an = an
    Workers = {w1}
    Users <- ReviewTeam
    Eligible <- ReviewGate
    Creator = cr
    Generators <- ReviewTeam
    Reviewers <- ReviewTeam
    NLevels = 2
    RequireSoD = TRUE
    MaxRounds = 3
CHECK_DEADLOCK FALSE
INVARIANTS
    SubmissionsRead
PROPERTIES
    DecisionsFinal
