SPECIFICATION Spec
CONSTANTS
    cr = cr
    pb = pb
    rv = rv
    an = an
    Workers = {w1}
    Users <- AnalystTeam
    Eligible <- AnalystGate
    Creator = an
    Generators <- AnalystTeam
    Reviewers = {pb}
    NLevels = 2
    RequireSoD = TRUE
    MaxRounds = 2
CHECK_DEADLOCK FALSE
INVARIANT SubmitterNotApprover
