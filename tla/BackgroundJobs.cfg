SPECIFICATION Spec
CONSTANTS
    pull = pull
    baseline = baseline
    Tasks <- OneTask
    Baselines <- OneBaseline
    AsyncOnly = FALSE
    MaxTries = 2
    MaxFaults = 2
    Timeouts = TRUE
    Overtaking = TRUE
CHECK_DEADLOCK FALSE
INVARIANTS
    TypeOK
    CompletedIsReal
    WorkAccounted
PROPERTIES
    VerdictStands
    Settles
