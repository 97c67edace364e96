SPECIFICATION Spec
CONSTANTS
    pull = pull
    baseline = baseline
    Tasks <- OneTask
    Baselines <- NoBaseline
    AsyncOnly = FALSE
    MaxTries = 3
    MaxFaults = 0
    Timeouts = TRUE
    Overtaking = FALSE
CHECK_DEADLOCK FALSE
PROPERTIES
    PollSettles
