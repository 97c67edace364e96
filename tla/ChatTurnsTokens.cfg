SPECIFICATION ChatSpec
CONSTANTS
    Turns = {t1, t2}
    ActiveVersions = {v1, v2}
    NoVersion = none
    Budget = 3
    MaxTurns = 3
INVARIANT
    TokensAreCounted
CHECK_DEADLOCK FALSE
