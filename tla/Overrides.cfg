CONSTANTS
    Inputs <- MCInputs
    Loners = {}
    Total = "margin"
    Sign <- MCSign
    Baseline <- MCBaseline
    Values <- MCValues
    Edited <- MCEdited
    Adjustments <- MCAdjust
    Shifts <- MCShifts
    MaxVersions = 2
    MaxEntries = 3
SPECIFICATION Spec
INVARIANTS OverridesTypeOK RecordsMatchRows LastWriteWins
PROPERTIES PointsAddUp
CHECK_DEADLOCK FALSE
