SPECIFICATION Spec
CONSTANTS
    Users = {ana, bob}
    Processes = {p1, p2}
    Cells = {jan, feb}
    Outages = FALSE
CHECK_DEADLOCK FALSE
PROPERTIES
    NeverTakenOver
