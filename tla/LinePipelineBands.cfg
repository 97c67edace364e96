SPECIFICATION LineSpec
CONSTANTS
    Engines = {"linear", "arima", "gbm"}
    Linear = "linear"
    Panel = "gbm"
    Driven = {"arima"}
    Broken = 99
    NoModel = "none"
    Points <- MCPoints
    Offsets <- MCOffsets
    DriverFolds <- MCDriverFolds
INVARIANT
    QuantilesOrdered
CHECK_DEADLOCK FALSE
