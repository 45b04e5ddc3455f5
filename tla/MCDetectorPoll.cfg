\* Two runs; stops of any length, failures, crashes; the worker restarts.
SPECIFICATION Spec
CONSTANTS
    Runs = {1, 2}
    Grace = 2
    StallTimeout = 1
    BatchSizes = {1, 2}
    MaxAttempts = 1
    MaxEvents = 4
    MaxTime = 3
    MaxLag = 1
    MaxDown = 10
    MaxFailures = 1
    MaxStops = 1
INVARIANTS
    WorkVisible
PROPERTY
    CompletedDetected
CHECK_DEADLOCK FALSE
