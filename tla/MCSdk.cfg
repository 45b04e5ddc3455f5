\* The buffer and its runs; outages and a crash over one queue file, whose
\* processes decode only the rows of their own build.
SPECIFICATION GroupSpec
CONSTANTS
    NoRun = NoRun
    Runs = {r1, r2, r3}
    MaxSize = 2
    MaxShedRuns = 3
    MaxPushes = 0
    MaxEvents = 2
    DrainSize = 1
    Procs = {"p", "q"}
    NewSchema = {"q"}
    Unwritable = {}
    Free = "free"
    MaxBatches = 2
    Sizes = {1}
    MaxQueueEvents = 2
    MaxQueueBytes = 2
    MaxPerRetry = 2
    MaxReceived = 1
    MaxCrashes = 1
    MaxFailures = 1
SYMMETRY RunSymmetry
INVARIANTS
    BookkeepingExact
    EveryEventAccounted
    DroppedEventsExact
    QueuedNotLost
    TsRunsAccounted
PROPERTY
    BacklogInOrder
CHECK_DEADLOCK FALSE
