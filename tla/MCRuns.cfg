\* Three runs, two at a time: a late event comes, and one thing goes wrong.
\* Three signals of two groups, two replicas on one shard: polls fail, die and
\* take as long as a claim.
SPECIFICATION GroupSpec
CONSTANTS
    Runs = {r1, r2, r3}
    Types = {loop}
    Live = {loop}
    Custom = {}
    MayShed = {r1, r2, r3}
    Threshold = 2
    Concurrency = 2
    MaxAttempts = 2
    MaxLate = 1
    MaxTrouble = 1
    NumSignals = 3
    Groups = {"g1", "g2"}
    Assignments <- TwoGroups
    Workers = {"w1", "w2"}
    BatchSize = 2
    ClaimTimeout = 1
    DedupWindow = 2
    MaxPoll = 1
    MaxFailures = 1
SYMMETRY RunSymmetry
INVARIANTS
    OneSignalPerType
    DetectionComplete
    IssueCountsExact
    SentOnce
PROPERTY
    OneAlertPerWindow
CHECK_DEADLOCK FALSE
