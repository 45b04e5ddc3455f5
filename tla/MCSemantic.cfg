SPECIFICATION SemanticSpec
CONSTANTS
    RunIds = {1, 2, 3}
    Tasks = {"t1", "t2", "t3"}
    Evaluators = {"e1"}
    BucketOf <- Buckets
    BaseRate = 5
    Flagged = {2, 3}
    Conversation = {1, 2, 3}
    MinConversationRuns = 3
    BatchSize = 2
    Quota = 2
    Budget = 1
    ConvQuota = 1
    MaxFaults = 1
INVARIANTS
    EvaluationsPaid
PROPERTY
    EveryRunDecided
CHECK_DEADLOCK FALSE
