\* One result, polled by two polls at once; the overlap covers the lag and a
\* poll's length; one lost mark, one cycle abandoned.  The pushed results are
\* checked beside MCVoiceCost.
SPECIFICATION ExternalSpec
CONSTANTS
    Pulled = {"e1"}
    Pushed = {}
    Polls = {"w1", "w2"}
    NoPoll = "none"
    Requests = {}
    PollOverlap = 2
    MaxListLag = 1
    MaxPoll = 1
    DownThreshold = 0
    AlertLimit = 1
    MaxClock = 3
    MaxTorn = 1
    MaxGivenUp = 1
INVARIANTS RepeatNeedsFault
PROPERTIES ResultReachesRun
CHECK_DEADLOCK FALSE
