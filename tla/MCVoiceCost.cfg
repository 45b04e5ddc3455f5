\* Two generations; one result pushed by two handlers.
SPECIFICATION GroupSpec
CONSTANTS
    Gens = {1, 2}
    Said <- MCSaid
    Chars <- MCChars
    Voice <- MCVoice
    Captured = {2}
    Hidden = {1}
    Overlap = 1
    PageCap = 2
    PassLimit = 1
    Window = 1
    GiveUp = 1
    MaxLag = 1
    MaxLatency = 1
    MaxTime = 4
    MaxFaults = 1
    Pulled = {}
    Pushed = {"p1"}
    Polls = {}
    NoPoll = "none"
    Requests = {"q1", "q2"}
    PollOverlap = 0
    MaxListLag = 0
    MaxPoll = 0
    DownThreshold = 0
    AlertLimit = 0
    MaxClock = 0
    MaxTorn = 1
    MaxGivenUp = 0
INVARIANTS
    CapturedIdDecides
PROPERTIES
    GenerationsDecided
CHECK_DEADLOCK FALSE
