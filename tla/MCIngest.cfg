\* Two of three batches, each handled by two handlers at most, two faults.  Two
\* requests of two spans, of which one is skipped; limits, buffer and guard of
\* one; one fault, one restart.
SPECIFICATION GroupSpec
CONSTANTS
    Batches = {b1, b2, b3}
    HasIds = {b1}
    HasEvents = {b1, b2}
    HasEvals = {b2, b3}
    KeyLookedUp = {b1, b3}
    Slots = {s1, s2}
    NoSlot = NoSlot
    MaxFaults = 2
    NSpans = 2
    Skipped = {2}
    MaxRequests = 2
    Burst = 1
    MaxInflight = 1
    MaxBatches = 1
    Threshold = 2
    MaxOtlpFaults = 1
    MaxRestarts = 1
INVARIANTS
    PromiseKept
    OneCopyUnlessOverlapped
    AcceptedKept
PROPERTIES
    EveryBatchAccepted
    AcceptedSettles
CHECK_DEADLOCK FALSE
