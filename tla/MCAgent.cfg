\* Three steps and one reload of the policies; two spans of one trace.  The
\* other bounds are in the module.
SPECIFICATION GroupSpec
CONSTANTS
    Policies <- MCPolicies
    Bundles <- MCBundles
    Tools = {"search", "refund"}
    MaxSteps = 3
    MaxReloads = 1
    Traces = {t1, t2}
    Spans = {s1, s2}
    TraceOf <- MCTraceOf
    Kinds = {"generation", "response", "function"}
    TaskOf <- MCTracesTaskOf
    HasInput = {}
    Ending = {t1}
    MaxThreads = 2
    MaxPruned = 1
SYMMETRY Symmetry
INVARIANTS
    ActsOnce
    NewPolicyHeeded
    TracesExact
    ChainsExact
CHECK_DEADLOCK FALSE
