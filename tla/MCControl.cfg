\* One guarded call, two alert workers, two faults; two agents, one policy for
\* both, two edits, one mishap; client and server share a secret.
SPECIFICATION GroupSpec
CONSTANTS
    Calls = {"c1"}
    Replicas = {"r1", "r2"}
    MaxFaults = 2
    Agents = {"a1", "a2"}
    Policies = {"w"}
    OwnerOf <- ForEveryone
    Everyone = "*"
    Threads = {"t1", "t2"}
    Secrets = {TRUE}
    MaxEdits = 2
    MaxMishaps = 1
INVARIANTS
    ReportAgrees
    GuardrailsKept
PROPERTIES
    ImplementsToolGate
    NeverBackwards
    KeptRefreshed
CHECK_DEADLOCK FALSE
