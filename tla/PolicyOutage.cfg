\* The policies only: the approvals' bounds do not matter.
SPECIFICATION GroupSpec
CONSTANTS
    Calls = {"c1"}
    Replicas = {"r1"}
    MaxFaults = 0
    Agents = {"a1", "a2"}
    Policies = {"w"}
    OwnerOf <- ForEveryone
    Everyone = "*"
    Threads = {"t1", "t2"}
    Secrets = {TRUE}
    MaxEdits = 2
    MaxMishaps = 1
PROPERTY KeptThroughOutage
CHECK_DEADLOCK FALSE
