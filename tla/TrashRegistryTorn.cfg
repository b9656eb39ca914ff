\* An append that fails in the middle, and the registrations after it.
CONSTANTS
    Mounts = {m1, m2}
    Processes = {p1, p2}
    MaxOps = 3
    MaxFaults = 2
    MaxMounts = 2
SPECIFICATION Spec
INVARIANTS
    TornAppendIsHandled
CHECK_DEADLOCK FALSE
