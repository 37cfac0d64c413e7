SPECIFICATION Spec
CONSTANTS
    p1 = p1
    p2 = p2
    p3 = p3
    q1 = q1
    here = here
    there = there
    NoLease = NoLease
    Processes = {p1, p2, p3, q1}
    HostOf <- MCHostOf
    MaxLeases = 3
INVARIANTS
    SingleWriter
SYMMETRY SameHost
CHECK_DEADLOCK FALSE
