\* Two calls that may overlap, leases of one step of the clock, every restart, every lost or late
\* message and every record that cannot be written.
SPECIFICATION FairSpec
CONSTANTS
    Jobs = {j1, j2}
    None = None
    Lease = 1
    AckWait = 1
    MaxTime = 2
    MaxRequests = 1
    Faults = {}
INVARIANTS
    TypeOK
    SuccessIsConsistent
PROPERTIES
    JobSettles
\* Calls, requests and the clock are bounded: the system stops when they are used up.
CHECK_DEADLOCK FALSE
