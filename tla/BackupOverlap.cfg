\* Two calls that look for a current job before either has claimed its place.
SPECIFICATION Spec
CONSTANTS
    Jobs = {j1, j2}
    None = None
    Lease = 2
    AckWait = 1
    MaxTime = 3
    MaxRequests = 1
    Faults = {}
INVARIANTS
    OneJobAtATime
\* Calls, requests and the clock are bounded: the system stops when they are used up.
CHECK_DEADLOCK FALSE
