\* A client closes its connection while the handler of its destructive request goes on.
SPECIFICATION Spec
CONSTANTS
    Jobs = {j1, j2}
    None = None
    Lease = 2
    AckWait = 1
    MaxTime = 3
    MaxRequests = 1
    Faults = {"HANGUP"}
INVARIANTS
    SuccessIsConsistent
\* Calls, requests and the clock are bounded: the system stops when they are used up.
CHECK_DEADLOCK FALSE
