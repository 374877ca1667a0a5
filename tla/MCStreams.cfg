\* Two streams, leases of two steps of the clock, clocks one step apart, one restart of the engine.
SPECIFICATION Spec
CONSTANTS
    Streams = {s1, s2}
    Lease = 2
    Skew = 1
    MaxTime = 4
    MaxBoot = 2
SYMMETRY Symmetry
INVARIANTS
    TypeOK
    ServedWithinLease
    RevocationBites
    OpenEpochIsAccepted
    RevokedStaysOut
\* Streams and the clocks are bounded: the system stops when they are used up.
CHECK_DEADLOCK FALSE
