CONSTANTS
    Cuts = {c1, c2}
    Patient = {c1}
    Restores = {r1, r2, r3}
    Incidents = {i1, i2}
    NoOne = NoOne
SYMMETRY Interchangeable
SPECIFICATION Spec
INVARIANTS TypeOK ContainmentCounted DeferredBehindRestore GrantIsOneShot OneRestorePerIncident OvertakenOnce
PROPERTIES OneInFlight QueuedCutEnters
CHECK_DEADLOCK FALSE
