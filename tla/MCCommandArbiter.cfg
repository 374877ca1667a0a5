CONSTANTS
    Cuts = {c1, c2}
    Patient = {c1}
    Restores = {r1, r2}
    Incidents = {i1, i2}
    NoOne = NoOne
SPECIFICATION Spec
INVARIANTS TypeOK ContainmentCounted GrantIsOneShot OneRestorePerIncident OvertakenOnce
PROPERTIES QueuedCutIsServed
CHECK_DEADLOCK FALSE
