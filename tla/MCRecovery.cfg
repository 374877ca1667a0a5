CONSTANTS
    Addresses = {a1, a2}
    NoAddress = NoAddress
    LastIncident = 2
    Attempts = 2
SYMMETRY AddressSymmetry
SPECIFICATION Spec
INVARIANTS TypeOK AtMostOneOpen RestoreFollowsIsolation ClosedIsRestored DisposedNeverRestored
