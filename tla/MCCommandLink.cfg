CONSTANTS
    Ceiling = 2
    InitialMarks = {0, 1, 3}
SPECIFICATION Spec
INVARIANTS TypeOK NumbersNeverReused
PROPERTIES RefusedSequenceIsFinal KeepsPromise
CHECK_DEADLOCK FALSE
