CONSTANTS
    Ceiling = 3
    InitialMarks = {2, 4}
SPECIFICATION Spec
CONSTRAINT FewReplies
INVARIANTS ExecutedInOrder NumbersNeverReused
CHECK_DEADLOCK FALSE
