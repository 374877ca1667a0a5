CONSTANTS
    Ceiling = 2
    InitialMarks = {0}
SPECIFICATION Spec
INVARIANT CutSurvivesPersistFailure
CHECK_DEADLOCK FALSE
