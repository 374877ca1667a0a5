CONSTANTS
    Ceiling = 1
    InitialMarks = {0}
    Wrap = 6
    Deadman = 1
    Grace = 1
    Holdover = 1
    Skew = 1
    Slots = 3
    Block = 1
SPECIFICATION RelaySpec
INVARIANTS NormalIsEarned OneOutput
PROPERTIES FollowsCommandLink FollowsDeadMan
CHECK_DEADLOCK FALSE
CONSTRAINT FewFrames
