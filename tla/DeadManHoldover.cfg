CONSTANTS
    Wrap = 9
    Deadman = 2
    Grace = 3
    Holdover = 4
    Skew = 1
    Slots = 3
    Block = 1
SPECIFICATION DSpec
INVARIANT HoldoverBounded
