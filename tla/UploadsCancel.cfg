CONSTANTS
    Chunks = {2}
    Last = 2
    Versions = {v1}
    Puts = {p1}
    Commits = {k1}
    NoKey = NoKey
    Crashes = 0
    Faults = {}
SPECIFICATION Spec
PROPERTY CancelSparesCommit
