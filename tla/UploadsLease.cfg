CONSTANTS
    Chunks = {2}
    Last = 2
    Versions = {v1}
    Puts = {p1}
    Commits = {k1, k2}
    NoKey = NoKey
    Crashes = 0
    Faults = {"LEASE"}
SPECIFICATION Spec
INVARIANT FileHasBytes
