CONSTANTS
    Chunks = {1, 2}
    Last = 2
    Versions = {v1}
    Puts = {p1}
    Commits = {k1, k2}
    NoKey = NoKey
    Crashes = 0
    Faults = {"LEASE", "ANSWER"}
SPECIFICATION Spec
INVARIANTS NoHoles OneFilePerUpload
PROPERTY DecidedOnce
