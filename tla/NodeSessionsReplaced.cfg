\* A request looked up its session before a renewal replaced it.
SPECIFICATION Spec
CONSTANTS
    MaxChallenge = 2
    MaxSequence = 3
    MaxRequests = 3
    MaxChecks = 2
    MaxTime = 2
    ChallengeTtl = 1
    SessionTtl = 1
    MaxAge = 1
    MaxPerNode = 1
    Window = 2
    MaxNonces = 2
PROPERTIES
    ReplacedIsRefused
\* Challenges, requests and the clock are bounded: the system stops when they are used up.
CHECK_DEADLOCK FALSE
