CONSTANTS
    LastEpisode = 2
    LastIncident = 2
SPECIFICATION Spec
INVARIANTS TypeOK OneFramePerEpisode ClaimIsFounded
PROPERTIES OnlyUnderLockdown
