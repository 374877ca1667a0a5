CONSTANTS
    LastEpisode = 1
    LastIncident = 1
SPECIFICATION Spec
PROPERTIES OnlyWhenNormalInvalid
