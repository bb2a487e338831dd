\* The greatest numbers of all sizes.
CONSTANTS
    MaxSessions = 3
    MaxRefreshes = 2
    MaxOutages = 2
    MaxDiskErrors = 1
SPECIFICATION MCSpec
INVARIANT TypeOK
INVARIANT LoggedInIsPersisted
INVARIANT SavedTokenIsCurrent
PROPERTY OutageEnds
PROPERTY RevokedLoopStops
CHECK_DEADLOCK FALSE
