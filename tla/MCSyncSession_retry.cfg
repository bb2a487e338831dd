\* Is the sync retried after every network error?
CONSTANTS
    MaxSessions = 2
    MaxRefreshes = 1
    MaxOutages = 1
    MaxDiskErrors = 0
SPECIFICATION Spec
CHECK_DEADLOCK FALSE
INVARIANT NetworkErrorIsRetried
