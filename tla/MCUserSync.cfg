\* One process and one restart with one save, two changes.
CONSTANTS
    Users = {u1}
    Versions = {0, 1, 2}
    Tokens = {0, 1, 2}
    Statuses = {}
    Nothing = Nothing
    MaxCaches = 2
    MaxSaves = 1
    MaxChanges = 2
    ChannelCapacity = 1
    Fetchers = {f1}
    MaxResponses = 2
SPECIFICATION PatientSpec
INVARIANT SyncTypeOK
INVARIANT TokenOnlyAfterHandlers
PROPERTY EventuallyFresh
CHECK_DEADLOCK FALSE
