\* The note of save(): stored data is never behind the stored token.
CONSTANTS
    Users = {u1}
    Versions = {0, 1, 2}
    Tokens = {0, 1, 2}
    Statuses = {}
    Nothing = Nothing
    MaxCaches = 1
    MaxSaves = 1
    MaxChanges = 2
    ChannelCapacity = 1
    Fetchers = {f1}
    MaxResponses = 1
SPECIFICATION SyncSpec
CHECK_DEADLOCK FALSE
INVARIANT DataNotBehindToken
