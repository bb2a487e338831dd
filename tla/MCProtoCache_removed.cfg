\* Is the data of a reset session gone for good?
CONSTANTS
    Users = {u1}
    Versions = {1}
    Tokens = {1}
    Statuses = {online}
    Nothing = Nothing
    MaxCaches = 2
    MaxSaves = 3
INIT Init
NEXT Next
CHECK_DEADLOCK FALSE
INVARIANT RemovedDataStaysRemoved
