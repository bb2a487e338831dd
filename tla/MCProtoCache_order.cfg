\* Save order of one cache directory: two objects (a reset or a restart),
\* three saves, every failure and a crash at every step.
CONSTANTS
    Users = {u1}
    Versions = {1}
    Tokens = {1}
    Statuses = {online}
    Nothing = Nothing
    MaxCaches = 2
    MaxSaves = 3
INIT Init
NEXT Next
INVARIANT TypeOK
INVARIANT InfoNotAheadOfUsers
CHECK_DEADLOCK FALSE
