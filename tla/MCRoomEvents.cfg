CONSTANTS
    None = None
    NoRule = NoRule
    RuleRooms = {"r"}
    SignalCapacity = 1
    MaxChanges = 3
    MaxPending = 1
    MaxRuleChanges = 2
    FieldSets <- MCFieldSets
    Users = {"u"}
    Requests = {1, 2}
    MaxRequests = 2
    ChannelCapacity = 2
    MaxQueued = 1
    StreamCapacity = 2
PROPERTY Drains
SPECIFICATION MCSpec
INVARIANTS
    TypeOK
    FieldsShown
    UnreadShown
    JoinedIsListed
    MarkersTold
    SettingsTold
CHECK_DEADLOCK FALSE
