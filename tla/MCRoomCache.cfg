CONSTANTS
    m = m
    edit = edit
    edit2 = edit2
    react = react
    redact = redact
    poll = poll
    vote = vote
    odd = odd
    Events = {m, edit, edit2, react, redact, poll, vote, odd}
    Type <- TypeOfEvents
    Target <- TargetOfEvents
    Encrypted = {poll, odd}
    None = None
    Fetchers = {f1}
    Retriers = {t1}
    Limit = 1
    ChunkSize = 2
    Capacity = 1
    MaxFetches = 2
SPECIFICATION MCSpec
INVARIANT TypeOK
INVARIANT MappingMatches
INVARIANT Assembled
PROPERTY MessageResolved
PROPERTY FetchEnds
CHECK_DEADLOCK FALSE
