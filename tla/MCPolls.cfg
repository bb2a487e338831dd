CONSTANTS
    u = u
    v = v
    c = c
    Voters = {u, v}
    Starts <- MCStarts
    Answers <- MCAnswers
    Calls = {c}
    MaxPollEvents = 3
SPECIFICATION MCSpec
INVARIANT VotesCounted
SYMMETRY Symmetry
CHECK_DEADLOCK FALSE
