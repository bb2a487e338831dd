\* One flow, up to four queued actions, streams that may close.
CONSTANTS
    Flows = {f1}
    MaxActions = 3
    StreamsMayClose = TRUE
SPECIFICATION FairSpec
INVARIANT TypeOK
INVARIANT EndIsLast
INVARIANT EndMatchesOutcome
INVARIANT RunningFlowIsControlled
PROPERTY EndIsAnnounced
PROPERTY AbortedFlowEnds
